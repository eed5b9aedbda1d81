-------------------------- MODULE MCExplicitProducer --------------------------
(***************************************************************************)
(* Instances of ExplicitProducer for TLC.                                  *)
(***************************************************************************)
EXTENDS ExplicitProducer, TLC

Symmetry == Permutations(Consumers) \cup Permutations(Blocks)

===============================================================================
