---------------------------- MODULE MCProducerBase ----------------------------
(* ProducerBase for TLC: interchangeable consumers.                         *)
EXTENDS ProducerBase, TLC

Symmetry == Permutations(Consumers)

===============================================================================
