------------------------ MODULE MCImplicitProducerHash ------------------------
(* Instances of ImplicitProducerHash for TLC. *)
EXTENDS ImplicitProducerHash

\* Every thread id hashes to the same slot.
AllCollide == [t \in Threads |-> 7]

===============================================================================
