------------------------------ MODULE MCFreeList ------------------------------
(* FreeList for TLC: interchangeable threads and nodes.                    *)
EXTENDS FreeList, TLC

Symmetry == Permutations(Threads) \cup Permutations(Nodes)

===============================================================================
