------------------------ MODULE MCLightweightSemaphore ------------------------
(* LightweightSemaphore for TLC: interchangeable threads.                  *)
EXTENDS LightweightSemaphore, TLC

Symmetry == Permutations(Threads)

===============================================================================
