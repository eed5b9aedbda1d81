--------------------------- MODULE CountingSemaphore ---------------------------
(***************************************************************************)
(* What a semaphore promises: permits are released in any number, and a    *)
(* call takes only permits that were released, each of them once.          *)
(***************************************************************************)
EXTENDS Integers

CONSTANTS Threads, InitialCount

VARIABLES permits,          \* released and not taken
          holding           \* holding[t]: taken by t's current call

semaphoreVars == <<permits, holding>>

CSInit ==
    /\ permits = InitialCount
    /\ holding = [t \in Threads |-> 0]

Release == /\ permits' \in Nat
           /\ permits' >= permits
           /\ UNCHANGED holding

Acquire(t) ==
    /\ permits' \in 0 .. (permits - 1)
    /\ holding' = [holding EXCEPT ![t] = @ + (permits - permits')]

\* t's call returns with what it took, perhaps nothing.
GoOn(t) ==
    /\ holding' = [holding EXCEPT ![t] = 0]
    /\ UNCHANGED permits

CSNext == Release \/ \E t \in Threads : Acquire(t) \/ GoOn(t)

CSSpec == CSInit /\ [][CSNext]_semaphoreVars

===============================================================================
