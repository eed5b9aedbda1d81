------------------------------- MODULE SubQueue -------------------------------
(***************************************************************************)
(* What one producer's sub-queue promises its callers.  Elements are known *)
(* by their position in the producer's order of enqueueing; the sub-queue  *)
(* holds the positions first .. last - 1.  Dequeues take from the front,   *)
(* each position once, and never more than were enqueued.                  *)
(***************************************************************************)
EXTENDS Integers

CONSTANTS FirstPosition,    \* position of the first element to be enqueued
          Consumers

VARIABLES first,            \* position of the oldest element still queued
          last,             \* position the next element will get
          taken             \* taken[c]: positions handed to c's current call

subQueueVars == <<first, last, taken>>

SQInit ==
    /\ first = FirstPosition
    /\ last = FirstPosition
    /\ taken = [c \in Consumers |-> {}]

\* Some elements appear at the back, all at once.
Put == /\ last' \in Nat
       /\ last' >= last
       /\ UNCHANGED <<first, taken>>

\* c's call takes the oldest elements, all of which have been enqueued.
Take(c) ==
    /\ first' \in first .. last
    /\ taken[c] = {}
    /\ taken' = [taken EXCEPT ![c] = first .. (first' - 1)]
    /\ UNCHANGED last

\* c's call returns with what it took.
Finish(c) ==
    /\ taken' = [taken EXCEPT ![c] = {}]
    /\ UNCHANGED <<first, last>>

SQNext == Put \/ \E c \in Consumers : Take(c) \/ Finish(c)

SQSpec == SQInit /\ [][SQNext]_subQueueVars

===============================================================================
