----------------------------- MODULE ProducerBase -----------------------------
(***************************************************************************)
(* The four counters of a sub-queue (ProducerBase in concurrentqueue.h)    *)
(* and the protocol by which many consumers claim elements from its one    *)
(* producer.  ExplicitProducer and ImplicitProducer run the same protocol: *)
(* dequeue(x) is dequeue_bulk(x, 1), instruction for instruction, up to    *)
(* the point where the element is located in its block.                    *)
(*                                                                         *)
(* One action is one atomic access.  A relaxed load may be stale: it       *)
(* returns any value the counter has had (see Stale).  The second load of  *)
(* tailIndex is an acquire load and is at least as recent as the first.    *)
(***************************************************************************)
EXTENDS CircularIndex, FiniteSets

CONSTANTS Consumers,
          FirstIndex,       \* the index at which the modelled history starts
          EnqueueCounts,    \* how many elements one enqueue call publishes
          DequeueMaxes,     \* the `max` arguments of dequeue calls
          MaxEnqueued,      \* bound: elements published in a behaviour
          MaxTickets        \* bound: total of dequeueOptimisticCount increments

ASSUME ConstantsAssumption ==
    /\ FirstIndex \in Nat
    /\ EnqueueCounts \subseteq Nat
    /\ DequeueMaxes \subseteq Nat
    /\ MaxEnqueued \in Nat
    /\ MaxTickets \in Nat

\* Fewer than half the index range passes by while the protocol is watched;
\* the traits' documentation warns of a race beyond that.
ASSUME WindowAssumption == MaxTickets + MaxEnqueued < HalfRange

VARIABLES tailIndex, headIndex, dequeueOptimisticCount, dequeueOvercommit,
          pc,               \* where each consumer's call stands
          max,              \* its argument
          tail, overcommit, desiredCount, myDequeueCount, actualCount,
          index,            \* its local variables
          won, lost         \* history: tickets found covered / given back

counters == <<tailIndex, headIndex, dequeueOptimisticCount, dequeueOvercommit>>
locals == <<tail, overcommit, desiredCount, myDequeueCount, actualCount, index>>
baseVars == <<counters, pc, max, locals, won, lost>>

\* What a relaxed load of a counter that grew from `from` to `value` may return.
Stale(from, value) == from .. value

Minimum(a, b) == IF a < b THEN a ELSE b

\* The units of dequeueOptimisticCount that c's fetch_add obtained.
Tickets(c) == myDequeueCount[c] .. (myDequeueCount[c] + desiredCount[c] - 1)

\* The first actualCount of them are good for an element, the rest are not.
GoodTickets(c) == myDequeueCount[c] .. (myDequeueCount[c] + actualCount[c] - 1)

Init ==
    /\ tailIndex = FirstIndex
    /\ headIndex = FirstIndex
    /\ dequeueOptimisticCount = FirstIndex
    /\ dequeueOvercommit = 0
    /\ pc = [c \in Consumers |-> "idle"]
    /\ max = [c \in Consumers |-> 0]
    /\ tail = [c \in Consumers |-> FirstIndex]
    /\ overcommit = [c \in Consumers |-> 0]
    /\ desiredCount = [c \in Consumers |-> 0]
    /\ myDequeueCount = [c \in Consumers |-> FirstIndex]
    /\ actualCount = [c \in Consumers |-> 0]
    /\ index = [c \in Consumers |-> FirstIndex]
    /\ won = {}
    /\ lost = {}

-------------------------------------------------------------------------------
\* The producer publishes n elements: tailIndex.store(newTailIndex, release).
PublishTail(n) ==
    /\ tailIndex + n <= FirstIndex + MaxEnqueued
    /\ tailIndex' = tailIndex + n
    /\ UNCHANGED <<headIndex, dequeueOptimisticCount, dequeueOvercommit,
                   pc, max, locals, won, lost>>

\* The call returns and its local variables are gone.
Leave(c) ==
    /\ pc' = [pc EXCEPT ![c] = "idle"]
    /\ max' = [max EXCEPT ![c] = 0]
    /\ tail' = [tail EXCEPT ![c] = FirstIndex]
    /\ overcommit' = [overcommit EXCEPT ![c] = 0]
    /\ desiredCount' = [desiredCount EXCEPT ![c] = 0]
    /\ myDequeueCount' = [myDequeueCount EXCEPT ![c] = FirstIndex]
    /\ actualCount' = [actualCount EXCEPT ![c] = 0]
    /\ index' = [index EXCEPT ![c] = FirstIndex]

\* tail = tailIndex.load(relaxed), on entry to the call.
LoadTail(c) ==
    /\ pc[c] = "idle"
    /\ \E m \in DequeueMaxes : max' = [max EXCEPT ![c] = m]
    /\ \E t \in Stale(FirstIndex, tailIndex) : tail' = [tail EXCEPT ![c] = t]
    /\ pc' = [pc EXCEPT ![c] = "overcommit"]
    /\ UNCHANGED <<counters, overcommit, desiredCount, myDequeueCount,
                   actualCount, index, won, lost>>

\* overcommit = dequeueOvercommit.load(relaxed).
LoadOvercommit(c) ==
    /\ pc[c] = "overcommit"
    /\ \E o \in Stale(0, dequeueOvercommit) :
           overcommit' = [overcommit EXCEPT ![c] = o]
    /\ pc' = [pc EXCEPT ![c] = "check"]
    /\ UNCHANGED <<counters, max, tail, desiredCount, myDequeueCount,
                   actualCount, index, won, lost>>

\* The cheap test on dequeueOptimisticCount.load(relaxed): come back empty, or
\* settle how many elements to try for.
CheckAvailable(c) ==
    /\ pc[c] = "check"
    /\ \E d \in Stale(FirstIndex, dequeueOptimisticCount) :
           LET available == Wrap(tail[c] - (d - overcommit[c]))
           IN  IF circular_less_than(0, available)
               THEN /\ desiredCount' =
                           [desiredCount EXCEPT ![c] = Minimum(available, max[c])]
                    /\ pc' = [pc EXCEPT ![c] = "increment"]
                    /\ UNCHANGED <<max, tail, overcommit, myDequeueCount,
                                   actualCount, index>>
               ELSE Leave(c)
    /\ UNCHANGED <<counters, won, lost>>

\* myDequeueCount = dequeueOptimisticCount.fetch_add(desiredCount).
IncrementOptimistic(c) ==
    /\ pc[c] = "increment"
    /\ dequeueOptimisticCount + desiredCount[c] <= FirstIndex + MaxTickets
    /\ myDequeueCount' = [myDequeueCount EXCEPT ![c] = dequeueOptimisticCount]
    /\ dequeueOptimisticCount' = dequeueOptimisticCount + desiredCount[c]
    /\ pc' = [pc EXCEPT ![c] = "recheck"]
    /\ UNCHANGED <<tailIndex, headIndex, dequeueOvercommit, max, tail,
                   overcommit, desiredCount, actualCount, index, won, lost>>

\* Variant: trusts the first check and does not look at tailIndex again.
RecheckTailSkipped(c) ==
    /\ pc[c] = "recheck"
    /\ actualCount' = [actualCount EXCEPT ![c] = desiredCount[c]]
    /\ won' = won \cup Tickets(c)
    /\ pc' = [pc EXCEPT ![c] = "claim"]
    /\ UNCHANGED <<counters, max, tail, overcommit, desiredCount,
                   myDequeueCount, index, lost>>

\* Reload tailIndex (acquire) and see how many of the tickets it covers.
RecheckTail(c) ==
    /\ pc[c] = "recheck"
    /\ \E t \in Stale(tail[c], tailIndex) :
           LET available == Wrap(t - (myDequeueCount[c] - overcommit[c]))
               actual == IF circular_less_than(0, available)
                         THEN Minimum(desiredCount[c], available)
                         ELSE 0
           IN  /\ tail' = [tail EXCEPT ![c] = t]
               /\ actualCount' = [actualCount EXCEPT ![c] = actual]
               /\ won' = won \cup (myDequeueCount[c] ..
                                      (myDequeueCount[c] + actual - 1))
               /\ pc' = [pc EXCEPT ![c] =
                            IF circular_less_than(0, available)
                               /\ actual = desiredCount[c]
                            THEN "claim" ELSE "giveback"]
    /\ UNCHANGED <<counters, max, overcommit, desiredCount, myDequeueCount,
                   index, lost>>

\* Giving back `n` tickets, of which `gone` are remembered as lost.
GiveBackCount(c, n, gone) ==
    /\ pc[c] = "giveback"
    /\ dequeueOvercommit' = dequeueOvercommit + n
    /\ lost' = lost \cup gone
    /\ IF actualCount[c] > 0
       THEN /\ pc' = [pc EXCEPT ![c] = "claim"]
            /\ UNCHANGED <<max, locals>>
       ELSE Leave(c)
    /\ UNCHANGED <<tailIndex, headIndex, dequeueOptimisticCount, won>>

\* Variant: gives back everything it asked for.
GiveBackDesired(c) == GiveBackCount(c, desiredCount[c], Tickets(c))

\* dequeueOvercommit.fetch_add(what was asked for and is not there, release).
GiveBack(c) ==
    GiveBackCount(c, desiredCount[c] - actualCount[c],
                  Tickets(c) \ GoodTickets(c))

\* Variant: counts one element whatever the call has won.
ClaimHeadOne(c) ==
    /\ pc[c] = "claim"
    /\ index' = [index EXCEPT ![c] = headIndex]
    /\ headIndex' = headIndex + 1
    /\ pc' = [pc EXCEPT ![c] = "claimed"]
    /\ UNCHANGED <<tailIndex, dequeueOptimisticCount, dequeueOvercommit, max,
                   tail, overcommit, desiredCount, myDequeueCount,
                   actualCount, won, lost>>

\* index = headIndex.fetch_add(actualCount, acq_rel).
ClaimHead(c) ==
    /\ pc[c] = "claim"
    /\ index' = [index EXCEPT ![c] = headIndex]
    /\ headIndex' = headIndex + actualCount[c]
    /\ pc' = [pc EXCEPT ![c] = "claimed"]
    /\ UNCHANGED <<tailIndex, dequeueOptimisticCount, dequeueOvercommit, max,
                   tail, overcommit, desiredCount, myDequeueCount,
                   actualCount, won, lost>>

\* The elements index .. index + actualCount - 1 have been moved out.
Return(c) ==
    /\ pc[c] = "claimed"
    /\ Leave(c)
    /\ UNCHANGED <<counters, won, lost>>

Dequeue(c) ==
    \/ LoadTail(c)
    \/ LoadOvercommit(c)
    \/ CheckAvailable(c)
    \/ IncrementOptimistic(c)
    \/ RecheckTail(c)
    \/ GiveBack(c)
    \/ ClaimHead(c)
    \/ Return(c)

Next ==
    \/ \E n \in EnqueueCounts : PublishTail(n)
    \/ \E c \in Consumers : Dequeue(c)

Spec == Init /\ [][Next]_baseVars

-------------------------------------------------------------------------------
PCs == {"idle", "overcommit", "check", "increment", "recheck", "giveback",
        "claim", "claimed"}

\* The counters and the callers' local variables hold what their C++ types
\* hold; tickets are units of dequeueOptimisticCount.
TypeOK ==
    /\ tailIndex \in Nat
    /\ headIndex \in Nat
    /\ dequeueOptimisticCount \in Nat
    /\ dequeueOvercommit \in Nat
    /\ pc \in [Consumers -> PCs]
    /\ max \in [Consumers -> Nat]
    /\ tail \in [Consumers -> Nat]
    /\ overcommit \in [Consumers -> Nat]
    /\ desiredCount \in [Consumers -> Nat]
    /\ myDequeueCount \in [Consumers -> Nat]
    /\ actualCount \in [Consumers -> Nat]
    /\ index \in [Consumers -> Nat]
    /\ won \subseteq Nat
    /\ lost \subseteq Nat

\* headIndex never passes tailIndex, and a consumer that found its tickets
\* covered can still take its elements without passing it ("Guaranteed to be
\* at least one element to dequeue!", "this will never exceed tail").
HeadNeverPassesTail ==
    /\ headIndex <= tailIndex
    /\ \A c \in Consumers :
           pc[c] = "claim" => headIndex + actualCount[c] <= tailIndex

\* Once no call is in progress the effective dequeue count is exact: every
\* optimistic increment has become an element taken or been given back ("make
\* the effective dequeue count eventually consistent").  Were it too high, the
\* last elements of the sub-queue could never be dequeued.
EffectiveCountExactWhenQuiet ==
    (\A c \in Consumers : pc[c] = "idle")
        => dequeueOptimisticCount - dequeueOvercommit = headIndex

\* The overcommit a caller subtracts counts only increments made before its
\* own ("overcommit <= myDequeueCount").
OvercommitPrecedesTicket ==
    \A c \in Consumers :
        pc[c] = "recheck" => FirstIndex + overcommit[c] <= myDequeueCount[c]

\* The sub-queue delivers the producer's elements in order, each to one call,
\* and only those already enqueued.
Delivery == INSTANCE SubQueue WITH
    FirstPosition <- FirstIndex,
    first <- headIndex,
    last <- tailIndex,
    taken <- [c \in Consumers |-> IF pc[c] = "claimed"
                  THEN index[c] .. (index[c] + actualCount[c] - 1) ELSE {}]

\* The claim protocol implements SubQueue: ClaimHead is the moment of taking.
ImplementsSubQueue == Delivery!SQSpec

-------------------------------------------------------------------------------
\* Why the protocol is right.  Every ticket issued so far was won, was lost, or
\* is still undecided in the hands of one caller; a won ticket whose caller has
\* not reached headIndex yet is promised.
Undecided(c) == CASE pc[c] = "recheck" -> Tickets(c)
                  [] pc[c] = "giveback" -> Tickets(c) \ GoodTickets(c)
                  [] OTHER -> {}
Promised(c) == IF pc[c] \in {"giveback", "claim"} THEN GoodTickets(c) ELSE {}

AllUndecided == UNION {Undecided(c) : c \in Consumers}
AllPromised == UNION {Promised(c) : c \in Consumers}

\* The lost tickets that precede ticket t.
LostBefore(t) == lost \cap (FirstIndex .. (t - 1))

\* Everything stays inside the window the wrapped comparisons are exact for.
InWindow ==
    /\ tailIndex \in FirstIndex .. (FirstIndex + MaxEnqueued)
    /\ dequeueOptimisticCount \in FirstIndex .. (FirstIndex + MaxTickets)
    /\ \A c \in Consumers :
           /\ tail[c] \in FirstIndex .. tailIndex
           /\ overcommit[c] <= dequeueOvercommit
           /\ pc[c] \in {"giveback", "claim", "claimed"}
                 => actualCount[c] <= desiredCount[c]
           /\ pc[c] \in {"recheck", "giveback", "claim", "claimed"}
                 => /\ FirstIndex <= myDequeueCount[c]
                    /\ myDequeueCount[c] + desiredCount[c]
                           <= dequeueOptimisticCount

\* No ticket is in two hands and none is forgotten.
TicketsPartitioned ==
    /\ won \cap lost = {}
    /\ won \cup lost \cup AllUndecided
           = FirstIndex .. (dequeueOptimisticCount - 1)
    /\ AllUndecided \cap (won \cup lost) = {}
    /\ AllPromised \subseteq won
    /\ \A b, c \in Consumers :
           b # c => /\ Undecided(b) \cap Undecided(c) = {}
                    /\ Promised(b) \cap Promised(c) = {}

\* The counters count the tickets.
CountersCountTickets ==
    /\ dequeueOvercommit = Cardinality(lost)
    /\ headIndex = FirstIndex + Cardinality(won \ AllPromised)

\* A caller's overcommit counts only tickets before its own, so a won ticket
\* is covered by tailIndex even if every other ticket before it is won too.
WonTicketsCovered ==
    /\ \A c \in Consumers :
           pc[c] = "recheck"
               => overcommit[c] <= Cardinality(LostBefore(myDequeueCount[c]))
    /\ \A t \in won : t < tailIndex + Cardinality(LostBefore(t))

\* The inductive invariant of the claim protocol, in all the callers' states:
\* it is what makes the fetch_adds of dequeue and dequeue_bulk add up.
TicketInvariant ==
    /\ TypeOK
    /\ InWindow
    /\ TicketsPartitioned
    /\ CountersCountTickets
    /\ WonTicketsCovered

===============================================================================
