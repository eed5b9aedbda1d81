-------------------------- MODULE ProducerBaseProofs --------------------------
(***************************************************************************)
(* Proofs about ProducerBase, for any number of consumers, any width of    *)
(* index and any starting index: the ticket invariant is inductive, and it *)
(* gives the properties ProducerBase states.                               *)
(***************************************************************************)
EXTENDS ProducerBase, FiniteSetTheorems, WellFoundedInduction, TLAPS

-------------------------------------------------------------------------------
(* Index arithmetic.                                                       *)

\* Inside half the range, wrapping a difference and comparing it with zero, as
\* dequeue_bulk does, is the plain comparison.
LEMMA CircularCompareExact ==
    ASSUME NEW x \in Int, -HalfRange < x, x < HalfRange
    PROVE  /\ circular_less_than(0, Wrap(x)) <=> x > 0
           /\ x > 0 => Wrap(x) = x
<1> USE HalfRangeAssumption
<1>1. CASE x > 0
  <2>1. Wrap(x) = x
    BY <1>1 DEF Wrap, IndexRange
  <2>2. Wrap(0 - x) = IndexRange - x
    BY <1>1 DEF Wrap, IndexRange
  <2> QED
    BY <1>1, <2>1, <2>2 DEF circular_less_than, IndexRange
<1>2. CASE x = 0
  <2>1. Wrap(x) = 0 /\ Wrap(0 - 0) = 0
    BY <1>2 DEF Wrap, IndexRange
  <2> QED
    BY <1>2, <2>1 DEF circular_less_than
<1>3. CASE x < 0
  <2>1. Wrap(x) = IndexRange + x
    BY <1>3 DEF Wrap, IndexRange
  <2>2. 0 - (IndexRange + x) < 0 /\ 0 - (IndexRange + x) >= -IndexRange
    BY <1>3 DEF IndexRange
  <2>3. Wrap(0 - (IndexRange + x)) = -x
    BY <1>3, <2>2 DEF Wrap, IndexRange
  <2> QED
    BY <1>3, <2>1, <2>3 DEF circular_less_than
<1> QED
  BY <1>1, <1>2, <1>3

\* Minimum picks the smaller of two naturals.
LEMMA MinimumProperties ==
    ASSUME NEW a \in Nat, NEW b \in Nat
    PROVE  /\ Minimum(a, b) \in Nat
           /\ Minimum(a, b) <= a
           /\ Minimum(a, b) <= b
           /\ Minimum(a, b) = a \/ Minimum(a, b) = b
BY DEF Minimum

\* A nonempty bounded set of naturals has a largest element.
LEMMA LargestExists ==
    ASSUME NEW S \in SUBSET Nat, S # {}, NEW n \in Nat, \A s \in S : s <= n
    PROVE  \E m \in S : \A s \in S : s <= m
<1> DEFINE R == {n - s : s \in S}
<1>1. R \subseteq Nat /\ R # {}
  OBVIOUS
<1>2. PICK r \in R : \A q \in R : ~(<<q, r>> \in OpToRel(<, Nat))
  BY Zenon, <1>1, NatLessThanWellFounded, WFMin
<1>3. \A q \in R : ~(q < r)
  BY <1>1, <1>2, Zenon DEF OpToRel
<1>4. PICK m \in S : r = n - m
  BY Zenon
<1>5. ASSUME NEW s \in S
      PROVE  s <= m
  <2>1. n - s \in R
    BY Zenon
  <2>2. ~(n - s < n - m)
    BY Zenon, <1>3, <1>4, <2>1
  <2> QED
    BY <2>2
<1> QED
  BY Zenon, <1>5

-------------------------------------------------------------------------------
(* Counting tickets.                                                       *)

\* The sets of tickets are finite, and so is any part of the lost ones.
LEMMA TicketSetsFinite ==
    ASSUME TypeOK, TicketsPartitioned
    PROVE  /\ IsFiniteSet(won)
           /\ IsFiniteSet(lost)
           /\ \A t : IsFiniteSet(LostBefore(t))
<1>1. IsFiniteSet(FirstIndex .. (dequeueOptimisticCount - 1))
  BY ConstantsAssumption, FS_Interval DEF TypeOK
<1>2. won \subseteq FirstIndex .. (dequeueOptimisticCount - 1)
      /\ lost \subseteq FirstIndex .. (dequeueOptimisticCount - 1)
  BY Zenon DEF TicketsPartitioned
<1>3. IsFiniteSet(won) /\ IsFiniteSet(lost)
  BY <1>1, <1>2, FS_Subset, Zenon
<1>4. ASSUME NEW t
      PROVE  IsFiniteSet(LostBefore(t))
  BY Zenon, <1>3, FS_Subset DEF LostBefore
<1> QED
  BY Zenon, <1>3, <1>4

\* No more tickets are won than elements were enqueued: below the largest won
\* ticket lie at least as many lost ones as it exceeds the tail by.
LEMMA WonBounded ==
    ASSUME TicketInvariant
    PROVE  Cardinality(won) <= tailIndex - FirstIndex
<1> USE DEF TicketInvariant
<1>0. /\ tailIndex \in Nat /\ FirstIndex \in Nat /\ FirstIndex <= tailIndex
      /\ won \subseteq Nat /\ dequeueOptimisticCount \in Nat
  BY ConstantsAssumption DEF TypeOK, InWindow
<1>1. CASE won = {}
  BY <1>0, <1>1, FS_EmptySet
<1>2. CASE won # {}
  <2>1. \A t \in won : t \in Nat /\ FirstIndex <= t
                         /\ t <= dequeueOptimisticCount
    BY <1>0 DEF TicketsPartitioned
  <2>2. PICK m \in won : \A t \in won : t <= m
    BY <1>0, <1>2, <2>1, LargestExists, Zenon
  <2> DEFINE All == FirstIndex .. m
  <2>3. IsFiniteSet(All) /\ Cardinality(All) = m - FirstIndex + 1
    BY <1>0, <2>1, FS_Interval
  <2>4. won \subseteq All \ LostBefore(m)
    BY <1>0, <2>1, <2>2 DEF TicketsPartitioned, LostBefore
  <2>5. All \cap LostBefore(m) = LostBefore(m)
    BY <1>0, <2>1 DEF LostBefore
  <2>6. IsFiniteSet(LostBefore(m)) /\ Cardinality(LostBefore(m)) \in Nat
    BY Zenon, TicketSetsFinite, FS_CardinalityType
  <2>7. /\ IsFiniteSet(All \ LostBefore(m))
        /\ Cardinality(All \ LostBefore(m))
              = (m - FirstIndex + 1) - Cardinality(LostBefore(m))
    <3> HIDE DEF All
    <3>1. /\ IsFiniteSet(All \ LostBefore(m))
          /\ Cardinality(All \ LostBefore(m))
                = Cardinality(All) - Cardinality(All \cap LostBefore(m))
      BY Zenon, <2>3, FS_Difference
    <3> QED
      BY Zenon, <2>3, <2>5, <3>1
  <2>8. Cardinality(won) <= Cardinality(All \ LostBefore(m))
    BY <2>4, <2>7, FS_Subset, Zenon
  <2>9. m < tailIndex + Cardinality(LostBefore(m))
    BY Zenon DEF WonTicketsCovered
  <2>10. Cardinality(won) \in Nat
    BY Zenon, TicketSetsFinite, FS_CardinalityType
  <2> QED
    BY <1>0, <2>1, <2>6, <2>7, <2>8, <2>9, <2>10
<1> QED
  BY Zenon, <1>1, <1>2

\* Losing more tickets never uncovers a won one.
LEMMA LostBeforeGrows ==
    ASSUME IsFiniteSet(lost'), lost \subseteq lost', NEW t
    PROVE  /\ Cardinality(LostBefore(t)) \in Nat
           /\ Cardinality(LostBefore(t)') \in Nat
           /\ Cardinality(LostBefore(t)) <= Cardinality(LostBefore(t)')
<1>1. IsFiniteSet(LostBefore(t)')
  BY Zenon, FS_Subset DEF LostBefore
<1>2. LostBefore(t) \subseteq LostBefore(t)'
  BY Zenon DEF LostBefore
<1> QED
  BY Zenon, <1>1, <1>2, FS_Subset, FS_CardinalityType

\* A step that moves no ticket keeps the partition and the counts.
LEMMA TicketFrame ==
    ASSUME TicketsPartitioned, CountersCountTickets,
           \A b \in Consumers : /\ Undecided(b)' = Undecided(b)
                                /\ Promised(b)' = Promised(b),
           UNCHANGED <<won, lost, headIndex, dequeueOptimisticCount,
                       dequeueOvercommit>>
    PROVE  TicketsPartitioned' /\ CountersCountTickets'
<1>1. AllUndecided' = AllUndecided /\ AllPromised' = AllPromised
  BY Zenon DEF AllUndecided, AllPromised
<1>2. TicketsPartitioned'
  BY Zenon, <1>1 DEF TicketsPartitioned
<1>3. CountersCountTickets'
  BY Zenon, <1>1 DEF CountersCountTickets
<1> QED
  BY Zenon, <1>2, <1>3

-------------------------------------------------------------------------------
(* The invariant is inductive: the initial state, then one lemma per action. *)

\* Nothing is claimed and no ticket is out in the initial state.
LEMMA InitTickets == Init => TicketInvariant
<1> SUFFICES ASSUME Init PROVE TicketInvariant
  BY Zenon
<1> USE ConstantsAssumption DEF Init
<1>1. TypeOK
  BY Zenon DEF TypeOK, PCs
<1>2. InWindow
  BY DEF InWindow
<1>3. AllUndecided = {} /\ AllPromised = {}
  BY Zenon DEF AllUndecided, AllPromised, Undecided, Promised
<1>4. TicketsPartitioned
  <2>1. FirstIndex .. (dequeueOptimisticCount - 1) = {}
    OBVIOUS
  <2> QED
    BY Zenon, <1>3, <2>1 DEF TicketsPartitioned, Undecided, Promised
<1>5. CountersCountTickets
  BY <1>3, FS_EmptySet DEF CountersCountTickets
<1>6. WonTicketsCovered
  BY Zenon DEF WonTicketsCovered
<1> QED
  BY Zenon, <1>1, <1>2, <1>4, <1>5, <1>6 DEF TicketInvariant

\* Publishing elements only covers more tickets.
LEMMA PublishTailTickets ==
    ASSUME TicketInvariant, NEW n \in EnqueueCounts, PublishTail(n)
    PROVE  TicketInvariant'
<1> USE ConstantsAssumption DEF TicketInvariant, PublishTail, locals
<1>0. n \in Nat
  BY Zenon
<1>1. TypeOK'
  BY <1>0 DEF TypeOK
<1>2. InWindow'
  BY <1>0 DEF InWindow, TypeOK
<1>3. \A b \in Consumers : /\ Undecided(b)' = Undecided(b)
                           /\ Promised(b)' = Promised(b)
  BY Zenon DEF Undecided, Promised, Tickets, GoodTickets
<1>4. TicketsPartitioned' /\ CountersCountTickets'
  BY Zenon, <1>3, TicketFrame
<1>5. WonTicketsCovered'
  <2>1. \A t \in won : Cardinality(LostBefore(t)) \in Nat
    BY Zenon, TicketSetsFinite, FS_CardinalityType
  <2>2. \A t : LostBefore(t)' = LostBefore(t)
    BY Zenon DEF LostBefore
  <2>3. \A t \in won : t \in Nat
    BY Zenon DEF TypeOK
  <2>4. tailIndex \in Nat /\ tailIndex' = tailIndex + n
    BY Zenon DEF TypeOK
  <2>5. \A t \in won' : t < tailIndex' + Cardinality(LostBefore(t)')
    BY <1>0, <2>1, <2>2, <2>3, <2>4 DEF WonTicketsCovered
  <2>6. \A c \in Consumers : pc'[c] = "recheck" => overcommit'[c] <=
            Cardinality(LostBefore(myDequeueCount[c])')
    BY Zenon, <2>2 DEF WonTicketsCovered
  <2> QED
    BY Zenon, <2>5, <2>6 DEF WonTicketsCovered
<1> QED
  BY Zenon, <1>1, <1>2, <1>4, <1>5

\* The loads before the fetch_add touch no ticket.
LEMMA LoadTailTickets ==
    ASSUME TicketInvariant, NEW c \in Consumers, LoadTail(c)
    PROVE  TicketInvariant'
<1> USE ConstantsAssumption DEF TicketInvariant, LoadTail, counters, Stale
<1>1. TypeOK'
  BY DEF TypeOK, PCs
<1>2. InWindow'
  BY Zenon DEF InWindow, TypeOK
<1>3. \A b \in Consumers : /\ Undecided(b)' = Undecided(b)
                           /\ Promised(b)' = Promised(b)
  BY Zenon DEF Undecided, Promised, Tickets, GoodTickets, TypeOK
<1>4. TicketsPartitioned' /\ CountersCountTickets'
  BY Zenon, <1>3, TicketFrame
<1>5. WonTicketsCovered'
  BY Zenon DEF WonTicketsCovered, LostBefore, TypeOK
<1> QED
  BY Zenon, <1>1, <1>2, <1>4, <1>5

\* Nor does loading dequeueOvercommit, which returns no more than its value.
LEMMA LoadOvercommitTickets ==
    ASSUME TicketInvariant, NEW c \in Consumers, LoadOvercommit(c)
    PROVE  TicketInvariant'
<1> USE ConstantsAssumption DEF TicketInvariant, LoadOvercommit, counters, Stale
<1>1. TypeOK'
  BY DEF TypeOK, PCs
<1>2. InWindow'
  BY DEF InWindow, TypeOK
<1>3. \A b \in Consumers : /\ Undecided(b)' = Undecided(b)
                           /\ Promised(b)' = Promised(b)
  BY Zenon DEF Undecided, Promised, Tickets, GoodTickets, TypeOK
<1>4. TicketsPartitioned' /\ CountersCountTickets'
  BY Zenon, <1>3, TicketFrame
<1>5. WonTicketsCovered'
  BY Zenon DEF WonTicketsCovered, LostBefore, TypeOK
<1> QED
  BY Zenon, <1>1, <1>2, <1>4, <1>5

\* A call that returns without holding tickets takes none with it.
LEMMA LeaveTickets ==
    ASSUME TicketInvariant, NEW c \in Consumers, Leave(c),
           Undecided(c) = {}, Promised(c) = {},
           UNCHANGED <<counters, won, lost>>
    PROVE  TicketInvariant'
<1> USE ConstantsAssumption DEF TicketInvariant, Leave, counters
<1>1. TypeOK'
  BY Zenon DEF TypeOK, PCs
<1>2. InWindow'
  BY DEF InWindow, TypeOK
<1>3. \A b \in Consumers : /\ Undecided(b)' = Undecided(b)
                           /\ Promised(b)' = Promised(b)
  BY Zenon DEF Undecided, Promised, Tickets, GoodTickets, TypeOK
<1>4. TicketsPartitioned' /\ CountersCountTickets'
  BY Zenon, <1>3, TicketFrame
<1>5. WonTicketsCovered'
  BY Zenon DEF WonTicketsCovered, LostBefore, TypeOK
<1> QED
  BY Zenon, <1>1, <1>2, <1>4, <1>5

\* The cheap test either settles desiredCount or ends the call.
LEMMA CheckAvailableTickets ==
    ASSUME TicketInvariant, NEW c \in Consumers, CheckAvailable(c)
    PROVE  TicketInvariant'
<1> USE ConstantsAssumption DEF TicketInvariant
<1>0. pc[c] = "check" /\ UNCHANGED <<counters, won, lost>>
  BY Zenon DEF CheckAvailable
<1>1. CASE Leave(c)
  <2>1. Undecided(c) = {} /\ Promised(c) = {}
    BY Zenon, <1>0 DEF Undecided, Promised
  <2> QED
    BY Zenon, <1>0, <1>1, <2>1, LeaveTickets
<1>2. CASE ~Leave(c)
  <2>1. PICK d \in Stale(FirstIndex, dequeueOptimisticCount) :
           /\ desiredCount' = [desiredCount EXCEPT ![c] =
                   Minimum(Wrap(tail[c] - (d - overcommit[c])), max[c])]
           /\ pc' = [pc EXCEPT ![c] = "increment"]
           /\ UNCHANGED <<max, tail, overcommit, myDequeueCount,
                          actualCount, index>>
    BY Zenon, <1>2 DEF CheckAvailable
  <2>2. /\ Wrap(tail[c] - (d - overcommit[c])) \in Nat
        /\ max[c] \in Nat
    BY HalfRangeAssumption DEF Wrap, IndexRange, TypeOK, Stale
  <2>3. /\ Minimum(Wrap(tail[c] - (d - overcommit[c])), max[c]) \in Nat
    BY Zenon, <2>2, MinimumProperties
  <2>4. TypeOK'
    BY Zenon, <1>0, <2>1, <2>3 DEF TypeOK, PCs, counters
  <2>5. InWindow'
    BY Zenon, <1>0, <2>1, <2>3 DEF InWindow, TypeOK, counters
  <2>6. \A b \in Consumers : /\ Undecided(b)' = Undecided(b)
                             /\ Promised(b)' = Promised(b)
    BY <1>0, <2>1, Zenon DEF Undecided, Promised, Tickets, GoodTickets, TypeOK
  <2>7. TicketsPartitioned' /\ CountersCountTickets'
    BY Zenon, <1>0, <2>6, TicketFrame DEF counters
  <2>8. WonTicketsCovered'
    BY Zenon, <1>0, <2>1 DEF WonTicketsCovered, LostBefore, TypeOK, counters
  <2> QED
    BY Zenon, <2>4, <2>5, <2>7, <2>8
<1> QED
  BY Zenon, <1>1, <1>2

\* The fetch_add issues fresh tickets, all of them undecided; every ticket lost
\* so far precedes them.
LEMMA IncrementOptimisticTickets ==
    ASSUME TicketInvariant, NEW c \in Consumers, IncrementOptimistic(c)
    PROVE  TicketInvariant'
<1> USE ConstantsAssumption DEF TicketInvariant, IncrementOptimistic
<1>0. /\ FirstIndex \in Nat /\ dequeueOptimisticCount \in Nat
      /\ desiredCount[c] \in Nat
      /\ FirstIndex <= dequeueOptimisticCount
  BY DEF TypeOK, InWindow
<1>1. TypeOK'
  BY <1>0 DEF TypeOK, PCs
<1>2. InWindow'
  BY <1>0 DEF InWindow, TypeOK
<1> DEFINE fresh == dequeueOptimisticCount ..
                       (dequeueOptimisticCount + desiredCount[c] - 1)
<1>3. Undecided(c) = {} /\ Undecided(c)' = fresh
  BY Zenon DEF Undecided, Tickets, TypeOK
<1>4. \A b \in Consumers : b # c => Undecided(b)' = Undecided(b)
  BY Zenon DEF Undecided, Tickets, GoodTickets, TypeOK
<1>5. \A b \in Consumers : Promised(b)' = Promised(b)
  BY ZenonT(30) DEF Promised, GoodTickets, TypeOK
<1>6. AllPromised' = AllPromised
  BY Zenon, <1>5 DEF AllPromised
<1>7. AllUndecided' = AllUndecided \cup fresh
  <2> HIDE DEF fresh, IncrementOptimistic
  <2> QED
    BY Zenon, <1>3, <1>4 DEF AllUndecided
<1>8. fresh \cap (FirstIndex .. (dequeueOptimisticCount - 1)) = {}
  BY <1>0
<1>9. FirstIndex .. (dequeueOptimisticCount' - 1)
         = (FirstIndex .. (dequeueOptimisticCount - 1)) \cup fresh
  BY <1>0
<1>10. TicketsPartitioned'
  <2> HIDE DEF fresh
  <2>1. \A b \in Consumers :
            Undecided(b) \subseteq FirstIndex .. (dequeueOptimisticCount - 1)
    BY Zenon DEF TicketsPartitioned, AllUndecided
  <2>2. \A a, b \in Consumers : a # b => Undecided(a)' \cap Undecided(b)' = {}
    BY <1>3, <1>4, <1>8, <2>1 DEF TicketsPartitioned
  <2>3. won' \cup lost' \cup AllUndecided'
            = FirstIndex .. (dequeueOptimisticCount' - 1)
    BY Zenon, <1>7, <1>9 DEF TicketsPartitioned
  <2>4. AllUndecided' \cap (won' \cup lost') = {}
    BY Zenon, <1>7, <1>8 DEF TicketsPartitioned
  <2> QED
    BY Zenon, <1>5, <1>6, <2>2, <2>3, <2>4 DEF TicketsPartitioned
<1>11. CountersCountTickets'
  BY Zenon, <1>6 DEF CountersCountTickets
<1>12. WonTicketsCovered'
  <2>1. lost \subseteq FirstIndex .. (dequeueOptimisticCount - 1)
    BY Zenon DEF TicketsPartitioned
  <2>2. LostBefore(dequeueOptimisticCount) = lost
    BY <2>1, ZenonT(30) DEF LostBefore
  <2>3. overcommit[c] <= Cardinality(LostBefore(dequeueOptimisticCount))
    BY Zenon, <2>2 DEF InWindow, CountersCountTickets
  <2> QED
    BY <2>3, Zenon DEF WonTicketsCovered, LostBefore, TypeOK
<1> QED
  BY Zenon, <1>1, <1>2, <1>10, <1>11, <1>12

\* How many of its tickets a caller finds covered: none that the tail it
\* reloaded, less its overcommit, does not reach.
LEMMA RecheckCount ==
    ASSUME TicketInvariant, NEW c \in Consumers, RecheckTail(c)
    PROVE  /\ actualCount'[c] \in 0 .. desiredCount[c]
           /\ actualCount'[c] > 0
                 => myDequeueCount[c] + actualCount'[c]
                       <= tailIndex + overcommit[c]
           /\ actualCount' = [actualCount EXCEPT ![c] = actualCount'[c]]
           /\ won' = won \cup (myDequeueCount[c] ..
                                  (myDequeueCount[c] + actualCount'[c] - 1))
           /\ tail'[c] \in tail[c] .. tailIndex
           /\ tail' = [tail EXCEPT ![c] = tail'[c]]
           /\ \/ pc' = [pc EXCEPT ![c] = "giveback"]
              \/ /\ pc' = [pc EXCEPT ![c] = "claim"]
                 /\ actualCount'[c] = desiredCount[c]
<1> USE ConstantsAssumption DEF TicketInvariant
<1> DEFINE reach(t) == t - (myDequeueCount[c] - overcommit[c])
           found(t) == IF circular_less_than(0, Wrap(reach(t)))
                       THEN Minimum(desiredCount[c], Wrap(reach(t))) ELSE 0
<1>1. PICK t \in Stale(tail[c], tailIndex) :
         /\ tail' = [tail EXCEPT ![c] = t]
         /\ actualCount' = [actualCount EXCEPT ![c] = found(t)]
         /\ won' = won \cup (myDequeueCount[c] ..
                                (myDequeueCount[c] + found(t) - 1))
         /\ pc' = [pc EXCEPT ![c] =
                      IF circular_less_than(0, Wrap(reach(t)))
                         /\ found(t) = desiredCount[c]
                      THEN "claim" ELSE "giveback"]
  BY Zenon DEF RecheckTail
<1>2. pc[c] = "recheck"
  BY Zenon DEF RecheckTail
<1>3. /\ myDequeueCount[c] \in Nat /\ overcommit[c] \in Nat
      /\ desiredCount[c] \in Nat /\ tail[c] \in Nat /\ tailIndex \in Nat
      /\ dequeueOptimisticCount \in Nat
  BY Zenon DEF TypeOK
<1>4. t \in Nat /\ tail[c] <= t /\ t <= tailIndex
  BY <1>3 DEF Stale
<1>5. overcommit[c] <= MaxTickets
  <2> DEFINE issued == FirstIndex .. (dequeueOptimisticCount - 1)
             before == LostBefore(myDequeueCount[c])
  <2>1. /\ IsFiniteSet(issued)
        /\ Cardinality(issued) = IF FirstIndex > dequeueOptimisticCount - 1 THEN 0
                           ELSE (dequeueOptimisticCount - 1) - FirstIndex + 1
    <3> DEFINE top == dequeueOptimisticCount - 1
    <3>1. FirstIndex \in Int /\ top \in Int
      BY <1>3
    <3> HIDE DEF top
    <3>2. /\ IsFiniteSet(FirstIndex .. top)
          /\ Cardinality(FirstIndex .. top)
                = IF FirstIndex > top THEN 0 ELSE top - FirstIndex + 1
      BY Zenon, <3>1, FS_Interval
    <3> QED
      BY Zenon, <3>2 DEF top
  <2>2. before \subseteq issued
    BY Zenon DEF LostBefore, TicketsPartitioned
  <2>3. /\ FirstIndex <= dequeueOptimisticCount
        /\ dequeueOptimisticCount <= FirstIndex + MaxTickets
    BY <1>3 DEF InWindow
  <2>4. overcommit[c] <= Cardinality(before)
    BY Zenon, <1>2 DEF WonTicketsCovered
  <2> HIDE DEF issued, before
  <2>5. Cardinality(issued) <= MaxTickets
    BY <1>3, <2>1, <2>3
  <2>6. /\ Cardinality(before) <= Cardinality(issued)
        /\ Cardinality(before) \in Nat
        /\ Cardinality(issued) \in Nat
    BY Zenon, <2>1, <2>2, FS_Subset, FS_CardinalityType
  <2> QED
    BY <1>3, <2>4, <2>5, <2>6
<1>6. reach(t) \in Int /\ -HalfRange < reach(t) /\ reach(t) < HalfRange
  BY <1>2, <1>3, <1>4, <1>5, WindowAssumption, HalfRangeAssumption, SMTT(30) DEF InWindow
<1>7. /\ circular_less_than(0, Wrap(reach(t))) <=> reach(t) > 0
      /\ reach(t) > 0 => Wrap(reach(t)) = reach(t)
  BY <1>6, CircularCompareExact, SMTT(30)
<1>8. found(t) \in 0 .. desiredCount[c] /\ (found(t) > 0 => found(t) <= reach(t))
  <2>1. CASE reach(t) > 0
    <3>1. found(t) = Minimum(desiredCount[c], reach(t))
      BY Zenon, <1>7, <2>1
    <3>2. reach(t) \in Nat
      BY <1>6, <2>1
    <3> HIDE DEF found, reach
    <3>3. desiredCount[c] \in Nat
      BY Zenon, <1>3
    <3>4. /\ found(t) \in Nat
          /\ found(t) <= desiredCount[c]
          /\ found(t) <= reach(t)
      BY Zenon, <3>1, <3>2, <3>3, MinimumProperties
    <3> QED
      BY <3>3, <3>4
  <2>2. CASE ~(reach(t) > 0)
    <3>1. found(t) = 0
      BY Zenon, <1>7, <2>2
    <3> HIDE DEF found, reach
    <3> QED
      BY <1>3, <3>1, SMTT(30)
  <2> QED
    BY Zenon, <2>1, <2>2
<1>9. actualCount'[c] = found(t) /\ tail'[c] = t
  BY Zenon, <1>1 DEF TypeOK
<1>10. found(t) > 0 => myDequeueCount[c] + found(t) <= tailIndex + overcommit[c]
  <2>1. reach(t) = t - (myDequeueCount[c] - overcommit[c])
    BY Zenon
  <2> HIDE DEF found, reach
  <2> QED
    BY <1>3, <1>4, <1>8, <2>1, SMTT(30)
<1>11. \/ pc' = [pc EXCEPT ![c] = "giveback"]
       \/ pc' = [pc EXCEPT ![c] = "claim"] /\ found(t) = desiredCount[c]
  BY <1>1, ZenonT(30)
<1> HIDE DEF found, reach
<1>12. tail'[c] \in tail[c] .. tailIndex
  BY <1>3, <1>4, <1>9
<1> QED
  BY <1>1, <1>8, <1>9, <1>10, <1>11, <1>12, Zenon

\* Deciding on the tickets moves the good ones from undecided to won, where
\* they are promised; headIndex counts the others as before.
LEMMA RecheckTailTickets ==
    ASSUME TicketInvariant, NEW c \in Consumers, RecheckTail(c)
    PROVE  TicketInvariant'
<1> USE ConstantsAssumption DEF TicketInvariant
<1> DEFINE good == myDequeueCount[c] .. (myDequeueCount[c] + actualCount'[c] - 1)
<1>1. /\ pc[c] = "recheck"
      /\ UNCHANGED <<counters, max, overcommit, desiredCount, myDequeueCount,
                     index, lost>>
  BY Zenon DEF RecheckTail
<1>2. /\ actualCount'[c] \in 0 .. desiredCount[c]
      /\ actualCount'[c] > 0
            => myDequeueCount[c] + actualCount'[c] <= tailIndex + overcommit[c]
      /\ actualCount' = [actualCount EXCEPT ![c] = actualCount'[c]]
      /\ won' = won \cup good
      /\ tail'[c] \in tail[c] .. tailIndex
      /\ tail' = [tail EXCEPT ![c] = tail'[c]]
      /\ \/ pc' = [pc EXCEPT ![c] = "giveback"]
         \/ pc' = [pc EXCEPT ![c] = "claim"] /\ actualCount'[c] = desiredCount[c]
  BY Zenon, RecheckCount
<1>3. /\ myDequeueCount[c] \in Nat /\ desiredCount[c] \in Nat
      /\ overcommit[c] \in Nat /\ tailIndex \in Nat /\ tail[c] \in Nat
      /\ actualCount'[c] \in Nat
  BY <1>2 DEF TypeOK
<1>4. good \subseteq Tickets(c) /\ Tickets(c) = Undecided(c)
  BY <1>1, <1>2, <1>3 DEF Tickets, Undecided
<1>5. TypeOK'
  <2>1. actualCount' \in [Consumers -> Nat] /\ pc' \in [Consumers -> PCs]
    BY <1>2, <1>3, SMTT(30) DEF TypeOK, PCs
  <2>2. tail'[c] \in Nat
    BY <1>2, <1>3
  <2>3. tail' \in [Consumers -> Nat]
    BY Zenon, <1>2, <2>2 DEF TypeOK
  <2>4. won' \subseteq Nat
    <3>1. good \subseteq Nat
      BY <1>3, SMTT(30)
    <3> HIDE DEF good
    <3> QED
      BY Zenon, <1>2, <3>1 DEF TypeOK
  <2> QED
    BY Zenon, <1>1, <2>1, <2>3, <2>4 DEF TypeOK, counters
<1>6. InWindow'
  <2>1. \A b \in Consumers \ {c} : /\ pc'[b] = pc[b] /\ tail'[b] = tail[b]
                                   /\ actualCount'[b] = actualCount[b]
    BY <1>2, SMTT(30) DEF TypeOK
  <2>2. tail'[c] \in FirstIndex .. tailIndex
    BY <1>2, <1>3, SMTT(30) DEF InWindow
  <2> QED
    BY <1>1, <1>2, <1>3, <2>1, <2>2 DEF InWindow, counters
<1>7. Undecided(c)' = Undecided(c) \ good
  <2>1. Tickets(c)' = Tickets(c) /\ GoodTickets(c)' = good
    BY Zenon, <1>1 DEF Tickets, GoodTickets
  <2>2. CASE pc' = [pc EXCEPT ![c] = "giveback"]
    <3>1. pc'[c] = "giveback"
      BY Zenon, <2>2 DEF TypeOK
    <3> QED
      BY Zenon, <1>4, <2>1, <3>1 DEF Undecided
  <2>3. CASE pc' = [pc EXCEPT ![c] = "claim"] /\ actualCount'[c] = desiredCount[c]
    <3>1. pc'[c] = "claim"
      BY Zenon, <2>3 DEF TypeOK
    <3>2. good = Tickets(c)
      BY Zenon, <2>3 DEF Tickets
    <3> QED
      BY <1>4, <3>1, <3>2, Zenon DEF Undecided
  <2> QED
    BY Zenon, <1>2, <2>2, <2>3
<1>8. Promised(c) = {} /\ Promised(c)' = good
  BY Zenon, <1>1, <1>2 DEF Promised, GoodTickets, TypeOK
<1>9. \A b \in Consumers : b # c => /\ Undecided(b)' = Undecided(b)
                                    /\ Promised(b)' = Promised(b)
  BY <1>1, <1>2, ZenonT(30) DEF Undecided, Promised, Tickets, GoodTickets, TypeOK
<1> HIDE DEF good
<1>10. AllUndecided' = AllUndecided \ good
  <2>1. \A b \in Consumers : b # c => Undecided(b) \cap good = {}
    BY <1>4 DEF TicketsPartitioned
  <2> QED
    BY Zenon, <1>7, <1>9, <2>1 DEF AllUndecided
<1>11. AllPromised' = AllPromised \cup good
  BY Zenon, <1>8, <1>9 DEF AllPromised
<1>12. good \subseteq AllUndecided
  BY Zenon, <1>4 DEF AllUndecided
<1>13. TicketsPartitioned'
  <2>1. \A b \in Consumers : Promised(b) \cap good = {}
    BY Zenon, <1>12 DEF TicketsPartitioned, AllPromised
  <2>2. \A a, b \in Consumers :
            a # b => /\ Undecided(a)' \cap Undecided(b)' = {}
                     /\ Promised(a)' \cap Promised(b)' = {}
    BY <1>7, <1>8, <1>9, <2>1, SMTT(30) DEF TicketsPartitioned
  <2>3. won' \cap lost' = {} /\ AllPromised' \subseteq won'
    BY <1>1, <1>2, <1>11, <1>12, SMTT(30) DEF TicketsPartitioned
  <2>4. won' \cup lost' \cup AllUndecided' = won \cup lost \cup AllUndecided
    BY Zenon, <1>1, <1>2, <1>10, <1>12
  <2>5. AllUndecided' \cap (won' \cup lost') = {}
    BY Zenon, <1>1, <1>2, <1>10 DEF TicketsPartitioned
  <2> QED
    BY Zenon, <1>1, <2>2, <2>3, <2>4, <2>5 DEF TicketsPartitioned, counters
<1>14. CountersCountTickets'
  <2>1. won' \ AllPromised' = won \ AllPromised
    BY Zenon, <1>2, <1>11, <1>12 DEF TicketsPartitioned
  <2> QED
    BY <1>1, <2>1, ZenonT(30) DEF CountersCountTickets, counters
<1>15. WonTicketsCovered'
  <2>1. \A t : LostBefore(t)' = LostBefore(t)
    BY Zenon, <1>1 DEF LostBefore
  <2>2. ASSUME NEW t \in good
        PROVE  t < tailIndex + Cardinality(LostBefore(t))
    <3>1. /\ t \in Nat /\ myDequeueCount[c] <= t
          /\ t < myDequeueCount[c] + actualCount'[c] /\ actualCount'[c] > 0
      BY <1>3, <2>2 DEF good
    <3>2. LostBefore(myDequeueCount[c]) \subseteq LostBefore(t)
      BY <1>3, <3>1 DEF LostBefore
    <3>3. /\ Cardinality(LostBefore(myDequeueCount[c])) \in Nat
          /\ Cardinality(LostBefore(t)) \in Nat
          /\ Cardinality(LostBefore(myDequeueCount[c]))
                 <= Cardinality(LostBefore(t))
      BY Zenon, <3>2, TicketSetsFinite, FS_Subset, FS_CardinalityType
    <3>4. overcommit[c] <= Cardinality(LostBefore(myDequeueCount[c]))
      BY <1>1, SMTT(30) DEF WonTicketsCovered
    <3> QED
      BY SMTT(30), <1>2, <1>3, <3>1, <3>3, <3>4
  <2>3. \A t \in won' : t < tailIndex' + Cardinality(LostBefore(t)')
    BY <1>1, <1>2, <2>1, <2>2, SMTT(30) DEF WonTicketsCovered, counters
  <2>4. \A b \in Consumers : pc'[b] = "recheck" => overcommit'[b] <=
            Cardinality(LostBefore(myDequeueCount[b])')
    <3>1. \A b \in Consumers : pc'[b] = "recheck" => pc[b] = "recheck"
      BY Zenon, <1>2 DEF TypeOK
    <3> QED
      BY Zenon, <1>1, <2>1, <3>1 DEF WonTicketsCovered
  <2> QED
    BY Zenon, <2>3, <2>4 DEF WonTicketsCovered
<1> QED
  BY Zenon, <1>5, <1>6, <1>13, <1>14, <1>15

\* An interval of n numbers has n elements.
LEMMA IntervalSize ==
    ASSUME NEW a \in Nat, NEW n \in Nat
    PROVE  IsFiniteSet(a .. (a + n - 1)) /\ Cardinality(a .. (a + n - 1)) = n
<1> DEFINE top == a + n - 1
<1>1. top \in Int /\ a \in Int
  OBVIOUS
<1>2. (IF a > top THEN 0 ELSE top - a + 1) = n
  OBVIOUS
<1> HIDE DEF top
<1>3. /\ IsFiniteSet(a .. top)
      /\ Cardinality(a .. top) = IF a > top THEN 0 ELSE top - a + 1
  BY Zenon, <1>1, FS_Interval
<1> QED
  BY <1>2, <1>3 DEF top

\* The size of a disjoint union.
LEMMA DisjointUnionSize ==
    ASSUME NEW S, NEW T, IsFiniteSet(S), IsFiniteSet(T), S \cap T = {}
    PROVE  Cardinality(S \cup T) = Cardinality(S) + Cardinality(T)
<1>1. Cardinality(S \cup T)
         = Cardinality(S) + Cardinality(T) - Cardinality(S \cap T)
  BY Zenon, FS_Union
<1>2. Cardinality(S) \in Nat /\ Cardinality(T) \in Nat
  BY Zenon, FS_CardinalityType
<1> QED
  BY <1>1, <1>2, FS_EmptySet

\* Giving back makes exactly the undecided tickets of the caller lost.
LEMMA GiveBackTickets ==
    ASSUME TicketInvariant, NEW c \in Consumers, GiveBack(c)
    PROVE  TicketInvariant'
<1> USE ConstantsAssumption DEF TicketInvariant
<1> DEFINE rest == Tickets(c) \ GoodTickets(c)
<1>1. /\ pc[c] = "giveback"
      /\ dequeueOvercommit' =
             dequeueOvercommit + (desiredCount[c] - actualCount[c])
      /\ lost' = lost \cup rest
      /\ UNCHANGED <<tailIndex, headIndex, dequeueOptimisticCount, won>>
      /\ \/ /\ actualCount[c] > 0
            /\ pc' = [pc EXCEPT ![c] = "claim"]
            /\ UNCHANGED <<max, locals>>
         \/ ~(actualCount[c] > 0) /\ Leave(c)
  BY Zenon DEF GiveBack, GiveBackCount
<1>2. /\ myDequeueCount[c] \in Nat /\ desiredCount[c] \in Nat
      /\ actualCount[c] \in Nat /\ dequeueOvercommit \in Nat
      /\ actualCount[c] <= desiredCount[c]
  BY Zenon, <1>1 DEF TypeOK, InWindow
<1>3. rest = (myDequeueCount[c] + actualCount[c]) ..
                (myDequeueCount[c] + actualCount[c]
                    + (desiredCount[c] - actualCount[c]) - 1)
  BY <1>2, SMTT(30) DEF Tickets, GoodTickets
<1>4. IsFiniteSet(rest) /\ Cardinality(rest) = desiredCount[c] - actualCount[c]
  <2>1. /\ myDequeueCount[c] + actualCount[c] \in Nat
        /\ desiredCount[c] - actualCount[c] \in Nat
    BY <1>2
  <2> HIDE DEF rest
  <2> QED
    BY Zenon, <1>3, <2>1, IntervalSize
<1>5. Undecided(c) = rest /\ Undecided(c)' = {} /\ Promised(c)' = Promised(c)
  <2>1. Undecided(c) = rest /\ Promised(c) = GoodTickets(c)
    BY Zenon, <1>1 DEF Undecided, Promised
  <2>2. CASE actualCount[c] > 0
    <3>1. pc'[c] = "claim" /\ GoodTickets(c)' = GoodTickets(c)
      BY Zenon, <1>1, <2>2 DEF TypeOK, GoodTickets, locals
    <3> QED
      BY Zenon, <2>1, <3>1 DEF Undecided, Promised
  <2>3. CASE ~(actualCount[c] > 0)
    <3>1. pc'[c] = "idle"
      BY Zenon, <1>1, <2>3 DEF TypeOK, Leave
    <3>2. GoodTickets(c) = {}
      BY <1>2, <2>3 DEF GoodTickets
    <3> QED
      BY Zenon, <2>1, <3>1, <3>2 DEF Undecided, Promised
  <2> QED
    BY Zenon, <2>2, <2>3
<1>6. \A b \in Consumers : b # c =>
         /\ Undecided(b)' = Undecided(b) /\ Promised(b)' = Promised(b)
         /\ pc'[b] = pc[b] /\ tail'[b] = tail[b]
         /\ overcommit'[b] = overcommit[b]
         /\ desiredCount'[b] = desiredCount[b]
         /\ actualCount'[b] = actualCount[b]
         /\ myDequeueCount'[b] = myDequeueCount[b]
  BY <1>1, ZenonT(30) DEF Undecided, Promised, Tickets, GoodTickets, TypeOK, Leave, locals
<1> HIDE DEF rest
<1>7. rest \subseteq AllUndecided
  BY Zenon, <1>5 DEF AllUndecided
<1>8. AllUndecided' = AllUndecided \ rest
  <2>1. \A b \in Consumers : b # c => Undecided(b) \cap rest = {}
    BY Zenon, <1>5 DEF TicketsPartitioned
  <2> QED
    BY Zenon, <1>5, <1>6, <2>1 DEF AllUndecided
<1>9. AllPromised' = AllPromised
  BY Zenon, <1>5, <1>6 DEF AllPromised
<1>10. dequeueOvercommit' \in Nat /\ dequeueOvercommit' >= dequeueOvercommit
  BY <1>1, <1>2
<1>11. TypeOK'
  <2>0. rest \subseteq Nat
    BY <1>2, <1>3
  <2>1. lost' \subseteq Nat
    BY <1>1, <2>0, SMTT(30) DEF TypeOK
  <2> QED
    BY <1>1, <1>10, <2>1 DEF TypeOK, PCs, Leave, locals
<1>12. InWindow'
  BY <1>1, <1>2, <1>10, SMTT(30) DEF InWindow, TypeOK, Leave, locals
<1>13. TicketsPartitioned'
  <2>1. \A a, b \in Consumers :
            a # b => /\ Undecided(a)' \cap Undecided(b)' = {}
                     /\ Promised(a)' \cap Promised(b)' = {}
    BY <1>5, <1>6, SMTT(30) DEF TicketsPartitioned
  <2>2. won' \cap lost' = {} /\ AllPromised' \subseteq won'
    BY Zenon, <1>1, <1>7, <1>9 DEF TicketsPartitioned
  <2>3. won' \cup lost' \cup AllUndecided' = won \cup lost \cup AllUndecided
    BY Zenon, <1>1, <1>7, <1>8
  <2>4. AllUndecided' \cap (won' \cup lost') = {}
    BY <1>1, <1>8, SMTT(30) DEF TicketsPartitioned
  <2> QED
    BY <1>1, <2>1, <2>2, <2>3, <2>4, ZenonT(30) DEF TicketsPartitioned
<1>14. IsFiniteSet(lost') /\ lost \subseteq lost'
  BY <1>1, <1>4, TicketSetsFinite, FS_Union, ZenonT(30)
<1>15. CountersCountTickets'
  <2>1. lost \cap rest = {}
    BY Zenon, <1>7 DEF TicketsPartitioned
  <2>2. Cardinality(lost') = Cardinality(lost) + Cardinality(rest)
    BY Zenon, <1>1, <1>4, <2>1, TicketSetsFinite, DisjointUnionSize
  <2> QED
    BY Zenon, <1>1, <1>4, <1>9, <2>2 DEF CountersCountTickets
<1>16. WonTicketsCovered'
  <2>1. \A t : /\ Cardinality(LostBefore(t)) \in Nat
              /\ Cardinality(LostBefore(t)') \in Nat
              /\ Cardinality(LostBefore(t)) <= Cardinality(LostBefore(t)')
    BY Zenon, <1>14, LostBeforeGrows
  <2>2. ASSUME NEW t \in won'
        PROVE  t < tailIndex' + Cardinality(LostBefore(t)')
    <3>1. t \in won /\ t \in Nat /\ tailIndex \in Nat /\ tailIndex' = tailIndex
      BY Zenon, <1>1 DEF TypeOK
    <3> QED
      BY <2>1, <3>1 DEF WonTicketsCovered
  <2>3. ASSUME NEW b \in Consumers, pc'[b] = "recheck"
        PROVE  overcommit'[b] <= Cardinality(LostBefore(myDequeueCount[b])')
    <3>1. b # c
      BY <1>1, <2>3, SMTT(30) DEF TypeOK, Leave
    <3>2. /\ overcommit'[b] = overcommit[b] /\ overcommit[b] \in Nat
          /\ overcommit[b] <= Cardinality(LostBefore(myDequeueCount[b]))
      BY Zenon, <1>6, <2>3, <3>1 DEF WonTicketsCovered, TypeOK
    <3>3. LostBefore(myDequeueCount[b])' = lost' \cap
              (FirstIndex .. (myDequeueCount[b] - 1))
      BY Zenon, <1>6, <3>1 DEF LostBefore
    <3> DEFINE old == lost \cap (FirstIndex .. (myDequeueCount[b] - 1))
               new == lost' \cap (FirstIndex .. (myDequeueCount[b] - 1))
    <3>4. IsFiniteSet(new) /\ old \subseteq new
      BY Zenon, <1>14, FS_Subset
    <3> HIDE DEF old, new
    <3>5. /\ Cardinality(old) <= Cardinality(new)
          /\ Cardinality(old) \in Nat /\ Cardinality(new) \in Nat
      BY Zenon, <3>4, FS_Subset, FS_CardinalityType
    <3>6. LostBefore(myDequeueCount[b]) = old
          /\ LostBefore(myDequeueCount[b])' = new
      BY Zenon, <3>3 DEF LostBefore, old, new
    <3> QED
      BY <3>2, <3>5, <3>6
  <2> QED
    BY Zenon, <2>2, <2>3 DEF WonTicketsCovered
<1> QED
  BY <1>11, <1>12, <1>13, <1>15, <1>16

\* Claiming at headIndex redeems the caller's promised tickets.
LEMMA ClaimHeadTickets ==
    ASSUME TicketInvariant, NEW c \in Consumers, ClaimHead(c)
    PROVE  TicketInvariant'
<1> USE ConstantsAssumption DEF TicketInvariant
<1> DEFINE good == GoodTickets(c)
<1>1. /\ pc[c] = "claim"
      /\ headIndex' = headIndex + actualCount[c]
      /\ pc' = [pc EXCEPT ![c] = "claimed"]
      /\ index' = [index EXCEPT ![c] = headIndex]
      /\ UNCHANGED <<tailIndex, dequeueOptimisticCount, dequeueOvercommit, max,
                     tail, overcommit, desiredCount, myDequeueCount,
                     actualCount, won, lost>>
  BY Zenon DEF ClaimHead
<1>2. /\ myDequeueCount[c] \in Nat /\ actualCount[c] \in Nat /\ headIndex \in Nat
  BY Zenon DEF TypeOK
<1>3. IsFiniteSet(good) /\ Cardinality(good) = actualCount[c]
  BY <1>2, IntervalSize, Zenon DEF GoodTickets
<1>4. Promised(c) = good /\ Promised(c)' = {}
  BY Zenon, <1>1 DEF Promised, TypeOK
<1>5. \A b \in Consumers : b # c => Promised(b)' = Promised(b)
  BY Zenon, <1>1 DEF Promised, GoodTickets, TypeOK
<1>6. \A b \in Consumers : Undecided(b)' = Undecided(b)
  BY <1>1, Zenon DEF Undecided, Tickets, GoodTickets, TypeOK
<1> HIDE DEF good
<1>7. AllUndecided' = AllUndecided
  BY Zenon, <1>6 DEF AllUndecided
<1>8. good \subseteq AllPromised
  BY Zenon, <1>4 DEF AllPromised
<1>9. AllPromised' = AllPromised \ good
  <2>1. \A b \in Consumers : b # c => Promised(b) \cap good = {}
    BY Zenon, <1>4 DEF TicketsPartitioned
  <2> QED
    BY Zenon, <1>4, <1>5, <2>1 DEF AllPromised
<1>10. TypeOK'
  BY <1>1, <1>2 DEF TypeOK, PCs
<1>11. InWindow'
  BY Zenon, <1>1 DEF InWindow, TypeOK
<1>12. TicketsPartitioned'
  BY Zenon, <1>1, <1>4, <1>5, <1>6, <1>7, <1>9 DEF TicketsPartitioned
<1>13. CountersCountTickets'
  <2>1. won' \ AllPromised' = (won \ AllPromised) \cup good
    BY Zenon, <1>1, <1>8, <1>9 DEF TicketsPartitioned
  <2>2. (won \ AllPromised) \cap good = {}
    BY Zenon, <1>8
  <2>3. IsFiniteSet(won \ AllPromised)
    BY TicketSetsFinite, FS_Difference, ZenonT(30)
  <2>4. Cardinality(won \ AllPromised) \in Nat
    BY Zenon, <2>3, FS_CardinalityType
  <2>5. Cardinality(won' \ AllPromised')
           = Cardinality(won \ AllPromised) + actualCount[c]
    BY Zenon, <1>3, <2>1, <2>2, <2>3, DisjointUnionSize
  <2>6. dequeueOvercommit' = Cardinality(lost')
    BY <1>1, Zenon DEF CountersCountTickets
  <2>7. headIndex = FirstIndex + Cardinality(won \ AllPromised)
    BY Zenon DEF CountersCountTickets
  <2> HIDE DEF TicketInvariant
  <2>8. headIndex' = FirstIndex + Cardinality(won' \ AllPromised')
    BY SMTT(30), <1>1, <1>2, <2>4, <2>5, <2>7
  <2> QED
    BY <2>6, <2>8, Zenon DEF CountersCountTickets
<1>14. WonTicketsCovered'
  BY Zenon, <1>1 DEF WonTicketsCovered, LostBefore, TypeOK
<1> QED
  BY <1>10, <1>11, <1>12, <1>13, <1>14

\* A call that has its elements returns without touching a ticket.
LEMMA ReturnTickets ==
    ASSUME TicketInvariant, NEW c \in Consumers, Return(c)
    PROVE  TicketInvariant'
<1>1. Undecided(c) = {} /\ Promised(c) = {}
  BY Zenon DEF Return, Undecided, Promised
<1> QED
  BY Zenon, <1>1, LeaveTickets DEF Return

\* The ticket invariant holds of every state of the protocol, whatever the
\* consumers, the width of the indices and the arguments of the calls.
THEOREM TicketInvariantHolds == Spec => []TicketInvariant
<1>1. Init => TicketInvariant
  BY Zenon, InitTickets
<1>2. TicketInvariant /\ [Next]_baseVars => TicketInvariant'
  <2> SUFFICES ASSUME TicketInvariant, [Next]_baseVars
               PROVE  TicketInvariant'
    BY Zenon
  <2>1. CASE \E n \in EnqueueCounts : PublishTail(n)
    BY Zenon, <2>1, PublishTailTickets
  <2>2. ASSUME NEW c \in Consumers, Dequeue(c)
        PROVE  TicketInvariant'
    BY <2>2, LoadTailTickets, LoadOvercommitTickets, CheckAvailableTickets,
       IncrementOptimisticTickets, RecheckTailTickets, GiveBackTickets,
       ClaimHeadTickets, ReturnTickets, SMTT(30) DEF Dequeue
  <2>3. CASE UNCHANGED baseVars
    BY <2>3 DEF baseVars, counters, locals, TicketInvariant, TypeOK, InWindow,
       TicketsPartitioned, CountersCountTickets, WonTicketsCovered, LostBefore,
       AllUndecided, AllPromised, Undecided, Promised, Tickets, GoodTickets
  <2> QED
    BY Zenon, <2>1, <2>2, <2>3 DEF Next
<1> QED
  BY <1>1, <1>2, PTL DEF Spec

-------------------------------------------------------------------------------
(* What the invariant gives.                                               *)

\* headIndex + actualCount of a caller about to claim counts won tickets only.
LEMMA TicketsImplyHead == TicketInvariant => HeadNeverPassesTail
<1> SUFFICES ASSUME TicketInvariant PROVE HeadNeverPassesTail
  BY Zenon
<1> USE ConstantsAssumption DEF TicketInvariant
<1> DEFINE redeemed == won \ AllPromised
<1>1. /\ tailIndex \in Nat /\ headIndex \in Nat
      /\ headIndex = FirstIndex + Cardinality(redeemed)
  BY Zenon DEF TypeOK, CountersCountTickets
<1>2. /\ IsFiniteSet(won) /\ Cardinality(won) \in Nat
      /\ Cardinality(won) <= tailIndex - FirstIndex
  BY Zenon, TicketSetsFinite, FS_CardinalityType, WonBounded
<1>3. IsFiniteSet(redeemed) /\ redeemed \subseteq won
  BY Zenon, <1>2, FS_Subset
<1>4. headIndex <= tailIndex
  <2> HIDE DEF redeemed
  <2>1. Cardinality(redeemed) <= Cardinality(won) /\ Cardinality(redeemed) \in Nat
    BY Zenon, <1>2, <1>3, FS_Subset, FS_CardinalityType
  <2> QED
    BY <1>1, <1>2, <2>1
<1>5. ASSUME NEW c \in Consumers, pc[c] = "claim"
      PROVE  headIndex + actualCount[c] <= tailIndex
  <2> DEFINE good == GoodTickets(c)
  <2>1. good = Promised(c)
    BY Zenon, <1>5 DEF Promised
  <2>2. /\ myDequeueCount[c] \in Nat /\ actualCount[c] \in Nat
        /\ IsFiniteSet(good) /\ Cardinality(good) = actualCount[c]
    BY IntervalSize, Zenon DEF GoodTickets, TypeOK
  <2> HIDE DEF good
  <2>3. good \subseteq won /\ redeemed \cap good = {}
    BY Zenon, <2>1 DEF TicketsPartitioned, AllPromised
  <2> HIDE DEF redeemed
  <2>4. Cardinality(redeemed \cup good)
            = Cardinality(redeemed) + actualCount[c]
    BY Zenon, <1>3, <2>2, <2>3, DisjointUnionSize
  <2>5. Cardinality(redeemed \cup good) <= Cardinality(won)
    BY Zenon, <1>2, <1>3, <2>3, FS_Subset
  <2>6. Cardinality(redeemed) \in Nat
    BY Zenon, <1>3, FS_CardinalityType
  <2> QED
    BY <1>1, <1>2, <2>2, <2>4, <2>5, <2>6
<1> QED
  BY Zenon, <1>4, <1>5 DEF HeadNeverPassesTail

\* Consumers never claim an element that was not enqueued, however their loads
\* and fetch_adds interleave and even where the indices wrap around.
THEOREM HeadNeverPassesTailHolds == Spec => []HeadNeverPassesTail
BY TicketInvariantHolds, TicketsImplyHead, PTL

\* The type invariant of the claim protocol.
THEOREM TypeCorrect == Spec => []TypeOK
<1>1. TicketInvariant => TypeOK
  BY Zenon DEF TicketInvariant
<1> QED
  BY <1>1, TicketInvariantHolds, PTL

\* With no call in progress every ticket is redeemed or lost.
LEMMA TicketsImplyExact == TicketInvariant => EffectiveCountExactWhenQuiet
<1> SUFFICES ASSUME TicketInvariant, \A c \in Consumers : pc[c] = "idle"
             PROVE  dequeueOptimisticCount - dequeueOvercommit = headIndex
  BY Zenon DEF EffectiveCountExactWhenQuiet
<1> USE ConstantsAssumption DEF TicketInvariant
<1>1. AllUndecided = {} /\ AllPromised = {}
  BY Zenon DEF AllUndecided, AllPromised, Undecided, Promised
<1>2. won \cup lost = FirstIndex .. (dequeueOptimisticCount - 1)
      /\ won \cap lost = {}
  BY Zenon, <1>1 DEF TicketsPartitioned
<1>3. /\ dequeueOptimisticCount \in Nat /\ FirstIndex <= dequeueOptimisticCount
      /\ headIndex \in Nat /\ dequeueOvercommit \in Nat
  BY DEF TypeOK, InWindow
<1>4. Cardinality(FirstIndex .. (dequeueOptimisticCount - 1))
         = dequeueOptimisticCount - FirstIndex
  <2> DEFINE n == dequeueOptimisticCount - FirstIndex
  <2>1. n \in Nat /\ FirstIndex + n - 1 = dequeueOptimisticCount - 1
    BY <1>3
  <2> HIDE DEF n
  <2>2. Cardinality(FirstIndex .. (FirstIndex + n - 1)) = n
    BY Zenon, <2>1, IntervalSize
  <2> QED
    BY Zenon, <2>1, <2>2 DEF n
<1>5. Cardinality(won \cup lost) = Cardinality(won) + Cardinality(lost)
  BY Zenon, <1>2, TicketSetsFinite, DisjointUnionSize
<1>6. headIndex = FirstIndex + Cardinality(won)
      /\ dequeueOvercommit = Cardinality(lost)
  <2>1. won \ AllPromised = won
    BY Zenon, <1>1
  <2> QED
    BY Zenon, <2>1 DEF CountersCountTickets
<1>7. Cardinality(won) \in Nat /\ Cardinality(lost) \in Nat
  BY Zenon, TicketSetsFinite, FS_CardinalityType
<1>8. Cardinality(won \cup lost) = dequeueOptimisticCount - FirstIndex
  <2> DEFINE issued == FirstIndex .. (dequeueOptimisticCount - 1)
  <2>1. won \cup lost = issued /\ Cardinality(issued)
            = dequeueOptimisticCount - FirstIndex
    BY Zenon, <1>2, <1>4
  <2> HIDE DEF issued
  <2> QED
    BY Zenon, <2>1
<1> QED
  BY <1>3, <1>5, <1>6, <1>7, <1>8

\* The counters settle: with no dequeue in progress, what dequeue computes as
\* the effective count is the head, so no element is left unreachable.
THEOREM EffectiveCountExactHolds == Spec => []EffectiveCountExactWhenQuiet
BY TicketInvariantHolds, TicketsImplyExact, PTL

\* A caller's overcommit counts increments made before its own.
LEMMA TicketsImplyPrecedes == TicketInvariant => OvercommitPrecedesTicket
<1> SUFFICES ASSUME TicketInvariant, NEW c \in Consumers, pc[c] = "recheck"
             PROVE  FirstIndex + overcommit[c] <= myDequeueCount[c]
  BY Zenon DEF OvercommitPrecedesTicket
<1> DEFINE before == LostBefore(myDequeueCount[c])
           top == myDequeueCount[c] - 1
           earlier == FirstIndex .. top
<1>1. /\ FirstIndex \in Nat /\ overcommit[c] \in Nat /\ myDequeueCount[c] \in Nat
      /\ FirstIndex <= myDequeueCount[c] /\ top \in Int
  BY ConstantsAssumption DEF TicketInvariant, TypeOK, InWindow
<1>2. overcommit[c] <= Cardinality(before)
  BY Zenon DEF TicketInvariant, WonTicketsCovered
<1>3. before \subseteq earlier
  BY Zenon DEF LostBefore
<1>4. /\ IsFiniteSet(earlier)
      /\ Cardinality(earlier) = IF FirstIndex > top THEN 0 ELSE top - FirstIndex + 1
  <2>1. FirstIndex \in Int /\ top \in Int
    BY <1>1
  <2> HIDE DEF top
  <2> QED
    BY Zenon, <2>1, FS_Interval
<1>5. Cardinality(earlier) = myDequeueCount[c] - FirstIndex
  <2> HIDE DEF earlier
  <2> QED
    BY <1>1, <1>4
<1>6. Cardinality(before) \in Nat /\ Cardinality(before) <= Cardinality(earlier)
  <2> HIDE DEF before, earlier
  <2> QED
    BY <1>3, <1>4, FS_Subset, FS_CardinalityType, SMTT(30)
<1> HIDE DEF before, earlier
<1> QED
  BY <1>1, <1>2, <1>5, <1>6

\* The comment "overcommit <= myDequeueCount" in dequeue is right.
THEOREM OvercommitPrecedesTicketHolds == Spec => []OvercommitPrecedesTicket
BY TicketInvariantHolds, TicketsImplyPrecedes, PTL

-------------------------------------------------------------------------------
(* The protocol implements SubQueue.                                       *)

\* What the consumers hold, as ProducerBase maps it to SubQueue.
Held == [c \in Consumers |-> IF pc[c] = "claimed"
            THEN index[c] .. (index[c] + actualCount[c] - 1) ELSE {}]

\* A step before the claim, or one that only gives back, is invisible.
LEMMA HeldUnchanged ==
    ASSUME NEW c \in Consumers, TypeOK,
           pc[c] # "claimed", pc'[c] # "claimed",
           \A b \in Consumers : b # c =>
               /\ pc'[b] = pc[b] /\ index'[b] = index[b]
               /\ actualCount'[b] = actualCount[b]
    PROVE  Held' = Held
BY Zenon DEF Held

\* Every step of a consumer is a step of SubQueue or changes nothing there.
LEMMA DequeueRefines ==
    ASSUME TicketInvariant, HeadNeverPassesTail, NEW c \in Consumers, Dequeue(c)
    PROVE  [Delivery!SQNext]_(Delivery!subQueueVars)
<1> USE DEF TicketInvariant
<1>0. TypeOK
  BY SMTT(30)
<1>1. CASE \/ LoadTail(c) \/ LoadOvercommit(c) \/ CheckAvailable(c)
           \/ IncrementOptimistic(c) \/ RecheckTail(c) \/ GiveBack(c)
  <2>1. UNCHANGED <<headIndex, tailIndex>>
    BY <1>1, ZenonT(30) DEF LoadTail, LoadOvercommit, CheckAvailable, IncrementOptimistic,
                RecheckTail, GiveBack, GiveBackCount, counters
  <2>2. pc[c] # "claimed"
    BY <1>1, ZenonT(30) DEF LoadTail, LoadOvercommit, CheckAvailable, IncrementOptimistic,
                RecheckTail, GiveBack, GiveBackCount
  <2>3. /\ pc'[c] # "claimed"
        /\ \A b \in Consumers : b # c =>
              /\ pc'[b] = pc[b] /\ index'[b] = index[b]
              /\ actualCount'[b] = actualCount[b]
    <3>1. CASE LoadTail(c)
      BY <1>0, <3>1, SMTT(30) DEF LoadTail, TypeOK
    <3>2. CASE LoadOvercommit(c)
      BY <1>0, <3>2, SMTT(30) DEF LoadOvercommit, TypeOK
    <3>3. CASE CheckAvailable(c)
      BY <1>0, <3>3, SMTT(30) DEF CheckAvailable, Leave, TypeOK
    <3>4. CASE IncrementOptimistic(c)
      BY <1>0, <3>4, SMTT(30) DEF IncrementOptimistic, TypeOK
    <3>5. CASE RecheckTail(c)
      BY <1>0, <3>5, ZenonT(30) DEF RecheckTail, TypeOK
    <3>6. CASE GiveBack(c)
      BY <1>0, <3>6 DEF GiveBack, GiveBackCount, Leave, TypeOK, locals
    <3> QED
      BY <1>1, <3>1, <3>2, <3>3, <3>4, <3>5, <3>6, ZenonT(30)
  <2>4. Held' = Held
    BY Zenon, <1>0, <2>2, <2>3, HeldUnchanged
  <2> QED
    BY <2>1, <2>4, SMTT(30) DEF Delivery!subQueueVars, Held
<1>2. CASE ClaimHead(c)
  <2>1. /\ pc[c] = "claim" /\ headIndex \in Nat /\ tailIndex \in Nat
        /\ actualCount[c] \in Nat
        /\ headIndex + actualCount[c] <= tailIndex
    BY Zenon, <1>0, <1>2 DEF ClaimHead, HeadNeverPassesTail, TypeOK
  <2>2. headIndex' \in headIndex .. tailIndex /\ UNCHANGED tailIndex
    BY <1>2, <2>1, SMTT(30) DEF ClaimHead
  <2>3. Held[c] = {}
    BY Zenon, <2>1 DEF Held
  <2>4. Held' = [Held EXCEPT ![c] = headIndex .. (headIndex' - 1)]
    <3>1. /\ pc'[c] = "claimed" /\ index'[c] = headIndex
          /\ headIndex' = headIndex + actualCount[c]
          /\ actualCount'[c] = actualCount[c]
      BY <1>0, <1>2, SMTT(30) DEF ClaimHead, TypeOK
    <3>2. \A b \in Consumers : b # c =>
              /\ pc'[b] = pc[b] /\ index'[b] = index[b]
              /\ actualCount'[b] = actualCount[b]
      BY Zenon, <1>0, <1>2 DEF ClaimHead, TypeOK
    <3>3. Held'[c] = headIndex .. (headIndex' - 1)
      <4>1. Held'[c] = IF pc'[c] = "claimed"
                       THEN index'[c] .. (index'[c] + actualCount'[c] - 1)
                       ELSE {}
        BY Zenon DEF Held
      <4> HIDE DEF Held, TicketInvariant
      <4>2. Held'[c] = headIndex .. (headIndex + actualCount[c] - 1)
        BY <3>1, <4>1, SMTT(30)
      <4>3. headIndex' - 1 = headIndex + actualCount[c] - 1
        BY <2>1, <3>1, SMTT(30)
      <4> QED
        BY <4>2, <4>3, Zenon
    <3>4. \A b \in Consumers : b # c => Held'[b] = Held[b]
      BY Zenon, <3>2 DEF Held
    <3>5. Held' = [b \in Consumers |-> Held'[b]] /\ DOMAIN Held = Consumers
      BY Zenon DEF Held
    <3> HIDE DEF Held
    <3> QED
      BY <3>3, <3>4, <3>5, SMTT(30)
  <2>5. Delivery!Take(c)
    BY Zenon, <2>2, <2>3, <2>4 DEF Delivery!Take, Held
  <2> QED
    BY <2>5, SMTT(30) DEF Delivery!SQNext
<1>3. CASE Return(c)
  <2>1. Held' = [Held EXCEPT ![c] = {}]
    BY <1>0, <1>3, ZenonT(30) DEF Return, Leave, Held, TypeOK
  <2>2. Delivery!Finish(c)
    BY Zenon, <1>3, <2>1 DEF Delivery!Finish, Held, Return, counters
  <2> QED
    BY <2>2, SMTT(30) DEF Delivery!SQNext
<1> QED
  BY Zenon, <1>1, <1>2, <1>3 DEF Dequeue

\* The claim protocol of dequeue and dequeue_bulk implements the abstract
\* sub-queue: elements leave in order, each to one call, once enqueued.
THEOREM SubQueueImplemented == Spec => ImplementsSubQueue
<1>1. Init => Delivery!SQInit
  BY Zenon DEF Init, Delivery!SQInit
<1>2. TicketInvariant /\ HeadNeverPassesTail /\ [Next]_baseVars
         => [Delivery!SQNext]_(Delivery!subQueueVars)
  <2> SUFFICES ASSUME TicketInvariant, HeadNeverPassesTail, [Next]_baseVars
               PROVE  [Delivery!SQNext]_(Delivery!subQueueVars)
    BY SMTT(30)
  <2>1. ASSUME NEW n \in EnqueueCounts, PublishTail(n)
        PROVE  Delivery!Put
    <3>1. tailIndex' \in Nat /\ tailIndex' >= tailIndex
      BY <2>1, ConstantsAssumption DEF PublishTail, TicketInvariant, TypeOK
    <3> QED
      BY Zenon, <2>1, <3>1 DEF PublishTail, locals, Delivery!Put
  <2>2. CASE UNCHANGED baseVars
    BY Zenon, <2>2 DEF baseVars, counters, locals, Delivery!subQueueVars
  <2> QED
    BY Zenon, <2>1, <2>2, DequeueRefines DEF Next, Delivery!SQNext
<1> QED
  BY <1>1, <1>2, TicketInvariantHolds, HeadNeverPassesTailHolds, PTL
     DEF Spec, ImplementsSubQueue, Delivery!SQSpec
===============================================================================
