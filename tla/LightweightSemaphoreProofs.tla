---------------------- MODULE LightweightSemaphoreProofs ----------------------
(***************************************************************************)
(* Proofs about LightweightSemaphore, for any threads, any arguments and   *)
(* any number of spins, and whether or not the OS wait can fail.           *)
(***************************************************************************)
EXTENDS LightweightSemaphore, FiniteSetTheorems, TLAPS

\* Nothing but its place distinguishes t after a step of t.
OthersStay(t) ==
    \A u \in Threads \ {t} :
        /\ pc'[u] = pc[u] /\ kind'[u] = kind[u] /\ max'[u] = max[u]
        /\ oldCount'[u] = oldCount[u] /\ got'[u] = got[u]
        /\ toRelease'[u] = toRelease[u]

\* The set of waiters is finite.
LEMMA WaitersFinite == IsFiniteSet(Waiters) /\ Cardinality(Waiters) \in Nat
BY Zenon, SemaphoreAssumption, FS_Subset, FS_CardinalityType DEF Waiters

\* A step of t that neither makes it a waiter nor ends its waiting.
LEMMA WaitersSame ==
    ASSUME NEW t \in Threads, OthersStay(t),
           pc[t] \in WaiterPCs <=> pc'[t] \in WaiterPCs
    PROVE  Waiters' = Waiters
BY Zenon DEF Waiters, OthersStay

\* A caller that starts waiting is one more.
LEMMA WaiterJoins ==
    ASSUME NEW t \in Threads, OthersStay(t),
           pc[t] \notin WaiterPCs, pc'[t] \in WaiterPCs
    PROVE  Cardinality(Waiters') = Cardinality(Waiters) + 1
<1>1. Waiters' = Waiters \cup {t} /\ t \notin Waiters
  BY Zenon DEF Waiters, OthersStay
<1> QED
  BY <1>1, WaitersFinite, FS_AddElement, Zenon

\* A caller that stops waiting is one fewer.
LEMMA WaiterLeaves ==
    ASSUME NEW t \in Threads, OthersStay(t),
           pc[t] \in WaiterPCs, pc'[t] \notin WaiterPCs
    PROVE  Cardinality(Waiters') = Cardinality(Waiters) - 1
<1>1. Waiters' = Waiters \ {t} /\ t \in Waiters
  BY Zenon DEF Waiters, OthersStay
<1> QED
  BY <1>1, WaitersFinite, FS_RemoveElement, Zenon

\* The invariant of the initial state.
LEMMA InitInvariant == Init => SemaphoreInvariant
<1> SUFFICES ASSUME Init PROVE SemaphoreInvariant
  BY Zenon
<1>1. TypeOK
  BY SemaphoreAssumption DEF Init, TypeOK, PCs, Kinds
<1>2. \A t \in Threads : LocalsFitPlace(t)
  BY DEF Init, LocalsFitPlace, WaiterPCs
<1>3. Pending = {}
  BY DEF Init, Pending
<1>4. Waiters = {}
  BY Zenon DEF Init, Waiters, WaiterPCs
<1>5. IsFiniteSet({}) /\ Cardinality({}) = 0
  BY Zenon, FS_EmptySet
<1>6. WaitersAccounted
  BY <1>3, <1>4, <1>5, SemaphoreAssumption DEF WaitersAccounted, Owed, Positive, Init
<1> QED
  BY Zenon, <1>1, <1>2, <1>3, <1>5, <1>6 DEF SemaphoreInvariant

\* What is owed is a number.
LEMMA OwedType ==
    ASSUME TypeOK, IsFiniteSet(Pending)
    PROVE  /\ Positive(m_count) \in Nat /\ Positive(-m_count) \in Nat
           /\ Cardinality(Pending) \in Nat /\ m_sema \in Nat /\ Owed \in Nat
<1>1. Positive(m_count) \in Nat /\ Positive(-m_count) \in Nat /\ m_sema \in Nat
  BY DEF TypeOK, Positive
<1>2. Cardinality(Pending) \in Nat
  BY Zenon, FS_CardinalityType
<1> QED
  BY <1>1, <1>2 DEF Owed

\* A step of t leaves the places of the other threads as they were.
LEMMA OthersFit ==
    ASSUME SemaphoreInvariant, NEW t \in Threads, OthersStay(t),
           LocalsFitPlace(t)'
    PROVE  \A u \in Threads : LocalsFitPlace(u)'
<1> SUFFICES ASSUME NEW u \in Threads, u # t PROVE LocalsFitPlace(u)'
  BY Zenon
<1> QED
  BY Zenon DEF SemaphoreInvariant, LocalsFitPlace, OthersStay

\* A step of t that posts nothing, makes nobody a waiter and serves nobody.
LEMMA QuietStep ==
    ASSUME SemaphoreInvariant, NEW t \in Threads, OthersStay(t), TypeOK',
           LocalsFitPlace(t)', toRelease' = toRelease, m_sema' = m_sema,
           Positive(-m_count') = Positive(-m_count),
           pc[t] \in WaiterPCs <=> pc'[t] \in WaiterPCs
    PROVE  SemaphoreInvariant'
<1>1. Pending' = Pending /\ Waiters' = Waiters
  BY Zenon, WaitersSame DEF Pending
<1>2. Owed' = Owed
  BY Zenon, <1>1 DEF Owed
<1> QED
  BY Zenon, <1>1, <1>2, OthersFit DEF SemaphoreInvariant, WaitersAccounted

\* A waiter gets its post, or takes its decrement back.
LEMMA ServingStep ==
    ASSUME SemaphoreInvariant, NEW t \in Threads, OthersStay(t), TypeOK',
           LocalsFitPlace(t)', toRelease' = toRelease,
           Positive(-m_count') + m_sema' = Positive(-m_count) + m_sema - 1,
           pc[t] \in WaiterPCs, pc'[t] \notin WaiterPCs
    PROVE  SemaphoreInvariant'
<1>1. Pending' = Pending
  BY Zenon DEF Pending
<1>2. Owed' = Owed - 1
  <2>1. Positive(-m_count) \in Nat /\ m_sema \in Nat /\ Cardinality(Pending) \in Nat
    BY Zenon, OwedType DEF SemaphoreInvariant
  <2> QED
    BY <1>1, <2>1 DEF Owed
<1>3. Cardinality(Waiters') = Cardinality(Waiters) - 1
  BY Zenon, WaiterLeaves
<1> QED
  BY Zenon, <1>1, <1>2, <1>3, OthersFit DEF SemaphoreInvariant, WaitersAccounted

\* A call starts.
LEMMA CallInvariant ==
    ASSUME SemaphoreInvariant, NEW t \in Threads, NEW k \in Kinds, NEW m \in Maxes,
           Call(t, k, m)
    PROVE  SemaphoreInvariant'
<1>1. /\ OthersStay(t) /\ toRelease' = toRelease /\ m_sema' = m_sema
      /\ pc[t] \in WaiterPCs <=> pc'[t] \in WaiterPCs
  BY Zenon DEF SemaphoreInvariant, TypeOK, OthersStay, WaiterPCs, arguments, Call, Go
<1>2. TypeOK'
  BY SemaphoreAssumption
     DEF SemaphoreInvariant, TypeOK, LocalsFitPlace, PCs, Kinds, arguments,
         Call, Go
<1>3. LocalsFitPlace(t)'
  BY SemaphoreAssumption
     DEF SemaphoreInvariant, TypeOK, LocalsFitPlace, WaiterPCs, arguments,
         Call, Go
<1>4. Positive(-m_count') = Positive(-m_count)
  BY Zenon DEF SemaphoreInvariant, TypeOK, LocalsFitPlace, Positive, Call, Go
<1> QED
  BY Zenon, <1>1, <1>2, <1>3, <1>4, QuietStep

\* The load of tryWaitMany.
LEMMA TryLoadInvariant ==
    ASSUME SemaphoreInvariant, NEW t \in Threads, TryLoad(t)
    PROVE  SemaphoreInvariant'
<1>1. /\ OthersStay(t) /\ toRelease' = toRelease /\ m_sema' = m_sema
      /\ pc[t] \in WaiterPCs <=> pc'[t] \in WaiterPCs
  BY Zenon DEF SemaphoreInvariant, TypeOK, OthersStay, WaiterPCs, arguments, TryLoad, Go, Load, AfterTry
<1>2. TypeOK'
  BY SemaphoreAssumption
     DEF SemaphoreInvariant, TypeOK, LocalsFitPlace, PCs, Kinds, arguments,
         TryLoad, Go, Load, AfterTry
<1>3. LocalsFitPlace(t)'
  BY SemaphoreAssumption
     DEF SemaphoreInvariant, TypeOK, LocalsFitPlace, WaiterPCs, arguments,
         TryLoad, Go, Load, AfterTry
<1>4. Positive(-m_count') = Positive(-m_count)
  BY Zenon DEF SemaphoreInvariant, TypeOK, LocalsFitPlace, Positive, TryLoad, Go, Load, AfterTry
<1> QED
  BY Zenon, <1>1, <1>2, <1>3, <1>4, QuietStep

\* What a compare-and-swap takes is positive and at most what was asked for.
LEMMA LessMaxTakes ==
    ASSUME NEW old \in Nat, NEW m \in Nat
    PROVE  /\ LessMax(old, m) \in Nat
           /\ old - LessMax(old, m) \in Nat
           /\ old - LessMax(old, m) \in 0 .. m
           /\ old > 0 /\ m > 0 => old - LessMax(old, m) > 0
BY DEF LessMax

\* The compare-and-swap of tryWaitMany leaves m_count nonnegative.
LEMMA TryCasInvariant ==
    ASSUME SemaphoreInvariant, NEW t \in Threads, TryCas(t)
    PROVE  SemaphoreInvariant'
<1> USE DEF SemaphoreInvariant, TryCas, Go, Load
<1>1. /\ OthersStay(t) /\ toRelease' = toRelease /\ m_sema' = m_sema
      /\ pc[t] \in WaiterPCs <=> pc'[t] \in WaiterPCs
  BY Zenon DEF TypeOK, OthersStay, WaiterPCs, arguments, AfterTry
<1>2. CASE m_count = oldCount[t]
  <2> DEFINE newCount == LessMax(m_count, max[t] - got[t])
  <2>1. /\ m_count \in Nat /\ m_count > 0 /\ max[t] - got[t] \in Nat
        /\ got[t] \in Nat /\ max[t] \in Nat
    BY <1>2 DEF TypeOK, LocalsFitPlace
  <2>2. /\ newCount \in Nat /\ m_count - newCount \in 0 .. (max[t] - got[t])
        /\ max[t] - got[t] > 0 => m_count - newCount > 0
    <3> HIDE DEF newCount
    <3> QED
      BY <2>1, LessMaxTakes, Zenon DEF newCount
  <2>3. /\ m_count' = newCount /\ got' = [got EXCEPT ![t] = @ + (m_count - newCount)]
        /\ pc' = [pc EXCEPT ![t] = "return"]
        /\ oldCount' = [oldCount EXCEPT ![t] = 0]
        /\ UNCHANGED <<m_sema, kind, max, spin, toRelease, calls>>
    BY Zenon, <1>2 DEF arguments
  <2> HIDE DEF newCount, TryCas
  <2>4. got'[t] \in Nat /\ got'[t] <= max[t]
        /\ (max[t] > 0 => got'[t] > 0)
    <3>1. got'[t] = got[t] + (m_count - newCount)
      BY Zenon, <2>3 DEF TypeOK
    <3>2. m_count - newCount \in Nat /\ m_count - newCount <= max[t] - got[t]
      BY <2>1, <2>2
    <3> QED
      BY <2>1, <2>2, <3>1, <3>2
  <2>5. TypeOK'
    <3>1. got' \in [Threads -> Nat]
      BY <2>1, <2>2, <2>3 DEF TypeOK
    <3> QED
      BY <2>2, <2>3, <3>1 DEF TypeOK, PCs
  <2>6. LocalsFitPlace(t)'
    BY <2>3, <2>4 DEF TypeOK, LocalsFitPlace, WaiterPCs, TryCas
  <2>7. Positive(-m_count') = Positive(-m_count)
    BY <2>1, <2>2, <2>3 DEF Positive
  <2> QED
    BY Zenon, <1>1, <2>5, <2>6, <2>7, QuietStep
<1>3. CASE m_count # oldCount[t]
  <2>1. TypeOK' /\ LocalsFitPlace(t)' /\ m_count' = m_count
    BY <1>3 DEF TypeOK, LocalsFitPlace, PCs, WaiterPCs, AfterTry, arguments
  <2> QED
    BY Zenon, <1>1, <2>1, QuietStep
<1> QED
  BY Zenon, <1>2, <1>3

\* The load of the spin loop.
LEMMA SpinLoadInvariant ==
    ASSUME SemaphoreInvariant, NEW t \in Threads, SpinLoad(t)
    PROVE  SemaphoreInvariant'
<1>1. /\ OthersStay(t) /\ toRelease' = toRelease /\ m_sema' = m_sema
      /\ pc[t] \in WaiterPCs <=> pc'[t] \in WaiterPCs
  BY Zenon DEF SemaphoreInvariant, TypeOK, OthersStay, WaiterPCs, arguments, SpinLoad, Go, Load
<1>2. TypeOK'
  BY SemaphoreAssumption
     DEF SemaphoreInvariant, TypeOK, LocalsFitPlace, PCs, Kinds, arguments,
         SpinLoad, Go, Load
<1>3. LocalsFitPlace(t)'
  BY Zenon, SemaphoreAssumption
     DEF SemaphoreInvariant, TypeOK, LocalsFitPlace, WaiterPCs, arguments,
         SpinLoad, Go, Load
<1>4. Positive(-m_count') = Positive(-m_count)
  BY Zenon DEF SemaphoreInvariant, TypeOK, LocalsFitPlace, Positive, SpinLoad, Go, Load
<1> QED
  BY <1>1, <1>2, <1>3, <1>4, QuietStep

\* The compare-and-swap of the spin loop.
LEMMA SpinCasInvariant ==
    ASSUME SemaphoreInvariant, NEW t \in Threads, SpinCas(t)
    PROVE  SemaphoreInvariant'
<1>1. /\ OthersStay(t) /\ toRelease' = toRelease /\ m_sema' = m_sema
      /\ pc[t] \in WaiterPCs <=> pc'[t] \in WaiterPCs
  BY Zenon DEF SemaphoreInvariant, TypeOK, OthersStay, WaiterPCs, arguments, SpinCas, Go, Load
<1>2. TypeOK'
  BY SemaphoreAssumption
     DEF SemaphoreInvariant, TypeOK, LocalsFitPlace, PCs, Kinds, arguments,
         SpinCas, Go, Load, LessMax
<1>3. LocalsFitPlace(t)'
  BY SemaphoreAssumption
     DEF SemaphoreInvariant, TypeOK, LocalsFitPlace, WaiterPCs, arguments,
         SpinCas, Go, Load, LessMax
<1>4. Positive(-m_count') = Positive(-m_count)
  BY DEF SemaphoreInvariant, TypeOK, LocalsFitPlace, Positive, SpinCas, Go, Load, LessMax
<1> QED
  BY <1>1, <1>2, <1>3, <1>4, QuietStep

\* A timeout leaves the caller among the waiters.
LEMMA SemaGivesUpInvariant ==
    ASSUME SemaphoreInvariant, NEW t \in Threads, SemaGivesUp(t)
    PROVE  SemaphoreInvariant'
<1>1. /\ OthersStay(t) /\ toRelease' = toRelease /\ m_sema' = m_sema
      /\ pc[t] \in WaiterPCs <=> pc'[t] \in WaiterPCs
  BY Zenon DEF SemaphoreInvariant, TypeOK, OthersStay, WaiterPCs, arguments, SemaGivesUp, Go
<1>2. TypeOK'
  BY Zenon, SemaphoreAssumption
     DEF SemaphoreInvariant, TypeOK, LocalsFitPlace, PCs, Kinds, arguments,
         SemaGivesUp, Go
<1>3. LocalsFitPlace(t)'
  BY Zenon, SemaphoreAssumption
     DEF SemaphoreInvariant, TypeOK, LocalsFitPlace, WaiterPCs, arguments,
         SemaGivesUp, Go
<1>4. Positive(-m_count') = Positive(-m_count)
  BY Zenon DEF SemaphoreInvariant, TypeOK, LocalsFitPlace, Positive, SemaGivesUp, Go
<1> QED
  BY <1>1, <1>2, <1>3, <1>4, QuietStep

\* So does looking at the count.
LEMMA AdjustLoadInvariant ==
    ASSUME SemaphoreInvariant, NEW t \in Threads, AdjustLoad(t)
    PROVE  SemaphoreInvariant'
<1>1. /\ OthersStay(t) /\ toRelease' = toRelease /\ m_sema' = m_sema
      /\ pc[t] \in WaiterPCs <=> pc'[t] \in WaiterPCs
  BY Zenon DEF SemaphoreInvariant, TypeOK, OthersStay, WaiterPCs, arguments, AdjustLoad, Go, Load
<1>2. TypeOK'
  BY SemaphoreAssumption
     DEF SemaphoreInvariant, TypeOK, LocalsFitPlace, PCs, Kinds, arguments,
         AdjustLoad, Go, Load
<1>3. LocalsFitPlace(t)'
  BY SemaphoreAssumption
     DEF SemaphoreInvariant, TypeOK, LocalsFitPlace, WaiterPCs, arguments,
         AdjustLoad, Go, Load
<1>4. Positive(-m_count') = Positive(-m_count)
  BY Zenon DEF SemaphoreInvariant, TypeOK, LocalsFitPlace, Positive, AdjustLoad, Go, Load
<1> QED
  BY <1>1, <1>2, <1>3, <1>4, QuietStep

\* A call returns.
LEMMA ReturnInvariant ==
    ASSUME SemaphoreInvariant, NEW t \in Threads, Return(t)
    PROVE  SemaphoreInvariant'
<1>1. /\ OthersStay(t) /\ toRelease' = toRelease /\ m_sema' = m_sema
      /\ pc[t] \in WaiterPCs <=> pc'[t] \in WaiterPCs
  BY Zenon DEF SemaphoreInvariant, TypeOK, OthersStay, WaiterPCs, arguments, Return, Go
<1>2. TypeOK'
  BY SemaphoreAssumption
     DEF SemaphoreInvariant, TypeOK, LocalsFitPlace, PCs, Kinds, arguments,
         Return, Go
<1>3. LocalsFitPlace(t)'
  BY SemaphoreAssumption
     DEF SemaphoreInvariant, TypeOK, LocalsFitPlace, WaiterPCs, arguments,
         Return, Go
<1>4. Positive(-m_count') = Positive(-m_count)
  BY Zenon DEF SemaphoreInvariant, TypeOK, LocalsFitPlace, Positive, Return, Go
<1> QED
  BY <1>1, <1>2, <1>3, <1>4, QuietStep

\* fetch_sub takes a permit, or makes the caller a waiter that is counted.
LEMMA FetchSubInvariant ==
    ASSUME SemaphoreInvariant, NEW t \in Threads, FetchSub(t)
    PROVE  SemaphoreInvariant'
<1> USE DEF SemaphoreInvariant
<1>1. /\ OthersStay(t) /\ toRelease' = toRelease /\ m_sema' = m_sema
      /\ m_count' = m_count - 1 /\ m_count \in Int
      /\ pc[t] \notin WaiterPCs
  BY Zenon DEF TypeOK, OthersStay, WaiterPCs, arguments, FetchSub, AcquiredOne, Go
<1>2. TypeOK'
  BY DEF TypeOK, PCs, arguments, FetchSub, AcquiredOne, Go
<1>3. LocalsFitPlace(t)'
  BY DEF TypeOK, LocalsFitPlace, WaiterPCs, Kinds, arguments, FetchSub,
         AcquiredOne, Go
<1>4. CASE m_count > 0
  <2>1. pc'[t] \notin WaiterPCs
    BY Zenon, <1>4 DEF TypeOK, WaiterPCs, FetchSub, AcquiredOne, Go
  <2>2. Positive(-m_count') = Positive(-m_count)
    BY <1>1, <1>4 DEF Positive
  <2> QED
    BY Zenon, <1>1, <1>2, <1>3, <2>1, <2>2, QuietStep
<1>5. CASE ~(m_count > 0)
  <2>1. pc'[t] \in WaiterPCs
    BY Zenon, <1>5 DEF TypeOK, WaiterPCs, FetchSub, Go
  <2>2. Positive(-m_count') = Positive(-m_count) + 1
    BY <1>1, <1>5 DEF Positive
  <2>3. Cardinality(Waiters') = Cardinality(Waiters) + 1
    BY Zenon, <1>1, <2>1, WaiterJoins
  <2>4. Pending' = Pending
    BY Zenon, <1>1 DEF Pending
  <2>5. Owed' = Owed + 1
    <3>1. Positive(-m_count) \in Nat /\ m_sema \in Nat /\ Cardinality(Pending) \in Nat
      BY Zenon, OwedType
    <3> QED
      BY <1>1, <2>2, <2>4, <3>1 DEF Owed
  <2> QED
    BY Zenon, <1>1, <1>2, <1>3, <2>3, <2>4, <2>5, OthersFit DEF WaitersAccounted
<1> QED
  BY Zenon, <1>4, <1>5

\* A sleeper consumes a post.
LEMMA SemaWaitInvariant ==
    ASSUME SemaphoreInvariant, NEW t \in Threads, SemaWait(t)
    PROVE  SemaphoreInvariant'
<1> USE DEF SemaphoreInvariant
<1>1. /\ OthersStay(t) /\ toRelease' = toRelease
      /\ pc[t] \in WaiterPCs
  BY Zenon DEF TypeOK, OthersStay, WaiterPCs, arguments, SemaWait, Go, AcquiredOne
<1>2. TypeOK'
  BY DEF TypeOK, PCs, arguments, SemaWait, Go, AcquiredOne
<1>3. LocalsFitPlace(t)'
  BY DEF TypeOK, LocalsFitPlace, WaiterPCs, arguments, SemaWait, Go, AcquiredOne
<1>4. pc'[t] \notin WaiterPCs
  BY Zenon DEF TypeOK, WaiterPCs, SemaWait, Go, AcquiredOne
<1>5. Positive(-m_count') + m_sema' = Positive(-m_count) + m_sema - 1
  BY Zenon DEF TypeOK, Positive, SemaWait, Go, AcquiredOne
<1> QED
  BY Zenon, <1>1, <1>2, <1>3, <1>4, <1>5, ServingStep

\* A caller that timed out consumes the post meant for it.
LEMMA AdjustTryInvariant ==
    ASSUME SemaphoreInvariant, NEW t \in Threads, AdjustTry(t)
    PROVE  SemaphoreInvariant'
<1> USE DEF SemaphoreInvariant
<1>1. /\ OthersStay(t) /\ toRelease' = toRelease
      /\ pc[t] \in WaiterPCs
  BY Zenon DEF TypeOK, OthersStay, WaiterPCs, arguments, AdjustTry, Go, AcquiredOne
<1>2. TypeOK'
  BY DEF TypeOK, PCs, arguments, AdjustTry, Go, AcquiredOne
<1>3. LocalsFitPlace(t)'
  BY DEF TypeOK, LocalsFitPlace, WaiterPCs, arguments, AdjustTry, Go, AcquiredOne
<1>4. CASE m_sema > 0
  <2>1. pc'[t] \notin WaiterPCs
    BY Zenon, <1>4 DEF TypeOK, WaiterPCs, AdjustTry, Go, AcquiredOne
  <2>2. Positive(-m_count') + m_sema' = Positive(-m_count) + m_sema - 1
    BY Zenon, <1>4 DEF TypeOK, LocalsFitPlace, Positive, AdjustTry, Go, AcquiredOne
  <2> QED
    BY <1>1, <1>2, <1>3, <2>1, <2>2, ServingStep
<1>5. CASE ~(m_sema > 0)
  <2>1. /\ pc'[t] \in WaiterPCs /\ m_sema' = m_sema
        /\ Positive(-m_count') = Positive(-m_count)
    BY Zenon, <1>5 DEF TypeOK, WaiterPCs, AdjustTry, Go, AcquiredOne
  <2> QED
    BY Zenon, <1>1, <1>2, <1>3, <2>1, QuietStep
<1> QED
  BY <1>4, <1>5

\* A caller that timed out takes its decrement back.
LEMMA AdjustCasInvariant ==
    ASSUME SemaphoreInvariant, NEW t \in Threads, AdjustCas(t)
    PROVE  SemaphoreInvariant'
<1> USE DEF SemaphoreInvariant
<1>1. /\ OthersStay(t) /\ toRelease' = toRelease
      /\ pc[t] \in WaiterPCs
  BY Zenon DEF TypeOK, OthersStay, WaiterPCs, arguments, AdjustCas, Go, Load
<1>2. TypeOK'
  BY DEF TypeOK, PCs, arguments, AdjustCas, Go, Load
<1>3. LocalsFitPlace(t)'
  BY Zenon DEF TypeOK, LocalsFitPlace, WaiterPCs, arguments, AdjustCas, Go, Load
<1>4. CASE m_count = oldCount[t]
  <2>1. pc'[t] \notin WaiterPCs
    BY Zenon, <1>4 DEF TypeOK, WaiterPCs, AdjustCas, Go, Load
  <2>2. Positive(-m_count') + m_sema' = Positive(-m_count) + m_sema - 1
    BY <1>4 DEF TypeOK, LocalsFitPlace, Positive, AdjustCas, Go, Load
  <2> QED
    BY <1>1, <1>2, <1>3, <2>1, <2>2, ServingStep
<1>5. CASE ~(m_count = oldCount[t])
  <2>1. /\ pc'[t] \in WaiterPCs /\ m_sema' = m_sema
        /\ Positive(-m_count') = Positive(-m_count)
    BY Zenon, <1>5 DEF TypeOK, WaiterPCs, AdjustCas, Go, Load
  <2> QED
    BY <1>1, <1>2, <1>3, <2>1, QuietStep
<1> QED
  BY Zenon, <1>4, <1>5

\* How many a signal releases.
LEMMA ReleasedRange ==
    ASSUME m_count \in Int, NEW n \in Nat
    PROVE  /\ Released(n) \in Int
           /\ Released(n) <= 0
                => Positive(-(m_count + n)) = Positive(-m_count)
           /\ Released(n) > 0
                => Positive(-(m_count + n)) + Released(n) = Positive(-m_count)
BY DEF Released, Positive

\* The posts a signal decides on are pending at once.
LEMMA SignalPends ==
    ASSUME SemaphoreInvariant, NEW t \in Threads, NEW n \in Nat,
           pc[t] = "idle", Released(n) \in Nat, Released(n) > 0,
           toRelease' = [toRelease EXCEPT ![t] = Released(n)]
    PROVE  /\ IsFiniteSet(Pending')
           /\ Cardinality(Pending') = Cardinality(Pending) + Released(n)
<1> USE DEF SemaphoreInvariant
<1> DEFINE r == Released(n)
           fresh == {t} \X (1 .. r)
<1>1. toRelease[t] = 0 /\ toRelease' = [toRelease EXCEPT ![t] = r]
  BY DEF TypeOK, LocalsFitPlace
<1>2. r \in Nat /\ r > 0
  BY Zenon
<1> HIDE DEF r
<1>3. Pending' = Pending \cup fresh /\ Pending \cap fresh = {}
  <2>1. \A u \in Threads : toRelease'[u] = IF u = t THEN r ELSE toRelease[u]
    BY Zenon, <1>1 DEF TypeOK
  <2>2. 1 .. toRelease[t] = {}
    BY <1>1
  <2> QED
    BY <2>1, <2>2 DEF Pending
<1>4. IsFiniteSet(fresh) /\ Cardinality(fresh) = r
  <2>1. IsFiniteSet({t}) /\ Cardinality({t}) = 1
    BY FS_Singleton, Zenon
  <2>2. IsFiniteSet(1 .. r) /\ Cardinality(1 .. r) = r
    <3>0. 1 \in Int /\ r \in Int
      BY <1>2
    <3>1. /\ IsFiniteSet(1 .. r)
          /\ Cardinality(1 .. r) = IF 1 > r THEN 0 ELSE r - 1 + 1
      BY <3>0, FS_Interval, Zenon
    <3> QED
      BY <1>2, <3>1
  <2>3. IsFiniteSet(fresh) /\ Cardinality(fresh) = 1 * r
    <3> DEFINE A == {t}
               B == 1 .. r
    <3>1. IsFiniteSet(A) /\ IsFiniteSet(B) /\ Cardinality(A) = 1 /\ Cardinality(B) = r
      BY Zenon, <2>1, <2>2
    <3> HIDE DEF A, B
    <3>2. IsFiniteSet(A \X B) /\ Cardinality(A \X B) = Cardinality(A) * Cardinality(B)
      BY Zenon, <3>1, FS_Product
    <3>3. Cardinality(A \X B) = 1 * r
      BY Zenon, <3>1, <3>2
    <3> QED
      BY Zenon, <3>2, <3>3 DEF A, B
  <2> QED
    BY <1>2, <2>3
<1> HIDE DEF fresh
<1>5. IsFiniteSet(Pending') /\ Cardinality(Pending') = Cardinality(Pending) + r
  <2>1. Cardinality(Pending) \in Nat
    BY Zenon, OwedType
  <2>2. Cardinality({}) = 0
    BY Zenon, FS_EmptySet
  <2>3. /\ IsFiniteSet(Pending \cup fresh)
        /\ Cardinality(Pending \cup fresh) =
              Cardinality(Pending) + Cardinality(fresh) - Cardinality(Pending \cap fresh)
    BY Zenon, <1>4, FS_Union
  <2>4. Cardinality(Pending \cap fresh) = 0
    BY <1>3, <2>2, SMTT(30)
  <2>5. Cardinality(Pending \cup fresh) = Cardinality(Pending) + r
    BY <1>2, <1>4, <2>1, <2>3, <2>4
  <2> QED
    BY <1>3, <2>3, <2>5, Zenon
<1> QED
  BY Zenon, <1>5 DEF r

\* A signal moves what it releases from the negative count to pending posts.
LEMMA SignalInvariant ==
    ASSUME SemaphoreInvariant, NEW t \in Threads, NEW n \in SignalCounts,
           Signal(t, n)
    PROVE  SemaphoreInvariant'
<1> USE DEF SemaphoreInvariant
<1>1. /\ n \in Nat /\ m_count \in Int /\ Released(n) \in Int
      /\ pc[t] = "idle" /\ toRelease[t] = 0
  <2>1. n \in Nat /\ m_count \in Int /\ pc[t] = "idle"
    BY Zenon, SemaphoreAssumption DEF TypeOK, Signal, SignalReleasing
  <2>2. toRelease[t] \in Nat /\ ~(toRelease[t] > 0)
    BY Zenon, <2>1 DEF TypeOK, LocalsFitPlace
  <2> QED
    BY <2>1, <2>2, ReleasedRange
<1>2. CASE Released(n) <= 0
  <2>1. /\ OthersStay(t) /\ toRelease' = toRelease /\ m_sema' = m_sema
        /\ pc' = pc /\ m_count' = m_count + n
    BY Zenon, <1>2 DEF TypeOK, OthersStay, arguments, Signal, SignalReleasing
  <2>2. TypeOK'
    BY <1>1, <1>2 DEF TypeOK, arguments, Signal, SignalReleasing
  <2>3. LocalsFitPlace(t)'
    BY Zenon, <1>2 DEF TypeOK, LocalsFitPlace, arguments, Signal, SignalReleasing
  <2>4. Positive(-m_count') = Positive(-m_count)
    BY Zenon, <1>1, <1>2, <2>1, ReleasedRange
  <2> QED
    BY Zenon, <2>1, <2>2, <2>3, <2>4, QuietStep
<1>3. CASE ~(Released(n) <= 0)
  <2> DEFINE r == Released(n)
  <2>1. /\ m_sema' = m_sema /\ m_count' = m_count + n /\ calls' = calls + 1
        /\ toRelease' = [toRelease EXCEPT ![t] = r]
        /\ pc' = [pc EXCEPT ![t] = "post"]
        /\ UNCHANGED <<kind, max, oldCount, spin, got>>
    BY Zenon, <1>3 DEF arguments, Signal, SignalReleasing, Go
  <2>2. r \in Nat /\ r > 0
    BY <1>1, <1>3
  <2> HIDE DEF r
  <2>3. OthersStay(t)
    BY Zenon, <2>1 DEF TypeOK, OthersStay
  <2>4. TypeOK'
    BY <1>1, <2>1, <2>2 DEF TypeOK, PCs
  <2>5. LocalsFitPlace(t)'
    BY <1>1, <2>1, <2>2, SMTT(30) DEF TypeOK, LocalsFitPlace, WaiterPCs
  <2>6. Waiters' = Waiters
    <3>1. pc[t] \notin WaiterPCs /\ pc'[t] \notin WaiterPCs
      BY Zenon, <1>1, <2>1 DEF TypeOK, WaiterPCs
    <3> QED
      BY Zenon, <2>3, <3>1, WaitersSame
  <2>9. IsFiniteSet(Pending') /\ Cardinality(Pending') = Cardinality(Pending) + r
    BY <1>1, <2>1, <2>2, SignalPends, Zenon DEF r
  <2>10. Owed' = Owed
    <3>1. Positive(-m_count') + r = Positive(-m_count)
      BY <1>1, <1>3, <2>1, ReleasedRange DEF r
    <3>2. Positive(-m_count) \in Nat /\ Positive(-m_count') \in Nat
      BY <1>1, <2>1 DEF Positive
    <3>3. Cardinality(Pending) \in Nat /\ m_sema \in Nat
      BY Zenon, OwedType
    <3> QED
      BY <2>1, <2>2, <2>9, <3>1, <3>2, <3>3 DEF Owed
  <2> QED
    BY Zenon, <2>3, <2>4, <2>5, <2>6, <2>9, <2>10, OthersFit DEF WaitersAccounted
<1> QED
  BY Zenon, <1>2, <1>3

\* A post that is made is no longer pending.
LEMMA PostPends ==
    ASSUME SemaphoreInvariant, NEW t \in Threads, Post(t)
    PROVE  /\ IsFiniteSet(Pending')
           /\ Cardinality(Pending') = Cardinality(Pending) - 1
<1> USE DEF SemaphoreInvariant
<1> DEFINE n == toRelease[t]
<1>1. /\ n \in Nat /\ n > 0
      /\ \A u \in Threads : toRelease'[u] = IF u = t THEN n - 1 ELSE toRelease[u]
  BY Zenon DEF TypeOK, LocalsFitPlace, Post
<1>2. Pending' = Pending \ {<<t, n>>} /\ <<t, n>> \in Pending
  <2>1. 1 .. (n - 1) = (1 .. n) \ {n} /\ n \in 1 .. n
    BY <1>1
  <2> HIDE DEF n
  <2>2. \A u \in Threads : toRelease[u] = n \/ u # t
    BY Zenon DEF n
  <2> QED
    BY <1>1, <2>1, <2>2 DEF Pending
<1> QED
  BY <1>2, FS_RemoveElement, ZenonT(30)

\* A post moves from pending to the OS semaphore.
LEMMA PostInvariant ==
    ASSUME SemaphoreInvariant, NEW t \in Threads, Post(t)
    PROVE  SemaphoreInvariant'
<1> USE DEF SemaphoreInvariant
<1> DEFINE n == toRelease[t]
<1>1. /\ n \in Nat /\ n > 0 /\ m_sema \in Nat /\ m_sema' = m_sema + 1
      /\ m_count' = m_count /\ OthersStay(t)
      /\ \A u \in Threads : toRelease'[u] = IF u = t THEN n - 1 ELSE toRelease[u]
  BY Zenon DEF TypeOK, LocalsFitPlace, OthersStay, Post, Go, arguments
<1>2. TypeOK'
  <2>1. n - 1 \in Nat
    BY <1>1
  <2>2. toRelease' \in [Threads -> Nat]
    BY Zenon, <2>1 DEF TypeOK, Post
  <2> QED
    BY <1>1, <2>2 DEF TypeOK, PCs, Post, Go, arguments
<1>3. LocalsFitPlace(t)'
  BY <1>1 DEF TypeOK, LocalsFitPlace, WaiterPCs, Post, Go, arguments
<1>4. Waiters' = Waiters
  <2>1. pc[t] \notin WaiterPCs /\ pc'[t] \notin WaiterPCs
    BY Zenon DEF TypeOK, WaiterPCs, Post, Go
  <2> QED
    BY Zenon, <1>1, <2>1, WaitersSame
<1>6. IsFiniteSet(Pending') /\ Cardinality(Pending') = Cardinality(Pending) - 1
  BY Zenon, PostPends
<1>7. Owed' = Owed
  <2>1. Positive(-m_count) \in Nat /\ Cardinality(Pending) \in Nat
    BY Zenon, OwedType
  <2> QED
    BY <1>1, <1>6, <2>1 DEF Owed
<1> QED
  BY Zenon, <1>1, <1>2, <1>3, <1>4, <1>6, <1>7, OthersFit DEF WaitersAccounted

\* Every state of the semaphore satisfies the invariant.
THEOREM SemaphoreInvariantHolds == Spec => []SemaphoreInvariant
<1>1. SemaphoreInvariant /\ [Next]_semaVars => SemaphoreInvariant'
  <2> SUFFICES ASSUME SemaphoreInvariant, [Next]_semaVars
               PROVE  SemaphoreInvariant'
    BY Zenon
  <2>1. ASSUME NEW t \in Threads, Step(t) PROVE SemaphoreInvariant'
    BY Zenon, <2>1, TryLoadInvariant, TryCasInvariant, SpinLoadInvariant,
       SpinCasInvariant, FetchSubInvariant, SemaWaitInvariant,
       AdjustLoadInvariant, AdjustTryInvariant, AdjustCasInvariant,
       ReturnInvariant, PostInvariant DEF Step
  <2>2. CASE UNCHANGED semaVars
    <3>1. SemaphoreInvariant = SemaphoreInvariant' /\ SemaphoreInvariant
      BY Zenon, <2>2 DEF semaVars, arguments, SemaphoreInvariant, TypeOK,
                  LocalsFitPlace, Pending, WaitersAccounted, Owed, Waiters
    <3> QED
      BY <3>1, SMTT(30)
  <2> QED
    BY Zenon, <2>1, <2>2, CallInvariant, SignalInvariant, SemaGivesUpInvariant DEF Next
<1> QED
  BY <1>1, InitInvariant, PTL DEF Spec

\* A timeout that races a late signal neither loses the signal nor leaves a
\* stray post: the waiters and the posts always balance.
THEOREM WaitersAccountedHolds == Spec => []WaitersAccounted
<1>1. SemaphoreInvariant => WaitersAccounted
  BY Zenon DEF SemaphoreInvariant
<1> QED
  BY <1>1, SemaphoreInvariantHolds, PTL

\* The type invariant of the semaphore.
THEOREM SemaphoreTypeCorrect == Spec => []TypeOK
<1>1. SemaphoreInvariant => TypeOK
  BY Zenon DEF SemaphoreInvariant
<1> QED
  BY <1>1, SemaphoreInvariantHolds, PTL

\* assert(result > 0) in waitMany(max) cannot fail when max is positive and the
\* OS semaphore's wait() does not fail; both conditions are needed.
THEOREM WaitManyAcquiresHolds ==
    ASSUME ~WaitCanFail, 0 \notin Maxes
    PROVE  Spec => []WaitManyAcquires
<1>1. SemaphoreInvariant => WaitManyAcquires
  <2> SUFFICES ASSUME SemaphoreInvariant, NEW t \in Threads,
                      pc[t] = "return", kind[t] = "forever"
               PROVE  got[t] \in 1 .. max[t]
    BY Zenon DEF WaitManyAcquires
  <2>1. max[t] \in Maxes /\ got[t] <= max[t] /\ (got[t] > 0 \/ max[t] = 0)
    BY Zenon DEF SemaphoreInvariant, LocalsFitPlace
  <2>2. got[t] \in Nat /\ max[t] \in Nat
    BY Zenon DEF SemaphoreInvariant, TypeOK
  <2> QED
    BY <2>1, <2>2, SMTT(30)
<1> QED
  BY <1>1, SemaphoreInvariantHolds, PTL

-------------------------------------------------------------------------------
(* The semaphore implements CountingSemaphore.                             *)

\* The permits, as LightweightSemaphore maps them.
Permits == Positive(m_count) + m_sema + Cardinality(Pending)

\* What Positive is on either side of zero.
LEMMA PositiveValue ==
    ASSUME NEW n \in Int
    PROVE  /\ Positive(n) \in Nat
           /\ n >= 0 => Positive(n) = n
           /\ n <= 0 => Positive(n) = 0
BY DEF Positive

\* A step that posts nothing and takes k permits from m_count and m_sema.
LEMMA PermitsTaken ==
    ASSUME SemaphoreInvariant, SemaphoreInvariant', toRelease' = toRelease,
           NEW k \in Nat,
           Positive(m_count') + m_sema' = Positive(m_count) + m_sema - k
    PROVE  Permits \in Nat /\ Permits' \in Nat /\ Permits' = Permits - k
<1>1. Pending' = Pending
  BY Zenon DEF Pending
<1>2. TypeOK /\ TypeOK' /\ IsFiniteSet(Pending)
  BY Zenon DEF SemaphoreInvariant
<1>3. /\ Positive(m_count) \in Nat /\ Cardinality(Pending) \in Nat
      /\ m_sema \in Nat
  BY Zenon, <1>2, OwedType
<1>4. m_count' \in Int /\ m_sema' \in Nat
  BY Zenon, <1>2 DEF TypeOK
<1>5. Positive(m_count') \in Nat
  BY Zenon, <1>4, PositiveValue
<1>6. Cardinality(Pending') = Cardinality(Pending)
  BY Zenon, <1>1
<1> QED
  BY <1>3, <1>4, <1>5, <1>6 DEF Permits

\* A step that takes k permits for t.
LEMMA TakingRefines ==
    ASSUME SemaphoreInvariant, SemaphoreInvariant', toRelease' = toRelease,
           NEW t \in Threads, NEW k \in Nat,
           Positive(m_count') + m_sema' = Positive(m_count) + m_sema - k,
           got' = [got EXCEPT ![t] = @ + k]
    PROVE  [Counting!CSNext]_(Counting!semaphoreVars)
<1>1. Permits \in Nat /\ Permits' \in Nat /\ Permits' = Permits - k
  BY Zenon, PermitsTaken
<1>2. CASE k = 0
  <2>1. got' = got
    BY <1>2 DEF SemaphoreInvariant, TypeOK
  <2>2. Permits' = Permits
    BY <1>1, <1>2
  <2> QED
    BY Zenon, <2>1, <2>2 DEF Counting!semaphoreVars, Permits
<1>3. CASE k > 0
  <2>1. Permits' \in 0 .. (Permits - 1) /\ k = Permits - Permits'
    BY <1>1, <1>3
  <2>2. Counting!Acquire(t)
    BY Zenon, <2>1 DEF Counting!Acquire, Permits
  <2> QED
    BY Zenon, <2>2 DEF Counting!CSNext
<1> QED
  BY <1>2, <1>3

\* A step that leaves the permits where they are.
LEMMA KeepingRefines ==
    ASSUME toRelease' = toRelease, m_sema' = m_sema, got' = got,
           Positive(m_count') = Positive(m_count)
    PROVE  UNCHANGED Counting!semaphoreVars
BY Zenon DEF Counting!semaphoreVars, Pending

\* A step that takes one permit for t, which had none.
LEMMA TakingOneRefines ==
    ASSUME SemaphoreInvariant, SemaphoreInvariant', toRelease' = toRelease,
           NEW t \in Threads, AcquiredOne(t),
           pc[t] \notin {"try", "tryCas", "return"},
           Positive(m_count') + m_sema' = Positive(m_count) + m_sema - 1
    PROVE  [Counting!CSNext]_(Counting!semaphoreVars)
<1>1. got[t] = 0
  BY Zenon DEF SemaphoreInvariant, LocalsFitPlace
<1>2. got' = [got EXCEPT ![t] = @ + 1]
  BY <1>1 DEF AcquiredOne, SemaphoreInvariant, TypeOK
<1> QED
  BY <1>2, TakingRefines, Zenon

\* A compare-and-swap from old to new, both not negative, takes old - new.
LEMMA SwapTakes ==
    ASSUME NEW old \in Nat, NEW new \in Nat, NEW s \in Nat
    PROVE  Positive(new) + s = Positive(old) + s - (old - new)
<1>1. Positive(old) = old /\ Positive(new) = new
  BY PositiveValue
<1> QED
  BY <1>1

\* tryWaitMany's compare-and-swap takes what LessMax leaves out.
LEMMA TryCasRefines ==
    ASSUME SemaphoreInvariant, SemaphoreInvariant', NEW t \in Threads, TryCas(t)
    PROVE  [Counting!CSNext]_(Counting!semaphoreVars)
<1>1. toRelease' = toRelease /\ m_sema' = m_sema
  BY Zenon DEF TryCas
<1>2. CASE m_count = oldCount[t]
  <2> DEFINE newCount == LessMax(m_count, max[t] - got[t])
  <2>1. m_count \in Nat /\ max[t] - got[t] \in Nat /\ m_sema \in Nat
    BY <1>2 DEF TryCas, LocalsFitPlace, SemaphoreInvariant, TypeOK
  <2>2. newCount \in Nat /\ m_count - newCount \in Nat
    BY <2>1, LessMaxTakes, Zenon
  <2>3. /\ m_count' = newCount
        /\ got' = [got EXCEPT ![t] = @ + (m_count - newCount)]
    BY Zenon, <1>2 DEF TryCas
  <2> HIDE DEF newCount
  <2>4. Positive(m_count') + m_sema'
            = Positive(m_count) + m_sema - (m_count - newCount)
    BY <1>1, <2>1, <2>2, <2>3, SwapTakes
  <2> QED
    BY <1>1, <2>2, <2>3, <2>4, TakingRefines, ZenonT(30)
<1>3. CASE m_count # oldCount[t]
  BY Zenon, <1>1, <1>3, KeepingRefines DEF TryCas
<1> QED
  BY Zenon, <1>2, <1>3

\* So does the one of the spin loop, which begins with nothing in hand.
LEMMA SpinCasRefines ==
    ASSUME SemaphoreInvariant, SemaphoreInvariant', NEW t \in Threads, SpinCas(t)
    PROVE  [Counting!CSNext]_(Counting!semaphoreVars)
<1>1. toRelease' = toRelease /\ m_sema' = m_sema
  BY Zenon DEF SpinCas
<1>2. CASE m_count = oldCount[t]
  <2> DEFINE newCount == LessMax(m_count, max[t])
  <2>1. /\ m_count \in Nat /\ max[t] \in Nat /\ m_sema \in Nat
        /\ got[t] = 0 /\ got \in [Threads -> Nat]
    BY <1>2 DEF SpinCas, LocalsFitPlace, SemaphoreInvariant, TypeOK
  <2>2. newCount \in Nat /\ m_count - newCount \in Nat
    BY <2>1, LessMaxTakes, Zenon
  <2>3. /\ m_count' = newCount
        /\ got' = [got EXCEPT ![t] = m_count - newCount]
    BY Zenon, <1>2 DEF SpinCas
  <2> HIDE DEF newCount
  <2>4. Positive(m_count') + m_sema'
            = Positive(m_count) + m_sema - (m_count - newCount)
    BY Zenon, <1>1, <2>1, <2>2, <2>3, SwapTakes
  <2>5. got' = [got EXCEPT ![t] = @ + (m_count - newCount)]
    BY <2>1, <2>2, <2>3
  <2> QED
    BY <1>1, <2>2, <2>4, <2>5, TakingRefines, Zenon
<1>3. CASE m_count # oldCount[t]
  BY Zenon, <1>1, <1>3, KeepingRefines DEF SpinCas
<1> QED
  BY <1>2, <1>3

\* The decrement after the spin loop takes a permit if there is one.
LEMMA FetchSubRefines ==
    ASSUME SemaphoreInvariant, SemaphoreInvariant', NEW t \in Threads, FetchSub(t)
    PROVE  [Counting!CSNext]_(Counting!semaphoreVars)
<1>1. /\ toRelease' = toRelease /\ m_sema' = m_sema /\ m_count' = m_count - 1
      /\ pc[t] = "spin"
  BY Zenon DEF FetchSub
<1>2. m_count \in Int /\ m_sema \in Nat
  BY Zenon DEF SemaphoreInvariant, TypeOK
<1>3. CASE m_count > 0
  <2>1. Positive(m_count) = m_count /\ Positive(m_count - 1) = m_count - 1
    BY <1>2, <1>3, PositiveValue
  <2>2. Positive(m_count') + m_sema' = Positive(m_count) + m_sema - 1
    BY SMTT(30), <1>1, <1>2, <2>1
  <2>3. AcquiredOne(t)
    BY Zenon, <1>3 DEF FetchSub
  <2> QED
    BY Zenon, <1>1, <2>2, <2>3, TakingOneRefines
<1>4. CASE ~(m_count > 0)
  <2>1. Positive(m_count) = 0 /\ Positive(m_count - 1) = 0
    BY <1>2, <1>4, PositiveValue
  <2>2. got' = got
    BY Zenon, <1>4 DEF FetchSub
  <2> QED
    BY Zenon, <1>1, <2>1, <2>2, KeepingRefines
<1> QED
  BY Zenon, <1>3, <1>4

\* A post of the OS semaphore is one permit.
LEMMA SemaWaitRefines ==
    ASSUME SemaphoreInvariant, SemaphoreInvariant', NEW t \in Threads,
           SemaWait(t) \/ AdjustTry(t)
    PROVE  [Counting!CSNext]_(Counting!semaphoreVars)
<1>1. /\ toRelease' = toRelease /\ m_count' = m_count
      /\ pc[t] \in {"sleep", "adjustTry"}
  BY Zenon DEF SemaWait, AdjustTry
<1>2. CASE m_sema' = m_sema - 1 /\ AcquiredOne(t)
  <2>1. m_sema \in Nat /\ Positive(m_count) \in Nat
    BY Zenon, OwedType DEF SemaphoreInvariant
  <2>2. Positive(m_count') + m_sema' = Positive(m_count) + m_sema - 1
    BY Zenon, <1>1, <1>2, <2>1
  <2> QED
    BY Zenon, <1>1, <1>2, <2>2, TakingOneRefines
<1>3. CASE UNCHANGED <<m_sema, got>>
  BY Zenon, <1>1, <1>3, KeepingRefines
<1> QED
  BY Zenon, <1>2, <1>3 DEF SemaWait, AdjustTry

\* Taking the decrement back changes a negative count only.
LEMMA AdjustCasRefines ==
    ASSUME SemaphoreInvariant, NEW t \in Threads, AdjustCas(t)
    PROVE  UNCHANGED Counting!semaphoreVars
<1>1. toRelease' = toRelease /\ m_sema' = m_sema /\ got' = got
  BY Zenon DEF AdjustCas
<1>2. m_count' = m_count \/ (m_count < 0 /\ m_count' = m_count + 1)
  BY Zenon DEF AdjustCas, SemaphoreInvariant, LocalsFitPlace
<1>3. m_count \in Int
  BY Zenon DEF SemaphoreInvariant, TypeOK
<1>4. CASE m_count < 0 /\ m_count' = m_count + 1
  <2>1. Positive(m_count) = 0 /\ Positive(m_count + 1) = 0
    BY <1>3, <1>4, PositiveValue
  <2> QED
    BY Zenon, <1>1, <1>4, <2>1, KeepingRefines
<1>5. CASE m_count' = m_count
  BY Zenon, <1>1, <1>5, KeepingRefines
<1> QED
  BY Zenon, <1>2, <1>4, <1>5

\* A call that returns is done with what it took.
LEMMA ReturnRefines ==
    ASSUME NEW t \in Threads, Return(t)
    PROVE  Counting!CSNext
<1>1. Pending' = Pending /\ m_count' = m_count /\ m_sema' = m_sema
  BY Zenon DEF Return, Pending
<1>2. got' = [got EXCEPT ![t] = 0]
  BY Zenon DEF Return
<1>3. Counting!GoOn(t)
  BY Zenon, <1>1, <1>2 DEF Counting!GoOn
<1> QED
  BY Zenon, <1>3 DEF Counting!CSNext

\* A step of the waiting side, which posts nothing.
LEMMA WaitingRefines ==
    ASSUME SemaphoreInvariant, SemaphoreInvariant', NEW t \in Threads,
           \/ \E k \in Kinds, m \in Maxes : Call(t, k, m)
           \/ TryLoad(t) \/ TryCas(t) \/ SpinLoad(t) \/ SpinCas(t)
           \/ FetchSub(t) \/ SemaWait(t) \/ SemaGivesUp(t)
           \/ AdjustLoad(t) \/ AdjustTry(t) \/ AdjustCas(t) \/ Return(t)
    PROVE  [Counting!CSNext]_(Counting!semaphoreVars)
<1>1. CASE \/ \E k \in Kinds, m \in Maxes : Call(t, k, m)
           \/ TryLoad(t) \/ SpinLoad(t) \/ SemaGivesUp(t) \/ AdjustLoad(t)
  <2>1. UNCHANGED <<toRelease, m_sema, got, m_count>>
    BY <1>1, Zenon DEF Call, TryLoad, SpinLoad, SemaGivesUp, AdjustLoad
  <2> QED
    BY <2>1, KeepingRefines, SMTT(30)
<1> QED
  BY Zenon, <1>1, TryCasRefines, SpinCasRefines, FetchSubRefines, SemaWaitRefines,
     AdjustCasRefines, ReturnRefines

\* signal(n) releases n permits, some of them as posts to come.
LEMMA SignalRefines ==
    ASSUME SemaphoreInvariant, SemaphoreInvariant', NEW t \in Threads,
           NEW n \in SignalCounts, Signal(t, n)
    PROVE  Counting!Release
<1> USE DEF SemaphoreInvariant
<1>1. /\ n \in Nat /\ m_count \in Int /\ m_sema \in Nat
      /\ m_count' = m_count + n /\ m_sema' = m_sema /\ got' = got
      /\ pc[t] = "idle"
  BY Zenon, SemaphoreAssumption DEF TypeOK, Signal, SignalReleasing
<1>2. Cardinality(Pending) \in Nat
  BY Zenon, OwedType
<1>3. Released(n) \in Int
  BY Zenon, <1>1, ReleasedRange
<1>4. Permits' \in Nat /\ Permits' >= Permits
  <2>1. CASE Released(n) <= 0
    <3>1. Pending' = Pending
      BY Zenon, <2>1 DEF Signal, SignalReleasing, Pending
    <3>2. Positive(m_count') >= Positive(m_count) /\ Positive(m_count') \in Nat
          /\ Positive(m_count) \in Nat
      BY <1>1 DEF Positive
    <3> QED
      BY <1>1, <1>2, <3>1, <3>2 DEF Permits
  <2>2. CASE ~(Released(n) <= 0)
    <3>1. Cardinality(Pending') = Cardinality(Pending) + Released(n)
      <4>1. toRelease' = [toRelease EXCEPT ![t] = Released(n)]
        BY Zenon, <2>2 DEF Signal, SignalReleasing
      <4>2. Released(n) \in Nat /\ Released(n) > 0
        BY <1>3, <2>2
      <4> QED
        BY <1>1, <4>1, <4>2, SignalPends, Zenon
    <3>2. /\ Positive(m_count') >= Positive(m_count)
          /\ Positive(m_count') \in Nat /\ Positive(m_count) \in Nat
      BY <1>1 DEF Positive
    <3> QED
      BY <1>1, <1>2, <1>3, <2>2, <3>1, <3>2 DEF Permits
  <2> QED
    BY Zenon, <2>1, <2>2
<1> QED
  BY Zenon, <1>1, <1>4 DEF Counting!Release, Permits

\* A post made is the permit that was pending.
LEMMA PostRefines ==
    ASSUME SemaphoreInvariant, NEW t \in Threads, Post(t)
    PROVE  UNCHANGED <<Permits, got>>
<1>1. m_count' = m_count /\ m_sema' = m_sema + 1 /\ got' = got
  BY Zenon DEF Post
<1>2. /\ Cardinality(Pending) \in Nat /\ Positive(m_count) \in Nat
      /\ m_sema \in Nat
  BY Zenon, OwedType DEF SemaphoreInvariant
<1>3. Cardinality(Pending') = Cardinality(Pending) - 1
  BY Zenon, PostPends
<1> QED
  BY <1>1, <1>2, <1>3 DEF Permits

\* m_count and the OS semaphore together are one counting semaphore: a permit
\* is taken by one caller, once, and only after it was signalled.
THEOREM CountingImplemented == Spec => ImplementsCounting
<1>1. Init => Counting!CSInit
  <2> SUFFICES ASSUME Init PROVE Counting!CSInit
    OBVIOUS
  <2>1. Pending = {}
    BY DEF Init, Pending
  <2>2. Cardinality({}) = 0
    BY Zenon, FS_EmptySet
  <2>3. Positive(m_count) + m_sema + Cardinality(Pending) = InitialCount
    BY <2>1, <2>2, SemaphoreAssumption DEF Init, Positive
  <2> QED
    BY Zenon, <2>3 DEF Init, Counting!CSInit
<1>2. SemaphoreInvariant /\ SemaphoreInvariant' /\ [Next]_semaVars
         => [Counting!CSNext]_(Counting!semaphoreVars)
  <2> SUFFICES ASSUME SemaphoreInvariant, SemaphoreInvariant', [Next]_semaVars
               PROVE  [Counting!CSNext]_(Counting!semaphoreVars)
    BY Zenon
  <2>1. ASSUME NEW t \in Threads, NEW n \in SignalCounts, Signal(t, n)
        PROVE  Counting!CSNext
    BY Zenon, <2>1, SignalRefines DEF Counting!CSNext
  <2>2. ASSUME NEW t \in Threads, Post(t)
        PROVE  UNCHANGED Counting!semaphoreVars
    BY Zenon, <2>2, PostRefines DEF Counting!semaphoreVars, Permits
  <2>3. CASE UNCHANGED semaVars
    BY Zenon, <2>3 DEF semaVars, Counting!semaphoreVars, Pending
  <2> QED
    BY Zenon, <2>1, <2>2, <2>3, WaitingRefines DEF Next, Step
<1> QED
  BY <1>1, <1>2, SemaphoreInvariantHolds, PTL
     DEF Spec, ImplementsCounting, Counting!CSSpec

===============================================================================
