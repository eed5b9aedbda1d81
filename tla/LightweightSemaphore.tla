------------------------- MODULE LightweightSemaphore -------------------------
(***************************************************************************)
(* LightweightSemaphore (lightweightsemaphore.h): a count that callers     *)
(* take from by compare-and-swap, in front of an OS semaphore on which     *)
(* they sleep when the count is spent.  m_count below zero counts sleepers *)
(* that no signal has been meant for yet.                                  *)
(*                                                                         *)
(* wait(timeout) is waitMany(1, timeout) and tryWait() is tryWaitMany(1):  *)
(* with max = 1 the two texts take the same steps.  One action is one      *)
(* atomic access or one operation of the OS semaphore.                     *)
(***************************************************************************)
EXTENDS Integers, FiniteSets

CONSTANTS Threads,
          InitialCount,     \* the constructor's initialCount
          MaxSpins,         \* the constructor's maxSpins
          Maxes,            \* `max` arguments
          SignalCounts,     \* `count` arguments of signal
          WaitCanFail,      \* may the OS semaphore's wait() return false?
          MaxCalls          \* bound: calls made in a behaviour

ASSUME SemaphoreAssumption ==
    /\ InitialCount \in Nat
    /\ MaxSpins \in Nat
    /\ Maxes \subseteq Nat
    /\ SignalCounts \subseteq Nat
    /\ WaitCanFail \in BOOLEAN
    /\ MaxCalls \in Nat
    /\ IsFiniteSet(Threads)

VARIABLES m_count,
          m_sema,           \* the OS semaphore: posts not yet consumed
          pc, kind, max,    \* each thread's call and its arguments
          oldCount, spin, got, toRelease,       \* its local variables
          calls             \* calls made so far

arguments == <<kind, max>>
semaVars == <<m_count, m_sema, pc, arguments, oldCount, spin, got, toRelease,
              calls>>

\* "try": tryWait, tryWaitMany.  The others wait: without a timeout, with a
\* positive one, with timeout_usecs = 0.
Kinds == {"try", "forever", "timed", "poll"}

Init ==
    /\ m_count = InitialCount
    /\ m_sema = 0
    /\ pc = [t \in Threads |-> "idle"]
    /\ kind = [t \in Threads |-> "try"]
    /\ max = [t \in Threads |-> 0]
    /\ oldCount = [t \in Threads |-> 0]
    /\ spin = [t \in Threads |-> 0]
    /\ got = [t \in Threads |-> 0]
    /\ toRelease = [t \in Threads |-> 0]
    /\ calls = 0

Go(t, label) == pc' = [pc EXCEPT ![t] = label]

\* oldCount = m_count.load(), kept if a compare-and-swap will expect it.  The
\* variable is dead everywhere else, and is 0 there.
Load(t, needed) ==
    oldCount' = [oldCount EXCEPT ![t] = IF needed THEN m_count ELSE 0]

\* Variant: takes all there is, not at most max.
LessMaxGreedy(old, m) == 0

\* oldCount > max ? oldCount - max : 0
LessMax(old, m) == IF old > m THEN old - m ELSE 0

-------------------------------------------------------------------------------
\* A thread calls one of the waiting operations.
Call(t, k, m) ==
    /\ pc[t] = "idle" /\ calls < MaxCalls
    /\ calls' = calls + 1
    /\ kind' = [kind EXCEPT ![t] = k]
    /\ max' = [max EXCEPT ![t] = m]
    /\ spin' = [spin EXCEPT ![t] = MaxSpins]
    /\ Go(t, "try")
    /\ UNCHANGED <<m_count, m_sema, oldCount, got, toRelease>>

\* tryWaitMany(m) is done: what the caller does with nothing in hand.
AfterTry(t) ==
    IF got[t] = 0 /\ kind[t] # "try" /\ max[t] > 0 THEN "spin" ELSE "return"

\* tryWaitMany: oldCount = m_count.load(relaxed).
TryLoad(t) ==
    /\ pc[t] = "try"
    /\ Load(t, m_count > 0)
    /\ Go(t, IF m_count > 0 THEN "tryCas" ELSE AfterTry(t))
    /\ UNCHANGED <<m_count, m_sema, arguments, spin, got, toRelease, calls>>

\* tryWaitMany: compare_exchange_weak.  A failure reloads oldCount.
TryCas(t) ==
    /\ pc[t] = "tryCas"
    /\ IF m_count = oldCount[t]
       THEN LET newCount == LessMax(m_count, max[t] - got[t])
            IN  /\ m_count' = newCount
                /\ got' = [got EXCEPT ![t] = @ + (m_count - newCount)]
                /\ Load(t, FALSE)
                /\ Go(t, "return")
       ELSE /\ Load(t, m_count > 0)
            /\ Go(t, IF m_count > 0 THEN "tryCas" ELSE AfterTry(t))
            /\ UNCHANGED <<m_count, got>>
    /\ UNCHANGED <<m_sema, arguments, spin, toRelease, calls>>

\* waitManyWithPartialSpinning: the load at the top of the spin loop.
SpinLoad(t) ==
    /\ pc[t] = "spin" /\ spin[t] > 0
    /\ spin' = [spin EXCEPT ![t] = @ - 1]
    /\ Load(t, m_count > 0)
    /\ Go(t, IF m_count > 0 THEN "spinCas" ELSE "spin")
    /\ UNCHANGED <<m_count, m_sema, arguments, got, toRelease, calls>>

\* ... and its compare_exchange_strong.
SpinCas(t) ==
    /\ pc[t] = "spinCas"
    /\ IF m_count = oldCount[t]
       THEN LET newCount == LessMax(m_count, max[t])
            IN  /\ m_count' = newCount
                /\ got' = [got EXCEPT ![t] = m_count - newCount]
                /\ Go(t, "return")
       ELSE Go(t, "spin") /\ UNCHANGED <<m_count, got>>
    /\ Load(t, FALSE)
    /\ UNCHANGED <<m_sema, arguments, spin, toRelease, calls>>

\* One permit is in hand: take more, up to max, if they are there.
AcquiredOne(t) ==
    /\ got' = [got EXCEPT ![t] = 1]
    /\ Go(t, IF max[t] > 1 THEN "try" ELSE "return")

\* Variant: takes a count of zero for a permit.
FetchSubOffByOne(t) ==
    /\ pc[t] = "spin" /\ spin[t] = 0
    /\ m_count' = m_count - 1
    /\ IF m_count >= 0
       THEN AcquiredOne(t)
       ELSE /\ Go(t, IF kind[t] = "poll" THEN "adjust" ELSE "sleep")
            /\ UNCHANGED got
    /\ UNCHANGED <<m_sema, arguments, oldCount, spin, toRelease, calls>>

\* The spin loop is over: oldCount = m_count.fetch_sub(1).
FetchSub(t) ==
    /\ pc[t] = "spin" /\ spin[t] = 0
    /\ m_count' = m_count - 1
    /\ IF m_count > 0
       THEN AcquiredOne(t)
       ELSE /\ Go(t, IF kind[t] = "poll" THEN "adjust" ELSE "sleep")
            /\ UNCHANGED got
    /\ UNCHANGED <<m_sema, arguments, oldCount, spin, toRelease, calls>>

\* m_sema.wait() or timed_wait() returns true.
SemaWait(t) ==
    /\ pc[t] = "sleep" /\ m_sema > 0
    /\ m_sema' = m_sema - 1
    /\ AcquiredOne(t)
    /\ UNCHANGED <<m_count, arguments, oldCount, spin, toRelease, calls>>

\* timed_wait() times out, or wait() fails.
SemaGivesUp(t) ==
    /\ pc[t] = "sleep"
    /\ kind[t] = "timed" \/ WaitCanFail
    /\ Go(t, "adjust")
    /\ UNCHANGED <<m_count, m_sema, arguments, oldCount, spin, got, toRelease,
                   calls>>

\* Variant: a count of zero is neither tried nor put back.
AdjustLoadStrict(t) ==
    /\ pc[t] = "adjust"
    /\ Load(t, m_count < 0)
    /\ Go(t, IF m_count > 0 THEN "adjustTry"
             ELSE IF m_count < 0 THEN "adjustCas" ELSE "adjust")
    /\ UNCHANGED <<m_count, m_sema, arguments, spin, got, toRelease, calls>>

\* "So we have to re-adjust the count": oldCount = m_count.load(acquire).
AdjustLoad(t) ==
    /\ pc[t] = "adjust"
    /\ Load(t, m_count < 0)
    /\ Go(t, IF m_count >= 0 THEN "adjustTry" ELSE "adjustCas")
    /\ UNCHANGED <<m_count, m_sema, arguments, spin, got, toRelease, calls>>

\* A signal was meant for this caller too: m_sema.try_wait().
AdjustTry(t) ==
    /\ pc[t] = "adjustTry"
    /\ IF m_sema > 0
       THEN m_sema' = m_sema - 1 /\ AcquiredOne(t)
       ELSE Go(t, "adjust") /\ UNCHANGED <<m_sema, got>>
    /\ UNCHANGED <<m_count, arguments, oldCount, spin, toRelease, calls>>

\* Variant: puts the decrement back without looking at the count again.
AdjustBlindly(t) ==
    /\ pc[t] = "adjustCas"
    /\ m_count' = m_count + 1 /\ Go(t, "return")
    /\ Load(t, FALSE)
    /\ UNCHANGED <<m_sema, arguments, spin, got, toRelease, calls>>

\* No signal was: take the decrement back with compare_exchange_strong.
AdjustCas(t) ==
    /\ pc[t] = "adjustCas"
    /\ IF m_count = oldCount[t]
       THEN m_count' = m_count + 1 /\ Go(t, "return")
       ELSE Go(t, "adjust") /\ UNCHANGED m_count
    /\ Load(t, FALSE)
    /\ UNCHANGED <<m_sema, arguments, spin, got, toRelease, calls>>

\* The call returns got[t].
Return(t) ==
    /\ pc[t] = "return"
    /\ Go(t, "idle")
    /\ kind' = [kind EXCEPT ![t] = "try"]
    /\ max' = [max EXCEPT ![t] = 0]
    /\ oldCount' = [oldCount EXCEPT ![t] = 0]
    /\ spin' = [spin EXCEPT ![t] = 0]
    /\ got' = [got EXCEPT ![t] = 0]
    /\ UNCHANGED <<m_count, m_sema, toRelease, calls>>

\* fetch_add(n), then `release` posts unless `skip`.
SignalReleasing(t, n, release, skip) ==
    /\ pc[t] = "idle" /\ calls < MaxCalls
    /\ calls' = calls + 1
    /\ m_count' = m_count + n
    /\ IF skip
       THEN UNCHANGED <<toRelease, pc>>
       ELSE toRelease' = [toRelease EXCEPT ![t] = release] /\ Go(t, "post")
    /\ UNCHANGED <<m_sema, arguments, oldCount, spin, got>>

\* -oldCount < count ? -oldCount : count
Released(n) == IF -m_count < n THEN -m_count ELSE n

\* Variant: releases one sleeper however many were signalled for.
SignalOne(t, n) == SignalReleasing(t, n, 1, Released(n) <= 0)

\* signal(n): m_count.fetch_add(n), and how many sleepers that releases.
Signal(t, n) == SignalReleasing(t, n, Released(n), Released(n) <= 0)

\* m_sema.signal(toRelease) posts one at a time.
Post(t) ==
    /\ pc[t] = "post"
    /\ m_sema' = m_sema + 1
    /\ toRelease' = [toRelease EXCEPT ![t] = @ - 1]
    /\ Go(t, IF toRelease[t] > 1 THEN "post" ELSE "idle")
    /\ UNCHANGED <<m_count, arguments, oldCount, spin, got, calls>>

\* What a thread does once it has called.
Step(t) ==
    \/ TryLoad(t) \/ TryCas(t)
    \/ SpinLoad(t) \/ SpinCas(t)
    \/ FetchSub(t) \/ SemaWait(t)
    \/ AdjustLoad(t) \/ AdjustTry(t) \/ AdjustCas(t)
    \/ Return(t)
    \/ Post(t)

Next ==
    \E t \in Threads :
        \/ \E k \in Kinds, m \in Maxes : Call(t, k, m)
        \/ \E n \in SignalCounts : Signal(t, n)
        \/ SemaGivesUp(t)
        \/ Step(t)

Spec == Init /\ [][Next]_semaVars

\* The scheduler runs every thread that can run, and a timed wait times out.
FairSpec ==
    /\ Spec
    /\ \A t \in Threads : WF_semaVars(Step(t))
    /\ \A t \in Threads : WF_semaVars(SemaGivesUp(t) /\ kind[t] = "timed")

-------------------------------------------------------------------------------
PCs == {"idle", "try", "tryCas", "spin", "spinCas", "sleep", "adjust",
        "adjustTry", "adjustCas", "return", "post"}

\* The counts and local variables hold what their C++ types hold; only m_count
\* and what is read from it may be negative.
TypeOK ==
    /\ m_count \in Int
    /\ m_sema \in Nat
    /\ pc \in [Threads -> PCs]
    /\ kind \in [Threads -> Kinds]
    /\ max \in [Threads -> Nat]
    /\ oldCount \in [Threads -> Int]
    /\ spin \in [Threads -> Nat]
    /\ got \in [Threads -> Nat]
    /\ toRelease \in [Threads -> Nat]
    /\ calls \in Nat

\* The callers whose fetch_sub found no permit and that have neither been
\* given one nor taken their decrement back.
WaiterPCs == {"sleep", "adjust", "adjustTry", "adjustCas"}
Waiters == {t \in Threads : pc[t] \in WaiterPCs}

\* The posts that signal has decided on and not yet made.
Pending == UNION {{t} \X (1 .. toRelease[t]) : t \in Threads}

Positive(n) == IF n > 0 THEN n ELSE 0

\* What the waiters have coming: nothing yet for as many as m_count is below
\* zero, and a post made or about to be made for each of the others.
Owed == Positive(-m_count) + m_sema + Cardinality(Pending)

\* Every waiter is either still counted by a negative m_count or has a post of
\* the OS semaphore coming to it, and no post is left over: a timeout that
\* races a late signal neither loses the signal nor leaves a stray post.
WaitersAccounted == Cardinality(Waiters) = Owed

\* A call gets at most what it asked for, and one that waits without a timeout
\* comes back with at least one (assert(result > 0) in waitMany(max)).
WaitManyAcquires ==
    \A t \in Threads :
        pc[t] = "return" /\ kind[t] = "forever" => got[t] \in 1 .. max[t]

\* A permit is in m_count, in the OS semaphore, or on its way there.
Counting == INSTANCE CountingSemaphore WITH
    permits <- Positive(m_count) + m_sema + Cardinality(Pending),
    holding <- got

\* The pair of counts implements one counting semaphore: a permit is taken by
\* one caller, once, and only after it was signalled.
ImplementsCounting == Counting!CSSpec

\* No lost wake-up: once calls stop coming, a thread is left sleeping only if
\* m_count says that a sleeper has not been signalled.
NoStrandedWaiter ==
    <>[](m_count >= 0 => \A t \in Threads : pc[t] # "sleep")

\* A caller that has timed out gets out of the re-adjustment loop.
TimedOutReturns ==
    \A t \in Threads : pc[t] = "adjust" ~> pc[t] = "return"

-------------------------------------------------------------------------------
\* What a thread's place in its call says about its local variables.
LocalsFitPlace(t) ==
    /\ toRelease[t] > 0 <=> pc[t] = "post"
    /\ pc[t] \in {"tryCas", "spinCas"} => oldCount[t] > 0
    /\ pc[t] = "adjustCas" => oldCount[t] < 0
    /\ got[t] <= max[t]
    /\ pc[t] \notin {"try", "tryCas", "return"} => got[t] = 0
    /\ pc[t] \in {"spin", "spinCas"} \cup WaiterPCs => max[t] > 0
    /\ pc[t] \notin {"idle", "post"} => max[t] \in Maxes
    /\ pc[t] \in WaiterPCs \ {"sleep"} => kind[t] # "forever" \/ WaitCanFail
    /\ pc[t] = "return" /\ kind[t] = "forever"
           => got[t] > 0 \/ max[t] = 0 \/ WaitCanFail

\* The inductive invariant of the semaphore: the waiters are accounted for and
\* every compare-and-swap runs on a count that justified it.
SemaphoreInvariant ==
    /\ TypeOK
    /\ \A t \in Threads : LocalsFitPlace(t)
    /\ IsFiniteSet(Pending)
    /\ WaitersAccounted

===============================================================================
