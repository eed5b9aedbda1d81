---------------------------- MODULE ConcurrentQueue ----------------------------
(***************************************************************************)
(* How a ConcurrentQueue spreads its consumers over the producers          *)
(* (concurrentqueue.h): try_dequeue with its scores, try_dequeue_bulk, and *)
(* both with a ConsumerToken that rotates.  A single dequeue is a bulk     *)
(* dequeue of one; try_dequeue_non_interleaved is try_dequeue_bulk of one. *)
(*                                                                         *)
(* Of a sub-queue only the counters are kept, and the protocol by which    *)
(* dequeue and dequeue_bulk claim elements (ProducerBase has it in full,   *)
(* with stale loads and wrapping).  Producers are those of ProducerList.   *)
(*                                                                         *)
(* One action is one access to shared memory; the three loads with which a *)
(* dequeue of a sub-queue begins are one.                                  *)
(***************************************************************************)
EXTENDS ProducerList, FiniteSetsExt

CONSTANTS Consumers,
          initialOffset,    \* what each consumer's token drew from
                            \* nextExplicitConsumerId
          EXPLICIT_CONSUMER_CONSUMPTION_QUOTA_BEFORE_ROTATE,
          OffsetRange,      \* 2^32: offsets are unsigned
          EnqueueCounts,    \* elements per enqueue call
          MaxEnqueued       \* bound: elements enqueued with each token

ASSUME ConcurrentQueueAssumption ==
    /\ initialOffset \in [Consumers -> Nat]
    /\ EXPLICIT_CONSUMER_CONSUMPTION_QUOTA_BEFORE_ROTATE \in Nat \ {0}
    /\ OffsetRange \in Nat \ {0}
    /\ EnqueueCounts \subseteq Nat \ {0}
    /\ MaxEnqueued \in [Tokens -> Nat]

VARIABLES tailIndex, headIndex, dequeueOptimisticCount, dequeueOvercommit,
          globalExplicitConsumerOffset,
          tok,      \* tok[c]: the ConsumerToken of c
          d         \* d[c]: c's call and its variables

counters == <<tailIndex, headIndex, dequeueOptimisticCount, dequeueOvercommit>>
queueVars == <<counters, globalExplicitConsumerOffset, tok, d>>

\* History: `asked` are the producers that looked empty, or were asked for all the
\* call still wanted; `listed` those that were on the list when it began.
NoCall == [pc |-> "idle", kind |-> "plain", at |-> "walk", max |-> 0, count |-> 0,
           ptr |-> null, tail |-> null, prodCount |-> 0,
           best |-> null, bestSize |-> 0, nonEmptyCount |-> 0, size |-> 0,
           overcommit |-> 0, desiredCount |-> 0, myDequeueCount |-> 0,
           actualCount |-> 0, asked |-> {}, listed |-> {}]

QueueInit ==
    /\ tailIndex = [p \in Producers |-> 0]
    /\ headIndex = [p \in Producers |-> 0]
    /\ dequeueOptimisticCount = [p \in Producers |-> 0]
    /\ dequeueOvercommit = [p \in Producers |-> 0]
    /\ globalExplicitConsumerOffset = 0
    /\ tok = [c \in Consumers |->
                 [lastKnownGlobalOffset |-> OffsetRange - 1,
                  itemsConsumedFromCurrent |-> 0,
                  currentProducer |-> null, desiredProducer |-> null]]
    /\ d = [c \in Consumers |-> NoCall]

\* The producers on the list.
Listed == {p \in 1 .. created : p = producerListTail \/ p \in {nextProd[q] : q \in Producers}}

\* c's call goes on with r as its variables.
Go(c, r) == d' = [d EXCEPT ![c] = r]
To(c, pc) == Go(c, [d[c] EXCEPT !.pc = pc])

\* ptr->dequeue or ptr->dequeue_bulk is called at this place of the code.
Visit(r, place, p) == [r EXCEPT !.pc = "check", !.at = place, !.ptr = p]

\* The call is over and returns count.
Done(r) == [r EXCEPT !.pc = "returned"]

\* The elements that the call still wants.
Wanted(r) == r.max - r.count

-------------------------------------------------------------------------------
\* enqueue and enqueue_bulk with token k, as far as consumers see it.
Enqueue(k, n) ==
    /\ Ready(k) /\ req[k].ptr # null
    /\ LET p == req[k].ptr
       IN  /\ tailIndex[p] + n <= MaxEnqueued[k]
           /\ tailIndex' = [tailIndex EXCEPT ![p] = @ + n]
    /\ UNCHANGED <<producerListVars, headIndex, dequeueOptimisticCount,
                   dequeueOvercommit, globalExplicitConsumerOffset, tok, d>>

-------------------------------------------------------------------------------
\* try_dequeue(item) enters the loop over the producers that gives them scores.
StartScoring(c) ==
    /\ d[c].pc = "start" /\ d[c].kind = "plain"
    /\ LET r == [d[c] EXCEPT !.listed = Listed, !.ptr = producerListTail]
       IN  Go(c, IF r.ptr = null THEN Done(r) ELSE [r EXCEPT !.pc = "score tail"])
    /\ UNCHANGED <<producerListVars, counters, globalExplicitConsumerOffset, tok>>

\* ptr->size_approx(): load tailIndex, ...
ScoreTail(c) ==
    /\ d[c].pc = "score tail"
    /\ Go(c, [d[c] EXCEPT !.pc = "score head", !.size = tailIndex[d[c].ptr]])
    /\ UNCHANGED <<producerListVars, counters, globalExplicitConsumerOffset, tok>>

\* The loop is left with three non-empty producers or at the end of the list.
Scored(r) ==
    LET p == nextProd[r.ptr]
    IN  IF r.nonEmptyCount < 3 /\ p # null
        THEN [r EXCEPT !.ptr = p, !.pc = "score tail"]
        ELSE IF r.nonEmptyCount = 0 THEN Done(r) ELSE Visit(r, "best", r.best)

\* ... then headIndex; keep the largest.
ScoreHead(c) ==
    /\ d[c].pc = "score head"
    /\ LET r == d[c]
           size == r.size - headIndex[r.ptr]
       IN  Go(c, Scored(IF size <= 0 THEN [r EXCEPT !.asked = @ \cup {r.ptr}]
                        ELSE IF size <= r.bestSize
                        THEN [r EXCEPT !.nonEmptyCount = @ + 1]
                        ELSE [r EXCEPT !.nonEmptyCount = @ + 1,
                                       !.bestSize = size, !.best = r.ptr]))
    /\ UNCHANGED <<producerListVars, counters, globalExplicitConsumerOffset, tok>>

\* Visit p, or the one after it if p was the best; the list ends with null.
WalkFrom(r, p) ==
    LET q == IF p # null /\ p = r.best THEN nextProd[p] ELSE p
    IN  IF q = null THEN Done(r) ELSE Visit(r, "walk", q)

\* try_dequeue_bulk(itemFirst, max) enters the loop over the producers.
StartWalk(c) ==
    /\ d[c].pc = "start" /\ d[c].kind = "bulk"
    /\ Go(c, WalkFrom([d[c] EXCEPT !.listed = Listed], producerListTail))
    /\ UNCHANGED <<producerListVars, counters, globalExplicitConsumerOffset, tok>>

\* The best producer of try_dequeue had nothing after all: try the others.
WalkTheOthers(c) ==
    /\ d[c].pc = "walk"
    /\ Go(c, WalkFrom(d[c], producerListTail))
    /\ UNCHANGED <<producerListVars, counters, globalExplicitConsumerOffset, tok>>

-------------------------------------------------------------------------------
\* With a token: has there been a rotation?
StartToken(c) ==
    /\ d[c].pc = "start" /\ d[c].kind \in {"token", "token bulk"}
    /\ LET r == [d[c] EXCEPT !.listed = Listed]
       IN  Go(c, IF \/ tok[c].desiredProducer = null
                    \/ tok[c].lastKnownGlobalOffset # globalExplicitConsumerOffset
                 THEN [r EXCEPT !.pc = "update"]
                 ELSE Visit(r, "current", tok[c].currentProducer))
    /\ UNCHANGED <<producerListVars, counters, globalExplicitConsumerOffset, tok>>

\* update_current_producer_after_rotation: load the tail, ...
LoadTail(c) ==
    /\ d[c].pc = "update"
    /\ LET r == [d[c] EXCEPT !.tail = producerListTail]
       IN  Go(c, IF tok[c].desiredProducer = null /\ r.tail = null
                 THEN Done(r) ELSE [r EXCEPT !.pc = "prodCount"])
    /\ UNCHANGED <<producerListVars, counters, globalExplicitConsumerOffset, tok>>

\* ... the number of producers, ...
LoadProdCount(c) ==
    /\ d[c].pc = "prodCount"
    /\ Go(c, [d[c] EXCEPT !.pc = "globalOffset", !.prodCount = producerCount])
    /\ UNCHANGED <<producerListVars, counters, globalExplicitConsumerOffset, tok>>

\* The producer after p; after the last one comes the tail again.
NextAround(p, tail) == IF nextProd[p] = null THEN tail ELSE nextProd[p]

\* n producers further.
Ahead(p, tail, n) ==
    LET from[i \in 0 .. n] == IF i = 0 THEN p ELSE NextAround(from[i - 1], tail)
    IN  from[n]

\* ... and the global offset, and move as far as it has advanced.
Rotate(c) ==
    /\ d[c].pc = "globalOffset"
    /\ LET r == d[c]
           t == tok[c]
           desired == IF t.desiredProducer = null
                      THEN Ahead(r.tail, r.tail,
                                 r.prodCount - 1 - (initialOffset[c] % r.prodCount))
                      ELSE t.desiredProducer
           delta == (globalExplicitConsumerOffset - t.lastKnownGlobalOffset) % OffsetRange
           place == Ahead(desired, r.tail, delta % r.prodCount)
       IN  /\ tok' = [tok EXCEPT ![c] =
                         [lastKnownGlobalOffset |-> globalExplicitConsumerOffset,
                          itemsConsumedFromCurrent |-> 0,
                          currentProducer |-> place, desiredProducer |-> place]]
           /\ Go(c, Visit(r, "current", place))
    /\ UNCHANGED <<producerListVars, counters, globalExplicitConsumerOffset>>

\* The current producer had too little: load the tail and go round the others.
GoRound(c) ==
    /\ d[c].pc = "ring"
    /\ LET p == NextAround(tok[c].currentProducer, producerListTail)
           r == [d[c] EXCEPT !.tail = producerListTail]
       IN  Go(c, IF p = tok[c].currentProducer THEN Done(r) ELSE Visit(r, "ring", p))
    /\ UNCHANGED <<producerListVars, counters, globalExplicitConsumerOffset, tok>>

\* globalExplicitConsumerOffset.fetch_add(1), and return.
RotateEveryone(c) ==
    /\ d[c].pc = "rotate"
    /\ globalExplicitConsumerOffset' = (globalExplicitConsumerOffset + 1) % OffsetRange
    /\ Go(c, Done(d[c]))
    /\ UNCHANGED <<producerListVars, counters, tok>>

-------------------------------------------------------------------------------
\* Variant: try_dequeue gives up when its best producer turns out empty.
BestReturnsFalse(c, r) ==
    /\ r.at = "best"
    /\ Go(c, Done(r))
    /\ UNCHANGED tok

\* What the caller of ptr->dequeue_bulk(itemFirst, Wanted) does with n elements.
BestReturns(c, r) ==
    /\ r.at = "best"
    /\ Go(c, IF Wanted(r) = 0 THEN Done(r) ELSE [r EXCEPT !.pc = "walk"])
    /\ UNCHANGED tok

WalkReturns(c, r) ==
    /\ r.at = "walk"
    /\ Go(c, IF Wanted(r) = 0 THEN Done(r) ELSE WalkFrom(r, nextProd[r.ptr]))
    /\ UNCHANGED tok

\* A single dequeue compares with the quota by ==, a bulk one by >=.
QuotaReached(r, items) ==
    IF r.kind = "token"
    THEN items = EXPLICIT_CONSUMER_CONSUMPTION_QUOTA_BEFORE_ROTATE
    ELSE items >= EXPLICIT_CONSUMER_CONSUMPTION_QUOTA_BEFORE_ROTATE

CurrentReturns(c, r, n) ==
    /\ r.at = "current"
    /\ LET items == tok[c].itemsConsumedFromCurrent + n
       IN  /\ tok' = [tok EXCEPT ![c].itemsConsumedFromCurrent = items]
           /\ Go(c, IF Wanted(r) > 0 THEN [r EXCEPT !.pc = "ring"]
                    ELSE IF QuotaReached(r, items) THEN [r EXCEPT !.pc = "rotate"]
                    ELSE Done(r))

RingReturns(c, r, n) ==
    /\ r.at = "ring"
    /\ LET t == IF n = 0 THEN tok[c]
                ELSE [tok[c] EXCEPT !.currentProducer = r.ptr,
                                    !.itemsConsumedFromCurrent = n]
           p == NextAround(r.ptr, r.tail)
       IN  /\ tok' = [tok EXCEPT ![c] = t]
           /\ Go(c, IF Wanted(r) = 0 \/ p = t.currentProducer
                    THEN Done(r) ELSE Visit(r, "ring", p))

\* The sub-queue has given n elements to c's call.
SubReturns(c, n) ==
    LET r == [d[c] EXCEPT !.count = @ + n, !.asked = @ \cup {d[c].ptr},
                          !.overcommit = 0, !.desiredCount = 0,
                          !.myDequeueCount = 0, !.actualCount = 0]
    IN  \/ BestReturns(c, r) \/ WalkReturns(c, r)
        \/ CurrentReturns(c, r, n) \/ RingReturns(c, r, n)

\* Variant: takes the last element for none.
CheckLeavesOne(c) ==
    /\ d[c].pc = "check"
    /\ LET p == d[c].ptr
           available == tailIndex[p] - (dequeueOptimisticCount[p] - dequeueOvercommit[p])
       IN  IF available > 1
           THEN /\ Go(c, [d[c] EXCEPT !.pc = "increment",
                            !.overcommit = dequeueOvercommit[p],
                            !.desiredCount = Min({available, Wanted(d[c])})])
                /\ UNCHANGED tok
           ELSE SubReturns(c, 0)
    /\ UNCHANGED <<producerListVars, counters, globalExplicitConsumerOffset>>

\* dequeue or dequeue_bulk of the sub-queue begins: is there anything?
Check(c) ==
    /\ d[c].pc = "check"
    /\ LET p == d[c].ptr
           available == tailIndex[p] - (dequeueOptimisticCount[p] - dequeueOvercommit[p])
       IN  IF available > 0
           THEN /\ Go(c, [d[c] EXCEPT !.pc = "increment",
                            !.overcommit = dequeueOvercommit[p],
                            !.desiredCount = Min({available, Wanted(d[c])})])
                /\ UNCHANGED tok
           ELSE SubReturns(c, 0)
    /\ UNCHANGED <<producerListVars, counters, globalExplicitConsumerOffset>>

\* myDequeueCount = dequeueOptimisticCount.fetch_add(desiredCount).
Increment(c) ==
    /\ d[c].pc = "increment"
    /\ LET p == d[c].ptr
       IN  /\ Go(c, [d[c] EXCEPT !.pc = "recheck",
                                 !.myDequeueCount = dequeueOptimisticCount[p]])
           /\ dequeueOptimisticCount' =
                  [dequeueOptimisticCount EXCEPT ![p] = @ + d[c].desiredCount]
    /\ UNCHANGED <<producerListVars, tailIndex, headIndex, dequeueOvercommit,
                   globalExplicitConsumerOffset, tok>>

\* Load the tail again: how many are there really?
Recheck(c) ==
    /\ d[c].pc = "recheck"
    /\ LET r == d[c]
           really == tailIndex[r.ptr] - (r.myDequeueCount - r.overcommit)
           actual == Max({0, Min({r.desiredCount, really})})
       IN  Go(c, [r EXCEPT !.actualCount = actual,
                           !.pc = IF actual < r.desiredCount THEN "give back"
                                                             ELSE "claim"])
    /\ UNCHANGED <<producerListVars, counters, globalExplicitConsumerOffset, tok>>

\* dequeueOvercommit.fetch_add(desiredCount - actualCount).
GiveBack(c) ==
    /\ d[c].pc = "give back"
    /\ LET r == d[c]
       IN  /\ dequeueOvercommit' =
                  [dequeueOvercommit EXCEPT ![r.ptr] = @ + (r.desiredCount - r.actualCount)]
           /\ IF r.actualCount = 0
              THEN SubReturns(c, 0)
              ELSE To(c, "claim") /\ UNCHANGED tok
    /\ UNCHANGED <<producerListVars, tailIndex, headIndex, dequeueOptimisticCount,
                   globalExplicitConsumerOffset>>

\* headIndex.fetch_add(actualCount), and move the elements out.
Claim(c) ==
    /\ d[c].pc = "claim"
    /\ headIndex' = [headIndex EXCEPT ![d[c].ptr] = @ + d[c].actualCount]
    /\ SubReturns(c, d[c].actualCount)
    /\ UNCHANGED <<producerListVars, tailIndex, dequeueOptimisticCount,
                   dequeueOvercommit, globalExplicitConsumerOffset>>

DequeueStep(c) ==
    \/ StartScoring(c) \/ ScoreTail(c) \/ ScoreHead(c) \/ StartWalk(c)
    \/ WalkTheOthers(c) \/ StartToken(c) \/ LoadTail(c) \/ LoadProdCount(c)
    \/ Rotate(c) \/ GoRound(c) \/ RotateEveryone(c)
    \/ Check(c) \/ Increment(c) \/ Recheck(c) \/ GiveBack(c) \/ Claim(c)

-------------------------------------------------------------------------------
\* The elements in the queue.
Size == MapThenSumSet(LAMBDA p : tailIndex[p] - headIndex[p], Producers)

===============================================================================
