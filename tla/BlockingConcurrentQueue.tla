------------------------ MODULE BlockingConcurrentQueue ------------------------
(***************************************************************************)
(* BlockingConcurrentQueue (blockingconcurrentqueue.h): a ConcurrentQueue  *)
(* and a semaphore that counts its elements.  Enqueueing makes the element *)
(* visible and then releases a permit; dequeueing takes permits and then   *)
(* calls the inner queue until it has as many elements.                    *)
(*                                                                         *)
(* The semaphore is CountingSemaphore, which LightweightSemaphore          *)
(* implements.  A call that gets no permit (tryWait, or a timeout) returns *)
(* without a trace and is no step here; neither is an enqueue that fails.  *)
(***************************************************************************)
EXTENDS ConcurrentQueue

CONSTANTS Calls,            \* each consumer's calls: the inner call, and max
          AssignmentMayThrow

ASSUME BlockingAssumption ==
    /\ \A c \in Consumers :
           Calls[c] \subseteq [kind : {"plain", "bulk", "token", "token bulk"},
                               max : Nat \ {0}]
    /\ AssignmentMayThrow \in BOOLEAN

VARIABLES permits,          \* of the semaphore
          holding,          \* permits taken by each consumer's call
          delivered,        \* elements its inner calls have returned so far
          unsignalled,      \* elements of each token's call, signal() not yet called
          stranded          \* history: permits lost with an exception

blockingVars == <<permits, holding, delivered, unsignalled, stranded>>
vars == <<producerListVars, queueVars, blockingVars>>

sema == INSTANCE CountingSemaphore WITH Threads <- Consumers, InitialCount <- 0

Init ==
    /\ ProducerListInit
    /\ QueueInit
    /\ sema!CSInit
    /\ delivered = [c \in Consumers |-> 0]
    /\ unsignalled = [k \in Tokens |-> 0]
    /\ stranded = 0

\* Producers come (that tokens are moved and destroyed is in ProducerList).
Produce ==
    /\ \E k \in Tokens : ConstructToken(k) \/ RequestStep(k)
    /\ UNCHANGED <<queueVars, blockingVars>>

\* enqueue(token, item) or enqueue_bulk: first the inner queue ...
EnqueueInner(k) ==
    /\ unsignalled[k] = 0
    /\ \E n \in EnqueueCounts :
           /\ Enqueue(k, n)
           /\ unsignalled' = [unsignalled EXCEPT ![k] = n]
    /\ UNCHANGED <<permits, holding, delivered, stranded>>

\* Variant: a bulk call signals once.
SignalOnce(k) ==
    /\ unsignalled[k] > 0
    /\ permits' = permits + 1
    /\ sema!Release
    /\ unsignalled' = [unsignalled EXCEPT ![k] = 0]
    /\ UNCHANGED <<producerListVars, queueVars, delivered, stranded>>

\* ... then sema->signal(count).
Signal(k) ==
    /\ unsignalled[k] > 0
    /\ permits' = permits + unsignalled[k]
    /\ sema!Release
    /\ unsignalled' = [unsignalled EXCEPT ![k] = 0]
    /\ UNCHANGED <<producerListVars, queueVars, delivered, stranded>>

\* The inner call for what is still missing.
InnerCall(kind, wanted) ==
    [NoCall EXCEPT !.pc = "start", !.kind = kind, !.max = wanted]

\* try_dequeue, wait_dequeue, their _bulk and _timed forms: take the permits.
Acquire(c) ==
    /\ d[c].pc = "idle"
    /\ \E call \in Calls[c] :
           /\ sema!Acquire(c)
           /\ holding'[c] <= call.max
           /\ Go(c, InnerCall(call.kind, holding'[c]))
    /\ UNCHANGED <<producerListVars, counters, globalExplicitConsumerOffset, tok,
                   delivered, unsignalled, stranded>>

\* The blocking call returns.
Finish(c) ==
    /\ sema!GoOn(c)
    /\ delivered' = [delivered EXCEPT ![c] = 0]
    /\ Go(c, NoCall)

\* The inner call has returned: "while (count != max)".
Collect(c) ==
    /\ d[c].pc = "returned"
    /\ LET count == delivered[c] + d[c].count
       IN  IF count = holding[c]
           THEN Finish(c)
           ELSE /\ delivered' = [delivered EXCEPT ![c] = count]
                /\ Go(c, InnerCall(d[c].kind, holding[c] - count))
                /\ UNCHANGED <<permits, holding>>
    /\ UNCHANGED <<producerListVars, counters, globalExplicitConsumerOffset, tok,
                   unsignalled, stranded>>

\* Moving an element out throws: the elements claimed are gone, and the
\* exception leaves both the inner and the blocking call.
ClaimThrows(c) ==
    /\ AssignmentMayThrow
    /\ d[c].pc = "claim"
    /\ headIndex' = [headIndex EXCEPT ![d[c].ptr] = @ + d[c].actualCount]
    /\ stranded' = stranded
                   + holding[c] - delivered[c] - d[c].count - d[c].actualCount
    /\ Finish(c)
    /\ UNCHANGED <<producerListVars, tailIndex, dequeueOptimisticCount,
                   dequeueOvercommit, globalExplicitConsumerOffset, tok, unsignalled>>

InnerStep(c) == DequeueStep(c) /\ UNCHANGED blockingVars

\* What a thread inside a dequeueing call does.
ConsumerStep(c) == InnerStep(c) \/ Collect(c) \/ ClaimThrows(c)

Next ==
    \/ Produce
    \/ \E k \in Tokens : EnqueueInner(k) \/ Signal(k)
    \/ \E c \in Consumers : Acquire(c) \/ ConsumerStep(c)

Spec == Init /\ [][Next]_vars

\* The scheduler runs every thread that is in a dequeueing call.
FairSpec == Spec /\ \A c \in Consumers : WF_vars(ConsumerStep(c))

-------------------------------------------------------------------------------
\* The elements that c has a permit for and has not claimed yet.
Owed(c) == holding[c] - delivered[c] - d[c].count

\* Every element in the inner queue is covered by a permit that is free, held by
\* a consumer, or about to be signalled, and every permit by an element.
ElementsCovered ==
    Size = permits + stranded + MapThenSumSet(Owed, Consumers)
           + MapThenSumSet(LAMBDA k : unsignalled[k], Tokens)

\* size_approx() is availableApprox() of the semaphore, "only accurate if the
\* queue has completely stabilized".
SizeApproxExact ==
    (\A c \in Consumers : d[c].pc = "idle") /\ (\A k \in Tokens : unsignalled[k] = 0)
        => permits = Size

\* An inner call that returns fewer elements than it was asked for has looked at
\* every producer that was on the list when it began: "all producer streams
\* appeared empty at the time they were checked".
NoProducerSkipped ==
    \A c \in Consumers :
        d[c].pc = "returned" /\ d[c].count < d[c].max => d[c].listed \subseteq d[c].asked

\* "while (!inner.try_dequeue(item)) continue" ends: whoever holds a permit gets
\* an element, although another consumer's overcommit can hide it any number of
\* times.
PermitFindsElement ==
    \A c \in Consumers : holding[c] > 0 ~> holding[c] = 0

===============================================================================
