----------------------------- MODULE ProducerList -----------------------------
(***************************************************************************)
(* The list of producers of a ConcurrentQueue, the recycling of inactive   *)
(* ones, and the ProducerTokens that own explicit producers                *)
(* (concurrentqueue.h).                                                    *)
(*                                                                         *)
(* Whoever needs a producer, a thread or a token, makes a request          *)
(* (recycle_or_create_producer) and owns the producer it is answered with. *)
(* A token is its request: it owns the answer until it is destroyed.       *)
(*                                                                         *)
(* One action is one access to shared memory.  A producer is pushed on the *)
(* list in one step: until the compare-and-swap succeeds nobody else sees  *)
(* it, and a failed one only reloads the tail.                             *)
(***************************************************************************)
EXTENDS Integers, FiniteSets

CONSTANTS Threads, Tokens,
          MaxProducers,     \* bound: producers created
          MaxTokenSteps,    \* bound: tokens constructed, moved and swapped
          null,
          MemoryCanFail     \* may create<...Producer>() return nullptr?

ASSUME ProducerListAssumption ==
    /\ Threads \cap Tokens = {}
    /\ MaxProducers \in Nat
    /\ MaxTokenSteps \in Nat
    /\ null \notin Threads \cup Tokens \cup Nat
    /\ MemoryCanFail \in BOOLEAN

VARIABLES producerListTail, producerCount,
          nextProd, inactive, isExplicit, token,    \* fields of each producer
          created,      \* producers created so far are 1 .. created
          req,          \* req[u]: the request of a thread or token
          tokenSteps,
          destroying,   \* ~ConcurrentQueue has begun
          toDestroy,    \* what ~ConcurrentQueue has still to destroy
          destroyed     \* producers that are gone

listFields == <<producerListTail, nextProd>>
destroyVars == <<destroying, toDestroy, destroyed>>
producerListVars == <<producerListTail, producerCount, nextProd, inactive,
                      isExplicit, token, created, req, tokenSteps, destroyVars>>

Owners == Threads \cup Tokens
Producers == 1 .. MaxProducers
NoRequest == [pc |-> "none", ptr |-> null]

ProducerListInit ==
    /\ producerListTail = null
    /\ producerCount = 0
    /\ nextProd = [p \in Producers |-> null]
    /\ inactive = [p \in Producers |-> FALSE]
    /\ isExplicit = [p \in Producers |-> FALSE]
    /\ token = [p \in Producers |-> null]
    /\ created = 0
    /\ req = [u \in Owners |-> NoRequest]
    /\ tokenSteps = 0
    /\ destroying = FALSE
    /\ toDestroy = null
    /\ destroyed = {}

Request(u, pc, ptr) == req' = [req EXCEPT ![u] = [pc |-> pc, ptr |-> ptr]]

\* The next producer to look at, or none left: create one.
ScanFrom(u, p) == Request(u, IF p = null THEN "create" ELSE "scan", p)

\* u's request is answered.  A token's constructor notes itself in the producer.
Answer(u, p) ==
    /\ Request(u, "done", p)
    /\ token' = IF u \in Tokens /\ p # null THEN [token EXCEPT ![p] = u]
                                            ELSE token

\* recycle_or_create_producer is called: load the tail of the list.
RecycleOrCreate(u) ==
    /\ ScanFrom(u, producerListTail)
    /\ UNCHANGED <<listFields, producerCount, inactive, isExplicit, token, created,
                   destroyVars>>

\* Variant: recycles whatever producer of its kind comes first.
RecycleActive(u) ==
    /\ req[u].pc = "scan"
    /\ LET p == req[u].ptr
       IN  IF isExplicit[p] = (u \in Tokens)
           THEN /\ inactive' = [inactive EXCEPT ![p] = FALSE]
                /\ Answer(u, p)
           ELSE /\ ScanFrom(u, nextProd[p])
                /\ UNCHANGED <<inactive, token>>
    /\ UNCHANGED <<listFields, producerCount, isExplicit, created, tokenSteps,
                   destroyVars>>

\* Look at one producer; if it is inactive and of the right kind, activate it.
\* The load and the compare-and-swap of `inactive` act as one: whichever of them
\* fails, the search goes on.
RecycleOne(u) ==
    /\ req[u].pc = "scan"
    /\ LET p == req[u].ptr
       IN  IF inactive[p] /\ isExplicit[p] = (u \in Tokens)
           THEN /\ inactive' = [inactive EXCEPT ![p] = FALSE]
                /\ Answer(u, p)
           ELSE /\ ScanFrom(u, nextProd[p])
                /\ UNCHANGED <<inactive, token>>
    /\ UNCHANGED <<listFields, producerCount, isExplicit, created, tokenSteps,
                   destroyVars>>

\* create<ExplicitProducer> or create<ImplicitProducer>, and the first step of
\* add_producer: producerCount.fetch_add(1).
CreateProducer(u) ==
    /\ req[u].pc = "create"
    /\ created < MaxProducers
    /\ created' = created + 1
    /\ isExplicit' = [isExplicit EXCEPT ![created'] = u \in Tokens]
    /\ producerCount' = producerCount + 1
    /\ Request(u, "push", created')
    /\ UNCHANGED <<listFields, inactive, token, tokenSteps, destroyVars>>

\* Allocation fails: add_producer(nullptr).
CreateFails(u) ==
    /\ req[u].pc = "create"
    /\ MemoryCanFail
    /\ Answer(u, null)
    /\ UNCHANGED <<listFields, producerCount, inactive, isExplicit, created,
                   tokenSteps, destroyVars>>

\* The rest of add_producer: link the producer in at the tail.
PushProducer(u) ==
    /\ req[u].pc = "push"
    /\ LET p == req[u].ptr
       IN  /\ nextProd' = [nextProd EXCEPT ![p] = producerListTail]
           /\ producerListTail' = p
           /\ Answer(u, p)
    /\ UNCHANGED <<producerCount, inactive, isExplicit, created, tokenSteps,
                   destroyVars>>

RequestStep(u) ==
    RecycleOne(u) \/ CreateProducer(u) \/ CreateFails(u) \/ PushProducer(u)

-------------------------------------------------------------------------------
Ready(k) == req[k].pc = "done"

TokenStep ==
    /\ tokenSteps < MaxTokenSteps
    /\ tokenSteps' = tokenSteps + 1

\* The producer of a token: producer->token = &k, if it has one.
OwnToken(field, k, p) == IF p = null THEN field ELSE [field EXCEPT ![p] = k]

\* ProducerToken(queue).
ConstructToken(k) == req[k].pc = "none" /\ TokenStep /\ RecycleOrCreate(k)

\* ProducerToken(ProducerToken&&): k takes over other's producer.
MoveToken(k, other) ==
    /\ TokenStep
    /\ Ready(other) /\ req[k].pc = "none"
    /\ req' = [req EXCEPT ![k] = req[other], ![other].ptr = null]
    /\ token' = OwnToken(token, k, req[other].ptr)
    /\ UNCHANGED <<listFields, producerCount, inactive, isExplicit, created,
                   destroyVars>>

\* swap, which move assignment also is.
SwapTokens(k, other) ==
    /\ TokenStep
    /\ k # other /\ Ready(k) /\ Ready(other)
    /\ req' = [req EXCEPT ![k] = req[other], ![other] = req[k]]
    /\ token' = OwnToken(OwnToken(token, k, req[other].ptr), other, req[k].ptr)
    /\ UNCHANGED <<listFields, producerCount, inactive, isExplicit, created,
                   destroyVars>>

\* ~ProducerToken.  The producer may be recycled from now on.
DestroyToken(k) ==
    /\ Ready(k)
    /\ Request(k, "none", null)
    /\ token' = OwnToken(token, null, req[k].ptr)
    /\ inactive' = IF req[k].ptr = null THEN inactive
                   ELSE [inactive EXCEPT ![req[k].ptr] = TRUE]
    /\ UNCHANGED <<listFields, producerCount, isExplicit, created, tokenSteps,
                   destroyVars>>

TokenNext ==
    \E k \in Tokens :
        \/ ~destroying /\ (ConstructToken(k) \/ RequestStep(k))
        \/ DestroyToken(k)
        \/ \E other \in Tokens : MoveToken(k, other) \/ SwapTokens(k, other)

-------------------------------------------------------------------------------
\* ~ConcurrentQueue begins to walk the list.
DestroyQueue ==
    /\ ~destroying
    /\ destroying' = TRUE
    /\ toDestroy' = producerListTail
    /\ UNCHANGED <<listFields, producerCount, inactive, isExplicit, token, created,
                   req, tokenSteps, destroyed>>

\* Invalidate the token of a producer and destroy the producer.
DestroyProducer ==
    /\ toDestroy # null
    /\ req' = IF token[toDestroy] = null THEN req
              ELSE [req EXCEPT ![token[toDestroy]].ptr = null]
    /\ destroyed' = destroyed \cup {toDestroy}
    /\ toDestroy' = nextProd[toDestroy]
    /\ UNCHANGED <<listFields, producerCount, inactive, isExplicit, token, created,
                   tokenSteps, destroying>>

-------------------------------------------------------------------------------
Pointers == Producers \cup {null}

RequestsOK(r) ==
    /\ r \in [Owners -> [pc : {"none", "scan", "create", "push", "done"},
                         ptr : Pointers]]
    /\ \A u \in Owners : r[u].pc \in {"scan", "push"} => r[u].ptr # null

\* Pointers lead to producers, requests are in one of their stages, and the
\* count of producers (consumers rotate over it) is that of those created.
ProducerListTypeOK ==
    /\ producerListTail \in Pointers
    /\ created \in 0 .. MaxProducers
    /\ producerCount = created
    /\ nextProd \in [Producers -> Pointers]
    /\ inactive \in [Producers -> BOOLEAN]
    /\ isExplicit \in [Producers -> BOOLEAN]
    /\ token \in [Producers -> Tokens \cup {null}]
    /\ RequestsOK(req)
    /\ destroying \in BOOLEAN
    /\ toDestroy \in Pointers
    /\ destroyed \subseteq Producers

\* p was activated or created for u.
Answered(u, p) == req[u].pc \in {"push", "done"} /\ req[u].ptr = p

===============================================================================
