------------------------- MODULE ImplicitProducerHash -------------------------
(***************************************************************************)
(* From a thread to its implicit producer (concurrentqueue.h): the hash    *)
(* tables keyed by thread id, get_or_add_implicit_producer with the        *)
(* resizing of the table, what happens when a thread exits, and what the   *)
(* queue's destructor does about threads that have not.                    *)
(*                                                                         *)
(* Table k + 1 was allocated when table k, its prev, had become too small. *)
(* A slot holds a thread id, invalid (never used) or invalid2 (its thread  *)
(* has exited).  One action is one access to shared memory, except that a  *)
(* search for the caller's own id is one step: no other thread writes that *)
(* id, and a slot once used is never invalid again.                        *)
(***************************************************************************)
EXTENDS ProducerList, Sequences

CONSTANTS INITIAL_IMPLICIT_PRODUCER_HASH_SIZE,
          hashedId,         \* hash_thread_id of each thread's id
          invalid, invalid2,
          MaxCalls,         \* bound: calls of get_or_add_implicit_producer,
                            \* and tokens constructed, moved and swapped
          ExitDuringDestroy \* may threads exit while the queue is destroyed?

ASSUME HashAssumption ==
    /\ INITIAL_IMPLICIT_PRODUCER_HASH_SIZE \in Nat \ {0}
    /\ hashedId \in [Threads -> Nat]
    /\ {invalid, invalid2} \cap Threads = {}
    /\ invalid # invalid2
    /\ MaxCalls \in Nat
    /\ ExitDuringDestroy \in BOOLEAN

VARIABLES tables,                       \* the last one is implicitProducerHash
          implicitProducerHashCount,
          implicitProducerHashResizeInProgress,
          call,                         \* call[t]: t's call and its variables
          mine,                         \* what t's calls returned so far
          calls,
          \* ThreadExitNotifier
          mutex,                        \* the exiting thread that holds it
          chain                         \* chain[t]: the listeners of thread t,
                                        \* whose order is left open

tableVars == <<tables, implicitProducerHashCount, implicitProducerHashResizeInProgress>>
exitVars == <<mutex, chain>>
hashVars == <<producerListVars, tableVars, call, mine, calls, exitVars>>

NewTable(capacity) ==
    [key |-> [i \in 0 .. (capacity - 1) |-> invalid],
     value |-> [i \in 0 .. (capacity - 1) |-> null]]

Idle == [pc |-> "idle", mainHash |-> 0, index |-> 0, newCount |-> 0,
         producer |-> null]

Init ==
    /\ ProducerListInit
    /\ tables = <<NewTable(INITIAL_IMPLICIT_PRODUCER_HASH_SIZE)>>
    /\ implicitProducerHashCount = 0
    /\ implicitProducerHashResizeInProgress = FALSE
    /\ call = [t \in Threads |-> Idle]
    /\ mine = [t \in Threads |-> null]
    /\ calls = 0
    /\ mutex = null
    /\ chain = [t \in Threads |-> {}]

Capacity(k) == Cardinality(DOMAIN tables[k].key)

\* The slot j places after the one that t's id hashes to.
Slot(k, t, j) == (hashedId[t] + j) % Capacity(k)

\* t's id is met in table k before a slot that was never used.
Found(k, t) ==
    \E j \in 0 .. (Capacity(k) - 1) :
        /\ tables[k].key[Slot(k, t, j)] = t
        /\ \A i \in 0 .. (j - 1) : tables[k].key[Slot(k, t, i)] # invalid

\* The slot of t in table k.
SlotOf(k, t) == CHOOSE i \in DOMAIN tables[k].key : tables[k].key[i] = t

\* Any probing of table k comes to an end.
FreeSlot(k) == \E i \in DOMAIN tables[k].key : tables[k].key[i] = invalid

Step(t, pc) == call' = [call EXCEPT ![t].pc = pc]

\* The call returns p.
Return(t, p) ==
    /\ call' = [call EXCEPT ![t] = Idle]
    /\ mine' = IF p = null THEN mine ELSE [mine EXCEPT ![t] = p]

-------------------------------------------------------------------------------
\* t calls get_or_add_implicit_producer, within the bound and not too late.
CallBegins(t) ==
    /\ call[t].pc = "idle"
    /\ calls + tokenSteps < MaxCalls
    /\ calls' = calls + 1
    /\ ~destroying

\* The call begins with main as its mainHash and finds t in the tables ks.
LookUp(t, main, ks) ==
    IF ks = {}
    THEN /\ call' = [call EXCEPT ![t].pc = "count", ![t].mainHash = main]
         /\ UNCHANGED mine
    ELSE LET k == CHOOSE k \in ks : \A l \in ks : l <= k
             p == tables[k].value[SlotOf(k, t)]
         IN  IF k = main
             THEN Return(t, p)
             ELSE /\ call' = [call EXCEPT ![t] = [pc |-> "readd", mainHash |-> main,
                                index |-> hashedId[t], newCount |-> 0,
                                producer |-> p]]
                  /\ UNCHANGED mine

\* Variant: does not look into older tables.
GetOrAddMainOnly(t) ==
    /\ CallBegins(t)
    /\ LET main == Len(tables)
       IN  LookUp(t, main, {k \in {main} : Found(k, t)})
    /\ UNCHANGED <<producerListVars, tableVars, exitVars>>

\* get_or_add_implicit_producer: load the current table and search it and its
\* predecessors.
GetOrAdd(t) ==
    /\ CallBegins(t)
    /\ \A k \in DOMAIN tables : Found(k, t) \/ FreeSlot(k)
    /\ LET main == Len(tables)
       IN  LookUp(t, main, {k \in 1 .. main : Found(k, t)})
    /\ UNCHANGED <<producerListVars, tableVars, exitVars>>

\* Put t's id, and its producer, into slot i of table k.
Occupy(k, i, t) ==
    tables' = [tables EXCEPT ![k].key[i] = t,
                             ![k].value[i] = call[t].producer]

\* Found in an older table: one round of the loop that adds it to mainHash.
ReAdd(t) ==
    /\ call[t].pc = "readd"
    /\ LET k == call[t].mainHash
           i == call[t].index % Capacity(k)
       IN  IF tables[k].key[i] \in {invalid, invalid2}
           THEN /\ Occupy(k, i, t)
                /\ Return(t, call[t].producer)
           ELSE /\ call' = [call EXCEPT ![t].index = i + 1]
                /\ UNCHANGED <<tables, mine>>
    /\ UNCHANGED <<producerListVars, implicitProducerHashCount,
                   implicitProducerHashResizeInProgress, calls, exitVars>>

\* Insert: newCount = 1 + implicitProducerHashCount.fetch_add(1).
CountUp(t) ==
    /\ call[t].pc = "count"
    /\ implicitProducerHashCount' = implicitProducerHashCount + 1
    /\ call' = [call EXCEPT ![t].pc = "resize?", ![t].newCount = implicitProducerHashCount']
    /\ UNCHANGED <<producerListVars, tables, implicitProducerHashResizeInProgress,
                   mine, calls, exitVars>>

\* Variant: a table may be filled.
HasRoomFull(k, newCount) == newCount <= Capacity(k)

\* "If it's < three-quarters full, add to the old one anyway".
HasRoom(k, newCount) ==
    newCount < (Capacity(k) \div 2) + (Capacity(k) \div 4)

\* After the attempt to resize: go on with table k, or wait for another one.
GoOnWith(t, k) ==
    call' = [call EXCEPT ![t].mainHash = k,
                         ![t].pc = IF HasRoom(k, call[t].newCount)
                                   THEN "producer" ELSE "reload"]

TooSmall(k, newCount) == newCount >= Capacity(k) \div 2

\* The top of the loop: take the resize lock if the table is too small.
TryResize(t) ==
    /\ call[t].pc = "resize?"
    /\ LET k == call[t].mainHash
       IN  IF TooSmall(k, call[t].newCount) /\ ~implicitProducerHashResizeInProgress
           THEN /\ implicitProducerHashResizeInProgress' = TRUE
                /\ Step(t, "resize")
           ELSE /\ GoOnWith(t, k)
                /\ UNCHANGED implicitProducerHashResizeInProgress
    /\ UNCHANGED <<producerListVars, tables, implicitProducerHashCount, mine, calls,
                   exitVars>>

\* newCapacity: doubled until newCount is below half of it.
GrownCapacity(capacity, newCount) ==
    LET doublings == {n \in 1 .. (newCount + 1) : newCount < (capacity * 2^n) \div 2}
    IN  capacity * 2^(CHOOSE n \in doublings : \A m \in doublings : n <= m)

\* With the lock: reload the table and replace it if it is still too small.
Resize(t) ==
    /\ call[t].pc = "resize"
    /\ LET k == Len(tables)
           newCount == call[t].newCount
       IN  IF TooSmall(k, newCount)
           THEN /\ tables' = Append(tables, NewTable(GrownCapacity(Capacity(k), newCount)))
                /\ call' = [call EXCEPT ![t].pc = "unlock", ![t].mainHash = k + 1]
           ELSE /\ call' = [call EXCEPT ![t].pc = "unlock", ![t].mainHash = k]
                /\ UNCHANGED tables
    /\ UNCHANGED <<producerListVars, implicitProducerHashCount,
                   implicitProducerHashResizeInProgress, mine, calls, exitVars>>

CountDown == implicitProducerHashCount' = implicitProducerHashCount - 1

\* Allocation of the new table fails.
ResizeFails(t) ==
    /\ call[t].pc = "resize"
    /\ MemoryCanFail
    /\ TooSmall(Len(tables), call[t].newCount)
    /\ CountDown
    /\ Step(t, "give up")
    /\ UNCHANGED <<producerListVars, tables, implicitProducerHashResizeInProgress,
                   mine, calls, exitVars>>

\* Variant: returns with the lock held.
GiveUpLocked(t) ==
    /\ call[t].pc = "give up"
    /\ Return(t, null)
    /\ UNCHANGED <<producerListVars, tables, implicitProducerHashCount, calls,
                   implicitProducerHashResizeInProgress, exitVars>>

\* Release the lock and return nullptr.
GiveUp(t) ==
    /\ call[t].pc = "give up"
    /\ implicitProducerHashResizeInProgress' = FALSE
    /\ Return(t, null)
    /\ UNCHANGED <<producerListVars, tables, implicitProducerHashCount, calls,
                   exitVars>>

\* Release the lock and go on.
Unlock(t) ==
    /\ call[t].pc = "unlock"
    /\ implicitProducerHashResizeInProgress' = FALSE
    /\ GoOnWith(t, call[t].mainHash)
    /\ UNCHANGED <<producerListVars, tables, implicitProducerHashCount, mine, calls,
                   exitVars>>

\* "somebody else is busy allocating a new one": look again.
Reload(t) ==
    /\ call[t].pc = "reload"
    /\ call' = [call EXCEPT ![t].pc = "resize?", ![t].mainHash = Len(tables)]
    /\ UNCHANGED <<producerListVars, tableVars, mine, calls, exitVars>>

\* recycle_or_create_producer(false).
AskForProducer(t) ==
    /\ call[t].pc = "producer"
    /\ RecycleOrCreate(t)
    /\ Step(t, "asked")
    /\ UNCHANGED <<tokenSteps, tableVars, mine, calls, exitVars>>

SearchProducer(t) ==
    /\ RequestStep(t)
    /\ UNCHANGED <<tableVars, call, mine, calls, exitVars>>

\* There is no memory for a producer.
NoProducer(t) ==
    /\ call[t].pc = "asked"
    /\ req[t].pc = "done" /\ req[t].ptr = null
    /\ req' = [req EXCEPT ![t] = NoRequest]
    /\ CountDown
    /\ Return(t, null)
    /\ UNCHANGED <<listFields, producerCount, inactive, isExplicit, token, created,
                   tokenSteps, tables, implicitProducerHashResizeInProgress, calls,
                   exitVars, destroyVars>>

\* ThreadExitNotifier::subscribe.
Subscribe(t) ==
    /\ call[t].pc = "asked"
    /\ req[t].pc = "done" /\ req[t].ptr # null
    /\ mutex = null
    /\ chain' = [chain EXCEPT ![t] = @ \cup {req[t].ptr}]
    /\ call' = [call EXCEPT ![t].pc = "insert", ![t].index = hashedId[t],
                            ![t].producer = req[t].ptr]
    /\ UNCHANGED <<producerListVars, tableVars, mine, calls, mutex>>

\* One round of the loop that takes a slot of mainHash.
Insert(t) ==
    /\ call[t].pc = "insert"
    /\ LET k == call[t].mainHash
           i == call[t].index % Capacity(k)
       IN  \/ /\ tables[k].key[i] = invalid2
              /\ Occupy(k, i, t)
              /\ Step(t, "uncount")
              /\ UNCHANGED mine
           \/ /\ tables[k].key[i] = invalid
              /\ Occupy(k, i, t)
              /\ Return(t, call[t].producer)
           \/ /\ tables[k].key[i] \in Threads
              /\ call' = [call EXCEPT ![t].index = i + 1]
              /\ UNCHANGED <<tables, mine>>
    /\ UNCHANGED <<producerListVars, implicitProducerHashCount,
                   implicitProducerHashResizeInProgress, calls, exitVars>>

\* The slot was "already counted as a used slot".
Uncount(t) ==
    /\ call[t].pc = "uncount"
    /\ CountDown
    /\ Return(t, call[t].producer)
    /\ UNCHANGED <<producerListVars, tables, implicitProducerHashResizeInProgress,
                   calls, exitVars>>

-------------------------------------------------------------------------------
\* Thread t ends: ~ThreadExitNotifier takes the mutex and walks its listeners.
Exit(t) ==
    /\ call[t].pc = "idle"
    /\ mutex = null
    /\ toDestroy = null \/ ExitDuringDestroy
    /\ mutex' = t
    /\ \E p \in chain[t] :
           call' = [call EXCEPT ![t].pc = "leave", ![t].mainHash = Len(tables),
                                ![t].producer = p]
    /\ UNCHANGED <<producerListVars, tableVars, mine, calls, chain>>

\* implicit_producer_thread_exited, table by table: t's slot becomes a tombstone.
Bury(t) ==
    /\ call[t].pc = "leave"
    /\ LET k == call[t].mainHash
       IN  /\ Found(k, t) \/ FreeSlot(k)
           /\ tables' = IF Found(k, t)
                        THEN [tables EXCEPT ![k].key[SlotOf(k, t)] = invalid2]
                        ELSE tables
           /\ call' = [call EXCEPT ![t].mainHash = k - 1,
                                   ![t].pc = IF k = 1 THEN "inactive" ELSE "leave"]
    /\ UNCHANGED <<producerListVars, implicitProducerHashCount,
                   implicitProducerHashResizeInProgress, mine, calls, exitVars>>

\* "Mark the queue as being recyclable".
MarkInactive(t) ==
    /\ call[t].pc = "inactive"
    /\ inactive' = [inactive EXCEPT ![call[t].producer] = TRUE]
    /\ req' = [req EXCEPT ![t] = NoRequest]
    /\ mine' = [mine EXCEPT ![t] = null]
    /\ Step(t, "left")
    /\ UNCHANGED <<listFields, producerCount, isExplicit, token, created, tokenSteps,
                   tableVars, calls, exitVars, destroyVars>>

\* ptr = ptr->next was the last listener; the notifier is gone.  From here on t
\* is another thread, which got the same id.
Gone(t) ==
    /\ call[t].pc = "left"
    /\ chain' = [chain EXCEPT ![t] = @ \ {call[t].producer}]
    /\ mutex' = null
    /\ call' = [call EXCEPT ![t] = Idle]
    /\ UNCHANGED <<producerListVars, tableVars, mine, calls>>

\* ~ConcurrentQueue, when the calls of threads and tokens have returned.
BeginDestroying ==
    /\ \A k \in Tokens : req[k].pc \in {"none", "done"}
    /\ \A t \in Threads : \/ call[t].pc = "idle"
                          \/ ExitDuringDestroy /\ mutex = t
    /\ DestroyQueue
    /\ UNCHANGED <<tableVars, call, mine, calls, exitVars>>

\* ThreadExitNotifier::unsubscribe.
Unsubscribed(p) == [t \in Threads |-> chain[t] \ {p}]

\* Variant: ~ImplicitProducer stays subscribed.
DestroySubscribed ==
    /\ DestroyProducer
    /\ UNCHANGED <<tableVars, call, mine, calls, exitVars>>

\* The destructor of an implicit producer unsubscribes it if it is still active.
DestroyImplicit ==
    /\ DestroyProducer
    /\ IF isExplicit[toDestroy] \/ inactive[toDestroy]
       THEN UNCHANGED chain
       ELSE mutex = null /\ chain' = Unsubscribed(toDestroy)
    /\ UNCHANGED <<tableVars, call, mine, calls, mutex>>

\* The steps of a thread that has called, or is exiting.
ThreadStep(t) ==
    \/ ReAdd(t) \/ CountUp(t) \/ TryResize(t) \/ Resize(t) \/ ResizeFails(t)
    \/ GiveUp(t) \/ Unlock(t) \/ Reload(t) \/ AskForProducer(t)
    \/ SearchProducer(t) \/ NoProducer(t) \/ Subscribe(t) \/ Insert(t)
    \/ Uncount(t) \/ Bury(t) \/ MarkInactive(t) \/ Gone(t)

\* Tokens come and go beside the threads.
TokensBeside ==
    /\ TokenNext
    /\ calls + tokenSteps' <= MaxCalls
    /\ UNCHANGED <<tableVars, call, mine, calls, exitVars>>

Next ==
    \/ \E t \in Threads : GetOrAdd(t) \/ ThreadStep(t) \/ Exit(t)
    \/ TokensBeside
    \/ BeginDestroying \/ DestroyImplicit

Spec == Init /\ [][Next]_hashVars

\* The scheduler runs every thread that is in a call or exiting.
FairSpec == Spec /\ \A t \in Threads : WF_hashVars(ThreadStep(t))

-------------------------------------------------------------------------------
\* Two threads never enqueue into one sub-queue, nor a thread and a token: a
\* producer is activated for one owner at a time, of its own kind, and all slots
\* of a thread lead to the producer activated for it.  A thread that got the id
\* of one that has exited therefore finds nothing of its predecessor's.
OneOwnerPerProducer ==
    /\ \A u, v \in Owners : \A p \in Producers :
           Answered(u, p) => /\ ~inactive[p]
                             /\ isExplicit[p] = (u \in Tokens)
                             /\ Answered(v, p) => u = v
    /\ \A k \in DOMAIN tables : \A i \in DOMAIN tables[k].key :
           LET t == tables[k].key[i]
           IN  t \in Threads => Answered(t, tables[k].value[i])

\* get_or_add_implicit_producer gives a thread the same producer until it exits,
\* whatever tables come and go: its elements stay in one sub-queue, in order.
SameProducer ==
    [][\A t \in Threads :
           mine[t] # null => mine'[t] = mine[t] \/ call[t].pc = "inactive"]_hashVars

\* The probing loops end "because at least one slot is free in the hash table":
\* lookups run into it, insertions find it.
FreeSlotRemains == \A k \in DOMAIN tables : FreeSlot(k)

\* The slots of the current table that are in use are all counted, also those
\* of threads it took over from older tables: "every subsequent table implicitly
\* reserves space for all previous tables".  It does not hold: see README.md.
CountCoversTable ==
    LET key == tables[Len(tables)].key
    IN  Cardinality({i \in DOMAIN key : key[i] # invalid}) <= implicitProducerHashCount

\* Nobody is left with a pointer into a destroyed queue: no thread will notify,
\* and no token still names, a producer that the queue's destructor destroyed.
NothingDangles ==
    /\ \A t \in Threads : chain[t] \cap destroyed = {}
    /\ \A k \in Tokens : req[k].ptr \notin destroyed

Exiting == {"leave", "inactive", "left"}
Holding == {"push", "done"}

\* c gives each thread a record like Idle.
CallsOK(c) ==
    /\ c = [t \in Threads |-> c[t]]
    /\ \A t \in Threads : c[t] = [f \in DOMAIN Idle |-> c[t][f]]

\* Calls are records, listeners are producers, and threads hold the mutex.
TypeOK ==
    /\ ProducerListTypeOK
    /\ CallsOK(call)
    /\ mutex \in Threads \cup {null}
    /\ chain \in [Threads -> SUBSET Producers]

\* A thread that exits has the notifier's mutex from before its producer can be
\* recycled until the listener is gone: only such a thread has an inactive one.
Listeners ==
    /\ \A t \in Threads :
           /\ call[t].pc \in Exiting => mutex = t /\ call[t].producer \in chain[t]
           /\ \A p \in chain[t] :
                  /\ p <= created /\ ~isExplicit[p]
                  /\ inactive[p] => call[t].pc = "left" /\ call[t].producer = p
    /\ \A s, t \in Threads : s # t => chain[s] \cap chain[t] = {}

\* A thread that is about to subscribe has a producer of its own, which at most
\* an exiting thread still listens for.
Subscribers ==
    \A t \in Threads :
        /\ req[t].pc \in {"scan", "create", "push"} => call[t].pc = "asked"
        /\ call[t].pc = "asked" /\ req[t].pc \in Holding /\ req[t].ptr # null
               => /\ req[t].ptr <= created
                  /\ ~inactive[req[t].ptr] /\ ~isExplicit[req[t].ptr]
                  /\ \A s \in Threads :
                         /\ req[t].ptr \in chain[s]
                                => call[s].pc = "left" /\ call[s].producer = req[t].ptr
                         /\ s # t /\ call[s].pc = "asked" /\ req[s].pc \in Holding
                                => req[s].ptr # req[t].ptr

\* A token has a producer of its own, which names the token.
TokenOwners ==
    \A k \in Tokens :
        /\ req[k].pc = "none" => req[k].ptr = null
        /\ req[k].pc \in Holding /\ req[k].ptr # null
               => /\ req[k].ptr <= created
                  /\ ~inactive[req[k].ptr] /\ isExplicit[req[k].ptr]
                  /\ req[k].pc = "done" => token[req[k].ptr] = k
                  /\ \A j \in Tokens :
                         j # k /\ req[j].pc \in Holding => req[j].ptr # req[k].ptr

\* The destructor meets no call in progress, and no exiting thread.
Undisturbed ==
    /\ ~destroying => toDestroy = null /\ destroyed = {}
    /\ \A t \in Threads : destroying => call[t].pc \in {"idle"} \cup Exiting
    /\ \A t \in Threads : toDestroy # null => call[t].pc = "idle"
    /\ \A k \in Tokens : destroying => req[k].pc \in {"none", "done"}
    /\ \A p \in Producers : inactive[p] => p <= created

\* What NothingDangles rests on: the destructor leaves inactive listeners and
\* tokens that are not named alone, and there are none.
DestructionInvariant == Listeners /\ Subscribers /\ TokenOwners /\ Undisturbed

\* Whoever waits for a larger table gets it, or the lock to make one: if calls
\* stop coming, every call returns, and threads that began to exit are gone.
CallsReturn == <>[](\A t \in Threads : call[t].pc = "idle")

===============================================================================
