------------------------------- MODULE FreeList -------------------------------
(***************************************************************************)
(* FreeList (concurrentqueue.h): the lock-free stack of free blocks.  A    *)
(* node's reference count keeps its next pointer from changing under a     *)
(* caller of try_get; a node added while it is still referenced is linked  *)
(* by whoever drops the last reference.                                    *)
(*                                                                         *)
(* One action is one atomic access.  A node that is not the list's         *)
(* business, because the queue is using the block, is in `out`.            *)
(***************************************************************************)
EXTENDS Integers, FiniteSets

CONSTANTS Nodes, Threads,
          null,
          SHOULD_BE_ON_FREELIST,    \* the top bit of freeListRefs
          MaxCalls                  \* bound: calls made in a behaviour

ASSUME FreeListAssumption ==
    /\ null \notin Nodes
    /\ SHOULD_BE_ON_FREELIST \in Nat \ {0}
    /\ Cardinality(Threads) + 1 < SHOULD_BE_ON_FREELIST
    /\ MaxCalls \in Nat

VARIABLES freeListHead,
          freeListRefs, freeListNext,   \* the fields of each node
          out,                          \* nodes in use outside the list
          pc,
          op,               \* which call a thread is in
          head, refs, next, \* local variables of try_get
          node, linkHead,   \* of add_knowing_refcount_is_zero
          calls             \* calls made so far

fields == <<freeListHead, freeListRefs, freeListNext>>
getLocals == <<head, refs, next>>
linkLocals == <<node, linkHead>>
listVars == <<fields, out, pc, op, getLocals, linkLocals, calls>>

Init ==
    /\ freeListHead = null
    /\ freeListRefs = [n \in Nodes |-> 0]
    /\ freeListNext = [n \in Nodes |-> null]
    /\ out = Nodes
    /\ pc = [t \in Threads |-> "idle"]
    /\ op = [t \in Threads |-> "none"]
    /\ head = [t \in Threads |-> null]
    /\ refs = [t \in Threads |-> 0]
    /\ next = [t \in Threads |-> null]
    /\ node = [t \in Threads |-> null]
    /\ linkHead = [t \in Threads |-> null]
    /\ calls = 0

\* The count without the flag (REFS_MASK), and 32-bit arithmetic on the word.
Count(r) == r % SHOULD_BE_ON_FREELIST
Flagged(r) == r >= SHOULD_BE_ON_FREELIST
Word(r) == r % (2 * SHOULD_BE_ON_FREELIST)

AddRefs(n, k) == freeListRefs' = [freeListRefs EXCEPT ![n] = Word(@ + k)]

Go(t, label) == pc' = [pc EXCEPT ![t] = label]

\* The call returns and its local variables are gone.
Leave(t) ==
    /\ Go(t, "idle")
    /\ op' = [op EXCEPT ![t] = "none"]
    /\ head' = [head EXCEPT ![t] = null]
    /\ refs' = [refs EXCEPT ![t] = 0]
    /\ next' = [next EXCEPT ![t] = null]
    /\ node' = [node EXCEPT ![t] = null]
    /\ linkHead' = [linkHead EXCEPT ![t] = null]

\* The top of try_get's loop: `while (head != nullptr)`.
LoopOrLeave(t, h) ==
    IF h = null
    THEN Leave(t)
    ELSE /\ head' = [head EXCEPT ![t] = h]
         /\ Go(t, "getRefs")
         /\ refs' = [refs EXCEPT ![t] = 0]
         /\ next' = [next EXCEPT ![t] = null]
         /\ node' = [node EXCEPT ![t] = null]
         /\ linkHead' = [linkHead EXCEPT ![t] = null]
         /\ UNCHANGED op

\* add_knowing_refcount_is_zero(n) begins.
BeginLink(t, n) ==
    /\ node' = [node EXCEPT ![t] = n]
    /\ Go(t, "linkLoad")

\* add_knowing_refcount_is_zero returns, to add or into try_get's loop.
EndLink(t) == IF op[t] = "add" THEN Leave(t) ELSE LoopOrLeave(t, head[t])

-------------------------------------------------------------------------------
\* Variant: links the node at once, referenced or not.
AddEagerly(t, n) ==
    /\ pc[t] = "idle" /\ n \in out /\ calls < MaxCalls
    /\ calls' = calls + 1
    /\ out' = out \ {n}
    /\ AddRefs(n, SHOULD_BE_ON_FREELIST)
    /\ BeginLink(t, n) /\ op' = [op EXCEPT ![t] = "add"]
    /\ UNCHANGED <<freeListHead, freeListNext, getLocals, linkHead>>

\* add(n): fetch_add(SHOULD_BE_ON_FREELIST).
Add(t, n) ==
    /\ pc[t] = "idle" /\ n \in out /\ calls < MaxCalls
    /\ calls' = calls + 1
    /\ out' = out \ {n}
    /\ AddRefs(n, SHOULD_BE_ON_FREELIST)
    /\ IF freeListRefs[n] = 0
       THEN BeginLink(t, n) /\ op' = [op EXCEPT ![t] = "add"]
       ELSE UNCHANGED <<pc, op, node>>
    /\ UNCHANGED <<freeListHead, freeListNext, getLocals, linkHead>>

\* add_knowing_refcount_is_zero: load the head.
LinkLoad(t) ==
    /\ pc[t] = "linkLoad"
    /\ linkHead' = [linkHead EXCEPT ![t] = freeListHead]
    /\ Go(t, "linkNext")
    /\ UNCHANGED <<fields, out, op, getLocals, node, calls>>

\* node->freeListNext.store(head).
LinkNext(t) ==
    /\ pc[t] = "linkNext"
    /\ freeListNext' = [freeListNext EXCEPT ![node[t]] = linkHead[t]]
    /\ Go(t, "linkRefs")
    /\ UNCHANGED <<freeListHead, freeListRefs, out, op, getLocals, linkLocals,
                   calls>>

\* node->freeListRefs.store(1).
LinkRefs(t) ==
    /\ pc[t] = "linkRefs"
    /\ freeListRefs' = [freeListRefs EXCEPT ![node[t]] = 1]
    /\ Go(t, "linkCas")
    /\ UNCHANGED <<freeListHead, freeListNext, out, op, getLocals, linkLocals,
                   calls>>

\* Put the node at the head; a failure reloads the head.
LinkCas(t) ==
    /\ pc[t] = "linkCas"
    /\ IF freeListHead = linkHead[t]
       THEN /\ freeListHead' = node[t]
            /\ EndLink(t)
       ELSE /\ linkHead' = [linkHead EXCEPT ![t] = freeListHead]
            /\ Go(t, "linkFailed")
            /\ UNCHANGED <<freeListHead, op, getLocals, node>>
    /\ UNCHANGED <<freeListRefs, freeListNext, out, calls>>

\* Drop our reference and ask to be put on the list later; if nobody else has a
\* reference that is now.
LinkFailed(t) ==
    /\ pc[t] = "linkFailed"
    /\ AddRefs(node[t], SHOULD_BE_ON_FREELIST - 1)
    /\ IF freeListRefs[node[t]] = 1
       THEN Go(t, "linkNext") /\ UNCHANGED <<op, getLocals, linkLocals>>
       ELSE EndLink(t)
    /\ UNCHANGED <<freeListHead, freeListNext, out, calls>>

\* try_get is called.
TryGet(t) ==
    /\ pc[t] = "idle" /\ calls < MaxCalls
    /\ calls' = calls + 1
    /\ Go(t, "getHead")
    /\ op' = [op EXCEPT ![t] = "get"]
    /\ UNCHANGED <<fields, out, getLocals, linkLocals>>

\* head = freeListHead.load(acquire), first and on every retry.
GetHead(t) ==
    /\ pc[t] = "getHead"
    /\ LoopOrLeave(t, freeListHead)
    /\ UNCHANGED <<fields, out, calls>>

\* Variant: looks at the same node again without reloading the head.
GetRefsAgain(t) ==
    /\ pc[t] = "getRefs"
    /\ LET r == freeListRefs[head[t]]
       IN  /\ refs' = [refs EXCEPT ![t] = r]
           /\ Go(t, IF Count(r) = 0 THEN "getRefs" ELSE "getIncrement")
    /\ UNCHANGED <<fields, out, op, head, next, linkLocals, calls>>

\* Load the count of the head and look at it.
GetRefs(t) ==
    /\ pc[t] = "getRefs"
    /\ LET r == freeListRefs[head[t]]
       IN  /\ refs' = [refs EXCEPT ![t] = r]
           /\ Go(t, IF Count(r) = 0 THEN "getHead" ELSE "getIncrement")
    /\ UNCHANGED <<fields, out, op, head, next, linkLocals, calls>>

\* Increment it, unless it changed.
GetIncrement(t) ==
    /\ pc[t] = "getIncrement"
    /\ IF freeListRefs[head[t]] = refs[t]
       THEN AddRefs(head[t], 1) /\ Go(t, "getNext")
       ELSE UNCHANGED freeListRefs /\ Go(t, "getHead")
    /\ UNCHANGED <<freeListHead, freeListNext, out, op, getLocals, linkLocals,
                   calls>>

\* "we can read the next and not worry about it changing".
GetNext(t) ==
    /\ pc[t] = "getNext"
    /\ next' = [next EXCEPT ![t] = freeListNext[head[t]]]
    /\ Go(t, "getCas")
    /\ UNCHANGED <<fields, out, op, head, refs, linkLocals, calls>>

\* Unlink the head.  `node` keeps prevHead; a failure reloads head.
GetCas(t) ==
    /\ pc[t] = "getCas"
    /\ IF freeListHead = head[t]
       THEN /\ freeListHead' = next[t]
            /\ Go(t, "getTaken")
            /\ UNCHANGED <<head, node>>
       ELSE /\ head' = [head EXCEPT ![t] = freeListHead]
            /\ node' = [node EXCEPT ![t] = head[t]]
            /\ Go(t, "getDrop")
            /\ UNCHANGED freeListHead
    /\ UNCHANGED <<freeListRefs, freeListNext, out, op, refs, next, linkHead,
                   calls>>

\* Drop our reference and the list's, and return the node.
GetTaken(t) ==
    /\ pc[t] = "getTaken"
    /\ AddRefs(head[t], -2)
    /\ out' = out \cup {head[t]}
    /\ Leave(t)
    /\ UNCHANGED <<freeListHead, freeListNext, calls>>

\* Drop a reference to prevHead, and link it if `last`.
DropAndLink(t, last) ==
    /\ pc[t] = "getDrop"
    /\ AddRefs(node[t], -1)
    /\ IF last
       THEN BeginLink(t, node[t]) /\ UNCHANGED <<op, getLocals, linkHead>>
       ELSE LoopOrLeave(t, head[t])
    /\ UNCHANGED <<freeListHead, freeListNext, out, calls>>

\* Variant: links a node that should be on the list though others reference it.
GetDropFlagged(t) == DropAndLink(t, Flagged(freeListRefs[node[t]]))

\* Variant: leaves the linking to nobody.
GetDropOnly(t) == DropAndLink(t, FALSE)

\* Drop our reference to prevHead; put it on the list if it should be there
\* and we were the last.
GetDrop(t) ==
    DropAndLink(t, freeListRefs[node[t]] = SHOULD_BE_ON_FREELIST + 1)

\* What a thread does once it has called.
Step(t) ==
    \/ LinkLoad(t) \/ LinkNext(t) \/ LinkRefs(t) \/ LinkCas(t) \/ LinkFailed(t)
    \/ GetHead(t) \/ GetRefs(t) \/ GetIncrement(t) \/ GetNext(t) \/ GetCas(t)
    \/ GetTaken(t) \/ GetDrop(t)

Next ==
    \E t \in Threads :
        \/ \E n \in Nodes : Add(t, n)
        \/ TryGet(t)
        \/ Step(t)

Spec == Init /\ [][Next]_listVars

\* The scheduler runs every thread that is in a call.
FairSpec == Spec /\ \A t \in Threads : WF_listVars(Step(t))

-------------------------------------------------------------------------------
Linking(t) == pc[t] \in {"linkLoad", "linkNext", "linkRefs", "linkCas", "linkFailed"}

\* The nodes on the list: the head and what it leads to.
Listed ==
    LET Reach[k \in 0 .. Cardinality(Nodes)] ==
            IF k = 0 THEN {freeListHead} \ {null}
            ELSE Reach[k - 1]
                 \cup ({freeListNext[n] : n \in Reach[k - 1]} \ {null})
    IN  Reach[Cardinality(Nodes)]

\* A node that was unlinked from the head and is about to be returned.
Taken == {head[t] : t \in {u \in Threads : pc[u] = "getTaken"}}

\* A node in hand: the queue uses it, or a caller is about to return it.  Such
\* a node is not on the list, nobody is linking it, nobody will (its flag is
\* clear: the assert in try_get), and no two callers have it.
NodeInOnePlace ==
    /\ Listed \cap (out \cup Taken) = {}
    /\ out \cap Taken = {}
    /\ \A t \in Threads : Linking(t) => node[t] \notin out \cup Taken \cup Listed
    /\ \A n \in out \cup Taken \cup Listed : ~Flagged(freeListRefs[n])
    /\ \A s, t \in Threads :
           s # t /\ pc[s] = "getTaken" /\ pc[t] = "getTaken" => head[s] # head[t]

\* add_knowing_refcount_is_zero runs once per node at a time ("we run only one
\* copy of this method per node at a time").
OneLinkerPerNode ==
    \A s, t \in Threads : s # t /\ Linking(s) /\ Linking(t) => node[s] # node[t]

\* When try_get's compare-and-swap on the head is going to succeed, the next
\* pointer it read is still the node's next: the head is not a node that left
\* the list and came back.
NextStillValid ==
    \A t \in Threads :
        pc[t] = "getCas" /\ freeListHead = head[t]
            => next[t] = freeListNext[head[t]]

\* No node is lost: with no call in progress each is on the list or in use, and
\* the reference counts are the list's own references.
NoNodeLost ==
    (\A t \in Threads : pc[t] = "idle")
        => /\ Listed = Nodes \ out
           /\ \A n \in Nodes : freeListRefs[n] = IF n \in out THEN 0 ELSE 1

\* The retry loops end: if calls stop coming, every call returns.
CallsReturn == <>[](\A t \in Threads : pc[t] = "idle")

===============================================================================
