------------------------------- MODULE BlockPool -------------------------------
(* The blocks of a queue and who has them: the array that the constructors      *)
(* preallocate, the free list, the blocks that requisition_block creates, and   *)
(* the producers that take them at a block boundary and give them back.         *)
(* "Preallocation" promises that try_enqueue finds a block while the queue      *)
(* holds fewer than minCapacity elements, which is the constructor's formula    *)
(* against what each kind of producer holds on to.                              *)
(*                                                                              *)
(* The free list is a set (FreeList shows that it loses and duplicates          *)
(* nothing), and a producer has one consumer, which finishes its elements in    *)
(* order: with several, a slow dequeue keeps its block from being used again.   *)
(* Indices into the subqueue do not wrap and no size limit is set.              *)
EXTENDS Integers, Sequences, FiniteSets, FiniteSetsExt, Bitwise

CONSTANTS Explicit, Implicit,           \* the producers of each kind
          MinCapacities,                \* arguments of the constructor
          BLOCK_SIZE,
          EXPLICIT_INITIAL_INDEX_SIZE, IMPLICIT_INITIAL_INDEX_SIZE,
          MaxEnqueued,                  \* elements a producer enqueues
          MemoryCanFail,                \* whether an allocation may fail
          null

Producers == Explicit \cup Implicit

ASSUME PoolAssumption ==
    /\ Explicit \cap Implicit = {}
    /\ MinCapacities \subseteq Nat \ {0} /\ BLOCK_SIZE \in Nat \ {0, 1}
    /\ null \notin Nat

VARIABLES
    minCapacity,                \* the constructor's
    RECYCLE_ALLOCATED_BLOCKS,   \* the trait, either way
    initialBlockPoolSize, initialBlockPoolIndex,
    freeList,
    dynamic,                    \* the created blocks that live
    blocks,                     \* the blocks of a producer, oldest first
    indexSize,                  \* the capacity of its block index
    tailIndex, finished,        \* elements enqueued; dequeued and done with
    releasing,                  \* an emptied block on its way to the free list
    call,                       \* the enqueue in progress
    withinCapacity,             \* the users never asked for more than minCapacity
    phase                       \* of the queue's life

settings == <<RECYCLE_ALLOCATED_BLOCKS, minCapacity, initialBlockPoolSize>>
poolVars == <<settings, initialBlockPoolIndex, freeList, dynamic, blocks,
              indexSize, tailIndex, finished, releasing, call, withinCapacity,
              phase>>

\* Blocks are numbered: the array's first, then the created ones.
DynamicallyAllocated(b) == b >= initialBlockPoolSize

-------------------------------------------------------------------------------
\* ceil_to_pow_2 on a 64-bit word: smear the highest bit of x - 1 to the right.
\* The loop's shifts of 8 bits and more change nothing below 2^8, and 0 wraps
\* around to 0.
ceil_to_pow_2(x) ==
    LET smear(y, n) == y | shiftR(y, n)
    IN  IF x = 0 THEN 0 ELSE smear(smear(smear(x - 1, 1), 2), 4) + 1

\* Variant: full blocks for the explicit producers only.
BlocksTight ==
    ((minCapacity + BLOCK_SIZE - 1) \div BLOCK_SIZE - 1) * Cardinality(Explicit)
        + 2 * Cardinality(Producers)

\* The three-argument constructor's "correct amount of pre-allocated blocks".
BlocksForMinCapacity ==
    ((minCapacity + BLOCK_SIZE - 1) \div BLOCK_SIZE - 1) * (Cardinality(Explicit) + 1)
        + 2 * Cardinality(Producers)

\* The one-argument constructor rounds the capacity up to whole blocks.
BlocksForCapacity(capacity) ==
    capacity \div BLOCK_SIZE + (IF capacity % BLOCK_SIZE = 0 THEN 0 ELSE 1)

\* The README's formula for that argument, with both kinds of producers.
AdvisedCapacity ==
    ((minCapacity + BLOCK_SIZE - 1) \div BLOCK_SIZE - 1) * (Cardinality(Explicit) + 1)
        * BLOCK_SIZE + 2 * Cardinality(Producers) * BLOCK_SIZE

\* populate_initial_block_list: an array that cannot be created has size 0.
populate_initial_block_list(blockCount) ==
    /\ initialBlockPoolSize \in {blockCount} \cup (IF MemoryCanFail THEN {0} ELSE {})
    /\ initialBlockPoolIndex = 0

\* The constructor of ExplicitProducer makes an index for the whole array;
\* new_block_index(0) doubles the size it starts from.
InitialIndexSize(p) ==
    IF p \in Explicit
    THEN 2 * Max({EXPLICIT_INITIAL_INDEX_SIZE \div 2,
                  ceil_to_pow_2(initialBlockPoolSize) \div 2})
    ELSE IMPLICIT_INITIAL_INDEX_SIZE

Idle == [pc |-> "idle", canAlloc |-> FALSE]

Init ==
    /\ RECYCLE_ALLOCATED_BLOCKS \in BOOLEAN
    /\ minCapacity \in MinCapacities
    /\ \/ populate_initial_block_list(BlocksForMinCapacity)
       \/ populate_initial_block_list(BlocksForCapacity(AdvisedCapacity))
    /\ freeList = {} /\ dynamic = {}
    /\ blocks = [p \in Producers |-> <<>>]
    /\ indexSize = [p \in Producers |-> InitialIndexSize(p)]
    /\ tailIndex = [p \in Producers |-> 0]
    /\ finished = [p \in Producers |-> 0]
    /\ releasing = [p \in Producers |-> null]
    /\ call = [p \in Producers |-> Idle]
    /\ withinCapacity = TRUE
    /\ phase = "running"

-------------------------------------------------------------------------------
\* The elements that are enqueued and that no consumer is done with.
Unfinished == MapThenSumSet(LAMBDA p : tailIndex[p] - finished[p], Producers)

Goto(p, pc) == call' = [call EXCEPT ![p].pc = pc]

\* p's enqueue stores the element and returns true.
Stored(p) ==
    /\ tailIndex' = [tailIndex EXCEPT ![p] = @ + 1]
    /\ call' = [call EXCEPT ![p] = Idle]

\* p's enqueue is called; the elements of the calls in progress count.
Called(p) ==
    /\ phase = "running" /\ call[p].pc = "idle" /\ tailIndex[p] < MaxEnqueued
    /\ withinCapacity' = (withinCapacity
           /\ Unfinished + Cardinality({q \in Producers : call[q].pc # "idle"}) < minCapacity)

AtBoundary(p) == tailIndex[p] % BLOCK_SIZE = 0

\* tailBlock->next is the oldest block of an explicit producer's ring.
NextIsEmpty(p) ==
    /\ p \in Explicit /\ blocks[p] # <<>>
    /\ Head(blocks[p]).base + BLOCK_SIZE <= finished[p]

\* enqueue within the tail block.
EnqueueInBlock(p) ==
    /\ Called(p) /\ ~AtBoundary(p)
    /\ Stored(p)
    /\ UNCHANGED <<settings, initialBlockPoolIndex, freeList, dynamic, blocks,
                   indexSize, finished, releasing, phase>>

\* "We can re-use the block ahead of us, it's empty!"
ReuseBlock(p) ==
    /\ Called(p) /\ AtBoundary(p) /\ NextIsEmpty(p)
    /\ blocks' = [blocks EXCEPT ![p] =
                     Append(Tail(@), [block |-> Head(@).block, base |-> tailIndex[p]])]
    /\ Stored(p)
    /\ UNCHANGED <<settings, initialBlockPoolIndex, freeList, dynamic,
                   indexSize, finished, releasing, phase>>

\* A block is needed, and first a slot in the block index: a full one fails
\* try_enqueue, and enqueue grows it.
NeedBlock(p, canAlloc) ==
    /\ Called(p) /\ AtBoundary(p) /\ ~NextIsEmpty(p)
    /\ LET full == Len(blocks[p]) = indexSize[p]
           outcomes == IF ~full THEN {"checkPool"}
                       ELSE IF ~canAlloc THEN {"failed"}
                       ELSE {"checkPool"} \cup (IF MemoryCanFail THEN {"noMemory"} ELSE {})
       IN  \E pc \in outcomes :
               /\ call' = [call EXCEPT ![p] = [pc |-> pc, canAlloc |-> canAlloc]]
               /\ indexSize' = IF full /\ pc = "checkPool"
                               THEN [indexSize EXCEPT ![p] = 2 * @] ELSE indexSize
    /\ UNCHANGED <<settings, initialBlockPoolIndex, freeList, dynamic, blocks,
                   tailIndex, finished, releasing, phase>>

-------------------------------------------------------------------------------
\* requisition_block returns b: the producer links and indexes it and stores its
\* element there.
Got(p, b) ==
    /\ blocks' = [blocks EXCEPT ![p] = Append(@, [block |-> b, base |-> tailIndex[p]])]
    /\ Stored(p)

\* Variant: takes a number without looking whether any are left.
CheckPoolNever(p) ==
    /\ call[p].pc = "checkPool"
    /\ Goto(p, "takeFromPool")
    /\ UNCHANGED <<settings, initialBlockPoolIndex, freeList, dynamic, blocks,
                   indexSize, tailIndex, finished, releasing, phase,
                   withinCapacity>>

\* try_get_block_from_initial_pool: look whether any are left...
CheckPool(p) ==
    /\ call[p].pc = "checkPool"
    /\ Goto(p, IF initialBlockPoolIndex >= initialBlockPoolSize THEN "tryFreeList"
               ELSE "takeFromPool")
    /\ UNCHANGED <<settings, initialBlockPoolIndex, freeList, dynamic, blocks,
                   indexSize, tailIndex, finished, releasing, phase,
                   withinCapacity>>

\* Variant: trusts the look, and not the number it draws.
TakeUnchecked(p) ==
    /\ call[p].pc = "takeFromPool"
    /\ initialBlockPoolIndex' = initialBlockPoolIndex + 1
    /\ Got(p, initialBlockPoolIndex)
    /\ UNCHANGED <<settings, freeList, dynamic, indexSize, finished, releasing,
                   phase, withinCapacity>>

\* ...and draw a number, which may be past the end by now.
TakeFromPool(p) ==
    /\ call[p].pc = "takeFromPool"
    /\ initialBlockPoolIndex' = initialBlockPoolIndex + 1
    /\ IF initialBlockPoolIndex < initialBlockPoolSize
       THEN Got(p, initialBlockPoolIndex)
       ELSE Goto(p, "tryFreeList") /\ UNCHANGED <<blocks, tailIndex>>
    /\ UNCHANGED <<settings, freeList, dynamic, indexSize, finished, releasing,
                   phase, withinCapacity>>

\* A block of the array, or a created one: those of a kind are interchangeable.
AnyOf(bs) ==
    {b \in bs : \A a \in bs : DynamicallyAllocated(a) = DynamicallyAllocated(b) => b <= a}

\* try_get_block_from_free_list; an empty list fails try_enqueue.
TryFreeList(p) ==
    /\ call[p].pc = "tryFreeList"
    /\ \/ \E b \in AnyOf(freeList) : freeList' = freeList \ {b} /\ Got(p, b)
       \/ /\ freeList = {}
          /\ Goto(p, IF call[p].canAlloc THEN "create" ELSE "failed")
          /\ UNCHANGED <<freeList, blocks, tailIndex>>
    /\ UNCHANGED <<settings, initialBlockPoolIndex, dynamic, indexSize,
                   finished, releasing, phase, withinCapacity>>

\* create<Block>(), for enqueue.
CreateBlock(p) ==
    /\ call[p].pc = "create"
    /\ \/ LET b == Min((initialBlockPoolSize .. initialBlockPoolSize + Cardinality(dynamic))
                       \ dynamic)
          IN  dynamic' = dynamic \cup {b} /\ Got(p, b)
       \/ /\ MemoryCanFail
          /\ Goto(p, "noMemory")
          /\ UNCHANGED <<dynamic, blocks, tailIndex>>
    /\ UNCHANGED <<settings, initialBlockPoolIndex, freeList, indexSize,
                   finished, releasing, phase, withinCapacity>>

\* enqueue or try_enqueue returns false.  An implicit producer has taken the
\* block's entry back from its index.
ReturnFalse(p) ==
    /\ call[p].pc \in {"failed", "noMemory"}
    /\ call' = [call EXCEPT ![p] = Idle]
    /\ UNCHANGED <<settings, initialBlockPoolIndex, freeList, dynamic, blocks,
                   indexSize, tailIndex, finished, releasing, phase,
                   withinCapacity>>

-------------------------------------------------------------------------------
\* add_block_to_free_list, for a set of blocks.
AddToFreeList(bs) ==
    LET gone == {b \in bs : ~RECYCLE_ALLOCATED_BLOCKS /\ DynamicallyAllocated(b)}
    IN  /\ dynamic' = dynamic \ gone
        /\ freeList' = freeList \cup (bs \ gone)

\* The consumer is done with an element.  The last one of an implicit
\* producer's block empties the block's index entry...
Finish(p) ==
    /\ phase = "running" /\ finished[p] < tailIndex[p] /\ releasing[p] = null
    /\ IF p \in Implicit /\ (finished[p] + 1) % BLOCK_SIZE = 0
       THEN /\ releasing' = [releasing EXCEPT ![p] = Head(blocks[p]).block]
            /\ blocks' = [blocks EXCEPT ![p] = Tail(@)]
            /\ UNCHANGED finished
       ELSE /\ finished' = [finished EXCEPT ![p] = @ + 1]
            /\ UNCHANGED <<releasing, blocks>>
    /\ UNCHANGED <<settings, initialBlockPoolIndex, freeList, dynamic,
                   indexSize, tailIndex, call, phase, withinCapacity>>

\* ...and then frees the block.
Release(p) ==
    /\ releasing[p] # null
    /\ AddToFreeList({releasing[p]})
    /\ releasing' = [releasing EXCEPT ![p] = null]
    /\ finished' = [finished EXCEPT ![p] = @ + 1]
    /\ UNCHANGED <<settings, initialBlockPoolIndex, blocks, indexSize,
                   tailIndex, call, phase, withinCapacity>>

\* ~ConcurrentQueue, when every call has returned.
BeginDestroying ==
    /\ phase = "running"
    /\ \A p \in Producers : call[p].pc = "idle" /\ releasing[p] = null
    /\ phase' = "destroying"
    /\ UNCHANGED <<settings, initialBlockPoolIndex, freeList, dynamic, blocks,
                   indexSize, tailIndex, finished, releasing, call,
                   withinCapacity>>

\* The destructors of the producers give back the ring, or the blocks from the
\* head's to the tail's.
DestroyProducer(p) ==
    /\ phase = "destroying" /\ blocks[p] # <<>>
    /\ AddToFreeList({blocks[p][i].block : i \in DOMAIN blocks[p]})
    /\ blocks' = [blocks EXCEPT ![p] = <<>>]
    /\ UNCHANGED <<settings, initialBlockPoolIndex, indexSize, tailIndex,
                   finished, releasing, call, phase, withinCapacity>>

\* Destroy the created blocks on the free list, and then the array.
DestroyFreeList ==
    /\ phase = "destroying" /\ \A p \in Producers : blocks[p] = <<>>
    /\ dynamic' = dynamic \ {b \in freeList : DynamicallyAllocated(b)}
    /\ freeList' = {}
    /\ phase' = "destroyed"
    /\ UNCHANGED <<settings, initialBlockPoolIndex, blocks, indexSize,
                   tailIndex, finished, releasing, call, withinCapacity>>

Next ==
    \/ \E p \in Producers :
           \/ EnqueueInBlock(p) \/ ReuseBlock(p)
           \/ \E canAlloc \in BOOLEAN : NeedBlock(p, canAlloc)
           \/ CheckPool(p) \/ TakeFromPool(p) \/ TryFreeList(p) \/ CreateBlock(p)
           \/ ReturnFalse(p)
           \/ Finish(p) \/ Release(p) \/ DestroyProducer(p)
    \/ BeginDestroying \/ DestroyFreeList

Spec == Init /\ [][Next]_poolVars

-------------------------------------------------------------------------------
\* The blocks of the array that nobody has drawn.
Undrawn == initialBlockPoolIndex .. initialBlockPoolSize - 1

Held(p) == {blocks[p][i].block : i \in DOMAIN blocks[p]}

\* The blocks that p has, or is about to give back.
With(p) == Held(p) \cup ({releasing[p]} \ {null})

\* A block is not yet drawn from the array, on the free list, with one producer or
\* being released, never two of these, and none is lost: of the array's blocks, and
\* of the created ones, which the destructor of the queue destroys to the last.
BlockInOnePlace ==
    /\ Undrawn \cap freeList = {}
    /\ \A p \in Producers :
           /\ With(p) \cap (Undrawn \cup freeList) = {}
           /\ \A q \in Producers \ {p} : With(p) \cap With(q) = {}
           /\ \A i, j \in DOMAIN blocks[p] :
                  i # j => blocks[p][i].block # blocks[p][j].block
           /\ releasing[p] \notin Held(p)
    /\ phase # "destroyed"
           => Undrawn \cup freeList \cup UNION {With(p) : p \in Producers}
                  = (0 .. initialBlockPoolSize - 1) \cup dynamic
    /\ phase = "destroyed" => dynamic = {}

\* initialBlockPoolIndex is only ever incremented, by try_get_block_from_initial_
\* pool: it passes the end by at most one for each producer, so that it cannot
\* come round to blocks that are in use.
PoolIndexBounded ==
    initialBlockPoolIndex <= initialBlockPoolSize + Cardinality(Producers)

\* "Preallocation": while the users keep the queue at minCapacity elements or
\* fewer, no try_enqueue fails, if the array was created.
PreallocationSuffices ==
    \A p \in Producers :
        withinCapacity /\ initialBlockPoolSize > 0 => call[p].pc # "failed"

===============================================================================
