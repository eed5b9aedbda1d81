---------------------------- MODULE ExplicitProducer ----------------------------
(***************************************************************************)
(* One ExplicitProducer of concurrentqueue.h: the ring of blocks, the      *)
(* circular block index through which consumers find the block of an       *)
(* element, and the single and bulk operations on them.                    *)
(*                                                                         *)
(* How a consumer claims its elements is the subject of ProducerBase, and  *)
(* is proved there to implement SubQueue; here a claim is SubQueue's Take. *)
(* An element is known by the unwrapped index it was enqueued at.          *)
(***************************************************************************)
EXTENDS CircularIndex, Sequences, FiniteSets

CONSTANTS
    Consumers,
    Blocks,             \* every block the pool and malloc can supply
    null,
    FirstIndex,         \* index of the first element enqueued in the model
    InitialIndexSize,   \* EXPLICIT_INITIAL_INDEX_SIZE
    MAX_SUBQUEUE_SIZE,
    Unlimited,          \* const_numeric_max<size_t>
    AllocModes,         \* the allocation modes callers use
    MemoryCanFail,      \* malloc may return nullptr
    MayThrow,           \* T's constructor is not noexcept
    BulkCounts,         \* sizes of bulk enqueues
    DequeueCounts,      \* numbers of elements a dequeue claims
    MaxEnqueued         \* bound: elements enqueued in a behaviour

ASSUME ExplicitAssumption ==
    /\ FirstIndex \in Nat /\ FirstIndex % BLOCK_SIZE = 0
    /\ InitialIndexSize \in Nat \ {0, 1}
    /\ AllocModes \subseteq {"CanAlloc", "CannotAlloc"}
    /\ {MemoryCanFail, MayThrow} \subseteq BOOLEAN
    /\ null \notin Blocks

VARIABLES
    tailIndex, headIndex,
    tailBlock,          \* producer's current block, or null
    blockNext,          \* Block::next; null for a block not in the ring
    emptyFlags,         \* emptyFlags[b]: offsets whose flag is set
    elements,           \* elements[b][o]: index of the live element there, or null
    headers,            \* every BlockIndexHeader allocated; blockIndex is the last
    slotsUsed,          \* pr_blockIndexSlotsUsed
    indexFront,         \* pr_blockIndexFront
    enq,                \* the producer's call in progress
    deq                 \* deq[c]: c's call in progress

ring == <<tailBlock, blockNext, emptyFlags>>
index == <<headers, slotsUsed, indexFront>>
vars == <<tailIndex, headIndex, ring, elements, index, enq, deq>>

-------------------------------------------------------------------------------
\* Blocks and the block index.

Offsets == 0 .. BLOCK_SIZE - 1

\* Variant: one flag stands for the block.
IsEmptyAnyFlag(b) == emptyFlags[b] # {}

is_empty(b) == emptyFlags[b] = Offsets

\* The block k links after b.
Ahead(b, k) ==
    LET walk[i \in Nat] == IF i = 0 THEN b ELSE blockNext[walk[i - 1]]
    IN  walk[k]

\* The blocks of the ring from a to b, in the direction of the links.
Between(a, b) ==
    LET n == CHOOSE k \in 0 .. Cardinality(Blocks) :
                 /\ Ahead(a, k) = b
                 /\ \A j \in 0 .. k - 1 : Ahead(a, j) # b
    IN  {Ahead(a, j) : j \in 0 .. n}

Owned == {b \in Blocks : blockNext[b] # null}

BlockIndex == headers[Len(headers)]
IndexSize == IF headers = <<>> THEN InitialIndexSize \div 2 ELSE BlockIndex.size

NoEntry == [base |-> 0, block |-> null]

\* Memory just obtained from malloc holds no entry.
Entries(size) == [i \in 0 .. size - 1 |-> NoEntry]

NeedsIndex == headers = <<>> \/ slotsUsed = IndexSize

\* Variant: copies the entries from slot 0 on, not from the oldest used one.
NewBlockIndexUnrotated(exposed) ==
    [size    |-> 2 * IndexSize,
     front   |-> exposed - 1,
     entries |-> [i \in 0 .. 2 * IndexSize - 1 |->
                     IF i < slotsUsed THEN BlockIndex.entries[i] ELSE NoEntry]]

\* new_block_index: twice the slots, the used entries copied to the front.
new_block_index(exposed) ==
    LET old(j) == BlockIndex.entries[(indexFront - slotsUsed + j) % IndexSize]
    IN  [size    |-> 2 * IndexSize,
         front   |-> exposed - 1,
         entries |-> [i \in 0 .. 2 * IndexSize - 1 |->
                         IF i < slotsUsed THEN old(i) ELSE NoEntry]]

IndexOrGrown(exposed) ==
    IF NeedsIndex THEN Append(headers, new_block_index(exposed)) ELSE headers

FrontOrGrown == IF NeedsIndex THEN slotsUsed ELSE indexFront

WithEntry(hs, slot, base, b) ==
    [hs EXCEPT ![Len(hs)].entries[slot] = [base |-> Wrap(base), block |-> b]]

\* A block starting at current would let the tail lap the head, or exceed the
\* sub-queue's size limit.
Full(head, current) ==
    \/ ~circular_less_than(head, current + BLOCK_SIZE)
    \/ /\ MAX_SUBQUEUE_SIZE # Unlimited
       /\ \/ MAX_SUBQUEUE_SIZE = 0
          \/ Wrap(current - head) > MAX_SUBQUEUE_SIZE - BLOCK_SIZE

\* A relaxed load of headIndex sees some value it had.
HeadsSeen == FirstIndex .. headIndex

\* requisition_block: a block from the pool or the heap, or null.
requisition_block(mode) ==
    (Blocks \ Owned) \cup
        (IF MemoryCanFail \/ mode = "CannotAlloc" THEN {null} ELSE {})

\* Links b after the tail block.
Inserted(b) ==
    IF tailBlock = null
    THEN [blockNext EXCEPT ![b] = b]
    ELSE [blockNext EXCEPT ![b] = blockNext[tailBlock], ![tailBlock] = b]

-------------------------------------------------------------------------------
(***************************************************************************)
(* Initially the producer is new: no blocks, and an index unless malloc    *)
(* failed in the constructor.  With FirstIndex > 0 it has enqueued and     *)
(* dequeued FirstIndex elements one at a time: one block, reused each time *)
(* round, whose entries fill the index.                                    *)
(***************************************************************************)
NoEnqueue == [pc |-> "idle", kind |-> "single", count |-> 0, mode |-> "CanAlloc",
              startBlock |-> null, firstAllocated |-> null, current |-> 0,
              originalFront |-> 0, originalSlotsUsed |-> 0]

NoDequeue == [pc |-> "idle", index |-> 0, end |-> 0, header |-> 0, front |-> 0,
              slot |-> 0, block |-> null]

NewIndex == [size |-> InitialIndexSize, front |-> -1,
             entries |-> Entries(InitialIndexSize)]

InitNew ==
    /\ tailBlock = null
    /\ blockNext = [b \in Blocks |-> null]
    /\ emptyFlags = [b \in Blocks |-> {}]
    /\ headers \in {<<NewIndex>>} \cup (IF MemoryCanFail THEN {<<>>} ELSE {})
    /\ slotsUsed = 0
    /\ indexFront = 0

InitUsed ==
    LET used == FirstIndex \div BLOCK_SIZE
        lastUse(i) == CHOOSE k \in used - InitialIndexSize .. used - 1 :
                          k % InitialIndexSize = i
    IN  \E b \in Blocks :
          /\ tailBlock = b
          /\ blockNext = [x \in Blocks |-> IF x = b THEN b ELSE null]
          /\ emptyFlags = [x \in Blocks |-> IF x = b THEN Offsets ELSE {}]
          /\ headers = <<[size |-> InitialIndexSize,
                          front |-> (used - 1) % InitialIndexSize,
                          entries |-> [i \in 0 .. InitialIndexSize - 1 |->
                              IF lastUse(i) >= 0
                              THEN [base |-> Wrap(lastUse(i) * BLOCK_SIZE), block |-> b]
                              ELSE NoEntry]]>>
          /\ slotsUsed = 1
          /\ indexFront = used % InitialIndexSize

Init ==
    /\ tailIndex = FirstIndex
    /\ headIndex = FirstIndex
    /\ IF FirstIndex = 0 THEN InitNew ELSE InitUsed
    /\ elements = [b \in Blocks |-> [o \in Offsets |-> null]]
    /\ enq = NoEnqueue
    /\ deq = [c \in Consumers |-> NoDequeue]

-------------------------------------------------------------------------------
(***************************************************************************)
(* The producer's thread.  The steps that other threads can see are apart: *)
(* reading a block's emptiness, storing an index, an entry, the front, the *)
(* tail.  What only the producer reads changes along with them.            *)
(***************************************************************************)
CanEnqueue(n) == enq.pc = "idle" /\ tailIndex + n <= FirstIndex + MaxEnqueued

\* A noexcept constructor runs after the index is published, others before.
AfterBlocks(kind) ==
    IF MayThrow THEN "construct" ELSE IF kind = "single" THEN "entry" ELSE "front"

\* enqueue, in the middle of the tail block.
EnqueueInBlock(mode) ==
    /\ CanEnqueue(1)
    /\ BlockOffset(tailIndex) # 0
    /\ enq' = [NoEnqueue EXCEPT !.pc = "construct", !.count = 1, !.mode = mode,
                                !.startBlock = tailBlock, !.originalFront = indexFront,
                                !.originalSlotsUsed = slotsUsed]
    /\ UNCHANGED <<tailIndex, headIndex, ring, elements, index, deq>>

EnqueueStarted(mode, b, front) ==
    [NoEnqueue EXCEPT !.pc = AfterBlocks("single"), !.count = 1, !.mode = mode,
                      !.startBlock = tailBlock, !.firstAllocated = b,
                      !.originalFront = front, !.originalSlotsUsed = slotsUsed]

NextBlockReusable == tailBlock # null /\ is_empty(blockNext[tailBlock])

\* enqueue at a block boundary: the block ahead is empty and is used again.
EnqueueReuse(mode) ==
    /\ CanEnqueue(1)
    /\ BlockOffset(tailIndex) = 0
    /\ NextBlockReusable
    /\ tailBlock' = blockNext[tailBlock]
    /\ emptyFlags' = [emptyFlags EXCEPT ![tailBlock'] = {}]
    /\ enq' = EnqueueStarted(mode, tailBlock', indexFront)
    /\ UNCHANGED <<tailIndex, headIndex, blockNext, elements, index, deq>>

\* enqueue at a block boundary: a block from the pool is linked into the ring.
\* The attempt fails if there is no leeway, no index slot or no block.
EnqueueInject(mode) ==
    /\ CanEnqueue(1)
    /\ BlockOffset(tailIndex) = 0
    /\ ~NextBlockReusable
    /\ \E head \in HeadsSeen : ~Full(head, tailIndex)
    /\ NeedsIndex => mode = "CanAlloc"
    /\ headers' = IndexOrGrown(slotsUsed)
    /\ \E b \in requisition_block(mode) :
         IF b = null
         THEN /\ indexFront' = FrontOrGrown
              /\ UNCHANGED <<ring, slotsUsed, enq>>
         ELSE /\ emptyFlags' = [emptyFlags EXCEPT ![b] = {}]
              /\ blockNext' = Inserted(b)
              /\ tailBlock' = b
              /\ slotsUsed' = slotsUsed + 1
              /\ indexFront' = FrontOrGrown
              /\ enq' = EnqueueStarted(mode, b, FrontOrGrown)
    /\ UNCHANGED <<tailIndex, headIndex, elements, deq>>

\* The entry of the single enqueue's block.
WriteEntry ==
    /\ enq.pc = "entry"
    /\ headers' = WithEntry(headers, indexFront, tailIndex, tailBlock)
    /\ indexFront' = (indexFront + 1) % IndexSize
    /\ enq' = [enq EXCEPT !.pc = "front"]
    /\ UNCHANGED <<tailIndex, headIndex, ring, elements, slotsUsed, deq>>

\* Variant: publishes the next slot instead of the current one.
StoreFrontNext ==
    /\ enq.pc = "front"
    /\ headers' = [headers EXCEPT ![Len(headers)].front = indexFront]
    /\ enq' = [enq EXCEPT !.pc = IF MayThrow THEN "tail" ELSE "construct"]
    /\ UNCHANGED <<tailIndex, headIndex, ring, elements, slotsUsed, indexFront, deq>>

\* front.store: consumers that look from now on see the new entries.
StoreFront ==
    /\ enq.pc = "front"
    /\ headers' = [headers EXCEPT ![Len(headers)].front = (indexFront - 1) % IndexSize]
    /\ enq' = [enq EXCEPT !.pc = IF MayThrow THEN "tail" ELSE "construct"]
    /\ UNCHANGED <<tailIndex, headIndex, ring, elements, slotsUsed, indexFront, deq>>

\* The block in which the call's element i is constructed.
BlockToFill(i) ==
    LET start == IF BlockOffset(tailIndex) = 0 THEN enq.firstAllocated ELSE enq.startBlock
    IN  Ahead(start, (BlockBase(i) - BlockBase(tailIndex)) \div BLOCK_SIZE)

CallIndices == tailIndex .. tailIndex + enq.count - 1

Construct ==
    /\ enq.pc = "construct"
    /\ elements' = [b \in Blocks |-> [o \in Offsets |->
           LET here == {i \in CallIndices : BlockToFill(i) = b /\ BlockOffset(i) = o}
           IN  IF here = {} THEN elements[b][o] ELSE CHOOSE i \in here : TRUE]]
    /\ enq' = [enq EXCEPT !.pc = IF ~MayThrow \/ enq.firstAllocated = null THEN "tail"
                                 ELSE IF enq.kind = "single" THEN "entry" ELSE "front"]
    /\ UNCHANGED <<tailIndex, headIndex, ring, index, deq>>

\* Undoes the call, keeping the blocks it linked into the ring.
Rollback(front) ==
    /\ indexFront' = front
    /\ slotsUsed' = enq.originalSlotsUsed
    /\ tailBlock' = IF enq.startBlock = null THEN enq.firstAllocated ELSE enq.startBlock
    /\ enq' = NoEnqueue

\* The constructor throws.  What the call constructed before is destroyed.
ConstructThrows ==
    /\ enq.pc = "construct"
    /\ MayThrow
    /\ Rollback(enq.originalFront)
    /\ UNCHANGED <<tailIndex, headIndex, blockNext, emptyFlags, elements, headers, deq>>

StoreTail ==
    /\ enq.pc = "tail"
    /\ tailIndex' = tailIndex + enq.count
    /\ enq' = NoEnqueue
    /\ UNCHANGED <<headIndex, ring, elements, index, deq>>

-------------------------------------------------------------------------------
(***************************************************************************)
(* enqueue_bulk.  enq.current is currentTailIndex: the base of the last    *)
(* block acquired so far.  Blocks are wanted while it is below LastBase.   *)
(***************************************************************************)
LastBase == BlockBase(tailIndex + enq.count - 1)

EnqueueBulk(n, mode) ==
    LET current == BlockBase(tailIndex - 1)
    IN  /\ CanEnqueue(n)
        /\ enq' = [NoEnqueue EXCEPT
               !.pc = IF BlockBase(tailIndex + n - 1) > current THEN "reuse" ELSE "construct",
               !.kind = "bulk", !.count = n, !.mode = mode, !.startBlock = tailBlock,
               !.current = current, !.originalFront = indexFront,
               !.originalSlotsUsed = slotsUsed]
        /\ UNCHANGED <<tailIndex, headIndex, ring, elements, index, deq>>

FirstOf(b) == IF enq.firstAllocated = null THEN b ELSE enq.firstAllocated

\* The condition of the first loop.
BlockAheadUsable ==
    enq.current < LastBase /\ NextBlockReusable /\ blockNext[tailBlock] # enq.firstAllocated

\* One round of the first loop: the block ahead is empty, take it.
BulkReuse ==
    /\ enq.pc = "reuse"
    /\ BlockAheadUsable
    /\ tailBlock' = blockNext[tailBlock]
    /\ headers' = WithEntry(headers, indexFront, enq.current + BLOCK_SIZE, tailBlock')
    /\ indexFront' = (indexFront + 1) % IndexSize
    /\ enq' = [enq EXCEPT !.current = @ + BLOCK_SIZE, !.firstAllocated = FirstOf(tailBlock')]
    /\ UNCHANGED <<tailIndex, headIndex, blockNext, emptyFlags, elements, slotsUsed, deq>>

BulkReuseEnds ==
    /\ enq.pc = "reuse"
    /\ ~BlockAheadUsable
    /\ enq' = [enq EXCEPT !.pc = "inject"]
    /\ UNCHANGED <<tailIndex, headIndex, ring, elements, index, deq>>

\* Variant: the fallback value stays what it was when the call began.
FallbackFrontStale == enq.originalFront

\* The fallback for pr_blockIndexFront, which new_block_index makes out of date.
FallbackFront == IF NeedsIndex THEN enq.originalSlotsUsed ELSE enq.originalFront

\* One round of the second loop: a block from the pool, its entry, and first a
\* larger index if the index is full.
BulkInject ==
    LET current == enq.current + BLOCK_SIZE
    IN  /\ enq.pc = "inject"
        /\ enq.current < LastBase
        /\ \E head \in HeadsSeen : ~Full(head, current)
        /\ NeedsIndex => enq.mode = "CanAlloc"
        /\ \E b \in requisition_block(enq.mode) \ {null} :
             /\ emptyFlags' = [emptyFlags EXCEPT ![b] = Offsets]
             /\ blockNext' = Inserted(b)
             /\ tailBlock' = b
             /\ headers' = WithEntry(IndexOrGrown(enq.originalSlotsUsed), FrontOrGrown, current, b)
             /\ indexFront' = (FrontOrGrown + 1) % (IF NeedsIndex THEN 2 * IndexSize ELSE IndexSize)
             /\ slotsUsed' = slotsUsed + 1
             /\ enq' = [enq EXCEPT !.current = current, !.firstAllocated = FirstOf(b),
                                   !.originalFront = FallbackFront]
        /\ UNCHANGED <<tailIndex, headIndex, elements, deq>>

\* The sub-queue is full, or the index is and may not or cannot be grown.
BulkNoRoom ==
    /\ enq.pc = "inject"
    /\ enq.current < LastBase
    /\ \/ \E head \in HeadsSeen : Full(head, enq.current + BLOCK_SIZE)
       \/ NeedsIndex /\ (enq.mode = "CannotAlloc" \/ MemoryCanFail)
    /\ Rollback(enq.originalFront)
    /\ UNCHANGED <<tailIndex, headIndex, blockNext, emptyFlags, elements, headers, deq>>

\* There is no block; a larger index may already have been made, and is kept.
BulkNoBlock ==
    /\ enq.pc = "inject"
    /\ enq.current < LastBase
    /\ \E head \in HeadsSeen : ~Full(head, enq.current + BLOCK_SIZE)
    /\ NeedsIndex => enq.mode = "CanAlloc"
    /\ null \in requisition_block(enq.mode)
    /\ headers' = IndexOrGrown(enq.originalSlotsUsed)
    /\ Rollback(FallbackFront)
    /\ UNCHANGED <<tailIndex, headIndex, blockNext, emptyFlags, elements, deq>>

\* Every block is there: none of them is empty any more.
BulkReset ==
    /\ enq.pc = "inject"
    /\ enq.current = LastBase
    /\ emptyFlags' = [b \in Blocks |->
           IF b \in Between(enq.firstAllocated, tailBlock) THEN {} ELSE emptyFlags[b]]
    /\ enq' = [enq EXCEPT !.pc = AfterBlocks("bulk")]
    /\ UNCHANGED <<tailIndex, headIndex, tailBlock, blockNext, elements, index, deq>>

-------------------------------------------------------------------------------
(***************************************************************************)
(* A consumer's thread, from the fetch_add on headIndex that gives it its  *)
(* elements to the return of dequeue or dequeue_bulk.                      *)
(***************************************************************************)
Claim(c, n) ==
    /\ deq[c].pc = "idle"
    /\ headIndex + n <= tailIndex
    /\ headIndex' = headIndex + n
    /\ deq' = [deq EXCEPT ![c] = [NoDequeue EXCEPT
                   !.pc = "header", !.index = headIndex, !.end = headIndex + n]]
    /\ UNCHANGED <<tailIndex, ring, elements, index, enq>>

LoadBlockIndex(c) ==
    /\ deq[c].pc = "header"
    /\ deq' = [deq EXCEPT ![c].header = Len(headers), ![c].pc = "front"]
    /\ UNCHANGED <<tailIndex, headIndex, ring, elements, index, enq>>

LoadFront(c) ==
    /\ deq[c].pc = "front"
    /\ deq' = [deq EXCEPT ![c].front = headers[deq[c].header].front, ![c].pc = "base"]
    /\ UNCHANGED <<tailIndex, headIndex, ring, elements, index, enq>>

\* The slot of element i's block in header h, counted from the slot front.
SlotOf(h, front, i) ==
    (front + BlockDistance(Wrap(BlockBase(i)), h.entries[front].base)) % h.size

FindSlot(c) ==
    /\ deq[c].pc = "base"
    /\ deq' = [deq EXCEPT ![c].slot = SlotOf(headers[deq[c].header], deq[c].front, deq[c].index),
                          ![c].pc = "block"]
    /\ UNCHANGED <<tailIndex, headIndex, ring, elements, index, enq>>

FindBlock(c) ==
    /\ deq[c].pc = "block"
    /\ deq' = [deq EXCEPT ![c].block = headers[deq[c].header].entries[deq[c].slot].block,
                          ![c].pc = "elements"]
    /\ UNCHANGED <<tailIndex, headIndex, ring, elements, index, enq>>

\* The call's elements that are in the block it has reached.
InThisBlock(c) ==
    {i \in deq[c].index .. deq[c].end - 1 : BlockBase(i) = BlockBase(deq[c].index)}

OffsetsInThisBlock(c) == {BlockOffset(i) : i \in InThisBlock(c)}

\* Moves the elements out and destroys them, also if an assignment throws.
TakeElements(c) ==
    /\ deq[c].pc = "elements"
    /\ elements' = [elements EXCEPT ![deq[c].block] =
           [o \in Offsets |-> IF o \in OffsetsInThisBlock(c) THEN null ELSE @[o]]]
    /\ deq' = [deq EXCEPT ![c].pc = "flags"]
    /\ UNCHANGED <<tailIndex, headIndex, ring, index, enq>>

\* Variants: the next block is looked for in the same slot; only the first of
\* several flags is set.
SetEmptySameSlot(c) ==
    LET next == deq[c].index + Cardinality(InThisBlock(c))
    IN  /\ deq[c].pc = "flags"
        /\ emptyFlags' = [emptyFlags EXCEPT ![deq[c].block] = @ \cup OffsetsInThisBlock(c)]
        /\ deq' = [deq EXCEPT ![c] =
               IF next = @.end THEN NoDequeue
               ELSE [@ EXCEPT !.pc = "block", !.index = next, !.block = null]]
        /\ UNCHANGED <<tailIndex, headIndex, tailBlock, blockNext, elements, index, enq>>

SetEmptyFirstOnly(c) ==
    LET next == deq[c].index + Cardinality(InThisBlock(c))
    IN  /\ deq[c].pc = "flags"
        /\ emptyFlags' = [emptyFlags EXCEPT ![deq[c].block] = @ \cup {BlockOffset(deq[c].index)}]
        /\ deq' = [deq EXCEPT ![c] =
               IF next = @.end THEN NoDequeue
               ELSE [@ EXCEPT !.pc = "block", !.index = next, !.block = null,
                              !.slot = (@ + 1) % headers[deq[c].header].size]]
        /\ UNCHANGED <<tailIndex, headIndex, tailBlock, blockNext, elements, index, enq>>

\* set_empty or set_many_empty; a bulk call goes on to the next slot.
SetEmpty(c) ==
    LET next == deq[c].index + Cardinality(InThisBlock(c))
    IN  /\ deq[c].pc = "flags"
        /\ emptyFlags' = [emptyFlags EXCEPT ![deq[c].block] = @ \cup OffsetsInThisBlock(c)]
        /\ deq' = [deq EXCEPT ![c] =
               IF next = @.end THEN NoDequeue
               ELSE [@ EXCEPT !.pc = "block", !.index = next, !.block = null,
                              !.slot = (@ + 1) % headers[deq[c].header].size]]
        /\ UNCHANGED <<tailIndex, headIndex, tailBlock, blockNext, elements, index, enq>>

-------------------------------------------------------------------------------
Enqueue(mode) == EnqueueInBlock(mode) \/ EnqueueReuse(mode) \/ EnqueueInject(mode)

Produce ==
    \/ \E mode \in AllocModes :
         Enqueue(mode) \/ \E n \in BulkCounts : EnqueueBulk(n, mode)
    \/ WriteEntry \/ StoreFront \/ Construct \/ ConstructThrows \/ StoreTail
    \/ BulkReuse \/ BulkReuseEnds \/ BulkInject \/ BulkNoRoom \/ BulkNoBlock \/ BulkReset

Consume(c) ==
    \/ \E n \in DequeueCounts : Claim(c, n)
    \/ LoadBlockIndex(c) \/ LoadFront(c) \/ FindSlot(c) \/ FindBlock(c)
    \/ TakeElements(c) \/ SetEmpty(c)

Next == Produce \/ \E c \in Consumers : Consume(c)

Spec == Init /\ [][Next]_vars

-------------------------------------------------------------------------------
\* The elements claimed by c and not yet taken out of their blocks.
Pending(c) ==
    IF deq[c].pc = "flags"
    THEN deq[c].index + Cardinality(InThisBlock(c)) .. deq[c].end - 1
    ELSE deq[c].index .. deq[c].end - 1

Live == (headIndex .. tailIndex - 1) \cup UNION {Pending(c) : c \in Consumers}

\* Every element that is enqueued and not yet taken can be found: the lookup a
\* consumer would do now, through the index as published, reaches the block
\* where that element is.  Growing the index, wrapping round it and reusing the
\* entries of emptied blocks never lose an element (dequeue's block lookup).
EveryElementFindable ==
    \A i \in Live :
      LET h == BlockIndex
      IN  /\ headers # <<>> /\ h.front \in DOMAIN h.entries
          /\ LET b == h.entries[SlotOf(h, h.front, i)].block
             IN  b # null /\ elements[b][BlockOffset(i)] = i

\* A consumer that looked some time ago, perhaps through an index that has been
\* replaced since, still reaches its own elements: the block it is about to
\* read holds exactly the elements it claimed there.
ConsumerReadsItsOwn ==
    \A c \in Consumers :
      deq[c].pc = "elements" =>
        /\ deq[c].block # null
        /\ \A i \in InThisBlock(c) : elements[deq[c].block][BlockOffset(i)] = i

\* The producer constructs only where nothing lives and nobody is still
\* reading or setting flags: a block is reused after its last element was taken
\* (is_empty before reuse), and a flag is set once (set_empty's assertion).
ReusedBlockIsFree ==
    /\ enq.pc = "construct" =>
         \A i \in CallIndices : elements[BlockToFill(i)][BlockOffset(i)] = null
    /\ \A c \in Consumers :
         deq[c].pc = "flags" => emptyFlags[deq[c].block] \cap OffsetsInThisBlock(c) = {}

-------------------------------------------------------------------------------
\* Between the producer's calls, while the tail block is partly filled, the next
\* free slot of the index follows that block's slot, whatever calls failed
\* before (enqueue_bulk's fallback value for pr_blockIndexFront).
FrontFollowsTail ==
    enq.pc = "idle" /\ BlockOffset(tailIndex) # 0 =>
        BlockIndex.entries[(indexFront - 1) % IndexSize].base = Wrap(BlockBase(tailIndex - 1))

Quiet == enq.pc = "idle" /\ \A c \in Consumers : deq[c].pc = "idle"

\* Variant: the oldest entry, without searching for the head.
HalfDequeuedOldest ==
    IF BlockOffset(headIndex) = 0 THEN null
    ELSE BlockIndex.entries[(indexFront - slotsUsed) % IndexSize].block

\* ~ExplicitProducer: the block the head is inside of, found along the index.
HalfDequeuedBlock ==
    LET entry(k) == BlockIndex.entries[(indexFront - slotsUsed + k) % IndexSize]
        reached(k) == ~circular_less_than(entry(k).base + BLOCK_SIZE, headIndex)
        steps == {k \in 0 .. IndexSize - 1 : reached(k)}
    IN  IF BlockOffset(headIndex) = 0 \/ steps = {} THEN null
        ELSE entry(CHOOSE k \in steps : \A j \in steps : k <= j).block

\* ~ExplicitProducer: the slots of b whose elements it destroys.
DestroyedIn(b) ==
    LET first == IF b = HalfDequeuedBlock THEN BlockOffset(headIndex) ELSE 0
        last == IF b # tailBlock \/ BlockOffset(tailIndex) = 0 THEN BLOCK_SIZE
                ELSE BlockOffset(tailIndex)
        stop == IF first <= last THEN last ELSE BLOCK_SIZE
    IN  IF b \notin Owned \/ is_empty(b) THEN {} ELSE first .. stop - 1

\* Destroying the producer at any quiet moment destroys the elements still in
\* it, each of them, and no memory that holds none (~ExplicitProducer: "Destruct
\* any elements not yet dequeued").
DestructorDestroysTheLive ==
    Quiet /\ tailBlock # null =>
        \A b \in Blocks : DestroyedIn(b) = {o \in Offsets : elements[b][o] # null}

\* When every element has been dequeued, the block ahead of the tail block can be
\* used again: the producer needs no further memory (enqueue: "We can re-use
\* the block ahead of us, it's empty!").  At a boundary, that is.
EmptiedBlocksReusable ==
    Quiet /\ headIndex = tailIndex /\ BlockOffset(tailIndex) = 0 /\ tailBlock # null =>
        NextBlockReusable

\* No more than MAX_SUBQUEUE_SIZE elements are in the sub-queue at once, which
\* reused blocks break: see README.md.
SizeWithinLimit == tailIndex - headIndex <= MAX_SUBQUEUE_SIZE

===============================================================================
