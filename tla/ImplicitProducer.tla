---------------------------- MODULE ImplicitProducer ----------------------------
(***************************************************************************)
(* One ImplicitProducer of concurrentqueue.h.  Unlike an explicit producer *)
(* it keeps no ring: the consumer that empties a block removes it from the *)
(* block index and returns it to the pool, and the producer takes a block  *)
(* from the pool for every BLOCK_SIZE elements.  The index is a circle of  *)
(* entries; a larger index shares the entries of the one it replaces.      *)
(*                                                                         *)
(* A claim is SubQueue's Take, which ProducerBase implements.  An element  *)
(* is known by the unwrapped index it was enqueued at.                     *)
(***************************************************************************)
EXTENDS CircularIndex, Sequences, FiniteSets

CONSTANTS
    Consumers,
    Blocks,             \* every block the pool and malloc can supply
    null,
    FirstIndex,         \* index of the first element enqueued in the model
    InitialIndexSize,   \* IMPLICIT_INITIAL_INDEX_SIZE
    MAX_SUBQUEUE_SIZE,
    Unlimited,          \* const_numeric_max<size_t>
    AllocModes,         \* the allocation modes callers use
    MemoryCanFail,      \* malloc may return nullptr
    MayThrows,          \* may T's constructor throw?  It depends on the overload
    BulkCounts,         \* sizes of bulk enqueues
    DequeueCounts,      \* numbers of elements a dequeue claims
    MaxEnqueued         \* bound: elements enqueued in a behaviour

ASSUME ImplicitAssumption ==
    /\ BLOCK_SIZE > 1
    /\ FirstIndex \in Nat /\ FirstIndex % BLOCK_SIZE = 0
    /\ InitialIndexSize \in Nat \ {0, 1}
    /\ FirstIndex > 0 => FirstIndex >= InitialIndexSize * BLOCK_SIZE
    /\ AllocModes \subseteq {"CanAlloc", "CannotAlloc"}
    /\ MemoryCanFail \in BOOLEAN /\ MayThrows \subseteq BOOLEAN
    /\ null \notin Blocks

VARIABLES
    tailIndex, headIndex,
    tailBlock,          \* the block enqueued into last; perhaps no longer ours
    blockNext,          \* Block::next
    dequeued,           \* Block::elementsCompletelyDequeued
    elements,           \* elements[b][o]: index of the live element there, or null
    free,               \* blocks in the pool or not yet allocated
    entries,            \* every BlockIndexEntry allocated
    headers,            \* every BlockIndexHeader allocated; blockIndex is the last
    enq,                \* the producer's call in progress
    deq                 \* deq[c]: c's call in progress

blocks == <<blockNext, dequeued, elements>>
index == <<entries, headers>>
vars == <<tailIndex, headIndex, tailBlock, blocks, free, index, enq, deq>>

-------------------------------------------------------------------------------
\* The block index.

INVALID_BLOCK_BASE == 1

Offsets == 0 .. BLOCK_SIZE - 1

BlockIndex == headers[Len(headers)]
NextSlot(h) == (h.tail + 1) % h.capacity

\* insert_block_index_entry can use the slot after the tail.
SlotFree ==
    LET e == entries[BlockIndex.index[NextSlot(BlockIndex)]]
    IN  e.key = INVALID_BLOCK_BASE \/ e.value = null

\* A new entry has a key; its value is not initialized.
Uninitialized == "uninitialized"
Fresh == [key |-> INVALID_BLOCK_BASE, value |-> Uninitialized]

\* Variant: copies the entries from slot 0 on, not from the oldest.
NewBlockIndexUnrotated ==
    [capacity |-> 2 * BlockIndex.capacity,
     tail     |-> BlockIndex.capacity - 1,
     index    |-> [i \in 0 .. 2 * BlockIndex.capacity - 1 |->
                      IF i < BlockIndex.capacity THEN BlockIndex.index[i]
                      ELSE Len(entries) + 1 + i - BlockIndex.capacity]]

\* new_block_index: the old entries, the oldest first, then as many new ones.
new_block_index ==
    LET old == BlockIndex.capacity
    IN  [capacity |-> 2 * old,
         tail     |-> old - 1,
         index    |-> [i \in 0 .. 2 * old - 1 |->
                          IF i < old THEN BlockIndex.index[(BlockIndex.tail + 1 + i) % old]
                          ELSE Len(entries) + 1 + i - old]]

\* get_block_index_index_for_index, from the tail slot and the key there.
SlotOf(h, tail, key, i) == (tail + BlockDistance(Wrap(BlockBase(i)), key)) % h.capacity

\* The entry of element i's block, looked up through the current index.
EntryOf(i) ==
    LET h == BlockIndex
    IN  h.index[SlotOf(h, h.tail, entries[h.index[h.tail]].key, i)]

\* Variant: the limit is compared without the block about to be added.
FullTooLate(head, current) ==
    MAX_SUBQUEUE_SIZE # Unlimited /\ Wrap(current - head) > MAX_SUBQUEUE_SIZE

\* A block starting at current would let the tail lap the head, or exceed the
\* sub-queue's size limit.
Full(head, current) ==
    \/ ~circular_less_than(head, current + BLOCK_SIZE)
    \/ /\ MAX_SUBQUEUE_SIZE # Unlimited
       /\ \/ MAX_SUBQUEUE_SIZE = 0
          \/ Wrap(current - head) > MAX_SUBQUEUE_SIZE - BLOCK_SIZE

\* A relaxed load of headIndex sees some value it had.
HeadsSeen == FirstIndex .. headIndex

\* requisition_block: a block from the pool or the heap, or null.
requisition_block(mode) ==
    free \cup (IF MemoryCanFail \/ mode = "CannotAlloc" THEN {null} ELSE {})

-------------------------------------------------------------------------------
(***************************************************************************)
(* Initially the producer is new, without an index if malloc failed in the *)
(* constructor.  With FirstIndex > 0 it has enqueued FirstIndex elements,  *)
(* each dequeued before the next: every block went back to the pool.       *)
(***************************************************************************)
NoEnqueue == [pc |-> "idle", kind |-> "single", count |-> 0, mode |-> "CanAlloc",
              mayThrow |-> FALSE, startBlock |-> null, first |-> null,
              current |-> 0, block |-> null]

NoDequeue == [pc |-> "idle", index |-> 0, end |-> 0, header |-> 0, tail |-> 0,
              slot |-> 0, block |-> null]

NewIndex(tail) == [capacity |-> InitialIndexSize, tail |-> tail,
                   index |-> [i \in 0 .. InitialIndexSize - 1 |-> i + 1]]

InitNew ==
    /\ tailBlock = null
    /\ \/ /\ entries = [e \in 1 .. InitialIndexSize |-> Fresh]
          /\ headers = <<NewIndex(InitialIndexSize - 1)>>
       \/ MemoryCanFail /\ entries = <<>> /\ headers = <<>>

InitUsed ==
    LET used == FirstIndex \div BLOCK_SIZE
        lastUse(i) == CHOOSE k \in used - InitialIndexSize .. used - 1 :
                          k % InitialIndexSize = i
    IN  /\ tailBlock \in Blocks
        /\ entries = [e \in 1 .. InitialIndexSize |->
                         [key |-> Wrap(lastUse(e - 1) * BLOCK_SIZE), value |-> null]]
        /\ headers = <<NewIndex((used - 1) % InitialIndexSize)>>

Init ==
    /\ tailIndex = FirstIndex
    /\ headIndex = FirstIndex
    /\ IF FirstIndex = 0 THEN InitNew ELSE InitUsed
    /\ blockNext = [b \in Blocks |-> null]
    /\ dequeued = [b \in Blocks |-> IF b = tailBlock THEN BLOCK_SIZE ELSE 0]
    /\ elements = [b \in Blocks |-> [o \in Offsets |-> null]]
    /\ free = Blocks
    /\ enq = NoEnqueue
    /\ deq = [c \in Consumers |-> NoDequeue]

-------------------------------------------------------------------------------
(***************************************************************************)
(* The producer's thread.  enqueue is enqueue_bulk of one element, except  *)
(* that a constructor that may throw runs before the new block is put into *)
(* the index.  enq.current is the base of the last block asked for.        *)
(***************************************************************************)
LastBase == BlockBase(tailIndex + enq.count - 1)

\* The call begins, with a round of the loop for each block it needs.
Enqueue(kind, n, mode, mayThrow) ==
    LET current == BlockBase(tailIndex - 1)
    IN  /\ enq.pc = "idle"
        /\ tailIndex + n <= FirstIndex + MaxEnqueued
        /\ enq' = [NoEnqueue EXCEPT
               !.pc = IF BlockBase(tailIndex + n - 1) > current THEN "round" ELSE "construct",
               !.kind = kind, !.count = n, !.mode = mode, !.mayThrow = mayThrow,
               !.startBlock = tailBlock, !.current = current]
        /\ UNCHANGED <<tailIndex, headIndex, tailBlock, blocks, free, index, deq>>

Base == enq.current + BLOCK_SIZE
NotFull == \E head \in HeadsSeen : ~Full(head, Base)

\* There is no room in the index: a larger one is published.
NewIndexPublished ==
    /\ enq.pc = "round"
    /\ NotFull
    /\ headers # <<>> /\ ~SlotFree /\ enq.mode = "CanAlloc"
    /\ headers' = Append(headers, new_block_index)
    /\ entries' = entries \o [e \in 1 .. BlockIndex.capacity |-> Fresh]
    /\ enq' = [enq EXCEPT !.pc = "grown"]
    /\ UNCHANGED <<tailIndex, headIndex, tailBlock, blocks, free, deq>>

\* The slot after the tail gets the block's base.
InsertKey ==
    /\ \/ enq.pc = "round" /\ NotFull /\ headers # <<>> /\ SlotFree
       \/ enq.pc = "grown"
    /\ entries' = [entries EXCEPT ![BlockIndex.index[NextSlot(BlockIndex)]].key = Wrap(Base)]
    /\ enq' = [enq EXCEPT !.pc = "slot"]
    /\ UNCHANGED <<tailIndex, headIndex, tailBlock, blocks, free, headers, deq>>

\* ... and consumers look it up from there.
InsertTail ==
    /\ enq.pc = "slot"
    /\ headers' = [headers EXCEPT ![Len(headers)].tail = NextSlot(BlockIndex)]
    /\ enq' = [enq EXCEPT !.pc = "block"]
    /\ UNCHANGED <<tailIndex, headIndex, tailBlock, blocks, free, entries, deq>>

\* A single enqueue constructs at once if its constructor may throw.
ConstructsFirst == enq.kind = "single" /\ enq.mayThrow

TakeBlock ==
    /\ enq.pc = "block"
    /\ \E b \in requisition_block(enq.mode) \ {null} :
         /\ free' = free \ {b}
         /\ dequeued' = [dequeued EXCEPT ![b] = 0]
         /\ blockNext' = IF enq.kind = "bulk" THEN [blockNext EXCEPT ![b] = null] ELSE blockNext
         /\ enq' = [enq EXCEPT !.block = b, !.pc = IF ConstructsFirst THEN "construct" ELSE "value"]
    /\ UNCHANGED <<tailIndex, headIndex, tailBlock, elements, index, deq>>

\* The new block goes into the index and, in a bulk call, into the chain.
StoreValue ==
    LET b == enq.block
        chained == enq.kind = "bulk" /\ (BlockOffset(tailIndex) # 0 \/ enq.first # null)
    IN  /\ enq.pc = "value"
        /\ entries' = [entries EXCEPT ![BlockIndex.index[BlockIndex.tail]].value = b]
        /\ blockNext' = IF chained THEN [blockNext EXCEPT ![tailBlock] = b] ELSE blockNext
        /\ tailBlock' = b
        /\ enq' = [enq EXCEPT !.current = Base, !.block = null,
                              !.first = IF @ = null THEN b ELSE @,
                              !.pc = IF Base < LastBase THEN "round"
                                     ELSE IF ConstructsFirst THEN "tail" ELSE "construct"]
        /\ UNCHANGED <<tailIndex, headIndex, dequeued, elements, free, headers, deq>>

\* The block k links after b.
Ahead(b, k) ==
    LET walk[i \in Nat] == IF i = 0 THEN b ELSE blockNext[walk[i - 1]]
    IN  walk[k]

\* The block in which the call's element i is constructed.
BlockToFill(i) ==
    LET start == IF enq.block # null THEN enq.block
                 ELSE IF BlockOffset(tailIndex) = 0 THEN enq.first ELSE enq.startBlock
    IN  Ahead(start, (BlockBase(i) - BlockBase(tailIndex)) \div BLOCK_SIZE)

CallIndices == tailIndex .. tailIndex + enq.count - 1

Construct ==
    /\ enq.pc = "construct"
    /\ elements' = [b \in Blocks |-> [o \in Offsets |->
           LET here == {i \in CallIndices : BlockToFill(i) = b /\ BlockOffset(i) = o}
           IN  IF here = {} THEN elements[b][o] ELSE CHOOSE i \in here : TRUE]]
    /\ enq' = [enq EXCEPT !.pc = IF enq.block # null THEN "value" ELSE "tail"]
    /\ UNCHANGED <<tailIndex, headIndex, tailBlock, blockNext, dequeued, free, index, deq>>

StoreTail ==
    /\ enq.pc = "tail"
    /\ tailIndex' = tailIndex + enq.count
    /\ enq' = NoEnqueue
    /\ UNCHANGED <<headIndex, tailBlock, blocks, free, index, deq>>

-------------------------------------------------------------------------------
(***************************************************************************)
(* Failures.  No consumer reads the value of an entry that is withdrawn,   *)
(* so clearing it and rewinding the tail is one step.                      *)
(***************************************************************************)

\* Clears entry e and calls rewind_block_index_tail.
Withdraw(e) ==
    /\ entries' = [entries EXCEPT ![e].value = null]
    /\ headers' = [headers EXCEPT ![Len(headers)].tail = (@ - 1) % BlockIndex.capacity]

\* The sub-queue is full, or the index is and may not or cannot be replaced.
NoRoom ==
    /\ enq.pc = "round"
    /\ \/ \E head \in HeadsSeen : Full(head, Base)
       \/ headers = <<>>
       \/ headers # <<>> /\ ~SlotFree /\ (enq.mode = "CannotAlloc" \/ MemoryCanFail)
    /\ enq' = [enq EXCEPT !.pc = "undo", !.current = BlockBase(tailIndex - 1), !.block = enq.first]
    /\ UNCHANGED <<tailIndex, headIndex, tailBlock, blocks, free, index, deq>>

\* There is no block for the slot just inserted.
NoBlock ==
    /\ enq.pc = "block"
    /\ null \in requisition_block(enq.mode)
    /\ Withdraw(BlockIndex.index[BlockIndex.tail])
    /\ enq' = [enq EXCEPT !.pc = "undo", !.current = BlockBase(tailIndex - 1), !.block = enq.first]
    /\ UNCHANGED <<tailIndex, headIndex, tailBlock, blocks, free, deq>>

\* The constructor of a single enqueue throws.
ConstructThrows ==
    /\ enq.pc = "construct" /\ enq.kind = "single" /\ enq.mayThrow
    /\ IF enq.block = null
       THEN UNCHANGED <<free, index>>
       ELSE /\ Withdraw(BlockIndex.index[BlockIndex.tail])
            /\ free' = free \cup {enq.block}
    /\ enq' = NoEnqueue
    /\ UNCHANGED <<tailIndex, headIndex, tailBlock, blocks, deq>>

\* One of a bulk call throws.  What the call constructed before is destroyed.
BulkThrows ==
    /\ enq.pc = "construct" /\ enq.kind = "bulk" /\ enq.mayThrow
    /\ enq' = [enq EXCEPT !.pc = "undo", !.current = BlockBase(tailIndex - 1), !.block = enq.first]
    /\ UNCHANGED <<tailIndex, headIndex, tailBlock, blocks, free, index, deq>>

\* Variant: the tail of the index stays where it is.
UndoBlockUnrewound ==
    /\ enq.pc = "undo" /\ enq.block # null
    /\ entries' = [entries EXCEPT ![EntryOf(Base)].value = null]
    /\ enq' = [enq EXCEPT !.current = Base, !.block = blockNext[enq.block]]
    /\ UNCHANGED <<tailIndex, headIndex, tailBlock, blocks, free, headers, deq>>

\* One of the call's blocks leaves the index.
UndoBlock ==
    /\ enq.pc = "undo" /\ enq.block # null
    /\ Withdraw(EntryOf(Base))
    /\ enq' = [enq EXCEPT !.current = Base, !.block = blockNext[enq.block]]
    /\ UNCHANGED <<tailIndex, headIndex, tailBlock, blocks, free, deq>>

\* The blocks of the chain that starts at b.
Chain(b) ==
    LET reach[k \in 0 .. Cardinality(Blocks)] ==
            IF k = 0 THEN {b} \ {null}
            ELSE reach[k - 1] \cup ({blockNext[x] : x \in reach[k - 1]} \ {null})
    IN  reach[Cardinality(Blocks)]

\* Variant: the blocks are forgotten.
UndoneLeaking ==
    /\ enq.pc = "undo" /\ enq.block = null
    /\ tailBlock' = enq.startBlock
    /\ enq' = NoEnqueue
    /\ UNCHANGED <<tailIndex, headIndex, blocks, free, index, deq>>

\* add_blocks_to_free_list, and the call fails.
Undone ==
    /\ enq.pc = "undo" /\ enq.block = null
    /\ free' = free \cup Chain(enq.first)
    /\ tailBlock' = enq.startBlock
    /\ enq' = NoEnqueue
    /\ UNCHANGED <<tailIndex, headIndex, blocks, index, deq>>

-------------------------------------------------------------------------------
(***************************************************************************)
(* A consumer's thread, from the fetch_add on headIndex that gives it its  *)
(* elements to the return of dequeue or dequeue_bulk.                      *)
(***************************************************************************)

\* dequeue_bulk with max = 0 comes here too if there are elements.
Claim(c, n) ==
    /\ deq[c].pc = "idle"
    /\ headIndex < tailIndex /\ headIndex + n <= tailIndex
    /\ headIndex' = headIndex + n
    /\ deq' = [deq EXCEPT ![c] = [NoDequeue EXCEPT
                   !.pc = "header", !.index = headIndex, !.end = headIndex + n]]
    /\ UNCHANGED <<tailIndex, tailBlock, blocks, free, index, enq>>

LoadBlockIndex(c) ==
    /\ deq[c].pc = "header"
    /\ deq' = [deq EXCEPT ![c].header = Len(headers), ![c].pc = "tail"]
    /\ UNCHANGED <<tailIndex, headIndex, tailBlock, blocks, free, index, enq>>

LoadIndexTail(c) ==
    /\ deq[c].pc = "tail"
    /\ deq' = [deq EXCEPT ![c].tail = headers[deq[c].header].tail, ![c].pc = "key"]
    /\ UNCHANGED <<tailIndex, headIndex, tailBlock, blocks, free, index, enq>>

FindSlot(c) ==
    LET h == headers[deq[c].header]
    IN  /\ deq[c].pc = "key"
        /\ deq' = [deq EXCEPT ![c].pc = "block", ![c].slot =
               SlotOf(h, deq[c].tail, entries[h.index[deq[c].tail]].key, deq[c].index)]
        /\ UNCHANGED <<tailIndex, headIndex, tailBlock, blocks, free, index, enq>>

\* The entry c has found.
EntryFound(c) == headers[deq[c].header].index[deq[c].slot]

FindBlock(c) ==
    /\ deq[c].pc = "block"
    /\ deq' = [deq EXCEPT ![c].block = entries[EntryFound(c)].value, ![c].pc = "elements"]
    /\ UNCHANGED <<tailIndex, headIndex, tailBlock, blocks, free, index, enq>>

\* The call's elements that are in the block it has reached.
InThisBlock(c) ==
    {i \in deq[c].index .. deq[c].end - 1 : BlockBase(i) = BlockBase(deq[c].index)}

OffsetsInThisBlock(c) == {BlockOffset(i) : i \in InThisBlock(c)}

\* Moves the elements out and destroys them, also if an assignment throws.
TakeElements(c) ==
    /\ deq[c].pc = "elements" /\ deq[c].block \in Blocks
    /\ elements' = [elements EXCEPT ![deq[c].block] =
           [o \in Offsets |-> IF o \in OffsetsInThisBlock(c) THEN null ELSE @[o]]]
    /\ deq' = [deq EXCEPT ![c].pc = "count"]
    /\ UNCHANGED <<tailIndex, headIndex, tailBlock, blockNext, dequeued, free, index, enq>>

\* c's call after it is done with the block it has reached.
GoOn(c) ==
    LET next == deq[c].index + Cardinality(InThisBlock(c))
    IN  IF next = deq[c].end THEN NoDequeue
        ELSE [deq[c] EXCEPT !.pc = "block", !.index = next, !.block = null,
                            !.slot = (@ + 1) % headers[deq[c].header].capacity]

\* Variant: the last element but one counts as the last.
EmptiedTooEarly(b, n) == dequeued[b] + n >= BLOCK_SIZE - 1

\* set_empty and set_many_empty return whether the block is empty now.
Emptied(b, n) == dequeued[b] + n = BLOCK_SIZE

SetEmpty(c) ==
    LET b == deq[c].block
        n == Cardinality(InThisBlock(c))
    IN  /\ deq[c].pc = "count"
        /\ dequeued' = [dequeued EXCEPT ![b] = @ + n]
        /\ deq' = [deq EXCEPT ![c] = IF Emptied(b, n) THEN [@ EXCEPT !.pc = "clear"] ELSE GoOn(c)]
        /\ UNCHANGED <<tailIndex, headIndex, tailBlock, blockNext, elements, free, index, enq>>

\* The block leaves the index ...
ClearEntry(c) ==
    /\ deq[c].pc = "clear"
    /\ entries' = [entries EXCEPT ![EntryFound(c)].value = null]
    /\ deq' = [deq EXCEPT ![c].pc = "free"]
    /\ UNCHANGED <<tailIndex, headIndex, tailBlock, blocks, free, headers, enq>>

\* Variant: a bulk call goes on in the same slot.
FreeBlockSameSlot(c) ==
    /\ deq[c].pc = "free"
    /\ free' = free \cup {deq[c].block}
    /\ deq' = [deq EXCEPT ![c] = [GoOn(c) EXCEPT !.slot = deq[c].slot]]
    /\ UNCHANGED <<tailIndex, headIndex, tailBlock, blocks, index, enq>>

\* ... and returns to the pool: add_block_to_free_list.
FreeBlock(c) ==
    /\ deq[c].pc = "free"
    /\ free' = free \cup {deq[c].block}
    /\ deq' = [deq EXCEPT ![c] = GoOn(c)]
    /\ UNCHANGED <<tailIndex, headIndex, tailBlock, blocks, index, enq>>

-------------------------------------------------------------------------------
Produce ==
    \/ \E mode \in AllocModes, mayThrow \in MayThrows :
         \/ Enqueue("single", 1, mode, mayThrow)
         \/ \E n \in BulkCounts : Enqueue("bulk", n, mode, mayThrow)
    \/ NewIndexPublished \/ InsertKey \/ InsertTail \/ TakeBlock \/ StoreValue
    \/ Construct \/ StoreTail
    \/ NoRoom \/ NoBlock \/ ConstructThrows \/ BulkThrows \/ UndoBlock \/ Undone

Consume(c) ==
    \/ \E n \in DequeueCounts : Claim(c, n)
    \/ LoadBlockIndex(c) \/ LoadIndexTail(c) \/ FindSlot(c) \/ FindBlock(c)
    \/ TakeElements(c) \/ SetEmpty(c) \/ ClearEntry(c) \/ FreeBlock(c)

Next == Produce \/ \E c \in Consumers : Consume(c)

Spec == Init /\ [][Next]_vars

-------------------------------------------------------------------------------
\* The elements claimed by c and not yet taken out of their blocks.
Pending(c) ==
    IF deq[c].pc \in {"count", "clear", "free"}
    THEN deq[c].index + Cardinality(InThisBlock(c)) .. deq[c].end - 1
    ELSE deq[c].index .. deq[c].end - 1

Live == (headIndex .. tailIndex - 1) \cup UNION {Pending(c) : c \in Consumers}

\* Every element that is enqueued and not yet taken can be found: a lookup
\* through the index as it is, whatever calls the producer is making, undoing
\* or has given up, reaches the entry of its block and the block holds it (the
\* assertion in get_block_index_index_for_index).
EveryElementFindable ==
    \A i \in Live :
      LET e == entries[EntryOf(i)]
      IN  /\ headers # <<>>
          /\ e.key = Wrap(BlockBase(i)) /\ e.value \in Blocks
          /\ elements[e.value][BlockOffset(i)] = i

\* A consumer that looked some time ago, perhaps through an index that has been
\* replaced since, reaches its own elements: the entry it found has not been
\* given to another block meanwhile.
ConsumerReadsItsOwn ==
    \A c \in Consumers :
      deq[c].pc = "elements" /\ deq[c].index < deq[c].end =>
        /\ deq[c].block \in Blocks \ free
        /\ \A i \in InThisBlock(c) : elements[deq[c].block][BlockOffset(i)] = i

\* A block is returned to the pool once, by one consumer, when nobody uses it
\* any more: not a live element, not another consumer, not the producer's
\* unfinished call (dequeue: "Add the block back into the global free pool").
BlockReleasedOnce ==
    \A c \in Consumers :
      deq[c].pc \in {"clear", "free"} =>
        /\ deq[c].block \notin free
        /\ \A o \in Offsets : elements[deq[c].block][o] = null
        /\ \A d \in Consumers \ {c} :
             deq[d].pc \in {"elements", "count", "clear", "free"} => deq[d].block # deq[c].block

\* Elements are constructed in blocks the producer owns, where nothing lives
\* (the tail block "may not be owned by us any more", and is not used then).
ConstructsInOwnBlock ==
    enq.pc = "construct" =>
        \A i \in CallIndices :
            /\ BlockToFill(i) \in Blocks \ free
            /\ elements[BlockToFill(i)][BlockOffset(i)] = null

\* Between calls, while the tail block is partly filled, the tail of the index
\* is its slot, whatever calls failed before: rewind_block_index_tail undoes
\* exactly what was inserted.  (Once the tail block is full and emptied, the key
\* in its slot may be that of a block a failed call withdrew.)
IndexTailFollowsTail ==
    enq.pc = "idle" /\ BlockOffset(tailIndex) # 0 =>
        entries[BlockIndex.index[BlockIndex.tail]] =
            [key |-> Wrap(BlockBase(tailIndex)), value |-> tailBlock]

Quiet == enq.pc = "idle" /\ \A c \in Consumers : deq[c].pc = "idle"

BlockOf(i) == entries[EntryOf(i)].value

\* ~ImplicitProducer returns the blocks it walks through but the last, and then
\* the tail block if it is that last one or partly filled.
ReturnedByDestructor ==
    LET left == headIndex .. tailIndex - 1
    IN  {BlockOf(i) : i \in {j \in left : BlockBase(j) # BlockBase(tailIndex - 1)}}
        \cup (IF tailBlock # null /\ (left # {} \/ BlockOffset(tailIndex) # 0)
              THEN {tailBlock} ELSE {})

\* Destroying the producer at any quiet moment returns to the pool every block
\* that is not there, and those only: no failed call has leaked a block and no
\* block would be returned twice ("there's still one block that's not on the
\* free list").
DestructorReturnsTheRest ==
    Quiet => /\ ReturnedByDestructor = Blocks \ free
             /\ headIndex < tailIndex => BlockOf(tailIndex - 1) = tailBlock

\* No more than MAX_SUBQUEUE_SIZE elements are in the sub-queue at once.
SizeWithinLimit ==
    MAX_SUBQUEUE_SIZE # Unlimited => tailIndex - headIndex <= MAX_SUBQUEUE_SIZE

===============================================================================
