\* Single and bulk enqueues that find the memory they need, two consumers.
\* The index starts with two slots and five-bit indices wrap after four
\* elements.
CONSTANTS
    HalfRange = 16
    BLOCK_SIZE = 2
    Consumers = {c1, c2}
    Blocks = {b1, b2, b3, b4}
    null = null
    FirstIndex = 28
    InitialIndexSize = 2
    Unlimited = Unlimited
    MAX_SUBQUEUE_SIZE = Unlimited
    AllocModes = {"CanAlloc"}
    MemoryCanFail = FALSE
    MayThrow = FALSE
    BulkCounts = {3, 5}
    DequeueCounts = {1, 3}
    MaxEnqueued = 8
SPECIFICATION Spec
SYMMETRY Symmetry
CHECK_DEADLOCK FALSE
INVARIANTS
    EveryElementFindable
    ConsumerReadsItsOwn
    ReusedBlockIsFree
    DestructorDestroysTheLive
    EmptiedBlocksReusable
