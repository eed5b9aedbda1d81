\* A new producer.  Constructors throw, allocations fail, callers may not
\* allocate, and the sub-queue is limited to two blocks.
CONSTANTS
    HalfRange = 16
    BLOCK_SIZE = 2
    Consumers = {c1, c2}
    Blocks = {b1, b2, b3}
    null = null
    FirstIndex = 0
    InitialIndexSize = 2
    Unlimited = Unlimited
    MAX_SUBQUEUE_SIZE = 4
    AllocModes = {"CanAlloc", "CannotAlloc"}
    MemoryCanFail = TRUE
    MayThrows = {TRUE}
    BulkCounts = {3}
    DequeueCounts = {1}
    MaxEnqueued = 5
SPECIFICATION Spec
INVARIANTS
    EveryElementFindable
    ConsumerReadsItsOwn
    BlockReleasedOnce
    ConstructsInOwnBlock
    IndexTailFollowsTail
    DestructorReturnsTheRest
    SizeWithinLimit
SYMMETRY Symmetry
CHECK_DEADLOCK FALSE
