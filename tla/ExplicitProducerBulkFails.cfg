\* try_enqueue_bulk fails after it has linked a block into the ring, and the
\* producer goes on enqueueing.
CONSTANTS
    HalfRange = 16
    BLOCK_SIZE = 2
    Consumers = {c1, c2}
    Blocks = {b1, b2, b3, b4}
    null = null
    FirstIndex = 0
    InitialIndexSize = 2
    Unlimited = Unlimited
    MAX_SUBQUEUE_SIZE = Unlimited
    AllocModes = {"CannotAlloc"}
    MemoryCanFail = FALSE
    MayThrow = FALSE
    BulkCounts = {5}
    DequeueCounts = {1}
    MaxEnqueued = 6
SPECIFICATION Spec
SYMMETRY Symmetry
CHECK_DEADLOCK FALSE
INVARIANT EveryElementFindable
