\* Constructors that throw, allocations that fail, callers that may not
\* allocate.  A bulk enqueue here needs at most one block from the pool.
CONSTANTS
    HalfRange = 16
    BLOCK_SIZE = 2
    Consumers = {c1, c2}
    Blocks = {b1, b2, b3, b4}
    null = null
    FirstIndex = 0
    InitialIndexSize = 2
    Unlimited = Unlimited
    MAX_SUBQUEUE_SIZE = Unlimited
    AllocModes = {"CanAlloc", "CannotAlloc"}
    MemoryCanFail = TRUE
    MayThrow = TRUE
    BulkCounts = {2}
    DequeueCounts = {1, 2}
    MaxEnqueued = 5
SPECIFICATION Spec
SYMMETRY Symmetry
CHECK_DEADLOCK FALSE
INVARIANTS
    EveryElementFindable
    FrontFollowsTail
