\* Single and bulk calls with memory at hand.  The indices wrap after two
\* elements.
CONSTANTS
    HalfRange = 16
    BLOCK_SIZE = 2
    Consumers = {c1, c2}
    Blocks = {b1, b2, b3, b4}
    null = null
    FirstIndex = 30
    InitialIndexSize = 2
    Unlimited = Unlimited
    MAX_SUBQUEUE_SIZE = Unlimited
    AllocModes = {"CanAlloc"}
    MemoryCanFail = FALSE
    MayThrows = {FALSE}
    BulkCounts = {3}
    DequeueCounts = {1, 3}
    MaxEnqueued = 6
SPECIFICATION Spec
INVARIANTS
    EveryElementFindable
    ConsumerReadsItsOwn
SYMMETRY Symmetry
CHECK_DEADLOCK FALSE
