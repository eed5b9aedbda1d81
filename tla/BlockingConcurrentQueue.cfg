CONSTANTS
    Threads = {}
    Tokens = {k1, k2}
    MaxProducers = 2
    MaxTokenSteps = 2
    null = null
    MemoryCanFail = FALSE
    k1 = k1
    k2 = k2
    c1 = c1
    c2 = c2
    Consumers = {c1, c2}
    initialOffset <- InTurn
    EXPLICIT_CONSUMER_CONSUMPTION_QUOTA_BEFORE_ROTATE = 2
    OffsetRange = 4
    EnqueueCounts = {1, 2}
    MaxEnqueued <- TwoAndOne
    Calls <- ByConsumer
    AssignmentMayThrow = TRUE
SPECIFICATION FairSpec
INVARIANTS
    ElementsCovered
    NoProducerSkipped
PROPERTY PermitFindsElement
CHECK_DEADLOCK FALSE
