CONSTANTS
    Threads = {t1, t2}
    Tokens = {k1, k2}
    MaxProducers = 2
    MaxTokenSteps = 3
    null = null
    MemoryCanFail = TRUE
    INITIAL_IMPLICIT_PRODUCER_HASH_SIZE = 1
    hashedId <- AllCollide
    invalid = invalid
    invalid2 = invalid2
    MaxCalls = 4
    ExitDuringDestroy = FALSE
SPECIFICATION FairSpec
INVARIANTS
    OneOwnerPerProducer
    FreeSlotRemains
    NothingDangles
PROPERTIES
    SameProducer
    CallsReturn
CHECK_DEADLOCK FALSE
