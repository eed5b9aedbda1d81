CONSTANTS
    Threads = {t1, t2, t3}
    InitialCount = 0
    MaxSpins = 1
    Maxes = {1, 2}
    SignalCounts = {1, 2}
    WaitCanFail = FALSE
    MaxCalls = 3
SPECIFICATION FairSpec
INVARIANTS
    WaitManyAcquires
    SemaphoreInvariant
PROPERTIES
    ImplementsCounting
    NoStrandedWaiter
    TimedOutReturns
CHECK_DEADLOCK FALSE
