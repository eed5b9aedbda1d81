CONSTANTS
    Nodes = {n1, n2}
    Threads = {t1, t2, t3}
    null = null
    SHOULD_BE_ON_FREELIST = 8
    MaxCalls = 7
SPECIFICATION FairSpec
INVARIANTS
    NodeInOnePlace
    OneLinkerPerNode
    NextStillValid
    NoNodeLost
PROPERTY CallsReturn
CHECK_DEADLOCK FALSE
