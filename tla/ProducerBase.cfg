\* A 5-bit index_t; counting starts two short of the wrap.
CONSTANTS
    HalfRange = 16
    BLOCK_SIZE = 2
    Consumers = {c1, c2, c3}
    FirstIndex = 30
    EnqueueCounts = {1, 2}
    DequeueMaxes = {0, 1, 2}
    MaxEnqueued = 2
    MaxTickets = 3
SPECIFICATION Spec
INVARIANTS
    HeadNeverPassesTail
    TicketInvariant
PROPERTY ImplementsSubQueue
SYMMETRY Symmetry
CHECK_DEADLOCK FALSE
