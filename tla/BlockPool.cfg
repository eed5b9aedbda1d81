\* One producer of each kind, blocks of two: four blocks for two elements,
\* which run out, and six for four, which need not.
CONSTANTS
    Explicit = {e1}
    Implicit = {i1}
    MinCapacities = {2, 4}
    BLOCK_SIZE = 2
    EXPLICIT_INITIAL_INDEX_SIZE = 2
    IMPLICIT_INITIAL_INDEX_SIZE = 4
    MaxEnqueued = 5
    MemoryCanFail = TRUE
    null = null
SPECIFICATION Spec
INVARIANTS BlockInOnePlace PoolIndexBounded PreallocationSuffices
CHECK_DEADLOCK FALSE
