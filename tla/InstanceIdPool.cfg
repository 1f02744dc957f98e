CONSTANTS
    Chunk = 2
    Word = 4
    MaxId = 5
SPECIFICATION PoolSpec
INVARIANTS NextIsAvailable
CHECK_DEADLOCK FALSE
