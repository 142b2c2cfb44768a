SPECIFICATION Spec
CONSTANTS
    PoolSizes <- MCPoolSizes
    Requests <- MCRequests
    GrowSizes <- MCGrowSizes
    ElemSizes = {1, 2}
    MaxChunks = 5
    MaxBytes = 22
INVARIANTS
    TypeOK
    BlocksApart
    UnlinksCleanly
    FreedOnce
PROPERTIES
    GrowsOnlyWhenFull
    CallsReturn
