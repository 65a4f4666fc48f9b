\* No transaction outlives the pass that sent it; somebody else commits with the key, once.
SPECIFICATION Spec
CONSTANTS
    RecordCount = 2
    Versions = {1, 2}
    MaxBatch = 2
    PassLimit = 3
    LateLanding = FALSE
    TradeBound = 3
    FaultBound = 2
    ForeignBound = 1
    MayClose = TRUE
INVARIANTS ChainAccounted HaltsForForeignOnly RangeIsBatch
PROPERTY ImplementsSealedLog
CHECK_DEADLOCK FALSE
