\* A transaction may land after the process that sent it was restarted.
SPECIFICATION Spec
CONSTANTS
    RecordCount = 2
    Versions = {1}
    MaxBatch = 2
    PassLimit = 3
    LateLanding = TRUE
    TradeBound = 2
    FaultBound = 2
    ForeignBound = 0
    MayClose = FALSE
INVARIANT NothingSealedTwice
CHECK_DEADLOCK FALSE
