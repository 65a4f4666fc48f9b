\* Every pass can consider every trade (PassLimit = TradeBound).
SPECIFICATION FairSpec
CONSTANTS
    RecordCount = 2
    Versions = {1}
    MaxBatch = 2
    PassLimit = 3
    LateLanding = FALSE
    TradeBound = 3
    FaultBound = 2
    ForeignBound = 0
    MayClose = TRUE
PROPERTY SealsEverything
CHECK_DEADLOCK FALSE
