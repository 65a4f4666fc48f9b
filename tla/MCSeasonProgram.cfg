CONSTANTS
    t1 = t1
    t2 = t2
    t3 = t3
    admin1 = admin1
    keeper1 = keeper1
    NoKey = NoKey
    Keys <- MCKeys
    Traders <- MCTraders
    SeasonParams <- MCSeasonParams
    Batches <- MCBatches
    Roots <- MCRoots
    ZeroRoot = "zero"
    Claims <- MCClaims
    LeavesOf <- MCLeavesOf
    Rent = 2
    Deposits <- MCDeposits
    MaxU64 = 9
    MaxCount = 3
    MaxTime = 2
    MaxCommits = 2
SPECIFICATION Spec
INVARIANTS Solvent CountersMatchEntries PrizesWithinPot PaidAtMostOnce NobodyCrowdedOut
PROPERTIES RecordOnlyExtends TerminalIsFrozen
CHECK_DEADLOCK FALSE
