\* Overlapping ticks, lost outcomes, restarts, the next season, marks that move once.
SPECIFICATION FairSpec
CONSTANTS
    Entrants <- MCEntrants
    EnteredAt <- MCEnteredAt
    EntryCost = 10
    Sponsor = 2
    StartingBalance = 30000
    Marks <- MCMarks
    Bands <- MCBands
    HouseBps = 1000
    HouseThreshold = 20
    MaxTicks = 2
    FaultBound = 1
    RemarkBound = 1
INVARIANTS PaysTheSplit DuplicateNeedsLoss
PROPERTY PaidWhileCurrent
CHECK_DEADLOCK FALSE
