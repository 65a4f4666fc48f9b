SPECIFICATION Spec
CONSTANTS
    Mints = {m1}
    Curves <- MCCurves
    Amms <- MCAmms
    PublishedFee = 30
    DefaultFee = 125
    Sizes = {3, 10}
    StartingBalance = 14
    Signatures = {s1}
    Credit = 2
    Orders = {o1, o2}
    Confirms = {c1, c2}
    SlotBound = 1
    TradeBound = 3
    EventBound = 1
SYMMETRY Interchangeable
INVARIANTS TypeOK TradesExplainAccount CurveLeavesRebuild
CHECK_DEADLOCK FALSE
PROPERTIES NoFillEnriches WrittenAgainstQuoted ImplementsSerialAccount
