SPECIFICATION Spec
CONSTANTS
    Chats = {c1, c2}
    Traders = {a, b}
    Passes = {1, 2}
    PassLimit = 2
    MaxLines = 1
    MaxWatches = 2
    UpdateBound = 2
    FillBound = 2
    FaultBound = 1
INVARIANTS FilledOnce CursorIsWhatWasTold
PROPERTY EverythingTold
CHECK_DEADLOCK FALSE
