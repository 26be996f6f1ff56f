CONSTANTS
    w1 = w1
    w2 = w2
    a = a
    b = b
    Workers = {w1, w2}
    Results = {a, b}
    NoResult = NoResult
    MaxCrashes = 3
    NamesDurable = FALSE
SPECIFICATION FairSpec
INVARIANT TypeOK
INVARIANT SecondAcceptanceNeedsBothLosses
INVARIANT AcceptanceIsOnRecord
PROPERTY EveryResultAccepted
CHECK_DEADLOCK FALSE
