CONSTANTS
    id1 = id1
    id2 = id2
    h1 = h1
    x1 = x1
    x2 = x2
    t1 = t1
    t2 = t2
    Ids = {id1, id2}
    Hashes = {h1}
    Payloads = {x1, x2}
    TxHashes = {t1}
    None = None
    NotATime = NotATime
    Down = Down
    MaxTime = 0
    Window = 0
    MaxDepth = 3
    MaxFaults = 1
SPECIFICATION Spec
INVARIANT TypeOK
INVARIANT OneEdgeAtATime
INVARIANT RecordedFactsArePermanent
INVARIANT BoundAndSimulatedForThisProposal
PROPERTY ImplementsAcceptedLog
CHECK_DEADLOCK FALSE
