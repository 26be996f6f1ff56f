CONSTANTS
    id1 = id1
    id2 = id2
    h1 = h1
    x1 = x1
    x2 = x2
    t1 = t1
    t2 = t2
    Ids = {id1}
    Hashes = {h1}
    Payloads = {x1, x2}
    TxHashes = {t1, t2}
    None = None
    NotATime = NotATime
    Down = Down
    MaxTime = 2
    Window = 1
    MaxDepth = 2
    MaxFaults = 0
SPECIFICATION FairSpec
INVARIANT NothingBeforeUnlock
INVARIANT EvidenceIsAboutBoundTransaction
PROPERTY EventuallyVerified
