CONSTANTS
    p1 = p1
    p2 = p2
    v1 = v1
    v2 = v2
    Procs = {p1, p2}
    Values = {v1, v2}
    NoValue = NoValue
    Fragment = Fragment
    DirEntryDurable = TRUE
    MaxJournal = 3
    MaxFaults = 2
SPECIFICATION Spec
SYMMETRY Symmetry
INVARIANT TypeOK
INVARIANT NoSilentLoss
INVARIANT MemoryIsJournalled
CHECK_DEADLOCK FALSE
