CONSTANTS
    p1 = p1
    p2 = p2
    v1 = v1
    v2 = v2
    Procs = {p1}
    Values = {v1, v2}
    NoValue = NoValue
    Fragment = Fragment
    DirEntryDurable = FALSE
    MaxJournal = 3
    MaxFaults = 0
SPECIFICATION Spec
SYMMETRY Symmetry
CHECK_DEADLOCK FALSE
INVARIANT NoSilentLoss
