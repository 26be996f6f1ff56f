CONSTANTS
    p1 = p1
    p2 = p2
    v1 = v1
    v2 = v2
    Procs = {p1}
    Values = {v1, v2}
    NoValue = NoValue
    Fragment = Fragment
    DirEntryDurable = TRUE
    MaxJournal = 4
    MaxFaults = 2
SPECIFICATION Spec
INVARIANT CrashesAreRecoverable
PROPERTY ImplementsAcceptedLog
CHECK_DEADLOCK FALSE
