SPECIFICATION FairSpec
CONSTANTS
    ReadLimit = 2
    LineLimit = 1
    Inodes = {i1, i2}
    None = None
    MaxBytes = 3
    MaxGenerations = 2
    MaxFaults = 1
INVARIANTS
    TypeOK
    EachLineOnce
PROPERTIES
    CatchesUp
