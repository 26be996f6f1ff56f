SPECIFICATION Spec
CONSTANTS
    Proposals = {p1}
    Bindings = {b1}
    Durations = {1}
    ManualStates = {"HASHED", "TIMELOCKED", "RE_SIMULATED"}
    ApprovalIds = {"given", "empty"}
    EventIds <- MCEventIds
    Posts <- MCPosts
    None = None
    Down = Down
    MaxTime = 2
    MaxVersion = 6
    MaxFaults = 1
    MaxCrashes = 1
    expiresAt = 2
    Outcomes = {"published"}
    OtherEvents = {"missing"}
INVARIANTS
    TypeOK
    RestartRebuildsMemory
    NothingSentBeforeUnlock
CHECK_DEADLOCK FALSE
