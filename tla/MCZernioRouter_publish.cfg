SPECIFICATION FairSpec
CONSTANTS
    Proposals = {p1}
    Bindings = {b1}
    Durations = {1}
    ManualStates = {"HASHED", "REJECTED"}
    ApprovalIds = {"given", "empty", "undefined"}
    EventIds <- MCEventIds
    Posts <- MCPosts
    None = None
    Down = Down
    MaxTime = 1
    MaxVersion = 10
    MaxFaults = 0
    MaxCrashes = 1
    expiresAt = 2
    Outcomes = {"published", "failed", "cancelled"}
    OtherEvents = {}
PROPERTIES
    ImplementsPublishOnce
    SettledIsJudged
    PostIsRecorded
CHECK_DEADLOCK FALSE
