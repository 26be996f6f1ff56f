CONSTANTS
    u1 = u1
    u2 = u2
    u3 = u3
    ip1 = ip1
    ip2 = ip2
    ip3 = ip3
    Absent = Absent
    Malformed = Malformed
    Unspecified = Unspecified
    None = None
    MaxTime = 3
    Window = 3
    Ttl = 3
    max_sources = 2
    max_failures = 4
    max_series = 2
    min_samples = 2
    z_threshold = 2
    alpha_num = 1
    alpha_den = 2
    MaxMetric = 1000
    Sinks <- SinksDef
    Rules <- RulesDef
    observation_cooldown = 2
    observation_capacity = 3
    Scenarios <- ScenariosDef
SPECIFICATION Spec
INVARIANT TypeOK
INVARIANT ObservationsFollowTheLog
INVARIANT BaselineIsWeighted
INVARIANT CooldownsAreKept
INVARIANT FailuresHideNothing
PROPERTY EvictsSoonestToExpire
CHECK_DEADLOCK FALSE
