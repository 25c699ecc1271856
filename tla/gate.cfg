SPECIFICATION RunningSpec
CONSTANTS
    MaxHolds = 1
    MaxRechecks = 1
    MaxRecoveries = 1
    RecoveryEnabled = FALSE
    Branches = {b1}
    Names = {n1}
    AllowUnverifiable = TRUE
    MaxUpdates = 1
    VerifiedTTL = 1
    PlanTTL = 2
    MaxWait = 1
    StuckAfter = 1
    Refusals = {{}, {"rulesets", "classic"}}
    MaxRuns = 2
    MaxEvents = 2
    Pids = {p1, p2, p3}
    Callers = {shell}
    SlowProbes = FALSE
    MaxCommands = 2
    MaxMishaps = 1
    NoPid = NoPid
PROPERTIES
    GateHolds
    EndsToldOrMerged
    ServiceSafe
    ServiceLives
CHECK_DEADLOCK FALSE
