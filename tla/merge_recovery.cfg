SPECIFICATION Spec
CONSTANTS
    MaxHolds = 1
    MaxRechecks = 1
    MaxRecoveries = 1
    RecoveryEnabled = TRUE
    N = 1
    MaxUpdates = 1
    MaxSettle = 1
    UpdateRewrites = TRUE
    FetchFails = FALSE
    AnswersLost = TRUE
    GateFacts = {"clear", "checks_failed", "unreadable"}
    SessionFacts = {"gone","busy", "send_fails","silent","confirms"}
    MaxCommits = 3
    MaxOutside = 1
    MaxRequests = 2
    MaxCrashes = 1
INVARIANTS
    TypeOK
    MergesAsked
PROPERTIES
    HandbacksKept
    KeepsContract
