SPECIFICATION FairSpec
CONSTANTS
    MaxHolds = 1
    MaxRechecks = 0
    MaxRecoveries = 0
    RecoveryEnabled = FALSE
    N = 3
    MaxUpdates = 1
    MaxSettle = 2
    UpdateRewrites = FALSE
    FetchFails = TRUE
    AnswersLost = FALSE
    GateFacts = {"clear"}
    SessionFacts = {"confirms"}
    MaxCommits = 2
    MaxOutside = 0
    MaxRequests = 3
    MaxCrashes = 0
PROPERTIES MergesInTurn RequestsProgress
