SPECIFICATION UpkeepSpec
CONSTANTS
    RotationThreshold = 4
    MaxReports = 5
    MaxTorn = 1
    MaxFailures = 1
    MaxCrashes = 2
    TaskFetchLimit = 1
    MaxRivals = 1
    MaxMoves = 4
    MaxMisses = 1
    Ids = {r1}
    Findings = {f1}
    Remarks = {m1}
    MaxRows = 1
    Budget = 1
    Profile = TRUE
    MaxCase = 2
    MaxReviews = 2
    MaxDays = 1
    MaxDeaths = 1
    Window = 2
    MaxCrowd = 1
    MaxSame = 2
    Elsewhere = {b1}
    MaxLosses = 1
    MaxShifts = 1
INVARIANTS
    InboxSafe
    
    GoneWhenRead
    FiledOnce
PROPERTIES
    EventuallyApplied
    FindingsRaised
    MergesNoticed
    WatchKeepsUp
