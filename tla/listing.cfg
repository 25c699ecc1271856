SPECIFICATION ListingSpec
CONSTANTS
    CaseIds = {c1}
    Users = {u1}
    Parent = parent
    Cap = 1
    TTL = 0
    Hour = 1
    ActionLimit = 2
    MaxAttempts = 2
    MaxTime = 1
    MaxMessages = 3
    MaxFaults = 1
    PathOrder <- Dirs
    Agents <- Workers
    Residents <- First
    MaxOps = 3
    MaxSlips = 1
    MaxSaves = 2
    SlowLaunches = FALSE
INVARIANTS
    
    ThreadsSafe
PROPERTIES
    RowsSafe
    
    
