SPECIFICATION SessionsSpec
CONSTANTS
    Agents = {a1}
    NoAgent = NoAgent
    MaxEdits = 1
    MaxFaults = 1
    MaxRequests = 2
    SettleSecs = 2
    CooldownSecs = 2
    Screens = {{}, {"caret"}, {"asks", "works"}, {"caret", "spins"}}
    MaxScreens = 2
    MaxTurns = 1
    MaxLapses = 1
    Namesakes = {n1, n2}
    Attempts = 2
    MaxRelaunches = 2
    MaxTroubles = 1
    NoNamesake = NoNamesake
PROPERTIES
    
    WorkKept
    MergedLeaves
    
    StatusCatchesUp
CHECK_DEADLOCK FALSE
