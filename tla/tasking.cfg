SPECIFICATION TaskingSpec
CONSTANTS
    Tools = {"cli"}
    Runs = {"r1"}
    Commands = {"c1"}
    Approvals = {"a1"}
    MaxWorkers = 4
    KeepPerRepo = 1
    BranchHoldCap = 1
    MaxFaults = 1
    MaxEvents = 1
    Tasks = {t1}
    Threads = {1, 2}
    MaxTurns = 1
    MaxTaskFaults = 2
    Names <- MCNames
    Staffed = {p}
    Remote = w
    p = p
    q = q
    MaxKeys = 1
INVARIANTS
    DispatchSafe
PROPERTIES
    DispatchSettles
    PaneSafe
    PaneCatchesUp
    
