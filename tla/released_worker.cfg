CONSTANTS
    Tools = {}
    Runs = {"r1"}
    Commands = {}
    Approvals = {}
    MaxWorkers = 2
    KeepPerRepo = 1
    BranchHoldCap = 1
    MaxFaults = 0
    MaxEvents = 2
SPECIFICATION Spec
PROPERTY ReleasesUnstarted
