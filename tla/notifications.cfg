SPECIFICATION FairSpec
CONSTANTS
    Tasks = {t1, t2}
    Opened = {t2}
    BatchLimit = 2
    ReadLimit = 3
    Backlog = 2
    DigestMin = 3
    Level = "summary"
    MaxLog = 3
    MaxFaults = 1
INVARIANTS
    ToldRight
PROPERTIES
    EverythingTold
CHECK_DEADLOCK FALSE
