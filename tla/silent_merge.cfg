SPECIFICATION Spec
CONSTANTS
    Tasks = {t1, t2}
    Opened = {t2}
    BatchLimit = 2
    ReadLimit = 3
    Backlog = 2
    DigestMin = 3
    Level = "summary"
    MaxLog = 3
    MaxFaults = 1
PROPERTIES
    MergesAnnounced
