SPECIFICATION DeskSpec
CONSTANTS
    N = 1
    MaxEvents = 2
    BoardTasks = {t1}
    Overseer = none
    SnapshotLimit = 2
    MaxLines = 3
    MaxBoardEvents = 1
    MaxDepth = 1
    MaxWraps = 2
INVARIANTS
    TriageSafe
    
    
PROPERTIES
    TriageConcludes
    DeskClears
