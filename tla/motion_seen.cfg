SPECIFICATION StatusSpec
CONSTANTS
    SettleSecs = 2
    CooldownSecs = 2
    Screens = {{}, {"caret"}, {"asks", "works"}, {"caret", "spins"}}
    MaxScreens = 2
    MaxTurns = 1
    MaxLapses = 1
PROPERTY MotionSeen
CHECK_DEADLOCK FALSE
