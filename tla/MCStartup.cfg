CONSTANTS
    NR_TASKS = 4
    DEFAULT_QUANTUM = 3
    MaxPID = 1002
    Depth <- MCDepth
    BootSlot = 3
    MaxWindow = 2
SPECIFICATION StartupSpec
INVARIANTS
    NeverAstray
    StartsSound
CHECK_DEADLOCK FALSE
