CONSTANTS
    NR_TASKS = 4
    DEFAULT_QUANTUM = 2
    MaxPID = 1003
    Depth <- MCDepth
SPECIFICATION Spec
INVARIANTS
    NeverWild
CHECK_DEADLOCK FALSE
