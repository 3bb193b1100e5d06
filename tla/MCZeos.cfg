CONSTANTS
    NR_TASKS = 4
    DEFAULT_QUANTUM = 1
    MaxPID = 1002
    Depth <- MCDepth
    TOTAL_PAGES = 10
    NUM_PAG_KERNEL = 2
    NUM_PAG_CODE = 1
    NUM_PAG_DATA = 1
    GuardPages = {1}
    SHARED = 1
    AttachPages = {5}
    MaxRef = 3
    Values = {0, 1}
    Initial = 0
SPECIFICATION Spec
INVARIANTS
    OwnDataMapped
PROPERTIES
    Isolated
CHECK_DEADLOCK FALSE
