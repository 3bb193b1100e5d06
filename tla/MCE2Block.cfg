CONSTANTS
    NR_TASKS = 4
    QUANTUM = 2
    MaxPID = 1003
    MaxPending = 0
SPECIFICATION Spec
INVARIANTS
    BlockedIsSuspended
CHECK_DEADLOCK FALSE
