CONSTANTS
    NR_TASKS = 3
    DEFAULT_QUANTUM = 1
    MaxPID = 1002
    Depth <- MCDepth
    Spans = {0, 1}
    MaxNow = 3
SPECIFICATION StatsSpec
INVARIANTS
    AllTimeCounted
    ReadyTimeExact
CHECK_DEADLOCK FALSE
