CONSTANTS
    NR_TASKS = 4
    DEFAULT_QUANTUM = 2
    MaxPID = 1003
    Depth <- MCDepth
SPECIFICATION FairSpec
INVARIANTS
    SlotPartition
    DistinctPIDs
    ContextOfCurrent
    ResumePointsToFrame
PROPERTIES
    LoneYieldOnly
    FullTurn
    TakesTurns
    ReadyRuns
CHECK_DEADLOCK FALSE
