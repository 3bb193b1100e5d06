CONSTANTS
    NR_TASKS = 4
    QUANTUM = 2
    MaxPID = 1004
    MaxPending = 1
SPECIFICATION FairSpec
INVARIANTS
    QueuesAreRings
    FamilyIntact
    FaultOnlyByInit
PROPERTIES
    TakesTurns
    ReadyRuns
CHECK_DEADLOCK FALSE
