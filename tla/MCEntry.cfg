CONSTANTS
    FirstProc = 1
    Systems <- MCSystems
    Depth = 14
SPECIFICATION Spec
INVARIANTS
    ArgumentsReachHandler
    CalleeSaved
    ResultReturned
PROPERTIES
    RunsAlone
CHECK_DEADLOCK FALSE
