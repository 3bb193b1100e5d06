CONSTANTS
    Procs = {p0, p1, p2}
    FirstProc = p0
    TOTAL_PAGES = 17
    NUM_PAG_KERNEL = 2
    NUM_PAG_CODE = 1
    NUM_PAG_DATA = 2
    GuardPages = {1}
    SHARED = 2
    AttachPages = {8}
    MaxRef = 2
SPECIFICATION Spec
SYMMETRY Children
INVARIANTS
    DataIsPrivate
    NoFrameLeak
    RefCounts
PROPERTIES
    ForkCopiesAttachments
    LastDetachClears
    FaultOnlyByLastUser
CHECK_DEADLOCK FALSE
