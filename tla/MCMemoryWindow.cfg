CONSTANTS
    Procs = {p0, p1}
    FirstProc = p0
    TOTAL_PAGES = 15
    NUM_PAG_KERNEL = 2
    NUM_PAG_CODE = 1
    NUM_PAG_DATA = 2
    GuardPages = {1}
    SHARED = 1
    AttachPages = {5}
    MaxRef = 2
SPECIFICATION Spec
PROPERTIES
    ForkCopiesAttachments
CHECK_DEADLOCK FALSE
