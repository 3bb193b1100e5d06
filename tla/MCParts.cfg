CONSTANTS
    NR_TASKS = 4
    NUM_PAG_KERNEL = 3
    Radix = 3
    MaxTicks = 2
    W = 8
    CYCLESPERTICK = 3
    Steps = {1, 5}
    Words = 128
    PAGE_SIZE = 4
    TOTAL_PAGES = 12
    USER_FIRST_PAGE = 3
    NUM_PAG_CODE = 2
    NUM_PAG_DATA = 3
    Attachable = {8, 9, 12}
    Sizes <- MCSizes
    BUFFER_SIZE = 9
    Boots <- MCBoots
    Files <- MCFiles
    BufSize = 1024
    sectors = 18
    setup_sects = 0
    UserSize = 114688
SPECIFICATION PartsSpec
INVARIANTS
    NeverKernel
    DataAccepted
    ChargesAddUp
    ProgramsInPlace
    LoaderIntact
    FirstStartsSound
    OnlyProgramStops
PROPERTIES
    IsTerminal
CHECK_DEADLOCK FALSE
