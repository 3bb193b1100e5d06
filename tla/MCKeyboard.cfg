CONSTANTS
    BUFFER_SIZE = 3
    Chars = {"nul", "q", "w"}
    NUL = "nul"
    char_map <- MCCharMap
    Codes = {1, 2, 3}
    MaxTyped = 5
SPECIFICATION FairSpec
PROPERTIES
    ShortReadMeansEmpty
    ReadReturns
    ImplementsFifo
