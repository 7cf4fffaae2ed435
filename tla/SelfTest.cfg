SPECIFICATION FairTestSpec
CONSTANTS
    a = a
    b = b
    c = c
    d = d
    erased = erased
    mixed = mixed
    NumBlocks = 5
    PagesPerBlock = 2
    PageSize = 1
    OobSize = 1
    Data <- MCData
    FF = erased
    Mixed = mixed
    Ops = {"erase", "write", "read"}
    Faults = {}
    MaxTotal = 2
    MaxFailed = 0
    PageSpan = 40
    Bufs <- MCBufs
    BadMark = mixed
    ScanLastPage = FALSE
    Scan2ndPage = TRUE
    ScanByte1And6 = FALSE
    Byte6 = 0
    OobPageLimit = 0
    DmaData = 1
    DmaOob = 1
    MaxOob = 1
    TestBlock = 2
    EraseBlocks = 2
    TestPages = 2
    WithOob = FALSE
    Pattern <- MCPattern
CHECK_DEADLOCK FALSE
INVARIANTS
    ReadBackEqual
PROPERTIES
    TestEnds
