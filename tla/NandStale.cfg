SPECIFICATION Spec
CONSTANTS
    a = a
    b = b
    erased = erased
    mixed = mixed
    NumBlocks = 1
    PagesPerBlock = 3
    PageSize = 2
    OobSize = 2
    Data <- MCDataOne
    FF = erased
    Mixed = mixed
    Ops = {"mark", "erase", "write"}
    Faults = {"late"}
    MaxTotal = 2
    MaxFailed = 1
    PageSpan = 16
    Bufs <- MCBufsWide
    BadMark = mixed
    ScanLastPage = FALSE
    Scan2ndPage = TRUE
    ScanByte1And6 = TRUE
    Byte6 = 1
    OobPageLimit = 0
    DmaData = 1
    DmaOob = 2
    MaxOob = 1
PROPERTIES
    StaleOffsetOnce
