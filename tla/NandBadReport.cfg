SPECIFICATION Spec
CONSTANTS
    a = a
    b = b
    erased = erased
    mixed = mixed
    NumBlocks = 2
    PagesPerBlock = 2
    PageSize = 1
    OobSize = 1
    Data <- MCDataOne
    FF = erased
    Mixed = mixed
    Ops = {"read"}
    Faults = {}
    MaxTotal = 2
    MaxFailed = 0
    PageSpan = 12
    Bufs <- MCBufsOne
    BadMark = mixed
    ScanLastPage = FALSE
    Scan2ndPage = TRUE
    ScanByte1And6 = FALSE
    Byte6 = 0
    OobPageLimit = 0
    DmaData = 1
    DmaOob = 1
    MaxOob = 1
INVARIANTS
    ReportedBadIsBad
