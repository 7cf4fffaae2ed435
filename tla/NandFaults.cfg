SPECIFICATION FairSpec
CONSTANTS
    a = a
    b = b
    erased = erased
    mixed = mixed
    NumBlocks = 2
    PagesPerBlock = 2
    PageSize = 1
    OobSize = 1
    Data <- MCDataOne
    FF = erased
    Mixed = mixed
    Ops = {"erase", "write", "read"}
    Faults = {"fail"}
    MaxTotal = 2
    MaxFailed = 2
    PageSpan = 12
    Bufs <- MCBufsOne
    BadMark = mixed
    ScanLastPage = TRUE
    Scan2ndPage = TRUE
    ScanByte1And6 = FALSE
    Byte6 = 0
    OobPageLimit = 0
    DmaData = 1
    DmaOob = 1
    MaxOob = 1
INVARIANTS
    EraseTruthful
PROPERTIES
    StoreSpec
    GoodCallReturns
