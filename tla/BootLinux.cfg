SPECIFICATION BootSpec
CONSTANTS
    ULong = 256
    ULongLong = 65536
    Size = 32
    MaxCmdArg = 7
    MaxCmdArgLen = 6
    Behind = 4
    Defaults <- MCDefaults
    Patches <- MCPatches
    Lines <- MCLines
    LinesMax = 2
    Slots = 14
    Stale <- MCStale
    OldMemory <- MCOldMemory
CHECK_DEADLOCK FALSE
INVARIANTS
    ParamsAsAsked
    KernelSees
    BootsAsked
    BufferHeld
PROPERTIES
    LineEnds
