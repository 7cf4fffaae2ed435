\* A memory test that finds nothing goes on for ever and is followed for PassMax
\* passes; a receive may wait for ever.
CHECK_DEADLOCK FALSE
SPECIFICATION RoutinesSpec
CONSTANTS
    Routines = {"start", "divide", "clock", "pins", "serial", "delay", "memory", "packet", "number"}
    Ram = 56
    ImageWords = 11
    BssWords = 6
    LinkAt = 16
    LoadAts = {0, 16, 32, 33}
    Width = 8
    Operands <- MCOperands
    ULongRange = 4096
    Sysin = 100
    Baud = 2
    PllSettings <- MCPlls
    PeriFields <- MCPeri
    BusFields <- MCBus
    Garbage = {0, 500}
    RegMax = 18
    PinTables <- MCPinTables
    ResetModes = {0, 4}
    LevelBits = 2
    MsPolls = 2
    PutPolls = 2
    CounterMax = 8
    Ports = {1, 2}
    Texts <- MCTexts
    Arrivals = 2
    PutMax = 5
    Expiries = {2, 3, 4}
    LongMax = 16
    RateHz = 60
    ChunkMax = 3
    SliceMax = 4
    Kilo = 5
    Lag = 2
    Amounts = {0, 1, 3, 9}
    WordBits = 4
    Words = 3
    PassMax = 4
    Patterns <- MCPatterns
    Payloads <- MCPayloads
    Headers <- MCHeaders
    Damages <- MCDamages
    ULong = 256
    ULongLong = 4194304
    Keys = {48, 49, 56, 97, 120, 75, 77, 45}
    TextMax = 4
INVARIANTS
    RoutinesTypeOK
    StartsClean
    DivisionExact
    MatchRight
    PinsAsGiven
    UartOK
    EarlyByTruncationOnly
    MemFaultFound
    PacketTruthful
    OffsetMeansText
PROPERTIES
    RoutineReturns
