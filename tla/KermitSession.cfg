SPECIFICATION FairSpec
CONSTANTS
    SeqMod = 4
    Script <- MCScript
    LineMax = 3
    Garbled <- MCGarbled
CHECK_DEADLOCK FALSE
INVARIANTS
    TypeOK
    InStep
    AckedIsStored
PROPERTIES
    TransferSpec
    LoadbReturns
