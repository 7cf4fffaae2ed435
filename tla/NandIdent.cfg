SPECIFICATION Spec
CONSTANTS
    Ids <- MCIds
    Infos <- MCInfos
    Offsets <- MCOffsets
    Lengths <- MCLengths
    Bits = 29
INVARIANTS
    TypeOK
    GeometryAgrees
    Addressed
    TotalExact
