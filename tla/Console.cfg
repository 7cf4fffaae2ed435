SPECIFICATION Spec
CONSTANTS
    x = x
    blank = blank
    Chars <- MCTwo
    Space = blank
    HstDep = 4
    MaxCmdLen = 6
    MaxCmdArg = 2
    MaxCmdArgLen = 2
    NoCommand <- MCUnset
    TypedMax = 5
    LinesMax = 5
INVARIANTS
    TypeOK
    HistoryHolds
    RunsFirstWord
PROPERTIES
    BrowseShows
