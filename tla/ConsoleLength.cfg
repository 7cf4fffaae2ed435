SPECIFICATION Spec
CONSTANTS
    x = x
    blank = blank
    Chars <- MCTwo
    Space = blank
    HstDep = 2
    MaxCmdLen = 4
    MaxCmdArg = 2
    MaxCmdArgLen = 3
    NoCommand <- MCUnset
    TypedMax = 5
    LinesMax = 1
INVARIANTS
    LineFits
