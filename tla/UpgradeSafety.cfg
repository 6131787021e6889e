CONSTANTS
    Processes = {p1, p2}
    NoProcess = NoProcess
    Starts = {0, 1, 6, 19, 24, 25, 27}
    Shared = {0, 19, 24, 27}
    MaxOpens = 3
    MaxCrashes = 1
SPECIFICATION Spec
CHECK_DEADLOCK FALSE
SYMMETRY Symmetry
INVARIANTS
    TypeOK
    RowsKept
PROPERTIES
    UpgradesEnd
