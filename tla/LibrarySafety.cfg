SPECIFICATION Spec
CONSTANTS
    Paths <- MCPaths
    Scopes <- MCScopes
    Like <- MCLike
    Plans = {"p"}
    Requests <- MCRequests
    BatchSize = 2
    None = None
    MaxVersion = 3
    MaxEvents = 2
    MaxTasks = 3
INVARIANTS
    TypeOK
PROPERTIES
    AnswersTrue
    RowsHold
    AllEnd
CHECK_DEADLOCK FALSE
