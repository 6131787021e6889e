SPECIFICATION PagesSpec
CONSTANTS
    Null = Null
    Refused = Refused
    Unreadable = Unreadable
    DefaultPage = 2
    MaxPage = 4
    ApiPage = 1
    ApiMaxPage = 2
    RecentPage = 1
    MaxLimit = 4
    Length <- MCLength
    InitialDb <- MCInitialDb
    Paths = {1, 4}
    Contents <- MCContents
    Languages = {"fr"}
    PhaseMetrics <- MCPhases
    Outcomes <- MCOutcomes
    Walks <- MCWalks
    PurgeOptions <- MCPurgeOptions
    MaxClock = 3
INVARIANTS
    PagesKeepRows
    FiguresAgree
PROPERTIES
    RecordsWhole
    PurgeTells
CONSTRAINT Bounds
CHECK_DEADLOCK FALSE
