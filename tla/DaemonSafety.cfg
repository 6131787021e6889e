SPECIFICATION FairSpec
CONSTANTS
    None = None
    Clients = {c1}
    Configs <- MCConfigs
    Default <- MCDefault
    Second = 2
    CleanupEvery = 3
    MaxClock = 7
    Settings <- MCSettings
    Defaults <- MCDefaults
    Starts <- MCStarts
    MaxReloads = 2
    MaxFaults = 1
INVARIANTS
    TypeOK
    WindowHolds
    RetryTells
    SnapshotInForce
    ExitIsClean
PROPERTIES
    ShutdownEnds
