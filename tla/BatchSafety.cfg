SPECIFICATION Spec
CONSTANTS
    N = 3
    Workers = 2
    None = None
    MaxFaults = 1
    Policies <- MCPolicies
    Media <- MCMedia
    Unscanned <- MCUnscanned
    CodecAlias <- MCCodecAlias
INVARIANTS
    TypeOK
    PhasesFollow
    JobsTell
PROPERTIES
    StopsAndEnds
CHECK_DEADLOCK FALSE
