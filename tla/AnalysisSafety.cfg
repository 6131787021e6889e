SPECIFICATION Spec
CONSTANTS
    Film <- MCFilm
    Start = {"full"}
    Originals <- MCOriginals
    Languages = {"fr", "en"}
    Silence = "silence"
    Threshold = 5
    Procs = {p, q}
    None = None
    NoHash = NoHash
    MaxEvents = 2
    MaxTasks = 3
    MaxSteps = 4
SYMMETRY MCSymmetry
INVARIANTS
    CachesTell
    UsedVerdictsTrue
CHECK_DEADLOCK FALSE
