\* Three processes use, back up and restore a library.
SPECIFICATION BackupSpec
CONSTANTS
    Absent = Absent
    Torn = Torn
    Procs = {p1, p2, p3}
    MaxCommits = 2
    MaxTasks = 3
    MaxFaults = 1
SYMMETRY MCSymmetry
INVARIANT LibraryIsWhole
PROPERTY BackupIsWhole
CHECK_DEADLOCK FALSE
