SPECIFICATION Spec
CONSTANTS
  Policies <- McPolicies
  Absent = Absent
  Torn = Torn
  Other = Other
  None = None
  Occupied = FALSE
  TempElsewhere = TRUE
  MaxRuns = 2
INVARIANTS
  TypeOK
  IntactUnlessExposed
  OperationAtomic
  FreshTracks
PROPERTIES
  PathFollowsFile
CHECK_DEADLOCK FALSE
