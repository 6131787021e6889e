\* Two workers, two jobs: who executes, settles and deletes them, and that they are worked off.
SPECIFICATION FairSpec
CONSTANTS
  Jobs <- MCJobs
  JobType <- MCJobType
  Priority <- MCPriority
  Workers = {w1, w2}
  None = None
  Cli = Cli
  StaleTimeout = 2
  MaxHeartbeatFailures = 3
  MaxMissed = 1
  Outlive = TRUE
  MaxRetries = 1
  MaxKills = 3
INVARIANTS
  TypeOK
  Exclusive
PROPERTIES
  LeaseSpec
  QueuedJobsSettle
