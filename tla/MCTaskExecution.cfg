SPECIFICATION FairSpec
CONSTANTS
  TaskCount = 2
  Plans <- MCPlans
  ArtifactTasks = {1, 2}
  MaxConcurrency = 1
  ExecutionIds = {e1, e2, e3, e4}
  None = None
  Digests = {d1}
  Forged = Forged
  MaxWallSeconds = 2
  TimeoutSeconds = 1
  MaxInterruptions = 1
INVARIANTS
  TypeOK
  ArtifactsGenuine
  NoTemporaryLeft
PROPERTIES
  ExhaustedRunEnds
CHECK_DEADLOCK FALSE
