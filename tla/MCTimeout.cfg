SPECIFICATION HangingSpec
CONSTANTS
  TaskCount = 2
  Plans <- MCPlans
  ArtifactTasks = {1}
  MaxConcurrency = 1
  ExecutionIds = {e1, e2, e3}
  None = None
  Digests = {d1}
  Forged = Forged
  MaxWallSeconds = 2
  TimeoutSeconds = 1
  MaxInterruptions = 0
PROPERTIES
  InvocationsEnd
CHECK_DEADLOCK FALSE
