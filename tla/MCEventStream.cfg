SPECIFICATION FairSpec
CONSTANTS
  TaskCount = 1
  Plans <- MCPlans
  ArtifactTasks = {1}
  MaxConcurrency = 1
  ExecutionIds = {e1, e2}
  None = None
  MaxInterruptions = 1
  MaxReconnects = 1
  MaxEvents = 12
INVARIANTS
  TypeOK
  GapFree
PROPERTIES
  EventsDelivered
  StreamEndsWithRun
CHECK_DEADLOCK FALSE
