SPECIFICATION FairSpec
CONSTANTS
  TaskCount = 1
  Plans <- Single
  ArtifactTasks = {}
  MaxConcurrency = 2
  ExecutionIds = {e1, e2, e3}
  None = None
  Hosts = {h1}
  Requests = {r1, r2}
  Commands = {"pause", "resume"}
  CommitAttempts = 5
  MaxFaults = 0
PROPERTIES
  RunningEnds
  ExecutionsSettle
  RequestsAnswered
CHECK_DEADLOCK FALSE
