SPECIFICATION Spec
CONSTANTS
  TaskCount = 1
  Plans <- Single
  ArtifactTasks = {}
  MaxConcurrency = 1
  ExecutionIds = {e1, e2}
  None = None
  Hosts = {h1}
  Requests = {r1, r2}
  Commands = {"pause", "resume"}
  CommitAttempts = 5
  MaxFaults = 0
INVARIANTS
  InvocationsWithinLimit
CHECK_DEADLOCK FALSE
