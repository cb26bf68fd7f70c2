SPECIFICATION Spec
CONSTANTS
  TaskCount = 1
  Plans <- Single
  ArtifactTasks = {1}
  MaxConcurrency = 2
  ExecutionIds = {e1, e2, e3}
  None = None
  Hosts = {h1, h2}
  Requests = {r1}
  Commands = {"pause", "resume", "cancel"}
  CommitAttempts = 2
  MaxFaults = 1
SYMMETRY Symmetry
PROPERTIES
  ImplementsLifecycle
CHECK_DEADLOCK FALSE
