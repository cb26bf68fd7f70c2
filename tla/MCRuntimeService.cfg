SPECIFICATION Spec
CONSTANTS
  TaskCount = 2
  Plans <- PairOrChain
  ArtifactTasks = {1}
  MaxConcurrency = 2
  ExecutionIds = {e1, e2, e3}
  None = None
  Hosts = {h1}
  Requests = {r1, r2}
  Commands = {"pause", "resume"}
  CommitAttempts = 2
  MaxFaults = 1
SYMMETRY Symmetry
INVARIANTS
  TypeOK
  VersionIdentifiesSnapshot
  AbandonedLeasesRecovered
PROPERTIES
  ImplementsLifecycle
  ResumeAnswersFromItsEvent
CHECK_DEADLOCK FALSE
