SPECIFICATION Spec
CONSTANTS
  TaskCount = 3
  Plans <- MCPlans
  ArtifactTasks = {1}
  MaxConcurrency = 2
  ExecutionIds = {e1, e2, e3, e4, e5, e6}
  None = None
  MaxInterruptions = 1
SYMMETRY Symmetry
INVARIANTS
  TypeOK
  LeaseTable
  LeaseEpochsDistinct
  WithinConcurrencyLimit
  DependencyOrder
  OutputsFromLastAttempt
  NeverStalls
  OutcomeExplained
  AttemptsBounded
  EventsExplainSnapshot
  OneOutcomePerExecution
PROPERTIES
  SucceededIsFinal
  TerminalIsFinal
CHECK_DEADLOCK FALSE
