SPECIFICATION FairSpec
CONSTANTS
  TaskCount = 4
  Unknown = Unknown
  Candidates <- MCCandidates
INVARIANTS
  TypeOK
  AcceptedIsAcyclic
  RejectedIsCyclic
  BlockedIsExact
PROPERTIES
  AlgorithmsEnd
CHECK_DEADLOCK FALSE
