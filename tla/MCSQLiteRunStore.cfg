SPECIFICATION FairSpec
CONSTANTS
  h1 = h1
  h2 = h2
  c1 = c1
  c2 = c2
  c3 = c3
  Callers = {c1, c2, c3}
  Hosts = {h1, h2}
  HostOf <- MCHostOf
  CallsOf <- MCCallsOf
  MaxFaults = 1
  None = None
INVARIANTS
  TypeOK
  SnapshotMatchesEvents
  InitializedHasSchema
PROPERTIES
  ImplementsStore
  CallsReturn
CHECK_DEADLOCK FALSE
