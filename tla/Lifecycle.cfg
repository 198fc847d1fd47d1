SPECIFICATION FairSpec
CONSTANTS
  Client = {c1, c2}
  TaskId = {1, 2, 3}
  FirstId = 1
  BusyRetries = 0
  MaxCalls = 2
  MaxLosses = 1
  MaxLate = 1
  MaxBusy = 1
INVARIANTS
  TypeOK
  IdsExclusiveUntilStale
  OrphansBounded
PROPERTIES
  ImplementsTaskLife
  NegotiationReturns
CHECK_DEADLOCK FALSE
