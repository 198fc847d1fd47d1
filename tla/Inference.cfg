SPECIFICATION FairSpec
CONSTANTS
  h1 = h1  h2 = h2  m1 = m1  m2 = m2  e1 = e1  e2 = e2  e3 = e3
  Handler = {h1, h2}
  TaskId = {1, 5}
  Width = 4
  Model = {m1, m2}
  Private = {e1, e2, e3}
  Absent = {m2, e3}
  Symbol <- MCSymbol
  Bytes = {e2}
  Job <- MCJob
  MaxDeps = 1
  MaxTasks = 2
  MaxFaults = 1
  MaxCrashes = 1
INVARIANTS
  TypeOK
  RunsOwnEngine
  AppendsBounded
PROPERTY TaskEnds
CHECK_DEADLOCK FALSE
