SPECIFICATION Spec
CONSTANTS
  TaskId = {1, 2, 3, 4}
  IdSpan = 8
  Handler = {h1}
  MaxDeps = 1
  MaxDeploys = 1
  MaxRuns = 1
PROPERTY DepsBeforeSubmit
CHECK_DEADLOCK FALSE
