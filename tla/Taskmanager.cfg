SPECIFICATION Spec
CONSTANTS
  TaskId = {1, 5}
  IdSpan = 4
  Handler = {h1, h2}
  MaxDeps = 2
  MaxDeploys = 2
  MaxRuns = 1
SYMMETRY HandlerSymmetry
INVARIANTS
  TypeOK
  SquareMatrix
  ExactUntilShift
  OneDonePerDeployment
  RollbackExact
CHECK_DEADLOCK FALSE
