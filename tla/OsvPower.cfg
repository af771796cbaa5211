SPECIFICATION FairSpec
CONSTANTS
  NumQueries = 4
  ViewQuery = 2
  ViewStmts = 3
  Iterations = 2
  MaxRuns = 2
  FaultModels <- MCFaults
INVARIANTS LaterRowsOwn ViewDropped
PROPERTIES ImplementsReport FullReport
CHECK_DEADLOCK FALSE
