SPECIFICATION UnikraftSpec
CONSTANTS
  NumQueries = 4
  ViewQuery = 2
  ViewStmts = 3
  Iterations = 3
  MaxRuns = 2
  FaultModels <- MCFaults
INVARIANTS NoForeignTime
PROPERTIES FoldImplementsReport
CHECK_DEADLOCK FALSE
