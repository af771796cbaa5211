SPECIFICATION FairSpec
CONSTANTS
  NumQueries = 3
  ViewQuery = 2
  ViewStmts = 3
  Iterations = 2
  MaxRuns = 2
  FaultModels <- MCFaults
INVARIANTS OnlyViewQueryHurt PrefixReport
PROPERTIES LeakIsPermanent CompleteReport
CHECK_DEADLOCK FALSE
