SPECIFICATION Spec
CONSTANTS
  Iterations = 2
  MaxRuns = 2
  FaultModels <- MCFaults
INVARIANTS RowsOwn SameBoot InOrderAfterWarmUp
CHECK_DEADLOCK FALSE
