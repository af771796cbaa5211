SPECIFICATION MCSpec
CONSTANTS
  region = region
  nation = nation
  a = a
  b = b
  EOL = EOL
  Empty = Empty
  NoTable = NoTable
  TableSeq <- MCTableSeq
  Columns <- MCColumns
  Files <- MCFiles
  Orders <- MCOrders
  LineItems <- MCLineItems
  Deletes <- MCDeletes
  Iterations = 2
  MaxRuns = 4
  FaultModels <- MCFaults
INVARIANTS AllOrNothing FreshDatabase QueriesSeeRefresh
PROPERTIES StaysPartial WholeRefreshes
CHECK_DEADLOCK FALSE
