SPECIFICATION FairSpec
CONSTANTS
  Threads = {a, b, c, d}
  None = None
  MaxDepth = 2
  MaxOps = 5
  MaxSpurious = 1
INVARIANTS ReadersWriters NoDangling NobodyStranded
PROPERTIES EverybodyReturns
CHECK_DEADLOCK FALSE
