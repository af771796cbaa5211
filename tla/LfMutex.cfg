SPECIFICATION FairSpec
CONSTANTS
  Threads = {a, b, c}
  None = None
  WaitKinds = {"cv", "wq"}
  SeqMod = 8
  MaxDepth = 2
  MaxOps = 5
INVARIANTS TypeOK OneToken NoAbort
PROPERTIES ImplementsMutex EverybodyReturns
CHECK_DEADLOCK FALSE
