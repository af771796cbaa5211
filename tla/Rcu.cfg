SPECIFICATION FairSpec
CONSTANTS
  k3 = k3
  CPUs = {1, 2, 3}
  Callbacks = {k1, k2, k3}
  Syncs = {k2, k3}
  Home <- MCHome
  Room = 1
  MaxReads = 1
INVARIANTS GracePeriod NoneLost
PROPERTIES SynchronizeReturns
CHECK_DEADLOCK FALSE
