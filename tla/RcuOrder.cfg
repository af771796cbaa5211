SPECIFICATION Spec
CONSTANTS
  k3 = k3
  CPUs = {1, 2}
  Callbacks = {k1, k2, k3, k4}
  Syncs = {k2, k3}
  Home <- MCHome
  Room = 2
  MaxReads = 1
INVARIANTS InOrder
CHECK_DEADLOCK FALSE
