SPECIFICATION FairSpec
CONSTANTS
  t1 = t1
  t2 = t2
  t3 = t3
  t4 = t4
  m1 = m1
  m2 = m2
  Threads <- MCThreads
  Mutexes = {m1, m2}
  None = None
  Uses <- MCUses
  MaxOps = 7
INVARIANTS NoDangling WokenOwns TimeoutTakesNoWake
PROPERTIES StaleOnlyByTimeout NoLostWakeup
CHECK_DEADLOCK FALSE
