CONSTANTS
  t1 = t1
  t2 = t2
  NoThread = NoThread
  Threads <- TwoThreads
  Serials = 3
  MsPerSec = 3
  MaxSec = 2
  MaxSids = 6
  MaxRestarts = 1
SPECIFICATION Spec
INVARIANTS
  SidsIncrease
CHECK_DEADLOCK FALSE
