CONSTANTS
  t1 = t1
  t2 = t2
  t3 = t3
  NoThread = NoThread
  Nothing = Nothing
  Threads <- MCThreads
  Owner = t1
  Workers <- MCWorkers
  Values <- MCValues
  Ops <- AllOps
  MaxNodes = 4
  MaxAlone = 3
SPECIFICATION PoolSpec
INVARIANTS
  HeadTailApart
  TasksInOnePlace
  OnlyUnawaitedDropped
PROPERTIES
  IsFifo
  MutexesReleased
  WaitsEnd
CHECK_DEADLOCK FALSE
