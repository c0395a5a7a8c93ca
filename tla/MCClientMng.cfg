CONSTANTS
  Watches = {"level", "edge", "once"}
  MaxCalls = 3
  MaxStarts = 1
  MaxSpurious = 1
SPECIFICATION FairSpec
INVARIANTS
  OnlyLatePromisesStay
  RaceNeedsTimeout
  PlaysNeedStarts
  UnreadNeedsOverlap
PROPERTIES
  CallsReturn
  EveryMessageRead
CHECK_DEADLOCK FALSE
