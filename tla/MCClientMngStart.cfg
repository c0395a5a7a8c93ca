CONSTANTS
  Watches = {"level"}
  MaxCalls = 3
  MaxStarts = 2
  MaxSpurious = 1
SPECIFICATION FairSpec
PROPERTIES
  StartIsNotMissed
CHECK_DEADLOCK FALSE
