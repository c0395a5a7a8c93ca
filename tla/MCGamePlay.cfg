CONSTANTS
  H = 4
  W = 5
  Players = {1, 2}
  Rand <- MCRand
  Clients = {1}
  Commands = {"LEFT", "UP"}
  MaxFrames = 3
  MaxOpts = 2
  MaxPending = 2
  MaxFaults = 1
  MaxGames = 2
SPECIFICATION Spec
INVARIANTS
  TypeOK
  MapShowsSnakes
  SnakesHoldTogether
  BorderHolds
  NoGaps
  OwnCommands
  
CONSTRAINT Followed
CHECK_DEADLOCK FALSE
