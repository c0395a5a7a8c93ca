CONSTANTS
  Cids  <- MCCids
  Gids  <- MCGids
  Names <- MCNames
  W = 16
  MaxSenders = 1
SPECIFICATION GameSpec
INVARIANTS
  RoomOccupancy
  SameMembers
  OwnerInRoomAndReady
PROPERTIES
  OwnerKeepsRoom
CHECK_DEADLOCK FALSE
