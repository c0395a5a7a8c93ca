CONSTANTS
  k1 = k1
  k2 = k2
  NoClient = NoClient
  Clients <- MCClients
  Cids  <- MCCids
  Gids  <- MCOneGid
  Names <- MCNames
  Logins <- MCLogins
  TestAccounts <- MCAccounts
  NoLogin = "nobody"
  Fds   <- MCFds
  Kinds <- PlayKinds
  Faults <- NoFaults
  W = 16
  MaxSenders = 2
  MaxRequests = 7
  MaxConnects = 2
SPECIFICATION MCRoomSpec
PROPERTIES
  StartsOnlyReadyRooms
CHECK_DEADLOCK FALSE
