CONSTANTS
  k1 = k1
  k2 = k2
  NoClient = NoClient
  Clients <- MCClients
  Cids  <- MCCids
  Gids  <- MCOneGid
  Names <- MCNames
  Logins <- MCLogins
  TestAccounts <- MCAccounts
  NoLogin = "nobody"
  Fds   <- MCFds
  Kinds <- AllKinds
  Faults <- AllFaults
  W = 16
  MaxSenders = 1
  MaxRequests = 2
  MaxConnects = 3
SPECIFICATION MCFairSpec
INVARIANTS
  OneFdPerPlayer
  PipelineInOrder
PROPERTIES
  GameSpec
  EveryTaskAnswered
CHECK_DEADLOCK FALSE
