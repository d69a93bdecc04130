SPECIFICATION FairSpec
CONSTANTS
  p1 = p1
  p2 = p2
  self = self
  Peers = {p1, p2}
  NoPeer = NoPeer
  AddressSize = 20
  Genesis <- SmallGenesis
  IsBootstrapNode = TRUE
  ChannelSize = 1
  CommandsSize = 1
  ResponsesSize = 1
  StabilityWindow = 1
  MaxPeerScore = 3
  BanThreshold <- MinusFive
  Reward = 2
  GarbagePenalty <- MinusThree
  CertificatePenalty <- MinusFive
  MaxConnections = 2
  MaxTasks = 2
  MaxRequests = 2
  MaxEvents = 4
CONSTRAINT FirstPeerFirst
CHECK_DEADLOCK FALSE
INVARIANTS
  TypeOK
  LowScoresAreBanned
  ConnectedPeersAreNotPending
PROPERTIES
  LoopReturns
  RequestsAreAnswered
  FlagFollowsNetwork
