SPECIFICATION FairSpec
CONSTANTS
  A = A
  Bad = Bad
  s1 = s1
  s2 = s2
  Intents = {A, Bad}
  Malformed = {Bad}
  ZeroId = ZeroId
  Solvers = {s1, s2}
  Amounts = {1, 2}
  InitialRoot = InitialRoot
  DummyRoot = DummyRoot
  NoEvent = NoEvent
  Capacity = 1
  MaxBids = 3
  MaxDeposits = 2
  MaxFailures = 1
CONSTRAINTS LowBidsForMalformed BidsOrDeposits
CHECK_DEADLOCK FALSE
INVARIANTS
  TypeOK
  WinnersAreBest
  EveryAuctionHasOneOutcome
  ResolvedIntentsWereWon
PROPERTIES
  AuctionsEnd
  ActorReturns
