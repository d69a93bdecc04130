SPECIFICATION FairSpec
CONSTANTS
  A = A
  B = B
  Bad = Bad
  s1 = s1
  s2 = s2
  Intents = {A, B}
  Malformed = {}
  ZeroId = ZeroId
  Solvers = {s1}
  Amounts = {1}
  InitialRoot = InitialRoot
  DummyRoot = DummyRoot
  NoEvent = NoEvent
  Capacity = 1
  MaxBids = 2
  MaxDeposits = 2
  MaxFailures = 0
CHECK_DEADLOCK FALSE
PROPERTIES
  WinsAreSettled
