SPECIFICATION NodeSpec
CONSTANTS
  Places = {Place}
  Cancels = {Cancel}
  Bundles = {Bundle}
  Depths = {Depth}
  Bids = {Bid}
  Orders <- TwoEach
  Idle = Idle
  Garbage = Garbage
  Fits <- FitsThree
  None = None
  Torn = Torn
  ChannelSize = 1
  FeedSize = 1
  MaxCalls = 3
  MaxFailures = 2
  MaxCrashes = 2
  MaxSaves = 1
  MaxKeys = 2
  MaxPowerFailures = 1
CONSTRAINT KeysOrOrders
CHECK_DEADLOCK FALSE
INVARIANTS
  TypeOK
  ServiceTypeOK
  LogLeadsBook
  AnswersSurvive
  NoCallIsForgotten
  FeedIsContiguous
  FeedShowsTheBook
  KeystoreIsWhole
  SavedKeystoreStays
  IdentityIsKept
