SPECIFICATION Spec
CONSTANTS
  Place = Place
  Cancel = Cancel
  Places = {Place}
  Cancels = {Cancel}
  Bundles = {}
  Depths = {}
  Bids = {}
  Orders <- NoOrders
  Idle = Idle
  Garbage = Garbage
  Fits <- FitsThree
  MaxFailures = 1
  MaxCrashes = 2
CHECK_DEADLOCK FALSE
INVARIANTS
  WrittenEntriesAreReplayed
