SPECIFICATION FfiSpec
CONSTANTS
  OrderIds = {o1, again}
  Users = {u1, u2}
  Prices = {1, 2}
  Quantities = {0, 1, 2}
  Capacity = 3
  Reused = {again}
  NoTaker = NoTaker
  Width = 4
SYMMETRY Symmetry
CONSTRAINT FullOfOnes
CHECK_DEADLOCK FALSE
INVARIANTS
  TypeOK
  QueuesMatchStore
  NotCrossed
  RestingOrdersCanBeCancelled
  IndInv
  FillsAddUp
  DepthIsTheMarket
PROPERTIES
  MatchingProgresses
  KeepsPriceTimePriority
