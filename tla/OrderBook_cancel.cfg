SPECIFICATION Spec
CONSTANTS
  OrderIds = {o1, o2, o3}
  Users = {u1, u2}
  Prices = {1, 2}
  Quantities = {1, 2}
  Capacity = 3
  Reused = {}
  NoTaker = NoTaker
PROPERTIES
  CancelRemovesTheNamedOrder
