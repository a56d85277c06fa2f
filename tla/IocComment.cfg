SPECIFICATION Spec
CONSTANTS
  OrderId = {o1, o2}
  NoOrder = NoOrder
  MinPrice = 0
  MaxPrice = 1
  OrderQty = {1, 2}
  QtyMod = 16
SYMMETRY IdSymmetry
CHECK_DEADLOCK FALSE
INVARIANT UnfilledComeBackCancelled
