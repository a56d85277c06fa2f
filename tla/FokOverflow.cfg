SPECIFICATION Spec
CONSTANTS
  OrderId = {o1, o2, o3, o4}
  NoOrder = NoOrder
  MinPrice = 0
  MaxPrice = 1
  OrderQty = {2, 3}
  QtyMod = 4
SYMMETRY IdSymmetry
CHECK_DEADLOCK FALSE
INVARIANT FokAllOrNothing
