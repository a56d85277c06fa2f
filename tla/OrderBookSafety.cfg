SPECIFICATION Spec
CONSTANTS
  OrderId = {o1, o2, o3, o4}
  NoOrder = NoOrder
  MinPrice = 0
  MaxPrice = 2
  OrderQty = {1, 2}
  QtyMod = 16
SYMMETRY IdSymmetry
CHECK_DEADLOCK FALSE
INVARIANTS TypeOK NotCrossed IndexExact LiveLevels TotalsMatch FokAllOrNothing Conservation RestingStatus CheckerPasses
PROPERTY OverIsOver
