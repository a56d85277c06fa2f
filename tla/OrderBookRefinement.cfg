SPECIFICATION FairSpec
CONSTANTS
  OrderId = {o1, o2, o3}
  NoOrder = NoOrder
  MinPrice = 0
  MaxPrice = 2
  OrderQty = {1, 2}
  QtyMod = 16
CHECK_DEADLOCK FALSE
PROPERTIES ImplementsPriceTimeBook CallsReturn
