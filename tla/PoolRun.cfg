SPECIFICATION Spec
CONSTANTS
  OrderId = {o1, o2, o3}
  Symbol = {A}
  Price = {1, 2}
  MaxQty = 2
  Orders = 4
  NoOrder = NoOrder
SYMMETRY Symmetry
CHECK_DEADLOCK FALSE
INVARIANTS SlotsHeld FreelistExact
