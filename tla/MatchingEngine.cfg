SPECIFICATION Spec
CONSTANTS
  OrderId = {o1, o2, o3, o4}
  Symbol = {A, B}
  Price = {0, 1, 2}
  MaxQty = 2
  MaxProcessed = 4
SYMMETRY Symmetry
INVARIANTS TypeOK IdsUnique BooksUncrossed TradesPositive TotalsOrdered
PROPERTIES LeavesOnce GoneForGood RejectedLeavesNoTrace
