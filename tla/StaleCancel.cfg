SPECIFICATION Spec
CONSTANTS
  Symbol = {A, B}
  Unknown = Unknown
  Price = {1, 2}
  MidPrice = 2
  LimitQty = {2}
  TakerQty = {1}
  Count = 3
  SeedDivisor = 2
  SeedLimit = 1
  TrackLimit = 2
  Width = 7
SYMMETRY SymbolSymmetry
CHECK_DEADLOCK FALSE
INVARIANT CancelsTargetResting
