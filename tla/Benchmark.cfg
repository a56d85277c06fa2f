SPECIFICATION Spec
CONSTANTS
  Symbol = {A, B}
  Unknown = Unknown
  Price = {1, 2}
  MidPrice = 2
  LimitQty = {2}
  TakerQty = {1}
  Count = 4
  SeedDivisor = 2
  SeedLimit = 1
  TrackLimit = 2
  Width = 9
SYMMETRY SymbolSymmetry
CHECK_DEADLOCK FALSE
INVARIANTS StreamWellFormed TrackedBounded InvariantsPass ReportAgrees
PROPERTY RejectionsExplained
