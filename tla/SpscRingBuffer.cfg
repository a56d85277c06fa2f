SPECIFICATION Spec
CONSTANTS
  Capacity = 4
  Item = {a, b, c}
  NoItem = NoItem
  MaxPushes = 10
SYMMETRY ItemSymmetry
INVARIANTS TypeOK NoDataRace SlotLifetimes
PROPERTY ImplementsFifo
