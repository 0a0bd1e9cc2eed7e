CONSTANTS
  None = None
  Price = {p, q}
  Lot = 2
  MaxPosition = 1
  MaxOrders <- TwoBids
  MaxBacklog = 3
  StartPosition = {0}
  Orphans = {}
SPECIFICATION Spec
INVARIANTS TypeOK OrphansExplained PhantomsExplained CancelOwned ExposureBounded
PROPERTY CancelOnce
SYMMETRY Prices
CHECK_DEADLOCK FALSE
