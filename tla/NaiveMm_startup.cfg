CONSTANTS
  None = None
  Price = {p, q}
  Lot = 1
  MaxPosition = 2
  MaxOrders <- TwoBids
  MaxBacklog = 1
  StartPosition = {0}
  Orphans = {"bid"}
SPECIFICATION Spec
INVARIANT StartsClean
CHECK_DEADLOCK FALSE
