CONSTANTS
  None = None
  Price = {p}
  Lot = 1
  MaxPosition = 2
  MaxOrders <- TwoBids
  MaxBacklog = 1
  StartPosition = {0}
  Orphans = {}
SPECIFICATION FairSpec
PROPERTY Requotes
CHECK_DEADLOCK FALSE
