SPECIFICATION FairSpec
CONSTANTS
  ExecId = {1, 2}
  MaxTs = 3
  Epoch = 1
  LateOrtu = {1}
PROPERTIES
  Resubscribes
  EventuallyPersisted
