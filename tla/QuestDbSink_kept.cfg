SPECIFICATION Spec
CONSTANTS
  Streams = {s1}
  BATCH_SIZE = 2
  MaxAttempts = 1
  MaxRows = 3
  MaxBreaks = 2
INVARIANTS
  KeptUntilWritten
CHECK_DEADLOCK FALSE
