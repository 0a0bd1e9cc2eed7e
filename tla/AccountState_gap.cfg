SPECIFICATION Spec
CONSTANTS
  ExecId = {1, 2}
  MaxTs = 2
  Epoch = 0
  LateOrtu = {}
INVARIANTS
  DisconnectsCovered
