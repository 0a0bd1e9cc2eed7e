SPECIFICATION Spec
CONSTANTS
  ExecId = {1, 2, 3}
  MaxTs = 3
  Epoch = 1
  LateOrtu = {1}
INVARIANTS
  TypeOK
  HolesExplained
  ReplayExact
  OnlineCoversTable
  LoopExact
