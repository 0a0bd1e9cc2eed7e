SPECIFICATION FairSpec
CONSTANTS
  p1 = p1  p2 = p2  t1 = t1  t2 = t2  t3 = t3
  Process = {p1, p2}
  Thread = {t1, t2, t3}
  home <- TwoProcesses
  MachineId <- TwoMachines
  MachineCount = 2
  MAX_SEQ = 1
  MaxMs = 1
  MaxSetbacks = 1
  MaxRestarts = 1
INVARIANTS
  TypeOK
  Increasing
  FreshAfterRestart
PROPERTIES
  DispenserSpec
  Progress
CHECK_DEADLOCK FALSE
