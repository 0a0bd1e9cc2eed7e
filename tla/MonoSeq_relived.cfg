SPECIFICATION Spec
CONSTANTS
  p1 = p1  p2 = p2  t1 = t1  t2 = t2  t3 = t3
  Process = {p1}
  Thread = {t1, t2}
  home <- OneProcess
  MachineId <- OneMachine
  MachineCount = 2
  MAX_SEQ = 1
  MaxMs = 2
  MaxSetbacks = 1
  MaxRestarts = 1
INVARIANT GloballyUnique
CHECK_DEADLOCK FALSE
