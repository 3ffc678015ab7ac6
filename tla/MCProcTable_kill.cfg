SPECIFICATION Spec
CONSTANTS
  NPROC = 3
  CPU = {c1}
  Boot = c1
  NoCpu = NoCpu
  UintSize = 1
  MaxPid = 3
  KillPid = {0, 1, 2, 3}
  MaxSleep = 0
PROPERTY NewbornNotKilled
CHECK_DEADLOCK FALSE
