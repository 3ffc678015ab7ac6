SPECIFICATION MCSpec
CONSTANTS
  NPROC = 4
  CPU = {c1, c2}
  Boot = c1
  NoCpu = NoCpu
  UintSize = 2
  MaxPid = 4
  KillPid = {2, 3}
  MaxSleep = 1
PROPERTIES KilledExits OrphansReaped
CHECK_DEADLOCK FALSE
