SPECIFICATION Spec
CONSTANTS
  NPROC = 3
  CPU = {c1, c2}
  Boot = c1
  NoCpu = NoCpu
  UintSize = 2
  MaxPid = 3
  KillPid = {0, 1, 2, 3}
  MaxSleep = 1
INVARIANTS TypeOK OneCpuPerStack StackLive WaitersHaveCause NoMissedTick
PROPERTY ImplementsProcessTree
CHECK_DEADLOCK FALSE
