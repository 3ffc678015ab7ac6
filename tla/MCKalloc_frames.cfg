SPECIFICATION Spec
CONSTANTS
  LowFrame = 2
  SplitFrame = 4
  TopFrame = 7
  Pid = {1, 2}
  NENTRY = 6
  NMARK = 5
  NSORT = 4
INVARIANTS TypeOK Isolated Accounted
CHECK_DEADLOCK FALSE
