SPECIFICATION Spec
CONSTANTS
  Proc = {p1, p2, p3}
  Byte = {a}
  PIPESIZE = 1
  UintSize = 2
  MaxN = 2
  Eof = Eof
  Nothing = Nothing
  NoProc = NoProc
INVARIANTS NoLostWakeup
SYMMETRY ProcSymmetry
CHECK_DEADLOCK FALSE
