SPECIFICATION FairSpec
CONSTANTS
  Proc = {p1, p2}
  Byte = {a, b}
  PIPESIZE = 2
  UintSize = 4
  MaxN = 2
  Eof = Eof
  Nothing = Nothing
  NoProc = NoProc
INVARIANTS TypeOK SleepersHaveCause NoUseAfterFree OpenWhileHeld
PROPERTIES ImplementsByteQueue CallsReleased
CHECK_DEADLOCK FALSE
