SPECIFICATION MCSpec
CONSTANTS
  Proc = {p1, p2}
  Block = {b1, b2}
  Value = {v0, v1}
  Zero = v0
  MAXOPBLOCKS = 3
  LOGSIZE = 6
  NLOG = 7
  OpMax = 2
  NotCached = NotCached
  NoProc = NoProc
INVARIANTS TypeOK NoPanic NoForgottenSleeper CommitAlone QuiescentDurable
PROPERTIES ImplementsAtomicDisk WriteAhead SleeperWoken StaysOpen
