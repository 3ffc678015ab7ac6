SPECIFICATION Spec
CONSTANTS
  Proc = {p1, p2}
  NoProc = NoProc
  NBUF = 3
  Block = {n1, n2, n3, n4}
  NoBlock = NoBlock
  Value = {v0, v1}
  Zero = v0
  MaxHeld = 1
  MaxPin = 2
INVARIANTS TypeOK BuffersSound PanicOnlyWhenFull
PROPERTY ImplementsBlockStore
SYMMETRY Symmetric
CHECK_DEADLOCK FALSE
