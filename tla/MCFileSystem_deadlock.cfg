SPECIFICATION Spec
CONSTANTS
  name1 = name1
  name2 = name2
  Name = {name1, name2}
  NoName = NoName
  Proc = {p1, p2}
  NoProc = NoProc
  NInode = 3
  NBlock = 3
  Path <- MCPath
  Menu <- MCMenu
  MaxCall = 2
INVARIANT NoDeadlock
SYMMETRY Symmetric
CHECK_DEADLOCK FALSE
