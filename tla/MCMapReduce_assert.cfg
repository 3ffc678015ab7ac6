SPECIFICATION Spec
CONSTANTS
  Mapper = {m1, m2}
  Reducer = {r1, r2}
  TotalFiles = 2
  MaxLines = 1
  Value = {1}
  Client = {"wordcount"}
  Key <- Numerals
  KeyBits = 4
  ULongSize = 65536
  NumPart = 3
SYMMETRY Symmetry
INVARIANT FileOpened
CHECK_DEADLOCK FALSE
