SPECIFICATION Spec
CONSTANTS
  Mapper = {m1, m2}
  Reducer = {r1, r2}
  TotalFiles = 3
  MaxLines = 1
  Value = {1}
  Client = {"sort", "wordcount"}
  Key <- Numerals
  KeyBits = 4
  ULongSize = 65536
  NumPart = 3
SYMMETRY Symmetry
INVARIANTS TypeOK WorkPrivate CompleteOnReturn OutputSorted
PROPERTY ImplementsGroupByKey
CHECK_DEADLOCK FALSE
