CONSTANTS
  Threads = 3
  MaxKey = 9
  Span = 2
  BufKey = 2
  LoadInterval = 1
  ExpandInterval = 2
  IntervalsPerRange = 4
  ExpansionFactor = 2
  WordSize = 256
  Loads <- MCLoads
  MaxSize = 20
  Repeats = {9}
  Victims = {3, 6}
  MaxDeletes = 1
  MaxGeneration = 2
SPECIFICATION Spec
INVARIANTS
  TypeOK
  SearchesAgree
  BracketsHold
  IterationInOrder
  SharesPartition
CHECK_DEADLOCK FALSE
