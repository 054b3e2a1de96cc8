SPECIFICATION FairSpec
CONSTANTS
  v0 = v0
  v1 = v1
  None = None
  w1 = w1
  Value = {v0, v1}
  Writers = {w1}
  MaxKey = 5
  NRange = 2
  OldKey <- ShortOldKey
  FirstOld <- ShortFirstOld
  Capacity <- ShortCapacity
  BufKey = 1
  InitStores <- EmptiedStores
  MaxPuts = 1
CHECK_DEADLOCK FALSE
PROPERTIES
  ExpansionEnds
