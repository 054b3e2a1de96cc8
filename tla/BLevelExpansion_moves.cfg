SPECIFICATION FairSpec
CONSTANTS
  v0 = v0
  v1 = v1
  None = None
  w1 = w1
  w2 = w2
  Value = {v0, v1}
  Writers = {w1,w2}
  MaxKey = 5
  NRange = 2
  OldKey <- ShortOldKey
  FirstOld <- ShortFirstOld
  Capacity <- ShortCapacity
  BufKey = 1
  InitStores <- OneStore
  MaxPuts = 1
INVARIANTS
  TypeOK
  EndFindsHome
  NoStaleCopy
  KeysInPlace
  SizeCoversKeys
PROPERTIES
  ExpandedForever
  ExpansionInvisible
  PutsReturn
  ExpansionEnds
