SPECIFICATION Spec
CONSTANTS
  None = None
  c1 = c1
  c2 = c2
  e1 = e1
  e2 = e2
  k1 = k1
  v1 = v1
  v2 = v2
  Clients = {c1,c2}
  Expanders = {e1,e2}
  Requests <- PutsAndGets
  Key = {k1}
  Value = {v1,v2}
  SleepLimit = 2
  Limit <- SmallLimit
  WordSize = 16
  MaxExpansions = 2
  MaxCalls = 2
PROPERTIES
  PutStored
