SPECIFICATION FairSpec
CONSTANTS
  None = None
  c1 = c1
  c2 = c2
  c3 = c3
  k1 = k1
  k2 = k2
  v1 = v1
  Clients = {c1,c2,c3}
  Operations <- EveryOperation
  Key = {k1}
  Value = {v1}
  Threshold = 1
  DelayedStore = TRUE
  MaxCalls = 2
INVARIANTS
  TypeOK
  NoWriterInScan
  OneMigrator
PROPERTIES
  MigrationKeeps
  MigrationEndsOrLeaks
