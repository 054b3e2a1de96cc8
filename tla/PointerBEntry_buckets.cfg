CONSTANTS
    Kinds <- AllKinds
    MaxEntries = 3
    EntryCount = 3
    MaxKey = 6
    FirstKey <- FirstKeys
    InitPrefix = 1
    ChangeKeys <- SomeKeys
    MaxChanges = 2
SPECIFICATION Spec
INVARIANTS
    TypeOK
    LookupAgrees
    EntriesMatchBuckets
    IterationInOrder
CHECK_DEADLOCK FALSE
