CONSTANTS
    MaxKey = 7
    BulkLoads <- TwoOrFour
    MaxEntries = 3
    EntryCount = 2
    MaxEntryCount = 2
    MinEntryCount = 2
    LinearLimit = 2
    InitPrefix = 3
    MaxDeletes = 2
    MayOverflow = FALSE
SPECIFICATION Spec
INVARIANTS
    TypeOK
    GetFinds
    PredictionIrrelevant
    IterFromInOrder
    GroupsMatchEntries
    BucketsAgree
CHECK_DEADLOCK FALSE
