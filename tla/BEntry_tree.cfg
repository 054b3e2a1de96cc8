CONSTANTS
    Kinds <- BothKinds
    Slots = 4
    MaxEntries = 3
    MaxKey = 7
    EntryKey = 1
    ChangeKeys <- SomeKeys
    MaxChanges = 2
SPECIFICATION Spec
INVARIANTS
    TypeOK
    GetAgrees
    IterationInOrder
    TreeSound
CHECK_DEADLOCK FALSE
