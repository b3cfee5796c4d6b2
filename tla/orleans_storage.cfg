SPECIFICATION FairSpec
CONSTANTS
    Slots <- ThreeSlots
    FirstWriters <- OneFirst
    MaxWrites = 4
    MaxFaults = 2
INVARIANTS
    StorageInvariant
    NoWriteIsLost
    RefusedIsNotStored
PROPERTIES
    ImplementsCell
    EveryWriteReturns
CHECK_DEADLOCK FALSE
