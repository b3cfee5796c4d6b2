SPECIFICATION Spec
CONSTANTS
    Slots <- TwoSlots
    FirstWriters <- TwoSlots
    MaxWrites = 2
    MaxFaults = 0
INVARIANT
    OnlyOneInsertSucceeds
CHECK_DEADLOCK FALSE
