CONSTANTS
    Items = {a, b}
    Capacity = 3
    NoItem = NoItem
SPECIFICATION Spec
INVARIANT NoSlotRace
PROPERTY QueueSpec
