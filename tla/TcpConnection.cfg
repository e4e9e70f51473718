CONSTANTS
    Loop = loop
    Users = {user}
    Sizes = {1, 3}
    MaxPackets = 3
    MaxPosted = 1
    Capacity = 2
    MaxRoom = 2
SPECIFICATION Spec
INVARIANTS Framed ClosedOnce
PROPERTIES Flushed
CHECK_DEADLOCK FALSE
