CONSTANTS
    p1 = p1
    p2 = p2
    loop = loop
    Callers = {p1, p2}
    Loop = loop
    NoThread = NoThread
    Timers = {}
    kMaxTriggetEvents = 2
    PipeSize = 1
    MaxCalls <- TwoPosters
SPECIFICATION Spec
INVARIANTS AcceptedIsKept
CHECK_DEADLOCK FALSE
