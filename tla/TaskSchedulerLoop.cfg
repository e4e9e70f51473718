CONSTANTS
    p1 = p1
    p2 = p2
    loop = loop
    Callers = {p1, loop}
    Loop = loop
    NoThread = NoThread
    Timers = {t}
    kMaxTriggetEvents = 2
    PipeSize = 1
    MaxCalls <- PosterAndLoop
SPECIFICATION Spec
INVARIANTS NoLostWakeup RunInCallOrder OneCallerLosesNothing
PROPERTIES CallbackRuns StopEndsLoop TimerFires
CHECK_DEADLOCK FALSE
