CONSTANTS
    c1 = c1
    c2 = c2
    p1 = p1
    p2 = p2
    Conns = {c1, c2}
    SchedulerOf <- TwoSchedulers
    Pushers = {p1, p2}
    Frames <- TwoFrames
    Scenes <- Single
    MaxPosted = 6
    SeqLimit = 2
SPECIFICATION Spec
INVARIANTS SentOnLiveConnection
CHECK_DEADLOCK FALSE
