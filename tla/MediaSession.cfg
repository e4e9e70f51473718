CONSTANTS
    c1 = c1
    c2 = c2
    p1 = p1
    p2 = p2
    Conns = {c1, c2}
    SchedulerOf <- TwoSchedulers
    Pushers = {p1, p2}
    Frames <- TwoFrames
    Scenes <- Sharing
    MaxPosted = 2
    SeqLimit = 2
SPECIFICATION Spec
INVARIANTS TypeOK OwnSequence NoGap
PROPERTIES PlayingGetsIt
CHECK_DEADLOCK FALSE
