CONSTANTS
    w1 = w1 w2 = w2 m1 = m1 m2 = m2 p1 = p1 p2 = p2 c1 = c1 c2 = c2
    Calls = {c1, c2}
    Workers = {w1, w2}
    Timer = Timer
    Managers <- Line
    Phones = {p1, p2}
    Centre = Centre
    Scenes <- AllScenes
    MaxEdits = 2
    None = None
SPECIFICATION Spec
INVARIANTS EachCallOnce OneCallPerManager BusyHasCall HaltsOnlyByEditing
PROPERTIES CallEnds
CHECK_DEADLOCK FALSE
