CONSTANTS
    Threads = {a, b, c, d}
    Nesters = {a, b}
    MaxDepth = 2
    NoThread = NoThread
SPECIFICATION Spec
INVARIANT HaltsOnlyByNesting
PROPERTIES ReadersWritersSpec WriterGetsIn
CHECK_DEADLOCK FALSE
