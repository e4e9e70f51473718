CONSTANTS
    Conns = {c1, c2, c3}
    Sockets = {7, 8}
    MaxScheduler = 2
    MaxPosted = 2
    Nobody = Nobody
SPECIFICATION Spec
INVARIANTS OpenIsListed StoppedMeansClosed
PROPERTIES InformedIsRemoved StopReturns
CHECK_DEADLOCK FALSE
