CONSTANTS
    Once = 2
    MemMax = 2
    DbMax = 3
    MaxAccepted = 4
    MaxFaults <- FewFaults
    MaxStops = 1
SPECIFICATION Spec
INVARIANT FullBatchWakes
PROPERTIES StoredIsKept PromiseSpec StopReturns AllLeave
CHECK_DEADLOCK FALSE
