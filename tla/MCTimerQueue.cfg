CONSTANTS
    Delays = {0, 2}
    SelectWait = 2
    MaxTimers = 2
    MaxNow = 4
SPECIFICATION TimerSpec
INVARIANTS RemovedStaysSilent NoOversleep
PROPERTIES NeverEarly DueFires
CHECK_DEADLOCK FALSE
