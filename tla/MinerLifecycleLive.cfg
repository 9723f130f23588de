SPECIFICATION Spec
CONSTANTS
    Callers = {ui}
    MaxRuns = 1
PROPERTIES
    StopWindsDown
    FailedRunEnds
CHECK_DEADLOCK FALSE
