SPECIFICATION Spec
CONSTANTS
    Callers = {ui}
    MaxRuns = 1
PROPERTIES
    RunOwnsHardware
CHECK_DEADLOCK FALSE
