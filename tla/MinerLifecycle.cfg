SPECIFICATION Spec
CONSTANTS
    Callers = {ui, signal}
    MaxRuns = 2
SYMMETRY MCSymmetry
INVARIANTS
    TypeOK
    LiveRunHasVoice
    IdleSnapshot
    WritesAreOwn
    FinishedRunIdles
PROPERTIES
    RefinesHandle
CHECK_DEADLOCK FALSE
