SPECIFICATION Spec
CONSTANTS
    Setters = {"net", "control"}
    NoWork = NoWork
    Work <- MCWork
    Devices = {0, 1}
    Gpus = {1}
    Requested <- MCRequested
    DeviceSlots = 2
    SubLanes = 1
    NonceSpace = 3
    RollSpace = 2
    Batches = {2}
    Bodies = {b1}
    MaxSets = 2
INVARIANTS
    TypeOK
    NoHeaderHashedTwice
    NoNonceSkipped
    UpToDateMeansCurrent
CHECK_DEADLOCK FALSE
