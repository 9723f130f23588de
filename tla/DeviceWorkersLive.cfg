SPECIFICATION Spec
CONSTANTS
    Setters = {"net", "control"}
    NoWork = NoWork
    Work <- MCWork
    Devices = {1}
    Gpus = {1}
    Requested <- MCOneRequested
    DeviceSlots = 2
    SubLanes = 1
    NonceSpace = 3
    RollSpace = 2
    Batches = {1, 2}
    Bodies = {b1}
    MaxSets = 4
PROPERTIES
    DevicesFollowCell
    StopEndsThreads
CHECK_DEADLOCK FALSE
