SPECIFICATION Spec
CONSTANTS
    RecentJobs = 2
    Blocks = {b1}
    MaxTips = 2
    MaxWorks = 2
    MaxShares = 0
    NoWork = NoWork
    NoBlock = NoBlock
INVARIANT RejectedWasRefused
CHECK_DEADLOCK FALSE
