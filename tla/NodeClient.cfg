SPECIFICATION Spec
CONSTANTS
    RecentJobs = 2
    Blocks = {b1, b2}
    MaxTips = 2
    MaxWorks = 3
    MaxShares = 1
    NoWork = NoWork
    NoBlock = NoBlock
INVARIANTS
    TypeOK
    WorkFollowsPoll
    BooksBalance
PROPERTIES
    RefinesDelivery
    QueuedIsOffered
CHECK_DEADLOCK FALSE
