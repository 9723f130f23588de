SPECIFICATION Spec
CONSTANTS
    RecentJobs = 2
    RecentShares = 2
    BlockShares = {2}
    MaxWorks = 4
    MaxShares = 3
    MaxSessions = 2
    NoWork = NoWork
INVARIANTS
    TypeOK
    NoUnknownWork
    OwnSessionOnly
    VerdictShown
    CountedOnce
    AnswersFindTheirShare
    PendingIsSomewhere
CHECK_DEADLOCK FALSE
