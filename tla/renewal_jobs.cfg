\* One subscription, the three jobs, a card that comes and goes, two jobs cut short
\* anywhere but between a recorded attempt and what follows it.
SPECIFICATION FairSpec
CONSTANTS
    Subs = {s1}
    MaxClock = 2
    MaxCopies = 3
    MaxAttempts = 5
    Declines <- OneOfEachSchedule
    Billers = {b1}
    Retriers = {r1}
    Graces = {g1}
    Requests = {}
    Operations = {}
    CardsAtStart = {TRUE}
    CardChanges = {"add", "remove"}
    AbortAt <- PastTheAttempt
    MaxAborts = 2
    Adapters = {TRUE}
    None = None
INVARIANTS
    CapturedOnce
    NoFreePeriod
    RetriesWithinSchedule
PROPERTIES
    PeriodCollectedOnce
    LeftBehindOnlySo
    RevokedAfterSchedule
    FollowsTable
    PastDueResolves
    DueIsBilled
    CaptureIsCredited
\* The clock, the copies and the cut-short jobs are bounded: the end of the
\* bounded world is not a deadlock of the system.
CHECK_DEADLOCK FALSE
