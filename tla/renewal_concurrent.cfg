\* Two overlapping billing jobs, the retry job and a customer who cancels and
\* resumes; one job is cut short before or after its attempt is recorded.
SPECIFICATION Spec
CONSTANTS
    Subs = {s1}
    MaxClock = 1
    MaxCopies = 2
    MaxAttempts = 2
    Declines <- RetriedOrStepUp
    Billers = {b1, b2}
    Retriers = {r1}
    Graces = {}
    Requests = {a1}
    Operations = {"cancel", "resume"}
    CardsAtStart = {TRUE}
    CardChanges = {}
    AbortAt = {"record", "pay"}
    MaxAborts = 1
    Adapters = {TRUE, FALSE}
    None = None
INVARIANTS
    TypeOK
    PaidIsCaptured
    GrantedIsPaid
PROPERTIES
    RecoveredOrResumed
SYMMETRY
    BillerSymmetry
\* The clock, the copies and the cut-short jobs are bounded: the end of the
\* bounded world is not a deadlock of the system.
CHECK_DEADLOCK FALSE
