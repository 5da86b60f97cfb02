\* The billing job against NombaProvider.
SPECIFICATION FairSpec
CONSTANTS
    Subs = {s1}
    MaxClock = 2
    MaxCopies = 2
    MaxAttempts = 5
    Declines = {"do_not_honor"}
    Billers = {b1}
    Retriers = {r1}
    Graces = {g1}
    Requests = {}
    Operations = {}
    CardsAtStart = {TRUE}
    CardChanges = {}
    AbortAt = {}
    MaxAborts = 0
    Adapters = {FALSE}
    None = None
PROPERTIES
    DueIsBilled
\* The clock, the copies and the cut-short jobs are bounded: the end of the
\* bounded world is not a deadlock of the system.
CHECK_DEADLOCK FALSE
