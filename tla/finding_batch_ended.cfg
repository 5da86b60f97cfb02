\* Two invoices in one batch of the retry job, and one charge that raises.
SPECIFICATION Spec
CONSTANTS
    Subs = {s1, s2}
    MaxClock = 1
    MaxCopies = 1
    MaxAttempts = 2
    Declines = {"do_not_honor"}
    Billers = {b1}
    Retriers = {r1}
    Graces = {}
    Requests = {}
    Operations = {}
    CardsAtStart = {TRUE}
    CardChanges = {}
    AbortAt = {"charge"}
    MaxAborts = 1
    Adapters = {TRUE}
    None = None
PROPERTIES
    BadInvoiceIsIsolated
\* The clock, the copies and the cut-short jobs are bounded: the end of the
\* bounded world is not a deadlock of the system.
CHECK_DEADLOCK FALSE
