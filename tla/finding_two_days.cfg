\* One charge of each day, in both ledgers: the job lists the transactions of two
\* days and compares them with the attempts of one.
SPECIFICATION FairSpec
CONSTANTS
    Callers = {c1}
    Lister = job
    Methods = {"charge_tokenized_card"}
    Bodies <- SomeBodies
    MaxRevocations = 0
    MaxAges = 1
    MaxFailures = 0
    NoToken = NoToken
    Nobody = Nobody
    NoRef = NoRef
    NoAmount = NoAmount
    A = A
    B = B
    C = C
    D = D
    Listings <- AgreeingListings
    Ledgers <- AgreeingLedgers
    PageSize = 2
    MaxTxns = 4
INVARIANTS
    ReportIsExact
CHECK_DEADLOCK FALSE
