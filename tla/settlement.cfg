\* The job and two coroutines share the adapter; one token is revoked, one ages,
\* one request fails; a page holds two transactions.
SPECIFICATION FairSpec
CONSTANTS
    Callers = {c1, c2}
    Lister = job
    Methods = {"charge_tokenized_card"}
    Bodies <- SomeBodies
    MaxRevocations = 1
    MaxAges = 1
    MaxFailures = 1
    NoToken = NoToken
    Nobody = Nobody
    NoRef = NoRef
    NoAmount = NoAmount
    A = A
    B = B
    C = C
    D = D
    Listings <- SomeListings
    Ledgers <- SomeLedgers
    PageSize = 2
    MaxTxns = 4
INVARIANTS
    SettlementTypeOK
    SurvivesRevocation
    CarriedOutOnce
    DayIsReported
PROPERTIES
    RunEnds
\* Everything may have been answered and nobody calls again.
CHECK_DEADLOCK FALSE
