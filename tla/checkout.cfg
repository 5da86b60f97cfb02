\* Two deliveries at a time beside verify-checkout and the deferred jobs, cut short
\* anywhere.
SPECIFICATION FairSpec
CONSTANTS
    Subs = {s1}
    Customers = {c1}
    Owner <- OneOwner
    Tokens = {t1}
    Kinds = {"checkout", "trial", "bank"}
    Hooks = {h1, h2}
    Verifiers = {v1}
    Timers = {w1}
    AbortAt <- InDeliveryOrCreation
    MaxAborts = 1
    MaxSaved = 2
    None = None
INVARIANTS
    CheckoutTypeOK
    RecordedIsServed
    PaidIsOrdered
PROPERTIES
    ActivatedByPayment
    PaymentIsCredited
    IncompleteEnds
\* Every subscription may come to rest.
CHECK_DEADLOCK FALSE
