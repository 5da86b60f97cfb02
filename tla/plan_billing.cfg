\* Two installments, the jobs and a change of plan, answers lost and sessions
\* cut short.
SPECIFICATION FairSpec
CONSTANTS
    Count = 2
    Changes = {c1}
    Jobs = {j1}
    Retriers = {r1}
    Basic = Basic
    Plus = Plus
    Price <- TwoPrices
    Cycles <- SomeCycles
    Declines = {"do_not_honor", "expired_card"}
    MaxAttempts = 4
    Losses = 1
    AbortAt <- BetweenCommits
    MaxAborts = 1
    None = None
INVARIANTS
    CompletedIsPaid
    ChangeIsFair
PROPERTIES
    DueIsCollected
\* The subscription may come to rest.
CHECK_DEADLOCK FALSE
