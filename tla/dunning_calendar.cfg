\* Every reason, with a retry job up to two days late.
SPECIFICATION FairSpec
CONSTANTS
    Declines = {"insufficient_funds", "do_not_honor", "generic_decline",
                "card_declined", "processing_error", "unknown",
                "expired_card", "invalid_payment_method", "requires_action"}
    MaxLate = 2
    MaxDay = 16
    MaxRuns = 4
INVARIANTS
    NeverEarly
    DriftIsBounded
    ExhaustedExactly
PROPERTY CycleEnds
\* A cycle that was paid or has no retry left is over.
CHECK_DEADLOCK FALSE
