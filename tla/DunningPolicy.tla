-------------------------- MODULE DunningPolicy --------------------------
(***************************************************************************)
(* app/dunning/policy.py: the pure mapping from a failure reason to the    *)
(* days, counted from the first failure, on which a charge is retried.     *)
(***************************************************************************)
EXTENDS Integers, Sequences

FailureReason ==
    {"insufficient_funds", "do_not_honor", "generic_decline", "card_declined",
     "processing_error", "unknown", "expired_card", "invalid_payment_method",
     "requires_action"}

RetrySchedules ==
    [insufficient_funds     |-> <<1, 3, 7>>,
     do_not_honor           |-> <<1>>,
     generic_decline        |-> <<3, 7>>,
     card_declined          |-> <<3, 7>>,
     processing_error       |-> <<1, 3, 7>>,
     unknown                |-> <<3, 7>>,
     expired_card           |-> <<>>,
     invalid_payment_method |-> <<>>,
     requires_action        |-> <<>>]

RetrySchedule(reason) == RetrySchedules[reason]

\* The schedule has run out: the code's None.
NoGap == -1

SamePrevious(reason, done) ==  \* mutant: the previous entry's index off by one
    IF done < 0 \/ done >= Len(RetrySchedule(reason)) THEN NoGap
    ELSE IF done > 0 THEN 0 ELSE RetrySchedule(reason)[1]

WholeMilestone(reason, done) ==  \* mutant: the day itself for the difference
    IF done < 0 \/ done >= Len(RetrySchedule(reason)) THEN NoGap
    ELSE RetrySchedule(reason)[done + 1]

NextRetryGapDays(reason, done) ==
    LET schedule == RetrySchedule(reason)
        previous == IF done > 0 THEN schedule[done] ELSE 0
        gap      == schedule[done + 1] - previous
    IN  IF done < 0 \/ done >= Len(schedule) THEN NoGap
        ELSE IF gap > 0 THEN gap ELSE 0

RequiresPaymentMethodUpdate(reason) ==
    reason \in {"expired_card", "invalid_payment_method"}
==========================================================================
