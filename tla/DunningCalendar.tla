------------------------- MODULE DunningCalendar -------------------------
(***************************************************************************)
(* The dunning cycle of one invoice in calendar days: what the retry       *)
(* policy and next_retry_at = now + gap do together when the hourly job    *)
(* runs late.  Day 0 is the day of the failure that opened the cycle.      *)
(***************************************************************************)
EXTENDS DunningPolicy

CONSTANTS
    Declines,   \* the failure reasons the provider may answer with
    MaxLate,    \* days by which the retry job may run late
    MaxDay,     \* days the calendar is followed for
    MaxRuns     \* retries followed when step-up is asked for again and again

ASSUME CalendarAssumption ==
    /\ Declines \subseteq FailureReason
    /\ MaxLate \in Nat /\ MaxDay \in Nat /\ MaxRuns \in Nat

VARIABLES
    day,     \* today
    anchor,  \* dunning_failure_reason
    dueOn,   \* next_retry_at, or NoDate
    runs,    \* the day of every retry recorded so far
    paid,    \* the invoice was paid
    stepUp   \* some retry was answered with requires_action

vars == <<day, anchor, dueOn, runs, paid, stepUp>>

NoDate == -1

\* next_retry_at after a failure on this day, with so many retries recorded.
NextRetryAt(reason, done, today) ==
    IF NextRetryGapDays(reason, done) = NoGap THEN NoDate
    ELSE today + NextRetryGapDays(reason, done)

\* open_or_advance_dunning for the failed renewal charge.
Init ==
    /\ day = 0
    /\ anchor \in Declines \ {"requires_action"}
    /\ dueOn = NextRetryAt(anchor, 0, 0)
    /\ runs = <<>>
    /\ paid = FALSE
    /\ stepUp = FALSE

\* The job picks a due invoice up within MaxLate days.
DayPasses ==
    /\ day < MaxDay
    /\ dueOn # NoDate => day < dueOn + MaxLate
    /\ day' = day + 1
    /\ UNCHANGED <<anchor, dueOn, runs, paid, stepUp>>

Due == dueOn # NoDate /\ dueOn <= day

RetrySucceeds ==
    /\ Due
    /\ runs' = Append(runs, day)
    /\ paid' = TRUE
    /\ dueOn' = NoDate
    /\ UNCHANGED <<day, anchor, stepUp>>

FollowsLatest(reason) ==  \* mutant: the latest reason's schedule
    /\ Due
    /\ reason # "requires_action"
    /\ runs' = Append(runs, day)
    /\ dueOn' = NextRetryAt(reason, Len(runs) + 1, day)
    /\ UNCHANGED <<day, anchor, paid, stepUp>>

Uncounted(reason) ==  \* mutant: the attempt is not recorded as a retry
    /\ Due
    /\ reason # "requires_action"
    /\ dueOn' = NextRetryAt(anchor, Len(runs), day)
    /\ UNCHANGED <<day, anchor, runs, paid, stepUp>>

\* Whatever the retry is declined for, the schedule stays the anchor's.
RetryDeclined(reason) ==
    /\ Due
    /\ reason # "requires_action"
    /\ runs' = Append(runs, day)
    /\ dueOn' = NextRetryAt(anchor, Len(runs) + 1, day)
    /\ UNCHANGED <<day, anchor, paid, stepUp>>

\* Step-up authentication: the date stays in the past, the retry counts.
RetryNeedsAction ==
    /\ Due
    /\ "requires_action" \in Declines
    /\ Len(runs) < MaxRuns
    /\ runs' = Append(runs, day)
    /\ stepUp' = TRUE
    /\ UNCHANGED <<day, anchor, dueOn, paid>>

Next ==
    \/ DayPasses
    \/ RetrySucceeds
    \/ \E reason \in Declines : RetryDeclined(reason)
    \/ RetryNeedsAction

Spec == Init /\ [][Next]_vars

\* The cron fires every hour.
FairSpec == Spec /\ WF_vars(Next)
--------------------------------------------------------------------------
Milestones == RetrySchedule(anchor)

\* No retry runs before the day the schedule names for it.
OnTheirDays ==
    \A k \in 1..Len(runs) : k <= Len(Milestones) => runs[k] >= Milestones[k]

\* However late the retries before it ran, and whatever they were declined
\* for, no retry runs early, unless step-up was asked for on the way.
NeverEarly == stepUp \/ OnTheirDays

\* Lateness adds up, but only that: retry k drifts by at most k delays.
DriftIsBounded ==
    \A k \in 1..Len(runs) :
        k <= Len(Milestones) => runs[k] <= Milestones[k] + k * MaxLate

\* A cycle without a next date and without payment has used every entry of
\* the schedule that opened it, and no more.
ExhaustedExactly ==
    stepUp \/ /\ Len(runs) <= Len(Milestones)
              /\ dueOn = NoDate /\ ~paid => Len(runs) = Len(Milestones)

\* The cycle ends, paid or with no retry left, unless step-up is asked for.
CycleEnds == <>[](dueOn = NoDate) \/ <>stepUp
==========================================================================
