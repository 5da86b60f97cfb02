-------------------------- MODULE DunningProofs --------------------------
(***************************************************************************)
(* The retry calendar for every set of decline reasons, every lateness of  *)
(* the retry job and every length of the calendar.                         *)
(***************************************************************************)
EXTENDS DunningCalendar, TLAPS

\* Every schedule is a sequence of days.
LEMMA ScheduleType ==
    ASSUME NEW reason \in FailureReason
    PROVE  RetrySchedule(reason) \in Seq(Nat)
<1>1. <<1, 3, 7>> \in Seq(Nat) /\ <<3, 7>> \in Seq(Nat) /\ <<1>> \in Seq(Nat)
      /\ <<>> \in Seq(Nat)
    OBVIOUS
<1>2. RetrySchedules[reason] \in {<<1, 3, 7>>, <<3, 7>>, <<1>>, <<>>}
    BY DEF RetrySchedules, FailureReason
<1> QED BY <1>1, <1>2 DEF RetrySchedule

\* The day the schedule names for a retry, day 0 standing before the first.
Milestone(reason, k) == IF k > 0 THEN RetrySchedule(reason)[k] ELSE 0

\* The gap bridges two milestones, and there is one exactly while the schedule
\* has entries left.
LEMMA GapBridges ==
    ASSUME NEW reason \in FailureReason, NEW done \in Nat
    PROVE  /\ done < Len(RetrySchedule(reason)) =>
                /\ NextRetryGapDays(reason, done) \in Nat
                /\ Milestone(reason, done) + NextRetryGapDays(reason, done)
                       >= Milestone(reason, done + 1)
           /\ done >= Len(RetrySchedule(reason)) =>
                NextRetryGapDays(reason, done) = NoGap
<1> DEFINE schedule == RetrySchedule(reason)
<1>1. schedule \in Seq(Nat)
    BY ScheduleType
<1>2. CASE done >= Len(schedule)
    BY <1>1, <1>2 DEF NextRetryGapDays
<1>3. CASE done < Len(schedule)
  <2>1. Milestone(reason, done) \in Nat /\ Milestone(reason, done + 1) \in Nat
      BY <1>1, <1>3 DEF Milestone
  <2>2. NextRetryGapDays(reason, done) =
          IF Milestone(reason, done + 1) - Milestone(reason, done) > 0
          THEN Milestone(reason, done + 1) - Milestone(reason, done) ELSE 0
      BY <1>1, <1>3 DEF NextRetryGapDays, Milestone
  <2> HIDE DEF schedule
  <2> QED BY <2>1, <2>2, <1>3 DEF schedule
<1> QED BY <1>1, <1>2, <1>3

\* What the schedule's dates come to.
LEMMA NextDate ==
    ASSUME NEW reason \in FailureReason, NEW done \in Nat, NEW today \in Nat,
           today >= Milestone(reason, done)
    PROVE  /\ NextRetryAt(reason, done, today) \in Nat \cup {NoDate}
           /\ NextRetryAt(reason, done, today) # NoDate =>
                /\ done < Len(RetrySchedule(reason))
                /\ NextRetryAt(reason, done, today) >= Milestone(reason, done + 1)
           /\ NextRetryAt(reason, done, today) = NoDate =>
                done >= Len(RetrySchedule(reason))
<1>1. RetrySchedule(reason) \in Seq(Nat)
    BY ScheduleType
<1>2. CASE done >= Len(RetrySchedule(reason))
    BY <1>1, <1>2, GapBridges DEF NextRetryAt
<1>3. CASE done < Len(RetrySchedule(reason))
  <2>1. Milestone(reason, done) \in Nat /\ Milestone(reason, done + 1) \in Nat
      BY <1>1, <1>3 DEF Milestone
  <2> QED BY <2>1, <1>3, GapBridges DEF NextRetryAt, NoGap, NoDate
<1> QED BY <1>1, <1>2, <1>3

\* A date still ahead is not before the milestone it stands for, and only a
\* cycle that used its whole schedule, or was paid, has none.
OnSchedule ==
    /\ OnTheirDays
    /\ Len(runs) <= Len(Milestones)
    /\ dueOn # NoDate => /\ Len(runs) < Len(Milestones)
                         /\ dueOn >= Milestone(anchor, Len(runs) + 1)
    /\ dueOn = NoDate /\ ~paid => Len(runs) = Len(Milestones)

\* Every variable stays in its domain.
CalendarTypeOK ==
    /\ day \in Nat
    /\ anchor \in Declines
    /\ dueOn \in Nat \cup {NoDate}
    /\ runs \in Seq(Nat)
    /\ paid \in BOOLEAN
    /\ stepUp \in BOOLEAN

CalendarInv == CalendarTypeOK /\ (stepUp \/ OnSchedule)

\* Whatever the day and the count, what the schedule says is a date or none.
LEMMA DateType ==
    ASSUME NEW reason \in FailureReason, NEW done \in Nat, NEW today \in Nat
    PROVE  NextRetryAt(reason, done, today) \in Nat \cup {NoDate}
<1>1. RetrySchedule(reason) \in Seq(Nat)
    BY ScheduleType
<1>2. CASE done >= Len(RetrySchedule(reason))
    BY <1>2, GapBridges DEF NextRetryAt
<1>3. CASE done < Len(RetrySchedule(reason))
    BY <1>3, GapBridges DEF NextRetryAt, NoGap, NoDate
<1> QED BY <1>1, <1>2, <1>3

\* A due retry runs on or after its milestone.
LEMMA RunIsOnSchedule ==
    ASSUME CalendarAssumption, CalendarTypeOK, OnSchedule, Due, runs' = Append(runs, day),
           UNCHANGED <<day, anchor>>
    PROVE  /\ runs' \in Seq(Nat) /\ Len(runs') = Len(runs) + 1
           /\ Len(runs') <= Len(Milestones)
           /\ day >= Milestone(anchor, Len(runs'))
           /\ OnTheirDays'
<1>1. anchor \in FailureReason /\ Milestones \in Seq(Nat)
    BY ScheduleType DEF CalendarTypeOK, CalendarAssumption, Milestones
<1>2. runs' \in Seq(Nat) /\ Len(runs') = Len(runs) + 1
    BY DEF CalendarTypeOK
<1>3. Len(runs) \in Nat /\ Len(runs') <= Len(Milestones)
    BY <1>1, <1>2 DEF CalendarTypeOK, OnSchedule, Due
<1>4. day >= Milestone(anchor, Len(runs'))
  <2>1. Milestone(anchor, Len(runs) + 1) \in Nat
      BY <1>1, <1>2, <1>3 DEF Milestone, Milestones
  <2> QED BY <1>2, <2>1 DEF CalendarTypeOK, OnSchedule, Due, NoDate
<1>5. Milestones' = Milestones
    BY DEF Milestones
<1>6. ASSUME NEW k \in 1..Len(runs') PROVE runs'[k] >= Milestones[k]
  <2>1. CASE k = Len(runs')
      BY <1>2, <1>3, <1>4, <2>1 DEF Milestone, Milestones, CalendarTypeOK
  <2>2. CASE k # Len(runs')
    <3>1. k \in 1..Len(runs) /\ runs'[k] = runs[k]
        BY <1>2, <1>3, <2>2 DEF CalendarTypeOK
    <3> QED BY <3>1, <1>3, <1>2 DEF OnSchedule, OnTheirDays
  <2> QED BY <2>1, <2>2
<1> QED BY <1>2, <1>3, <1>4, <1>5, <1>6 DEF OnTheirDays

\* The calendar invariant holds of every cycle.
LEMMA CalendarIsInvariant == Spec => []CalendarInv
<1>1. Init => CalendarInv
  <2> SUFFICES ASSUME Init PROVE CalendarInv OBVIOUS
  <2>1. anchor \in FailureReason /\ Milestone(anchor, 0) = 0
      BY CalendarAssumption DEF Init, CalendarAssumption, Milestone
  <2>2. CalendarTypeOK
    <3>1. NextRetryAt(anchor, 0, 0) \in Nat \cup {NoDate}
        BY <2>1, DateType
    <3>2. day \in Nat /\ anchor \in Declines /\ runs \in Seq(Nat)
        BY DEF Init
    <3>3. paid \in BOOLEAN /\ stepUp \in BOOLEAN
        BY DEF Init
    <3> QED BY <3>1, <3>2, <3>3 DEF Init, CalendarTypeOK
  <2>3. Len(runs) = 0 /\ Milestones \in Seq(Nat)
      BY <2>1, ScheduleType DEF Init, Milestones
  <2>4. OnSchedule
      BY <2>1, <2>3, NextDate DEF Init, OnSchedule, OnTheirDays, Milestones
  <2> QED BY <2>2, <2>4 DEF CalendarInv
<1>2. CalendarInv /\ [Next]_vars => CalendarInv'
  <2> SUFFICES ASSUME CalendarInv, [Next]_vars PROVE CalendarInv' OBVIOUS
  <2> USE CalendarAssumption
  <2>1. CASE DayPasses
    <3>1. CalendarTypeOK'
        BY <2>1 DEF DayPasses, CalendarInv, CalendarTypeOK
    <3>2. OnSchedule => OnSchedule'
        BY <2>1 DEF DayPasses, OnSchedule, OnTheirDays, Milestones
    <3> QED BY <2>1, <3>1, <3>2 DEF CalendarInv, DayPasses
  <2>2. CASE RetrySucceeds
    <3>1. CalendarTypeOK'
        BY <2>2 DEF RetrySucceeds, CalendarInv, CalendarTypeOK
    <3>2. ASSUME OnSchedule PROVE OnSchedule'
      <4>1. Len(runs') <= Len(Milestones) /\ OnTheirDays'
          BY <2>2, <3>2, RunIsOnSchedule DEF RetrySucceeds, CalendarInv
      <4> QED BY <2>2, <4>1 DEF RetrySucceeds, OnSchedule, Milestones
    <3> QED BY <2>2, <3>1, <3>2 DEF CalendarInv, RetrySucceeds
  <2>3. ASSUME NEW reason \in Declines, RetryDeclined(reason) PROVE CalendarInv'
    <3>1. anchor \in FailureReason /\ Milestones \in Seq(Nat) /\ day \in Nat
        BY ScheduleType DEF CalendarInv, CalendarTypeOK, CalendarAssumption,
           Milestones
    <3>2. /\ runs' \in Seq(Nat) /\ Len(runs') \in Nat
          /\ Len(runs') = Len(runs) + 1
        BY <2>3 DEF RetryDeclined, CalendarInv, CalendarTypeOK
    <3>3. /\ dueOn' = NextRetryAt(anchor, Len(runs'), day)
          /\ UNCHANGED <<anchor, day, paid, stepUp>>
        BY <2>3, <3>2 DEF RetryDeclined
    <3>4. CalendarTypeOK'
        BY <3>1, <3>2, <3>3, DateType DEF CalendarInv, CalendarTypeOK
    <3>5. ASSUME OnSchedule PROVE OnSchedule'
      <4>1. /\ Len(runs') <= Len(Milestones) /\ OnTheirDays'
            /\ day >= Milestone(anchor, Len(runs'))
          BY <2>3, <3>5, RunIsOnSchedule DEF RetryDeclined, CalendarInv
      <4>2. /\ dueOn' # NoDate =>
                 /\ Len(runs') < Len(Milestones)
                 /\ dueOn' >= Milestone(anchor, Len(runs') + 1)
            /\ dueOn' = NoDate => Len(runs') >= Len(Milestones)
          BY <3>1, <3>2, <3>3, <4>1, NextDate DEF Milestones
      <4>3. Milestones' = Milestones /\ anchor' = anchor
          BY <3>3 DEF Milestones
      <4> QED BY <3>1, <3>2, <4>1, <4>2, <4>3 DEF OnSchedule, Milestone
    <3> QED BY <3>3, <3>4, <3>5 DEF CalendarInv
  <2>4. CASE RetryNeedsAction
    <3>1. CalendarTypeOK'
        BY <2>4 DEF RetryNeedsAction, CalendarInv, CalendarTypeOK
    <3> QED BY <2>4, <3>1 DEF CalendarInv, RetryNeedsAction
  <2>5. CASE UNCHANGED vars
      BY <2>5 DEF vars, CalendarInv, CalendarTypeOK, OnSchedule, OnTheirDays,
         Milestones
  <2> QED BY <2>1, <2>2, <2>3, <2>4, <2>5 DEF Next
<1> QED BY <1>1, <1>2, PTL DEF Spec

\* Whatever the declines and however late the job: no retry runs before the
\* day the schedule names for it, unless step-up was asked for on the way.
THEOREM RetriesAreNeverEarly == Spec => []NeverEarly
<1>1. CalendarInv => NeverEarly
    BY DEF CalendarInv, OnSchedule, NeverEarly
<1> QED BY <1>1, CalendarIsInvariant, PTL

\* A cycle that ends unpaid has used every entry of its schedule, and none has
\* used more, unless step-up was asked for on the way.
THEOREM ScheduleIsUsedUp == Spec => []ExhaustedExactly
<1>1. CalendarInv => ExhaustedExactly
    BY DEF CalendarInv, OnSchedule, ExhaustedExactly
<1> QED BY <1>1, CalendarIsInvariant, PTL
--------------------------------------------------------------------------
\* How late a retry may be.

\* The days of a schedule do not decrease.
LEMMA SchedulesIncrease ==
    ASSUME NEW reason \in FailureReason, NEW k \in Nat,
           k < Len(RetrySchedule(reason))
    PROVE  Milestone(reason, k) <= Milestone(reason, k + 1)
<1>1. RetrySchedule(reason) \in {<<1, 3, 7>>, <<3, 7>>, <<1>>, <<>>}
    BY DEF RetrySchedule, RetrySchedules, FailureReason
<1>2. CASE RetrySchedule(reason) = <<1, 3, 7>>
  <2>1. k \in {0, 1, 2}
      BY <1>2
  <2> QED BY <2>1, <1>2 DEF Milestone
<1>3. CASE RetrySchedule(reason) = <<3, 7>>
  <2>1. k \in {0, 1}
      BY <1>3
  <2> QED BY <2>1, <1>3 DEF Milestone
<1>4. CASE RetrySchedule(reason) = <<1>>
  <2>1. k = 0
      BY <1>4
  <2> QED BY <2>1, <1>4 DEF Milestone
<1> QED BY <1>1, <1>2, <1>3, <1>4

\* So the date a failure sets is the next milestone, moved by as much as the
\* failure was late for its own.
LEMMA DateCarriesLateness ==
    ASSUME NEW reason \in FailureReason, NEW done \in Nat, NEW today \in Nat,
           NextRetryAt(reason, done, today) # NoDate
    PROVE  /\ done < Len(RetrySchedule(reason))
           /\ NextRetryAt(reason, done, today)
                = today + Milestone(reason, done + 1) - Milestone(reason, done)
<1>1. RetrySchedule(reason) \in Seq(Nat)
    BY ScheduleType
<1>2. done < Len(RetrySchedule(reason))
    BY <1>1, GapBridges DEF NextRetryAt
<1>3. /\ Milestone(reason, done) \in Nat /\ Milestone(reason, done + 1) \in Nat
      /\ Milestone(reason, done) <= Milestone(reason, done + 1)
    BY <1>1, <1>2, SchedulesIncrease DEF Milestone
<1>4. NextRetryGapDays(reason, done)
        = Milestone(reason, done + 1) - Milestone(reason, done)
  <2>1. NextRetryGapDays(reason, done) =
          IF Milestone(reason, done + 1) - Milestone(reason, done) > 0
          THEN Milestone(reason, done + 1) - Milestone(reason, done) ELSE 0
      BY <1>1, <1>2 DEF NextRetryGapDays, Milestone
  <2> QED BY <2>1, <1>3
<1>5. NextRetryAt(reason, done, today) = today + NextRetryGapDays(reason, done)
    BY DEF NextRetryAt
<1> QED BY <1>2, <1>3, <1>4, <1>5

\* The day by which retry k has run, if it is one of the schedule's.
Latest(k) == Milestone(anchor, k) + k * MaxLate

\* The job has picked up what is due within its lateness, and the next date
\* is as late as the retries before it together were.
InTime ==
    /\ \A k \in 1..Len(runs) : k <= Len(Milestones) => runs[k] <= Latest(k)
    /\ dueOn # NoDate =>
         /\ day <= dueOn + MaxLate
         /\ Len(runs) < Len(Milestones) =>
              dueOn <= Milestone(anchor, Len(runs) + 1) + Len(runs) * MaxLate

\* The milestones of the cycle, and the latest days, are numbers that grow.
LEMMA LatestGrows ==
    ASSUME CalendarAssumption, CalendarTypeOK, NEW k \in Nat, k < Len(Milestones)
    PROVE  /\ Milestone(anchor, k) \in Nat /\ Milestone(anchor, k + 1) \in Nat
           /\ Milestone(anchor, k) <= Milestone(anchor, k + 1)
           /\ k * MaxLate \in Nat /\ (k + 1) * MaxLate = k * MaxLate + MaxLate
<1>1. anchor \in FailureReason /\ Milestones \in Seq(Nat)
    BY ScheduleType DEF CalendarTypeOK, CalendarAssumption, Milestones
<1>2. Milestone(anchor, k) \in Nat /\ Milestone(anchor, k + 1) \in Nat
    BY <1>1 DEF Milestone, Milestones
<1>3. MaxLate \in Nat
    BY DEF CalendarAssumption
<1>4. k * MaxLate \in Nat /\ (k + 1) * MaxLate = k * MaxLate + MaxLate
    BY <1>3
<1> QED BY <1>1, <1>2, <1>4, SchedulesIncrease DEF Milestones

\* A due retry of the schedule runs by its latest day.
LEMMA RunIsInTime ==
    ASSUME CalendarAssumption, CalendarTypeOK, InTime, Due,
           runs' = Append(runs, day), UNCHANGED <<day, anchor>>
    PROVE  /\ Len(runs') = Len(runs) + 1
           /\ Len(runs') <= Len(Milestones) => day <= Latest(Len(runs'))
           /\ \A k \in 1..Len(runs') : k <= Len(Milestones)
                => runs'[k] <= Latest(k)'
<1>1. anchor \in FailureReason /\ Milestones \in Seq(Nat)
    BY ScheduleType DEF CalendarTypeOK, CalendarAssumption, Milestones
<1>2. Len(runs) \in Nat /\ Len(runs') = Len(runs) + 1
    BY DEF CalendarTypeOK
<1>3. ASSUME Len(runs') <= Len(Milestones) PROVE day <= Latest(Len(runs'))
  <2>1. Len(runs) < Len(Milestones)
      BY <1>1, <1>2, <1>3
  <2>2. /\ dueOn \in Nat /\ day \in Nat /\ MaxLate \in Nat
        /\ day <= dueOn + MaxLate
        /\ dueOn <= Milestone(anchor, Len(runs) + 1) + Len(runs) * MaxLate
      BY <2>1 DEF Due, InTime, CalendarTypeOK, CalendarAssumption
  <2>3. /\ Milestone(anchor, Len(runs) + 1) \in Nat
        /\ Len(runs) * MaxLate \in Nat
        /\ (Len(runs) + 1) * MaxLate = Len(runs) * MaxLate + MaxLate
      BY <1>2, <2>1, LatestGrows
  <2>4. Latest(Len(runs'))
            = Milestone(anchor, Len(runs) + 1) + (Len(runs) + 1) * MaxLate
      BY <1>2 DEF Latest
  <2> QED BY <2>2, <2>3, <2>4
<1>4. \A k : Latest(k)' = Latest(k)
    BY DEF Latest
<1>5. ASSUME NEW k \in 1..Len(runs'), k <= Len(Milestones)
      PROVE  runs'[k] <= Latest(k)'
  <2>1. CASE k = Len(runs')
    <3>1. runs'[k] = day
        BY <1>2, <2>1 DEF CalendarTypeOK
    <3> QED BY <1>3, <1>4, <1>5, <2>1, <3>1
  <2>2. CASE k # Len(runs')
    <3>1. k \in 1..Len(runs) /\ runs'[k] = runs[k]
        BY <1>2, <2>2 DEF CalendarTypeOK
    <3> QED BY <1>4, <1>5, <3>1 DEF InTime
  <2> QED BY <2>1, <2>2
<1> QED BY <1>2, <1>3, <1>5

\* However often the job is late, and whatever the retries are declined for,
\* retry k drifts from its day by at most k delays.
THEOREM DriftStaysBounded == Spec => []DriftIsBounded
<1>1. Init => InTime
  <2> SUFFICES ASSUME Init PROVE InTime OBVIOUS
  <2>1. anchor \in FailureReason /\ Milestone(anchor, 0) = 0
      BY CalendarAssumption DEF Init, CalendarAssumption, Milestone
  <2>2. Len(runs) = 0 /\ day = 0 /\ MaxLate \in Nat
      BY CalendarAssumption DEF Init, CalendarAssumption
  <2>3. /\ Milestones \in Seq(Nat)
        /\ 0 < Len(Milestones) => Milestone(anchor, 1) \in Nat
      BY <2>1, ScheduleType DEF Milestones, Milestone
  <2>4. ASSUME dueOn # NoDate
        PROVE  0 < Len(Milestones) /\ dueOn = Milestone(anchor, 1)
    <3>1. 0 < Len(RetrySchedule(anchor)) /\ dueOn = 0 + Milestone(anchor, 1) - 0
        BY <2>1, <2>4, DateCarriesLateness DEF Init
    <3>2. 0 < Len(Milestones)
        BY <3>1 DEF Milestones
    <3> QED BY <2>3, <3>1, <3>2
  <2> QED BY <2>2, <2>3, <2>4 DEF InTime
<1>2. CalendarInv /\ InTime /\ [Next]_vars => InTime'
  <2> SUFFICES ASSUME CalendarInv, InTime, [Next]_vars PROVE InTime' OBVIOUS
  <2> USE CalendarAssumption
  <2>1. CalendarTypeOK /\ MaxLate \in Nat
      BY DEF CalendarInv, CalendarAssumption
  <2>2. anchor \in FailureReason /\ Milestones \in Seq(Nat) /\ Len(runs) \in Nat
      BY <2>1, ScheduleType DEF CalendarTypeOK, CalendarAssumption, Milestones
  <2>3. anchor' = anchor /\ Milestones' = Milestones
        /\ \A k : Latest(k)' = Latest(k)
      BY DEF Next, DayPasses, RetrySucceeds, RetryDeclined, RetryNeedsAction,
         vars, Milestones, Latest
  <2>4. CASE DayPasses
    <3>1. dueOn # NoDate => day + 1 <= dueOn + MaxLate
        BY <2>1, <2>4 DEF DayPasses, CalendarTypeOK
    <3> QED BY <2>3, <2>4, <3>1 DEF DayPasses, InTime
  <2>5. CASE RetrySucceeds
    <3>1. Due /\ runs' = Append(runs, day) /\ UNCHANGED <<day, anchor>>
          /\ dueOn' = NoDate
        BY <2>5 DEF RetrySucceeds
    <3> QED BY <2>1, <2>3, <3>1, RunIsInTime DEF InTime
  <2>6. ASSUME NEW reason \in Declines, RetryDeclined(reason) PROVE InTime'
    <3>1. Due /\ runs' = Append(runs, day) /\ UNCHANGED <<day, anchor>>
          /\ dueOn' = NextRetryAt(anchor, Len(runs) + 1, day)
        BY <2>6 DEF RetryDeclined
    <3>2. /\ Len(runs') = Len(runs) + 1
          /\ Len(runs') <= Len(Milestones) => day <= Latest(Len(runs'))
          /\ \A k \in 1..Len(runs') : k <= Len(Milestones)
                => runs'[k] <= Latest(k)'
        BY <2>1, <3>1, RunIsInTime
    <3>3. ASSUME dueOn' # NoDate
          PROVE  /\ day <= dueOn' + MaxLate
                 /\ dueOn' <= Milestone(anchor, Len(runs') + 1)
                                + Len(runs') * MaxLate
      <4> DEFINE n == Len(runs')
      <4>1. n \in Nat /\ day \in Nat
          BY <2>1, <2>2, <3>2 DEF CalendarTypeOK
      <4>2. n < Len(Milestones)
            /\ dueOn' = day + Milestone(anchor, n + 1) - Milestone(anchor, n)
          BY <2>2, <3>1, <3>2, <3>3, <4>1, DateCarriesLateness DEF Milestones
      <4>3. /\ Milestone(anchor, n) \in Nat /\ Milestone(anchor, n + 1) \in Nat
            /\ Milestone(anchor, n) <= Milestone(anchor, n + 1)
            /\ n * MaxLate \in Nat
          BY <2>1, <4>1, <4>2, LatestGrows
      <4>4. day <= Milestone(anchor, n) + n * MaxLate
          BY <2>2, <3>2, <4>1, <4>2 DEF Latest
      <4> HIDE DEF n
      <4>5. day <= dueOn' + MaxLate
            /\ dueOn' <= Milestone(anchor, n + 1) + n * MaxLate
          BY <2>1, <4>1, <4>2, <4>3, <4>4
      <4> QED BY <4>5 DEF n
    <3> QED BY <2>3, <3>1, <3>2, <3>3 DEF InTime
  <2>7. CASE RetryNeedsAction
    <3>1. Due /\ runs' = Append(runs, day) /\ UNCHANGED <<day, anchor, dueOn>>
        BY <2>7 DEF RetryNeedsAction
    <3>2. /\ Len(runs') = Len(runs) + 1
          /\ \A k \in 1..Len(runs') : k <= Len(Milestones)
                => runs'[k] <= Latest(k)'
        BY <2>1, <3>1, RunIsInTime
    <3>3. ASSUME dueOn # NoDate, Len(runs') < Len(Milestones)
          PROVE  dueOn <= Milestone(anchor, Len(runs') + 1) + Len(runs') * MaxLate
      <4> DEFINE n == Len(runs)
      <4>1. n < Len(Milestones) /\ n + 1 < Len(Milestones) /\ n + 1 \in Nat
          BY <2>2, <3>2, <3>3
      <4>2. dueOn \in Nat /\ dueOn <= Milestone(anchor, n + 1) + n * MaxLate
          BY <2>1, <3>3, <4>1 DEF InTime, CalendarTypeOK
      <4>3. /\ n * MaxLate \in Nat /\ (n + 1) * MaxLate = n * MaxLate + MaxLate
            /\ Milestone(anchor, n + 1) \in Nat
          BY <2>1, <2>2, <4>1, LatestGrows
      <4>4. /\ Milestone(anchor, (n + 1) + 1) \in Nat
            /\ Milestone(anchor, n + 1) <= Milestone(anchor, (n + 1) + 1)
          BY <2>1, <4>1, LatestGrows
      <4> HIDE DEF n
      <4>5. dueOn <= Milestone(anchor, (n + 1) + 1) + (n + 1) * MaxLate
          BY <2>1, <4>2, <4>3, <4>4
      <4> QED BY <3>2, <4>5 DEF n
    <3> QED BY <2>3, <3>1, <3>2, <3>3 DEF InTime
  <2>8. CASE UNCHANGED vars
      BY <2>3, <2>8 DEF vars, InTime
  <2> QED BY <2>4, <2>5, <2>6, <2>7, <2>8 DEF Next
<1>3. CalendarInv /\ InTime => DriftIsBounded
  <2> SUFFICES ASSUME CalendarInv, InTime,
                      NEW k \in 1..Len(runs), k <= Len(Milestones)
               PROVE  runs[k] <= Milestones[k] + k * MaxLate
      BY DEF DriftIsBounded
  <2>1. Latest(k) = Milestones[k] + k * MaxLate
      BY DEF Latest, Milestone, Milestones
  <2> QED BY <2>1 DEF InTime
<1> QED BY <1>1, <1>2, <1>3, CalendarIsInvariant, PTL DEF Spec
==========================================================================
