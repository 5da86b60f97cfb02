-------------------------- MODULE RenewalProofs --------------------------
(***************************************************************************)
(* Theorems about Renewal for every number of subscriptions, jobs and      *)
(* requests, every bound and every place where a job may be cut short.     *)
(***************************************************************************)
EXTENDS Renewal, FiniteSetTheorems, TLAPS

\* The control points at which a session holds an invoice and its owner.
Holding == {"charge", "record", "pay", "advance", "clear", "recover", "fail",
            "schedule", "flag", "exhaust", "revoke"}

\* A session past its lookup knows what it works on, and enters dunning only
\* with a failure reason in hand.
Ready(w) ==
    /\ pc[w] \in Holding => cur[w] \in Invoices /\ at[w] \in Subs
    /\ pc[w] \in {"create", "cancel", "pause", "resume"} => at[w] \in Subs
    /\ pc[w] = "create" => answer[w] \in {NoOutcome, "invalid_payment_method"}
    /\ pc[w] = "record" => answer[w] \in Outcomes
    /\ pc[w] = "fail" => answer[w] \in FailureReason

AllReady == \A w \in Sessions : Ready(w)

\* The money behind a session on its way to marking its invoice paid.
Funded(w) ==
    \/ pc[w] = "record" /\ answer[w] = "captured"
    \/ pc[w] = "pay"
    => Captures(cur[w]) # {}

AllFunded == \A w \in Sessions : Funded(w)

IInv == TypeOK /\ AllReady /\ PaidIsCaptured /\ AllFunded
--------------------------------------------------------------------------

\* A session that ends is well formed, and so are the others.
LEMMA CloseOK ==
    ASSUME SessionsOK, AllReady, NEW w \in Sessions, Close(w)
    PROVE  SessionsOK' /\ AllReady'
<1>1. pc' = [pc EXCEPT ![w] = "idle"] /\ "idle" \in ControlPoints
      BY DEF Close, ControlPoints
<1>2. /\ "active" \in SubscriptionStatus /\ "none" \in RowStatus
      /\ "none" \in Anchors
      BY DEF SubscriptionStatus, RowStatus, Anchors
<1>3. SessionsOK'
      BY <1>1, <1>2 DEF SessionsOK, Close, Hold
<1>4. ASSUME NEW v \in Sessions PROVE Ready(v)'
  <2>1. CASE v = w
      BY <2>1, <1>1 DEF SessionsOK, Ready, Holding
  <2>2. CASE v # w
      BY <2>2 DEF SessionsOK, AllReady, Ready, Close
  <2> QED BY <2>1, <2>2
<1> QED BY <1>3, <1>4 DEF AllReady

\* So is one that goes on to what remains of its batch.
LEMMA EndItemOK ==
    ASSUME SessionsOK, AllReady, NEW w \in Sessions,
           NEW remaining \in SUBSET (Subs \cup Invoices), EndItem(w, remaining)
    PROVE  SessionsOK' /\ AllReady'
<1>1. CASE remaining = {}
      BY <1>1, CloseOK DEF EndItem
<1>2. CASE remaining # {}
  <2>1. SessionsOK'
      BY <1>2 DEF EndItem, SessionsOK, ControlPoints, seen, subscriptionCopies,
                  invoiceCopies
  <2>2. AllReady'
      BY <1>2 DEF EndItem, SessionsOK, AllReady, Ready, Holding
  <2> QED BY <2>1, <2>2
<1> QED BY <1>1, <1>2

\* A job that starts holds no invoice yet.
LEMMA BeginOK ==
    ASSUME SessionsOK, AllReady, NEW w \in Sessions,
           NEW batch \in SUBSET (Subs \cup Invoices), Begin(w, batch),
           seenStatus' \in [Sessions -> [Subs -> SubscriptionStatus]],
           seenPeriod' \in [Sessions -> [Subs -> Nat]],
           seenAttempts' \in [Sessions -> [Invoices -> Nat]],
           seenInvoice' \in [Sessions -> RowStatus],
           seenAnchor' \in [Sessions -> Anchors]
    PROVE  SessionsOK' /\ AllReady'
<1>1. SessionsOK'
      BY DEF Begin, Goto, SessionsOK, ControlPoints
<1>2. AllReady'
      BY DEF Begin, Goto, SessionsOK, AllReady, Ready, Holding
<1> QED BY <1>1, <1>2

\* A step that leaves every session alone keeps their types and readiness.
LEMMA SameSessions ==
    ASSUME SessionsOK, AllReady, UNCHANGED session
    PROVE  SessionsOK' /\ AllReady'
<1>1. SessionsOK'
      BY DEF session, SessionsOK, seen, subscriptionCopies, invoiceCopies
<1>2. AllReady'
      BY DEF session, AllReady, Ready
<1> QED BY <1>1, <1>2

\* A step that leaves the rows alone keeps the types of the rows.
LEMMA SameRows ==
    ASSUME SubscriptionsOK, InvoicesOK, WorldOK
    PROVE  /\ UNCHANGED subscriptionRows => SubscriptionsOK'
           /\ UNCHANGED invoiceRows => InvoicesOK'
           /\ UNCHANGED world => WorldOK'
BY DEF SubscriptionsOK, InvoicesOK, WorldOK, subscriptionRows, invoiceRows, world
--------------------------------------------------------------------------
\* The billing job's own actions.

\* The billing job's SELECT: its copies are rows of the database.
LEMMA BillSelectOK ==
    ASSUME TypeOK, AllReady, NEW w \in Billers, BillSelect(w)
    PROVE  TypeOK' /\ AllReady'
<1> w \in Sessions BY DEF Sessions
<1> DueSubs \in SUBSET (Subs \cup Invoices) BY DEF DueSubs
<1>1. SessionsOK' /\ AllReady'
      BY BeginOK DEF BillSelect, TypeOK, SessionsOK, SubscriptionsOK,
                     invoiceCopies
<1>2. SubscriptionsOK' /\ InvoicesOK' /\ WorldOK'
      BY SameRows DEF BillSelect, TypeOK, database
<1> QED BY <1>1, <1>2 DEF TypeOK

\* The look for the period's invoice leaves the session without an invoice,
\* or at an open one of its subscription.
LEMMA BillLookupOK ==
    ASSUME TypeOK, AllReady, NEW w \in Billers, NEW s \in Subs, BillLookup(w, s)
    PROVE  TypeOK' /\ AllReady'
<1> w \in Sessions BY DEF Sessions
<1>1. SubscriptionsOK' /\ InvoicesOK' /\ WorldOK'
      BY SameRows DEF BillLookup, TypeOK, database
<1> DEFINE reason == IF card[s] THEN NoOutcome ELSE "invalid_payment_method"
<1>2. reason \in {NoOutcome} \cup Outcomes
      BY DEF Outcomes, FailureReason
<1>3. CASE Close(w)
      BY <1>3, CloseOK, <1>1 DEF TypeOK
<1>4. ASSUME Goto(w, "create"), UNCHANGED <<cur, seen>>,
             todo' = [todo EXCEPT ![w] = @ \ {s}],
             at' = [at EXCEPT ![w] = s],
             answer' = [answer EXCEPT ![w] = reason]
      PROVE  SessionsOK' /\ AllReady'
  <2>1. SessionsOK'
      BY <1>4, <1>2 DEF Goto, TypeOK, SessionsOK, ControlPoints, seen,
                        subscriptionCopies, invoiceCopies
  <2>2. AllReady'
      BY <1>4 DEF Goto, TypeOK, SessionsOK, AllReady, Ready, Holding
  <2> QED BY <2>1, <2>2
<1>5. ASSUME NEW i \in Invoices,
             Goto(w, IF card[s] THEN "charge" ELSE "fail"),
             cur' = [cur EXCEPT ![w] = i],
             HoldRow(w, i, attempts[i], invStatus[i], anchor[i]),
             UNCHANGED subscriptionCopies,
             todo' = [todo EXCEPT ![w] = @ \ {s}],
             at' = [at EXCEPT ![w] = s],
             answer' = [answer EXCEPT ![w] = reason]
      PROVE  SessionsOK' /\ AllReady'
  <2>1. SessionsOK'
      BY <1>5, <1>2 DEF Goto, HoldRow, Hold, TypeOK, SessionsOK, InvoicesOK,
                        ControlPoints, subscriptionCopies
  <2>2. AllReady'
      BY <1>5, <1>2 DEF Goto, TypeOK, SessionsOK, AllReady, Ready, Holding,
                        FailureReason
  <2> QED BY <2>1, <2>2
<1> QED BY <1>1, <1>3, <1>4, <1>5 DEF BillLookup, TypeOK

\* The invoice created is one of the subscription at hand.
LEMMA BillCreateOK ==
    ASSUME TypeOK, AllReady, NEW w \in Billers, BillCreate(w)
    PROVE  TypeOK' /\ AllReady'
<1> w \in Sessions BY DEF Sessions
<1>1. PICK i \in Invoices : /\ invStatus' = [invStatus EXCEPT ![i] = "open"]
                            /\ cur' = [cur EXCEPT ![w] = i]
                            /\ HoldRow(w, i, 0, "open", "none")
      BY DEF BillCreate
<1>2. SubscriptionsOK' /\ InvoicesOK' /\ WorldOK'
      BY <1>1, SameRows DEF BillCreate, TypeOK, InvoicesOK, RowStatus,
                            InvoiceStatus
<1>3. SessionsOK'
      BY <1>1 DEF BillCreate, Goto, HoldRow, Hold, TypeOK, SessionsOK,
                  ControlPoints, RowStatus, InvoiceStatus, Anchors,
                  subscriptionCopies
<1>4. AllReady'
      BY <1>1 DEF BillCreate, Goto, TypeOK, SessionsOK, AllReady, Ready, Holding,
                  FailureReason, NoOutcome
<1> QED BY <1>2, <1>3, <1>4 DEF TypeOK

\* The billing job's last commit writes a period to the row it holds.
LEMMA AdvancePeriodOK ==
    ASSUME TypeOK, AllReady, NEW w \in Billers, AdvancePeriod(w)
    PROVE  TypeOK' /\ AllReady'
<1> w \in Sessions BY DEF Sessions
<1>1. at[w] \in Subs
      BY DEF AdvancePeriod, AllReady, Ready, Holding
<1>2. SessionsOK' /\ AllReady'
      BY EndItemOK DEF AdvancePeriod, TypeOK, SessionsOK
<1>3. SubscriptionsOK'
      BY <1>1 DEF AdvancePeriod, Touch, TypeOK, SubscriptionsOK, SessionsOK
<1>4. InvoicesOK' /\ WorldOK'
      BY SameRows DEF AdvancePeriod, TypeOK
<1> QED BY <1>2, <1>3, <1>4 DEF TypeOK
--------------------------------------------------------------------------
\* The charge, for either job.

\* A charge writes the ledger entry of the session's reference.
LEMMA ChargeOK ==
    ASSUME RenewalAssumption, TypeOK, AllReady, NEW w \in Sessions, Charge(w)
    PROVE  TypeOK' /\ AllReady'
<1>1. cur[w] \in Invoices /\ seenAttempts[w][cur[w]] \in Nat
      BY DEF Charge, TypeOK, SessionsOK, AllReady, Ready, Holding
<1>2. PICK a \in {"captured"} \cup Declines :
        /\ ledger' = [ledger EXCEPT ![cur[w]][seenAttempts[w][cur[w]]] = a]
        /\ answer' = [answer EXCEPT ![w] = a]
      BY DEF Charge, Reference
<1>3. a \in Outcomes
      BY DEF Outcomes, RenewalAssumption
<1>4. WorldOK'
      BY <1>1, <1>2, <1>3 DEF Charge, Reference, TypeOK, WorldOK, RenewalAssumption
<1>5. SessionsOK'
      BY <1>2, <1>3 DEF Charge, Goto, TypeOK, SessionsOK, ControlPoints, seen,
                        subscriptionCopies, invoiceCopies
<1>6. AllReady'
      BY <1>2, <1>3 DEF Charge, Goto, TypeOK, SessionsOK, AllReady, Ready, Holding
<1> QED BY <1>4, <1>5, <1>6, SameRows DEF Charge, TypeOK, database

\* A charge that raises ends the job.
LEMMA ChargeRaisesOK ==
    ASSUME TypeOK, AllReady, NEW w \in Sessions, ChargeRaises(w)
    PROVE  TypeOK' /\ AllReady'
BY CloseOK, SameRows DEF ChargeRaises, TypeOK, database

\* The commit of the attempt raises counts of the session's invoice.
LEMMA RecordAttemptOK ==
    ASSUME TypeOK, AllReady, NEW w \in Sessions, RecordAttempt(w)
    PROVE  TypeOK' /\ AllReady'
<1>1. /\ cur[w] \in Invoices /\ answer[w] \in Outcomes
      /\ seenAttempts[w][cur[w]] + 1 \in Nat
      BY DEF RecordAttempt, TypeOK, SessionsOK, AllReady, Ready, Holding
<1>2. InvoicesOK'
      BY <1>1 DEF RecordAttempt, TypeOK, InvoicesOK
<1>3. SessionsOK'
      BY <1>1 DEF RecordAttempt, AfterAttempt, Goto, HoldRow, Hold, TypeOK, SessionsOK,
                  InvoicesOK, ControlPoints, subscriptionCopies
<1>4. AllReady'
      BY <1>1 DEF RecordAttempt, AfterAttempt, Goto, TypeOK, SessionsOK, AllReady, Ready,
                  Holding, Outcomes
<1> QED BY <1>2, <1>3, <1>4, SameRows DEF RecordAttempt, TypeOK

\* The payment's commit, or the exception of a transition not allowed.
LEMMA PayInvoiceOK ==
    ASSUME TypeOK, AllReady, NEW w \in Sessions, PayInvoice(w)
    PROVE  TypeOK' /\ AllReady'
<1>1. cur[w] \in Invoices /\ at[w] \in Subs
      BY DEF PayInvoice, AllReady, Ready, Holding
<1>2. InvoicesOK'
      BY <1>1 DEF PayInvoice, TypeOK, InvoicesOK, RowStatus, InvoiceStatus
<1>3. CASE InvoiceAllowed(seenInvoice[w], "paid")
  <2>1. SessionsOK'
      BY <1>3 DEF PayInvoice, Goto, TypeOK, SessionsOK, ControlPoints, seen,
                  subscriptionCopies, invoiceCopies
  <2>2. AllReady'
      BY <1>1, <1>3 DEF PayInvoice, Goto, TypeOK, SessionsOK, AllReady, Ready,
                        Holding
  <2> QED BY <2>1, <2>2, <1>2, SameRows DEF PayInvoice, TypeOK
<1>4. CASE ~InvoiceAllowed(seenInvoice[w], "paid")
      BY <1>2, <1>4, CloseOK, SameRows DEF PayInvoice, TypeOK
<1> QED BY <1>3, <1>4
--------------------------------------------------------------------------
\* The dunning steps, for either job.

\* The reason a dunning cycle is opened with is a failure reason.
LEMMA ReasonType ==
    ASSUME TypeOK, AllReady, NEW w \in Sessions, pc[w] = "fail"
    PROVE  Reason(w) \in Anchors
BY DEF Reason, TypeOK, SessionsOK, AllReady, Ready, Anchors

\* The commit of next_retry_at, and the way on from it.
LEMMA SettleOK ==
    ASSUME TypeOK, AllReady, NEW w \in Sessions, pc[w] \in Holding,
           NEW decision, Settle(w, decision),
           anchor' \in [Invoices -> Anchors]
    PROVE  TypeOK' /\ AllReady'
<1>1. InvoicesOK'
      BY DEF Settle, TypeOK, InvoicesOK, RetryDate
<1>2. SessionsOK' /\ AllReady'
  <2>1. CASE decision = "exhaust"
    <3>1. SessionsOK'
        BY <2>1 DEF Settle, Goto, TypeOK, SessionsOK, ControlPoints, seen,
                    subscriptionCopies, invoiceCopies
    <3>2. AllReady'
        BY <2>1 DEF Settle, Goto, TypeOK, SessionsOK, AllReady, Ready, Holding
    <3> QED BY <3>1, <3>2
  <2>2. CASE decision # "exhaust"
      BY <2>2, EndItemOK DEF Settle, TypeOK, SessionsOK
  <2> QED BY <2>1, <2>2
<1> QED BY <1>1, <1>2, SameRows DEF Settle, TypeOK

\* Every step of open_or_advance_dunning keeps the state typed.
LEMMA DunningOK ==
    ASSUME TypeOK, AllReady, NEW w \in Sessions, Dunning(w)
    PROVE  TypeOK' /\ AllReady'
<1>1. CASE SkipDunning(w)
      BY <1>1, EndItemOK, SameRows DEF SkipDunning, TypeOK, SessionsOK, database
<1>2. CASE OpenCycle(w)
  <2>1. at[w] \in Subs /\ cur[w] \in Invoices /\ Reason(w) \in Anchors
      BY <1>2, ReasonType DEF OpenCycle, AllReady, Ready, Holding
  <2>2. SubscriptionsOK'
      BY <1>2, <2>1 DEF OpenCycle, Touch, TypeOK, SubscriptionsOK,
                        SubscriptionStatus
  <2>3. InvoicesOK'
      BY <1>2, <2>1 DEF OpenCycle, TypeOK, InvoicesOK
  <2>4. SessionsOK'
      BY <1>2, <2>1 DEF OpenCycle, Goto, Decision, TypeOK, SessionsOK,
                        ControlPoints, SubscriptionStatus
  <2>5. AllReady'
      BY <1>2, <2>1 DEF OpenCycle, Goto, Decision, TypeOK, SessionsOK, AllReady,
                        Ready, Holding
  <2> QED BY <1>2, <2>2, <2>3, <2>4, <2>5, SameRows DEF OpenCycle, TypeOK
<1>3. CASE AdvanceCycle(w)
  <2>1. anchor' \in [Invoices -> Anchors]
      BY <1>3, ReasonType DEF AdvanceCycle, TypeOK, InvoicesOK
  <2> QED BY <1>3, <2>1, SettleOK DEF AdvanceCycle, Holding
<1>4. CASE ScheduleRetry(w)
  <2>1. anchor' \in [Invoices -> Anchors]
      BY <1>4 DEF ScheduleRetry, TypeOK, InvoicesOK
  <2> QED BY <1>4, <2>1, SettleOK DEF ScheduleRetry, Holding
<1>5. CASE Revoke(w)
  <2>1. SubscriptionsOK'
      BY <1>5 DEF Revoke, Touch, TypeOK, SubscriptionsOK, SubscriptionStatus
  <2>2. SessionsOK' /\ AllReady'
      BY <1>5, EndItemOK DEF Revoke, TypeOK, SessionsOK
  <2> QED BY <1>5, <2>1, <2>2, SameRows DEF Revoke, TypeOK
<1> QED BY <1>1, <1>2, <1>3, <1>4, <1>5 DEF Dunning

\* So does every step the two charging jobs share.
LEMMA ChargingOK ==
    ASSUME RenewalAssumption, TypeOK, AllReady, NEW w \in Sessions, Charging(w)
    PROVE  TypeOK' /\ AllReady'
BY ChargeOK, ChargeRaisesOK, RecordAttemptOK, PayInvoiceOK, DunningOK DEF Charging
--------------------------------------------------------------------------
\* The retry job, the grace job, the requests and the environment.

\* The retry job's own steps keep the state typed.
LEMMA RetryOK ==
    ASSUME TypeOK, AllReady, NEW w \in Retriers,
           \/ RetrySelect(w) \/ ClearDunning(w) \/ Recover(w)
           \/ \E i \in Invoices : RetryLoad(w, i)
    PROVE  TypeOK' /\ AllReady'
<1> w \in Sessions BY DEF Sessions
<1>1. CASE RetrySelect(w)
  <2>1. SessionsOK' /\ AllReady'
      BY <1>1, BeginOK DEF RetrySelect, Hold, TypeOK, SessionsOK, InvoicesOK,
                           subscriptionCopies, RowStatus, Anchors
  <2> QED BY <1>1, <2>1, SameRows DEF RetrySelect, TypeOK, database
<1>2. CASE ClearDunning(w)
  <2>1. InvoicesOK'
      BY <1>2 DEF ClearDunning, TypeOK, InvoicesOK, RetryDate, Anchors
  <2>2. SessionsOK'
      BY <1>2 DEF ClearDunning, Goto, TypeOK, SessionsOK, ControlPoints, seen,
                  subscriptionCopies, invoiceCopies
  <2>3. AllReady'
      BY <1>2 DEF ClearDunning, Goto, TypeOK, SessionsOK, AllReady, Ready, Holding
  <2> QED BY <1>2, <2>1, <2>2, <2>3, SameRows DEF ClearDunning, TypeOK
<1>3. CASE Recover(w)
  <2>1. at[w] \in Subs
      BY <1>3 DEF Recover, AllReady, Ready, Holding
  <2>2. SubscriptionsOK'
      BY <1>3, <2>1 DEF Recover, Touch, TypeOK, SubscriptionsOK, SessionsOK,
                        SubscriptionStatus
  <2>3. SessionsOK' /\ AllReady'
      BY <1>3, EndItemOK DEF Recover, TypeOK, SessionsOK
  <2> QED BY <1>3, <2>2, <2>3, SameRows DEF Recover, TypeOK
<1>4. ASSUME NEW i \in Invoices, RetryLoad(w, i)
      PROVE  TypeOK' /\ AllReady'
  <2> i.sub \in Subs BY DEF Invoices
  <2>1. InvoicesOK'
      BY <1>4 DEF RetryLoad, TypeOK, InvoicesOK, RetryDate
  <2>2. CASE EndItem(w, todo[w] \ {i})
      BY <1>4, <2>1, <2>2, EndItemOK, SameRows DEF RetryLoad, TypeOK, SessionsOK
  <2>3. CASE ~EndItem(w, todo[w] \ {i})
    <3>1. SessionsOK'
      <4>1. /\ Goto(w, "charge")
            /\ todo' = [todo EXCEPT ![w] = @ \ {i}]
            /\ at' = [at EXCEPT ![w] = i.sub]
            /\ cur' = [cur EXCEPT ![w] = i]
            /\ UNCHANGED <<answer, invoiceCopies>>
            /\ seenStatus' = [seenStatus EXCEPT ![w][i.sub] = subStatus[i.sub]]
            /\ seenPeriod' = [seenPeriod EXCEPT ![w][i.sub] = subPeriod[i.sub]]
          BY <1>4, <2>3 DEF RetryLoad
      <4> QED
          BY <4>1 DEF Goto, TypeOK, SessionsOK, ControlPoints, SubscriptionsOK,
                      invoiceCopies
    <3>2. AllReady'
        BY <1>4, <2>3 DEF RetryLoad, Goto, TypeOK, SessionsOK, AllReady, Ready,
                          Holding
    <3> QED BY <1>4, <2>1, <3>1, <3>2, SameRows DEF RetryLoad, TypeOK
  <2> QED BY <2>2, <2>3
<1> QED BY <1>1, <1>2, <1>3, <1>4

\* The grace job's steps write statuses of subscriptions it selected.
LEMMA GraceOK ==
    ASSUME TypeOK, AllReady, NEW w \in Graces, Grace(w)
    PROVE  TypeOK' /\ AllReady'
<1> w \in Sessions BY DEF Sessions
<1>1. CASE GraceSelect(w)
  <2>1. SessionsOK' /\ AllReady'
      BY <1>1, BeginOK DEF GraceSelect, TypeOK, SessionsOK, SubscriptionsOK,
                           invoiceCopies
  <2> QED BY <1>1, <2>1, SameRows DEF GraceSelect, TypeOK, database
<1>2. ASSUME NEW s \in Subs, GraceCancel(w, s)
      PROVE  TypeOK' /\ AllReady'
  <2>1. SubscriptionsOK'
      BY <1>2 DEF GraceCancel, Touch, TypeOK, SubscriptionsOK, SubscriptionStatus
  <2>2. SessionsOK' /\ AllReady'
      BY <1>2, EndItemOK DEF GraceCancel, TypeOK, SessionsOK
  <2> QED BY <1>2, <2>1, <2>2, SameRows DEF GraceCancel, TypeOK
<1> QED BY <1>1, <1>2 DEF Grace

\* The lifecycle endpoints write statuses the table knows.
LEMMA RequestOK ==
    ASSUME RenewalAssumption, TypeOK, AllReady, NEW w \in Requests, Request(w)
    PROVE  TypeOK' /\ AllReady'
<1> w \in Sessions BY DEF Sessions
<1>1. CASE RequestCommit(w)
  <2>1. pc[w] \in {"cancel", "pause", "resume"}
      BY <1>1 DEF RequestCommit, RenewalAssumption
  <2>2. at[w] \in Subs /\ Target[pc[w]] \in SubscriptionStatus
      BY <2>1 DEF AllReady, Ready, Target, SubscriptionStatus
  <2>3. SubscriptionsOK'
      BY <1>1, <2>2 DEF RequestCommit, Touch, TypeOK, SubscriptionsOK
  <2> QED BY <1>1, <2>3, CloseOK, SameRows DEF RequestCommit, TypeOK
<1>2. ASSUME NEW s \in Subs, NEW op \in Operations, RequestRead(w, s, op)
      PROVE  TypeOK' /\ AllReady'
  <2>1. op \in {"cancel", "pause", "resume"}
      BY DEF RenewalAssumption
  <2>2. SessionsOK'
      BY <1>2, <2>1 DEF RequestRead, Goto, TypeOK, SessionsOK, SubscriptionsOK,
                        ControlPoints, invoiceCopies
  <2>3. AllReady'
      BY <1>2, <2>1 DEF RequestRead, Goto, TypeOK, SessionsOK, AllReady, Ready,
                        Holding
  <2> QED BY <1>2, <2>2, <2>3, SameRows DEF RequestRead, TypeOK, database
<1> QED BY <1>1, <1>2 DEF Request

\* Cards that come and go, and time, leave the sessions alone.
LEMMA EnvironmentOK ==
    ASSUME RenewalAssumption, TypeOK, AllReady,
           \/ Time
           \/ \E s \in Subs : AddCard(s) \/ LoseCard(s)
    PROVE  TypeOK' /\ AllReady'
<1>1. UNCHANGED session
      BY DEF Time, PeriodEnds, RetryComesDue, GraceElapses, AddCard, LoseCard
<1>2. SubscriptionsOK' /\ InvoicesOK' /\ WorldOK'
  <2>1. CASE PeriodEnds
      BY <2>1, SameRows DEF PeriodEnds, TypeOK, WorldOK, database,
                            RenewalAssumption
  <2>2. ASSUME NEW i \in Invoices, RetryComesDue(i)
        PROVE  SubscriptionsOK' /\ InvoicesOK' /\ WorldOK'
      BY <2>2, SameRows DEF RetryComesDue, TypeOK, InvoicesOK, RetryDate
  <2>3. ASSUME NEW s \in Subs, GraceElapses(s) \/ AddCard(s) \/ LoseCard(s)
        PROVE  SubscriptionsOK' /\ InvoicesOK' /\ WorldOK'
      BY <2>3, SameRows DEF GraceElapses, AddCard, LoseCard, Touch, TypeOK,
                            SubscriptionsOK
  <2> QED BY <2>1, <2>2, <2>3 DEF Time
<1> QED BY <1>1, <1>2, SameSessions DEF TypeOK

\* A job cut short leaves the rows as its last commit left them.
LEMMA AbortJobOK ==
    ASSUME RenewalAssumption, TypeOK, AllReady, NEW w \in Sessions, AbortJob(w)
    PROVE  TypeOK' /\ AllReady'
<1>1. WorldOK'
      BY DEF AbortJob, TypeOK, WorldOK, RenewalAssumption
<1> QED BY <1>1, CloseOK, SameRows DEF AbortJob, TypeOK, database
--------------------------------------------------------------------------
\* Type correctness.

\* Every step of every session and of the environment keeps the state typed.
LEMMA NextOK ==
    ASSUME RenewalAssumption, TypeOK, AllReady, [Next]_vars
    PROVE  TypeOK' /\ AllReady'
<1> \A w \in Billers \cup Retriers \cup Graces \cup Requests : w \in Sessions
    BY DEF Sessions
<1>1. CASE \E w \in Billers : Biller(w)
    BY <1>1, BillSelectOK, BillLookupOK, BillCreateOK, AdvancePeriodOK,
       ChargingOK DEF Biller
<1>2. CASE \E w \in Retriers : Retrier(w)
    BY <1>2, RetryOK, ChargingOK DEF Retrier
<1>3. CASE \E w \in Graces : Grace(w)
    BY <1>3, GraceOK
<1>4. CASE \E w \in Requests : Request(w)
    BY <1>4, RequestOK
<1>5. CASE \E w \in Sessions : AbortJob(w)
    BY <1>5, AbortJobOK
<1>6. CASE Time \/ \E s \in Subs : AddCard(s) \/ LoseCard(s)
    BY <1>6, EnvironmentOK
<1>7. CASE UNCHANGED vars
  <2>1. UNCHANGED session
      BY <1>7 DEF vars, session, seen, subscriptionCopies, invoiceCopies
  <2>2. UNCHANGED <<subscriptionRows, invoiceRows, world>>
      BY <1>7 DEF vars, subscriptionRows, invoiceRows, world
  <2> QED BY <2>1, <2>2, SameSessions, SameRows DEF TypeOK
<1> QED BY <1>1, <1>2, <1>3, <1>4, <1>5, <1>6, <1>7 DEF Next

\* The initial state is typed and no session is anywhere.
LEMMA InitOK ==
    ASSUME RenewalAssumption, Init
    PROVE  TypeOK /\ AllReady
<1>1. SubscriptionsOK
    BY DEF Init, SubscriptionsOK, SubscriptionStatus, RenewalAssumption
<1>2. InvoicesOK
    BY DEF Init, InvoicesOK, RowStatus, RetryDate, Anchors
<1>3. SessionsOK
    BY DEF Init, SessionsOK, ControlPoints, SubscriptionStatus, RowStatus, Anchors
<1>4. WorldOK
    BY DEF Init, WorldOK, RenewalAssumption
<1>5. AllReady
    BY DEF Init, AllReady, Ready, Holding
<1> QED BY <1>1, <1>2, <1>3, <1>4, <1>5 DEF TypeOK

\* Rows, ledger and sessions always have their types, and a session past its
\* lookup holds the invoice and the subscription its next commit writes to.
THEOREM TypeCorrect == Spec => [](TypeOK /\ AllReady)
<1>1. Init => TypeOK /\ AllReady
    BY RenewalAssumption, InitOK
<1>2. TypeOK /\ AllReady /\ [Next]_vars => TypeOK' /\ AllReady'
    BY RenewalAssumption, NextOK
<1> QED BY <1>1, <1>2, PTL DEF Spec
--------------------------------------------------------------------------
\* Money.

\* A ledger entry, once captured, stays captured.
LEMMA CapturesKept ==
    ASSUME ledger \in [Invoices -> [0..MaxAttempts -> {NoOutcome} \cup Outcomes]],
           NEW w \in Sessions, Charge(w), cur[w] \in Invoices,
           NEW i \in Invoices, Captures(i) # {}
    PROVE  Captures(i)' # {}
<1>1. PICK k \in 0..MaxAttempts : ledger[i][k] = "captured"
    BY DEF Captures
<1>2. PICK a \in {"captured"} \cup Declines :
        /\ ledger[cur[w]][seenAttempts[w][cur[w]]] \in {NoOutcome, a}
        /\ ledger' = [ledger EXCEPT ![cur[w]][seenAttempts[w][cur[w]]] = a]
    BY DEF Charge, Reference
<1>3. ledger'[i][k] = "captured"
    BY <1>1, <1>2 DEF NoOutcome
<1> QED BY <1>3 DEF Captures

\* A captured answer is in the ledger when the session receives it.
LEMMA AnswerIsCaptured ==
    ASSUME RenewalAssumption, TypeOK, AllReady, NEW w \in Sessions, Charge(w),
           answer'[w] = "captured"
    PROVE  Captures(cur[w])' # {}
<1>1. cur[w] \in Invoices /\ seenAttempts[w][cur[w]] \in Nat
    BY DEF Charge, Reference, TypeOK, SessionsOK, AllReady, Ready, Holding
<1>2. PICK a \in {"captured"} \cup Declines :
        /\ ledger' = [ledger EXCEPT ![cur[w]][seenAttempts[w][cur[w]]] = a]
        /\ answer' = [answer EXCEPT ![w] = a]
    BY DEF Charge, Reference
<1>3. seenAttempts[w][cur[w]] \in 0..MaxAttempts
    BY <1>1 DEF Charge, Reference, RenewalAssumption
<1>4. ledger'[cur[w]][seenAttempts[w][cur[w]]] = "captured"
    BY <1>1, <1>2, <1>3 DEF TypeOK, WorldOK, SessionsOK
<1>5. UNCHANGED cur
    BY DEF Charge, Reference
<1> QED BY <1>3, <1>4, <1>5 DEF Captures

\* A step that moves no money: the ledger stays, no session comes nearer to
\* marking an invoice paid, and no invoice is marked paid.
Quiet ==
    /\ UNCHANGED ledger
    /\ \A v \in Sessions : pc'[v] \in {"record", "pay"} =>
          pc'[v] = pc[v] /\ cur'[v] = cur[v] /\ answer'[v] = answer[v]
    /\ \A i \in Invoices : invStatus'[i] = "paid" => invStatus[i] = "paid"

\* Quiet steps keep paid invoices and sessions on their way funded.
LEMMA QuietOK ==
    ASSUME PaidIsCaptured, AllFunded, Quiet
    PROVE  PaidIsCaptured' /\ AllFunded'
BY DEF PaidIsCaptured, AllFunded, Funded, Quiet, Captures

\* Ending an item, ending the job and going to a point before the attempt is
\* recorded leave every other session where it is.
LEMMA PointsKept ==
    ASSUME SessionsOK, NEW w \in Sessions,
           \/ Close(w)
           \/ \E remaining : EndItem(w, remaining)
           \/ \E batch : Begin(w, batch)
           \/ \E p \in ControlPoints \ {"record", "pay"} :
                 /\ Goto(w, p)
                 /\ \A v \in Sessions \ {w} :
                       cur'[v] = cur[v] /\ answer'[v] = answer[v]
    PROVE  \A v \in Sessions : pc'[v] \in {"record", "pay"} =>
             pc'[v] = pc[v] /\ cur'[v] = cur[v] /\ answer'[v] = answer[v]
<1>1. ASSUME Close(w) PROVE pc'[w] = "idle" /\ \A v \in Sessions \ {w} :
             pc'[v] = pc[v] /\ cur'[v] = cur[v] /\ answer'[v] = answer[v]
    BY <1>1 DEF Close, SessionsOK
<1>2. ASSUME NEW remaining, EndItem(w, remaining)
      PROVE  pc'[w] \in {"idle", "next"} /\ \A v \in Sessions \ {w} :
             pc'[v] = pc[v] /\ cur'[v] = cur[v] /\ answer'[v] = answer[v]
    BY <1>1, <1>2 DEF EndItem, SessionsOK
<1>3. ASSUME NEW batch, Begin(w, batch)
      PROVE  pc'[w] = "next" /\ \A v \in Sessions \ {w} :
             pc'[v] = pc[v] /\ cur'[v] = cur[v] /\ answer'[v] = answer[v]
    BY <1>3 DEF Begin, Goto, SessionsOK
<1>4. ASSUME NEW p \in ControlPoints \ {"record", "pay"}, Goto(w, p),
             \A v \in Sessions \ {w} : cur'[v] = cur[v] /\ answer'[v] = answer[v]
      PROVE  pc'[w] = p /\ \A v \in Sessions \ {w} :
             pc'[v] = pc[v] /\ cur'[v] = cur[v] /\ answer'[v] = answer[v]
    BY <1>4 DEF Goto, SessionsOK
<1> QED BY <1>1, <1>2, <1>3, <1>4

\* The steps of one session that move no money.
LEMMA QuietSteps ==
    ASSUME RenewalAssumption, TypeOK, AllReady, NEW w \in Sessions,
           \/ BillSelect(w) \/ BillCreate(w) \/ AdvancePeriod(w)
           \/ \E s \in Subs : BillLookup(w, s)
           \/ ChargeRaises(w) \/ Dunning(w)
           \/ RetrySelect(w) \/ ClearDunning(w) \/ Recover(w)
           \/ \E i \in Invoices : RetryLoad(w, i)
           \/ Grace(w) \/ Request(w) \/ AbortJob(w)
    PROVE  Quiet
<1> USE DEF TypeOK
<1>1. CASE BillSelect(w) \/ RetrySelect(w) \/ GraceSelect(w)
    BY <1>1, PointsKept DEF BillSelect, RetrySelect, GraceSelect, Quiet, database,
       world, invoiceRows
<1>2. ASSUME NEW s \in Subs, BillLookup(w, s) PROVE Quiet
  <2>1. UNCHANGED <<ledger, invStatus>>
      BY <1>2 DEF BillLookup, database, world, invoiceRows
  <2>2. \/ Close(w)
        \/ \E p \in ControlPoints \ {"record", "pay"} :
              /\ Goto(w, p)
              /\ \A v \in Sessions \ {w} :
                    cur'[v] = cur[v] /\ answer'[v] = answer[v]
      BY <1>2 DEF BillLookup, SessionsOK, ControlPoints
  <2> QED BY <2>1, <2>2, PointsKept DEF Quiet
<1>3. CASE BillCreate(w)
  <2>1. \E p \in ControlPoints \ {"record", "pay"} :
              /\ Goto(w, p)
              /\ \A v \in Sessions \ {w} :
                    cur'[v] = cur[v] /\ answer'[v] = answer[v]
      BY <1>3 DEF BillCreate, SessionsOK, ControlPoints
  <2>2. /\ UNCHANGED ledger
        /\ \A i \in Invoices : invStatus'[i] = "paid" => invStatus[i] = "paid"
      BY <1>3 DEF BillCreate, world, InvoicesOK
  <2> QED BY <2>1, <2>2, PointsKept DEF Quiet
<1>4. CASE AdvancePeriod(w) \/ Recover(w) \/ ChargeRaises(w) \/ AbortJob(w)
    BY <1>4, PointsKept DEF AdvancePeriod, Recover, ChargeRaises, AbortJob, Quiet,
       database, world, invoiceRows
<1>5. CASE ClearDunning(w)
  <2>1. "recover" \in ControlPoints \ {"record", "pay"}
      BY DEF ControlPoints
  <2> QED BY <1>5, <2>1, PointsKept DEF ClearDunning, Quiet, world
<1>6. ASSUME NEW i \in Invoices, RetryLoad(w, i) PROVE Quiet
  <2>1. \/ EndItem(w, todo[w] \ {i})
        \/ /\ Goto(w, "charge")
           /\ \A v \in Sessions \ {w} : cur'[v] = cur[v] /\ answer'[v] = answer[v]
      BY <1>6 DEF RetryLoad, SessionsOK
  <2>2. "charge" \in ControlPoints \ {"record", "pay"}
      BY DEF ControlPoints
  <2> QED BY <1>6, <2>1, <2>2, PointsKept DEF RetryLoad, Quiet, world
<1>7. ASSUME NEW s \in Subs, GraceCancel(w, s) PROVE Quiet
    BY <1>7, PointsKept DEF GraceCancel, Quiet, world, invoiceRows
<1>8. CASE RequestCommit(w)
    BY <1>8, PointsKept DEF RequestCommit, Quiet, world, invoiceRows
<1>9. ASSUME NEW s \in Subs, NEW op \in Operations, RequestRead(w, s, op)
      PROVE  Quiet
  <2>1. op \in ControlPoints \ {"record", "pay"}
      BY DEF RenewalAssumption, ControlPoints
  <2> QED BY <1>9, <2>1, PointsKept DEF RequestRead, Quiet, database, world,
             invoiceRows
<1>10. CASE Dunning(w)
  <2>1. UNCHANGED <<ledger, invStatus>>
      BY <1>10 DEF Dunning, SkipDunning, OpenCycle, AdvanceCycle, ScheduleRetry,
         Revoke, Settle, database, world, invoiceRows
  <2>2. \/ \E remaining : EndItem(w, remaining)
        \/ \E p \in {"schedule", "flag", "exhaust", "revoke"} :
              Goto(w, p) /\ UNCHANGED <<cur, answer>>
      BY <1>10 DEF Dunning, SkipDunning, OpenCycle, AdvanceCycle, ScheduleRetry,
         Revoke, Settle, Decision
  <2>3. {"schedule", "flag", "exhaust", "revoke"}
            \subseteq ControlPoints \ {"record", "pay"}
      BY DEF ControlPoints
  <2> QED BY <2>1, <2>2, <2>3, PointsKept DEF Quiet
<1> QED BY <1>1, <1>2, <1>3, <1>4, <1>5, <1>6, <1>7, <1>8, <1>9, <1>10
        DEF Grace, Request

\* The steps that do: the charge, its record and the payment.
LEMMA MoneySteps ==
    ASSUME RenewalAssumption, IInv, NEW w \in Sessions,
           Charge(w) \/ RecordAttempt(w) \/ PayInvoice(w)
    PROVE  PaidIsCaptured' /\ AllFunded'
<1>1. cur[w] \in Invoices
    BY DEF IInv, AllReady, Ready, Holding, Charge, RecordAttempt, PayInvoice
<1>2. CASE Charge(w)
  <2>1. \A i \in Invoices : Captures(i) # {} => Captures(i)' # {}
      BY <1>1, <1>2, CapturesKept DEF IInv, TypeOK, WorldOK
  <2>2. PaidIsCaptured'
      BY <1>2, <2>1 DEF IInv, PaidIsCaptured, Charge, database, invoiceRows
  <2>3. ASSUME NEW v \in Sessions PROVE Funded(v)'
    <3>1. CASE v = w
        BY <1>2, <3>1, AnswerIsCaptured DEF IInv, Funded, Charge, Goto, TypeOK,
           SessionsOK
    <3>2. CASE v # w
      <4>1. pc'[v] = pc[v] /\ answer'[v] = answer[v] /\ cur'[v] = cur[v]
          BY <1>2, <3>2 DEF Charge, Goto, IInv, TypeOK, SessionsOK
      <4>2. pc[v] \in {"record", "pay"} => cur[v] \in Invoices
          BY DEF IInv, AllReady, Ready, Holding
      <4>3. Funded(v)
          BY DEF IInv, AllFunded
      <4> QED BY <4>1, <4>2, <4>3, <2>1 DEF Funded
    <3> QED BY <3>1, <3>2
  <2> QED BY <2>2, <2>3 DEF AllFunded
<1>3. CASE RecordAttempt(w)
  <2>1. UNCHANGED <<ledger, invStatus, cur, answer>>
      BY <1>3 DEF RecordAttempt, world
  <2>2. /\ pc'[w] = "pay" => pc[w] = "record" /\ answer[w] = "captured"
        /\ pc'[w] # "record"
        /\ \A v \in Sessions \ {w} : pc'[v] = pc[v]
      BY <1>3 DEF RecordAttempt, AfterAttempt, Goto, IInv, TypeOK, SessionsOK
  <2> QED BY <2>1, <2>2 DEF IInv, PaidIsCaptured, AllFunded, Funded, Captures
<1>4. CASE PayInvoice(w)
  <2>1. UNCHANGED ledger /\ Captures(cur[w]) # {}
      BY <1>4 DEF PayInvoice, world, IInv, AllFunded, Funded
  <2>2. PaidIsCaptured'
      BY <1>1, <1>4, <2>1 DEF PayInvoice, IInv, PaidIsCaptured, Captures, TypeOK,
         InvoicesOK
  <2>3. \/ Close(w)
        \/ \E p \in {"clear", "advance"} : Goto(w, p) /\ UNCHANGED <<cur, answer>>
      BY <1>4 DEF PayInvoice
  <2>4. {"clear", "advance"} \subseteq ControlPoints \ {"record", "pay"}
      BY DEF ControlPoints
  <2>5. \A v \in Sessions : pc'[v] \in {"record", "pay"} =>
             pc'[v] = pc[v] /\ cur'[v] = cur[v] /\ answer'[v] = answer[v]
      BY <2>3, <2>4, PointsKept DEF IInv, TypeOK
  <2> QED BY <2>1, <2>2, <2>5 DEF IInv, AllFunded, Funded, Captures
<1> QED BY <1>2, <1>3, <1>4

\* An invoice is marked paid only when the provider captured money for it,
\* whatever sessions overlap and wherever jobs are cut short.
THEOREM PaidMeansCaptured == Spec => []PaidIsCaptured
<1>1. Init => IInv
  <2> SUFFICES ASSUME Init PROVE IInv OBVIOUS
  <2>1. PaidIsCaptured /\ AllFunded
      BY DEF Init, PaidIsCaptured, AllFunded, Funded
  <2> QED BY <2>1, InitOK, RenewalAssumption DEF IInv
<1>2. IInv /\ [Next]_vars => IInv'
  <2> SUFFICES ASSUME IInv, [Next]_vars PROVE IInv' OBVIOUS
  <2> RenewalAssumption /\ TypeOK /\ AllReady
      BY RenewalAssumption DEF IInv
  <2> \A w \in Billers \cup Retriers \cup Graces \cup Requests : w \in Sessions
      BY DEF Sessions
  <2>1. TypeOK' /\ AllReady'
      BY NextOK
  <2>2. ASSUME NEW w \in Sessions,
               Biller(w) \/ Retrier(w) \/ Grace(w) \/ Request(w) \/ AbortJob(w)
        PROVE  PaidIsCaptured' /\ AllFunded'
    <3>1. CASE Charge(w) \/ RecordAttempt(w) \/ PayInvoice(w)
        BY <3>1, MoneySteps
    <3>2. CASE ~(Charge(w) \/ RecordAttempt(w) \/ PayInvoice(w))
        BY <2>2, <3>2, QuietSteps, QuietOK DEF Biller, Retrier, Charging, IInv
    <3> QED BY <3>1, <3>2
  <2>3. CASE \/ Time \/ UNCHANGED vars
             \/ \E s \in Subs : AddCard(s) \/ LoseCard(s)
    <3>1. UNCHANGED <<ledger, invStatus, pc, cur, answer>>
        BY <2>3 DEF Time, PeriodEnds, RetryComesDue, GraceElapses, AddCard,
           LoseCard, vars, database, invoiceRows, session, world
    <3>2. Quiet
        BY <3>1 DEF Quiet
    <3> QED BY <2>1, <3>2, QuietOK DEF IInv
  <2>4. CASE \E w \in Sessions : \/ Biller(w) \/ Retrier(w) \/ Grace(w)
                                  \/ Request(w) \/ AbortJob(w)
    BY <2>1, <2>2, <2>4 DEF IInv
  <2>5. \/ \E w \in Sessions : \/ Biller(w) \/ Retrier(w) \/ Grace(w)
                               \/ Request(w) \/ AbortJob(w)
        \/ Time \/ UNCHANGED vars
        \/ \E s \in Subs : AddCard(s) \/ LoseCard(s)
    BY DEF Next
  <2> QED BY <2>3, <2>4, <2>5
<1>3. IInv => PaidIsCaptured
    BY DEF IInv
<1> QED BY <1>1, <1>2, <1>3, PTL DEF Spec
--------------------------------------------------------------------------
\* Granted periods.

\* A session's step leaves every other session where it is.
LEMMA OtherSessionsKept ==
    ASSUME TypeOK, NEW w \in Sessions, NEW v \in Sessions, v # w,
           Biller(w) \/ Retrier(w) \/ Grace(w) \/ Request(w) \/ AbortJob(w)
    PROVE  /\ pc'[v] = pc[v] /\ todo'[v] = todo[v] /\ at'[v] = at[v]
           /\ cur'[v] = cur[v] /\ answer'[v] = answer[v]
           /\ seenStatus'[v] = seenStatus[v] /\ seenPeriod'[v] = seenPeriod[v]
           /\ seenAttempts'[v] = seenAttempts[v]
           /\ seenInvoice'[v] = seenInvoice[v] /\ seenAnchor'[v] = seenAnchor[v]
<1> DEFINE Kept == /\ pc'[v] = pc[v] /\ todo'[v] = todo[v] /\ at'[v] = at[v]
                   /\ cur'[v] = cur[v] /\ answer'[v] = answer[v]
                   /\ seenStatus'[v] = seenStatus[v]
                   /\ seenPeriod'[v] = seenPeriod[v]
                   /\ seenAttempts'[v] = seenAttempts[v]
                   /\ seenInvoice'[v] = seenInvoice[v]
                   /\ seenAnchor'[v] = seenAnchor[v]
<1> USE DEF TypeOK, SessionsOK, Goto, Hold, HoldRow, seen, subscriptionCopies,
            invoiceCopies
<1>1. Close(w) => Kept
    BY DEF Close
<1>2. \A remaining : EndItem(w, remaining) => Kept
    BY <1>1 DEF EndItem
<1>3. BillSelect(w) \/ RetrySelect(w) \/ GraceSelect(w) => Kept
    BY DEF BillSelect, RetrySelect, GraceSelect, Begin
<1>4. ASSUME NEW s \in Subs, BillLookup(w, s) PROVE Kept
    BY <1>1, <1>4 DEF BillLookup
<1>5. BillCreate(w) => Kept
    BY DEF BillCreate
<1>6. Charge(w) \/ RecordAttempt(w) => Kept
    BY DEF Charge, RecordAttempt
<1>7. PayInvoice(w) \/ ChargeRaises(w) \/ AbortJob(w) => Kept
    BY <1>1 DEF PayInvoice, ChargeRaises, AbortJob
<1>8. AdvancePeriod(w) \/ Recover(w) \/ Revoke(w) \/ SkipDunning(w) => Kept
    BY <1>2 DEF AdvancePeriod, Recover, Revoke, SkipDunning
<1>9. OpenCycle(w) \/ ClearDunning(w) => Kept
    BY DEF OpenCycle, ClearDunning
<1>10. \A decision : Settle(w, decision) => Kept
    BY <1>2 DEF Settle
<1>11. AdvanceCycle(w) \/ ScheduleRetry(w) => Kept
    BY <1>10 DEF AdvanceCycle, ScheduleRetry
<1>12. ASSUME NEW i \in Invoices, RetryLoad(w, i) PROVE Kept
    BY <1>2, <1>12 DEF RetryLoad
<1>13. ASSUME NEW s \in Subs, GraceCancel(w, s) PROVE Kept
    BY <1>2, <1>13 DEF GraceCancel
<1>14. RequestCommit(w) => Kept
    BY <1>1 DEF RequestCommit
<1>15. ASSUME NEW s \in Subs, NEW op \in Operations, RequestRead(w, s, op)
       PROVE  Kept
    BY <1>15 DEF RequestRead
<1> HIDE DEF Kept
<1>16. Kept
    BY <1>3, <1>4, <1>5, <1>6, <1>7, <1>8, <1>9, <1>11, <1>12, <1>13, <1>14,
       <1>15 DEF Biller, Retrier, Grace, Request, Charging, Dunning
<1> QED BY <1>16 DEF Kept

\* What the environment does leaves every session where it is.
LEMMA SessionsKept ==
    ASSUME \/ Time \/ UNCHANGED vars
           \/ \E s \in Subs : AddCard(s) \/ LoseCard(s)
    PROVE  UNCHANGED <<pc, todo, at, cur, answer, seenStatus, seenPeriod,
                       seenAttempts, seenInvoice, seenAnchor, subPeriod,
                       invStatus>>
BY DEF Time, PeriodEnds, RetryComesDue, GraceElapses, AddCard, LoseCard, vars,
   database, subscriptionRows, invoiceRows, session, seen, subscriptionCopies,
   invoiceCopies

\* A row that exists stays, and a paid invoice stays paid.
RowsStay ==
    \A i \in Invoices : /\ invStatus[i] # "none" => invStatus'[i] # "none"
                        /\ invStatus[i] = "paid" => invStatus'[i] = "paid"

\* That holds of every step.
LEMMA StepKeepsRows ==
    ASSUME TypeOK, AllReady, [Next]_vars
    PROVE  RowsStay
<1> USE DEF RowsStay, TypeOK, InvoicesOK
<1>1. ASSUME NEW w \in Sessions,
             Biller(w) \/ Retrier(w) \/ Grace(w) \/ Request(w) \/ AbortJob(w)
      PROVE  RowsStay
  <2>1. CASE BillCreate(w)
      BY <2>1 DEF BillCreate
  <2>2. CASE PayInvoice(w)
      BY <2>2 DEF PayInvoice
  <2>3. CASE Dunning(w)
    <3>1. UNCHANGED invStatus
        BY <2>3 DEF Dunning, SkipDunning, OpenCycle, AdvanceCycle, ScheduleRetry,
           Settle, Revoke, database, invoiceRows
    <3> QED BY <3>1
  <2>4. CASE Charge(w) \/ ChargeRaises(w) \/ RecordAttempt(w)
    <3>1. UNCHANGED invStatus
        BY <2>4 DEF Charge, ChargeRaises, RecordAttempt, database, invoiceRows
    <3> QED BY <3>1
  <2>5. CASE \/ BillSelect(w) \/ AdvancePeriod(w)
             \/ \E s \in Subs : BillLookup(w, s)
             \/ RetrySelect(w) \/ ClearDunning(w) \/ Recover(w)
             \/ \E i \in Invoices : RetryLoad(w, i)
             \/ Grace(w) \/ Request(w) \/ AbortJob(w)
    <3>1. UNCHANGED invStatus
        BY <2>5 DEF BillSelect, AdvancePeriod, BillLookup, RetrySelect,
           ClearDunning, Recover, RetryLoad, Grace, GraceSelect, GraceCancel,
           Request, RequestCommit, RequestRead, AbortJob, database, invoiceRows
    <3> QED BY <3>1
  <2> QED BY <1>1, <2>1, <2>2, <2>3, <2>4, <2>5 DEF Biller, Retrier, Charging
<1>2. CASE \/ Time \/ UNCHANGED vars
           \/ \E s \in Subs : AddCard(s) \/ LoseCard(s)
    BY <1>2, SessionsKept
<1> QED BY <1>1, <1>2 DEF Next, Sessions

\* The paid invoices of a subscription.
PaidOf(s) == {i \in Invoices : i.sub = s /\ invStatus[i] = "paid"}

\* They are finitely many, as all its invoices are.
LEMMA PaidIsFinite ==
    ASSUME RenewalAssumption, NEW s \in Subs
    PROVE  IsFiniteSet({i \in Invoices : i.sub = s})
<1> DEFINE pairs == (1..(MaxClock + 1)) \X (1..MaxCopies)
           own   == {i \in Invoices : i.sub = s}
           f     == [x \in pairs |-> [sub |-> s, period |-> x[1], copy |-> x[2]]]
<1>1. IsFiniteSet(pairs)
  <2>1. MaxClock + 1 \in Int /\ MaxCopies \in Int /\ 1 \in Int
      BY DEF RenewalAssumption
  <2>2. IsFiniteSet(1..(MaxClock + 1)) /\ IsFiniteSet(1..MaxCopies)
      BY <2>1, FS_Interval
  <2> QED BY <2>2, FS_Product
<1>2. f \in [pairs -> own]
    BY DEF Invoices
<1>3. ASSUME NEW i \in own PROVE \E x \in pairs : f[x] = i
  <2>1. i = [sub |-> s, period |-> i.period, copy |-> i.copy]
        /\ i.period \in 1..(MaxClock + 1) /\ i.copy \in 1..MaxCopies
      BY DEF Invoices
  <2>2. <<i.period, i.copy>> \in pairs /\ f[<<i.period, i.copy>>] = i
      BY <2>1
  <2> QED BY <2>2
<1>4. f \in Surjection(pairs, own)
    BY <1>2, <1>3 DEF Surjection
<1> QED BY <1>1, <1>4, FS_Surjection

\* What a session that holds a period has to answer for: its copy of the
\* period is covered by paid invoices, and so is the next one once it has
\* paid the invoice it holds, or is about to.
Covered(w) ==
    /\ \A s \in Subs : seenPeriod[w][s] - 1 <= Cardinality(PaidOf(s))
    /\ \A i \in todo[w] \cap Invoices : invStatus[i] # "none"
    /\ pc[w] \in Holding => cur[w].sub = at[w] /\ invStatus[cur[w]] # "none"
    /\ pc[w] = "pay" =>
         /\ seenInvoice[w] \in InvoiceStatus
         /\ seenInvoice[w] = "open" => seenPeriod[w][at[w]] - 1
                <= Cardinality(PaidOf(at[w]) \ {cur[w]})
    /\ pc[w] \in {"advance", "clear", "recover"} =>
         seenPeriod[w][at[w]] <= Cardinality(PaidOf(at[w]))

GrantInv ==
    /\ GrantedIsPaid
    /\ \A w \in Sessions : Covered(w)

\* The count of paid invoices never falls, whichever one is left out of it.
LEMMA PaidGrowsBut ==
    ASSUME RenewalAssumption, RowsStay, NEW s \in Subs, NEW i
    PROVE  /\ Cardinality(PaidOf(s)) \in Nat /\ Cardinality(PaidOf(s)') \in Nat
           /\ Cardinality(PaidOf(s)) <= Cardinality(PaidOf(s)')
           /\ Cardinality(PaidOf(s) \ {i}) \in Nat
           /\ Cardinality(PaidOf(s)' \ {i}) \in Nat
           /\ Cardinality(PaidOf(s) \ {i}) <= Cardinality(PaidOf(s)' \ {i})
<1> DEFINE own == {j \in Invoices : j.sub = s}
<1>1. IsFiniteSet(own) /\ PaidOf(s) \in SUBSET own /\ PaidOf(s)' \in SUBSET own
    BY PaidIsFinite DEF PaidOf
<1>2. PaidOf(s) \in SUBSET PaidOf(s)'
    BY DEF PaidOf, RowsStay
<1>3. IsFiniteSet(PaidOf(s)) /\ IsFiniteSet(PaidOf(s)')
    BY <1>1, FS_Subset
<1>4. IsFiniteSet(PaidOf(s) \ {i}) /\ IsFiniteSet(PaidOf(s)' \ {i})
    BY <1>3, FS_RemoveElement
<1>5. PaidOf(s) \ {i} \in SUBSET (PaidOf(s)' \ {i})
    BY <1>2
<1>6. /\ Cardinality(PaidOf(s)) <= Cardinality(PaidOf(s)')
      /\ Cardinality(PaidOf(s) \ {i}) <= Cardinality(PaidOf(s)' \ {i})
    BY <1>2, <1>3, <1>4, <1>5, FS_Subset
<1>7. /\ Cardinality(PaidOf(s)) \in Nat /\ Cardinality(PaidOf(s)') \in Nat
      /\ Cardinality(PaidOf(s) \ {i}) \in Nat
      /\ Cardinality(PaidOf(s)' \ {i}) \in Nat
    BY <1>3, <1>4, FS_CardinalityType
<1> QED BY <1>6, <1>7

\* So what was covered by the paid invoices of a subscription stays so.
LEMMA PaidGrows ==
    ASSUME RenewalAssumption, RowsStay
    PROVE  \A s \in Subs : /\ Cardinality(PaidOf(s)) \in Nat
                           /\ Cardinality(PaidOf(s)') \in Nat
                           /\ Cardinality(PaidOf(s)) <= Cardinality(PaidOf(s)')
<1> TAKE s \in Subs
<1> QED BY PaidGrowsBut

\* What is covered stays covered for a session that a step leaves alone.
LEMMA CoveredKept ==
    ASSUME RenewalAssumption, TypeOK, AllReady, RowsStay, NEW w \in Sessions,
           Covered(w),
           pc'[w] = pc[w], todo'[w] = todo[w], at'[w] = at[w], cur'[w] = cur[w],
           seenPeriod'[w] = seenPeriod[w], seenInvoice'[w] = seenInvoice[w]
    PROVE  Covered(w)'
<1>1. \A s \in Subs : seenPeriod[w][s] \in Nat
    BY DEF TypeOK, SessionsOK
<1>2. \A s \in Subs : seenPeriod'[w][s] - 1 <= Cardinality(PaidOf(s)')
    BY <1>1, PaidGrows DEF Covered
<1>3. /\ \A i \in todo'[w] \cap Invoices : invStatus'[i] # "none"
      /\ pc'[w] \in Holding => cur'[w].sub = at'[w] /\ invStatus'[cur'[w]] # "none"
    BY DEF Covered, RowsStay, AllReady, Ready
<1>4. ASSUME NEW s \in Subs, s = at[w], pc[w] \in Holding
      PROVE  /\ pc[w] = "pay" /\ seenInvoice[w] = "open" =>
                  seenPeriod[w][s] - 1 <= Cardinality(PaidOf(s)' \ {cur[w]})
             /\ pc[w] \in {"advance", "clear", "recover"} =>
                  seenPeriod[w][s] <= Cardinality(PaidOf(s)')
  <2>1. /\ Cardinality(PaidOf(s) \ {cur[w]}) \in Nat
        /\ Cardinality(PaidOf(s)' \ {cur[w]}) \in Nat
        /\ Cardinality(PaidOf(s) \ {cur[w]}) <= Cardinality(PaidOf(s)' \ {cur[w]})
      BY PaidGrowsBut
  <2>2. pc[w] = "pay" /\ seenInvoice[w] = "open" =>
            seenPeriod[w][s] - 1 <= Cardinality(PaidOf(s) \ {cur[w]})
      BY <1>4 DEF Covered
  <2>3. pc[w] \in {"advance", "clear", "recover"} =>
            seenPeriod[w][s] <= Cardinality(PaidOf(s))
      BY <1>4 DEF Covered
  <2> QED BY <1>1, <2>1, <2>2, <2>3, PaidGrows
<1>5. pc[w] \in Holding => at[w] \in Subs
    BY DEF AllReady, Ready
<1>6. pc[w] \in {"pay", "advance", "clear", "recover"} => pc[w] \in Holding
    BY DEF Holding
<1>7. pc[w] = "pay" => seenInvoice[w] \in InvoiceStatus
    BY DEF Covered
<1> QED BY <1>2, <1>3, <1>4, <1>5, <1>6, <1>7 DEF Covered

\* A session that ends has nothing to answer for.
LEMMA CoveredClose ==
    ASSUME RenewalAssumption, TypeOK, RowsStay, NEW w \in Sessions, Close(w)
    PROVE  Covered(w)'
<1>1. /\ pc'[w] = "idle" /\ todo'[w] = {}
      /\ seenPeriod'[w] = [s \in Subs |-> 1]
    BY DEF Close, TypeOK, SessionsOK
<1>2. \A s \in Subs : Cardinality(PaidOf(s)') \in Nat
    BY PaidGrows
<1> QED BY <1>1, <1>2 DEF Covered, Holding

\* One that goes on to its next item has its copies and its batch to answer
\* for.
LEMMA CoveredEndItem ==
    ASSUME RenewalAssumption, TypeOK, RowsStay, NEW w \in Sessions, Covered(w),
           NEW remaining \in SUBSET todo[w], EndItem(w, remaining)
    PROVE  Covered(w)'
<1>1. CASE remaining = {}
    BY <1>1, CoveredClose DEF EndItem
<1>2. CASE remaining # {}
  <2>1. pc'[w] = "next" /\ todo'[w] = remaining /\ seenPeriod'[w] = seenPeriod[w]
      BY <1>2 DEF EndItem, TypeOK, SessionsOK, seen, subscriptionCopies
  <2>3. \A s \in Subs : seenPeriod[w][s] - 1 <= Cardinality(PaidOf(s))
                        /\ seenPeriod[w][s] \in Nat
      BY DEF Covered, TypeOK, SessionsOK
  <2>4. \A s \in Subs : seenPeriod'[w][s] - 1 <= Cardinality(PaidOf(s)')
      BY <2>1, <2>3, PaidGrows
  <2> QED BY <2>1, <2>4 DEF Covered, RowsStay, Holding
<1> QED BY <1>1, <1>2

\* One that starts, or moves on without the period being paid, has its copies,
\* its batch and the invoice it holds to answer for.
LEMMA CoveredMove ==
    ASSUME RenewalAssumption, TypeOK, RowsStay, NEW w \in Sessions,
           \A s \in Subs : seenPeriod'[w][s] \in Nat
                           /\ seenPeriod'[w][s] - 1 <= Cardinality(PaidOf(s)),
           \A i \in todo'[w] \cap Invoices : invStatus'[i] # "none",
           pc'[w] \in Holding =>
                cur'[w].sub = at'[w] /\ invStatus'[cur'[w]] # "none",
           pc'[w] \notin {"pay", "advance", "clear", "recover"}
    PROVE  Covered(w)'
<1>1. \A s \in Subs : seenPeriod'[w][s] - 1 <= Cardinality(PaidOf(s)')
    BY PaidGrows
<1> QED BY <1>1 DEF Covered

\* The payment adds the invoice to the paid ones, once.
LEMMA CoveredPay ==
    ASSUME RenewalAssumption, TypeOK, AllReady, RowsStay, NEW w \in Sessions,
           Covered(w), PayInvoice(w)
    PROVE  Covered(w)'
<1>1. CASE ~InvoiceAllowed(seenInvoice[w], "paid")
    BY <1>1, CoveredClose DEF PayInvoice
<1>2. CASE InvoiceAllowed(seenInvoice[w], "paid")
  <2>1. PICK s \in Subs, i \in Invoices :
            s = at[w] /\ i = cur[w] /\ i.sub = s /\ invStatus[i] # "none"
      BY DEF PayInvoice, AllReady, Ready, Holding, Covered
  <2>2. seenInvoice[w] = "open"
    <3>1. seenInvoice[w] \in InvoiceStatus
        BY DEF Covered, PayInvoice
    <3> QED BY <1>2, <3>1 DEF InvoiceAllowed, InvoiceTransitions, InvoiceStatus
  <2>3. /\ invStatus' = [invStatus EXCEPT ![i] = "paid"]
        /\ pc'[w] \in {"clear", "advance"}
        /\ UNCHANGED <<todo, at, cur, seenPeriod>>
      BY <1>2, <2>1 DEF PayInvoice, Goto, TypeOK, SessionsOK, seen,
                        subscriptionCopies
  <2>4. seenPeriod[w][s] - 1 <= Cardinality(PaidOf(s) \ {i})
        /\ seenPeriod[w][s] \in Nat
      BY <2>1, <2>2 DEF Covered, TypeOK, SessionsOK, PayInvoice
  <2>5. /\ Cardinality(PaidOf(s) \ {i}) \in Nat
        /\ Cardinality(PaidOf(s)' \ {i}) \in Nat
        /\ Cardinality(PaidOf(s) \ {i}) <= Cardinality(PaidOf(s)' \ {i})
        /\ Cardinality(PaidOf(s)') \in Nat
      BY PaidGrowsBut
  <2>6. Cardinality(PaidOf(s)' \ {i}) = Cardinality(PaidOf(s)') - 1
    <3>1. i \in PaidOf(s)'
        BY <2>1, <2>3 DEF PaidOf, TypeOK, InvoicesOK
    <3>2. PaidOf(s)' \in SUBSET {j \in Invoices : j.sub = s}
        BY DEF PaidOf
    <3>3. IsFiniteSet(PaidOf(s)')
        BY <3>2, PaidIsFinite, FS_Subset
    <3> QED BY <3>1, <3>3, FS_RemoveElement
  <2>7. seenPeriod'[w][s] <= Cardinality(PaidOf(s)')
      BY <2>3, <2>4, <2>5, <2>6
  <2>8. \A r \in Subs : seenPeriod'[w][r] - 1 <= Cardinality(PaidOf(r)')
    <3>1. \A r \in Subs : seenPeriod[w][r] \in Nat
                          /\ seenPeriod[w][r] - 1 <= Cardinality(PaidOf(r))
        BY DEF Covered, TypeOK, SessionsOK
    <3> QED BY <2>3, <3>1, PaidGrows
  <2>9. \A j \in todo'[w] \cap Invoices : invStatus'[j] # "none"
      BY <2>3 DEF Covered, RowsStay
  <2>10. cur'[w].sub = at'[w] /\ invStatus'[cur'[w]] # "none"
      BY <2>1, <2>3 DEF RowsStay
  <2>11. pc'[w] # "pay" /\ at'[w] = s
      BY <2>1, <2>3
  <2> QED BY <2>7, <2>8, <2>9, <2>10, <2>11 DEF Covered
<1> QED BY <1>1, <1>2

\* After the attempt the session's copy of the invoice is the row's: while it
\* is open it is none of those already paid.
LEMMA CoveredRecord ==
    ASSUME RenewalAssumption, TypeOK, AllReady, RowsStay, NEW w \in Sessions,
           Covered(w), RecordAttempt(w)
    PROVE  Covered(w)'
<1>1. PICK s \in Subs, i \in Invoices :
          s = at[w] /\ i = cur[w] /\ i.sub = s /\ invStatus[i] # "none"
    BY DEF RecordAttempt, AllReady, Ready, Holding, Covered
<1>2. /\ pc'[w] \in {"pay", "fail"}
      /\ UNCHANGED <<todo, at, cur, seenPeriod, invStatus>>
      /\ seenInvoice'[w] = invStatus[i]
    BY <1>1 DEF RecordAttempt, AfterAttempt, Goto, HoldRow, Hold, TypeOK,
                SessionsOK, subscriptionCopies
<1>3. \A r : PaidOf(r)' = PaidOf(r)
    BY <1>2 DEF PaidOf
<1>4. seenInvoice'[w] \in InvoiceStatus
    BY <1>1, <1>2 DEF TypeOK, InvoicesOK, RowStatus
<1>5. seenInvoice'[w] = "open" => PaidOf(s) \ {i} = PaidOf(s)
    BY <1>1, <1>2 DEF PaidOf
<1>6. seenPeriod[w][s] - 1 <= Cardinality(PaidOf(s))
    BY DEF Covered
<1>7. seenInvoice'[w] = "open" =>
        seenPeriod'[w][s] - 1 <= Cardinality(PaidOf(s)' \ {i})
    BY <1>2, <1>3, <1>5, <1>6
<1>8. \A r \in Subs : seenPeriod'[w][r] - 1 <= Cardinality(PaidOf(r)')
    BY <1>2, <1>3 DEF Covered
<1>9. /\ \A j \in todo'[w] \cap Invoices : invStatus'[j] # "none"
      /\ cur'[w].sub = at'[w] /\ invStatus'[cur'[w]] # "none"
    BY <1>1, <1>2 DEF Covered
<1>10. pc'[w] \notin {"advance", "clear", "recover"} /\ at'[w] = s /\ cur'[w] = i
    BY <1>1, <1>2
<1> QED BY <1>4, <1>7, <1>8, <1>9, <1>10 DEF Covered

\* The lookups: what a session takes up exists and is its subscription's.
LEMMA CoveredSelect ==
    ASSUME RenewalAssumption, TypeOK, AllReady, RowsStay, GrantedIsPaid,
           NEW w \in Sessions, Covered(w),
           \/ BillSelect(w) \/ BillCreate(w) \/ \E s \in Subs : BillLookup(w, s)
           \/ RetrySelect(w) \/ \E i \in Invoices : RetryLoad(w, i)
           \/ GraceSelect(w)
    PROVE  Covered(w)'
<1> USE DEF TypeOK, SessionsOK, Goto, Begin, Hold, HoldRow, subscriptionCopies
<1>1. \A s \in Subs : /\ subPeriod[s] \in Nat /\ seenPeriod[w][s] \in Nat
                      /\ subPeriod[s] - 1 <= Cardinality(PaidOf(s))
                      /\ seenPeriod[w][s] - 1 <= Cardinality(PaidOf(s))
    BY DEF SubscriptionsOK, GrantedIsPaid, PaidOf, Covered
<1>2. CASE BillSelect(w)
  <2>1. /\ pc'[w] = "next" /\ todo'[w] \subseteq Subs
        /\ seenPeriod'[w] = subPeriod
      BY <1>2 DEF BillSelect, DueSubs
  <2>2. \A i \in todo'[w] \cap Invoices : invStatus'[i] # "none"
      BY <2>1 DEF RenewalAssumption
  <2> QED BY <1>1, <2>1, <2>2, CoveredMove DEF Holding
<1>3. CASE GraceSelect(w)
  <2>1. /\ pc'[w] = "next" /\ todo'[w] \subseteq Subs
        /\ seenPeriod'[w] = seenPeriod[w]
      BY <1>3 DEF GraceSelect
  <2>2. \A i \in todo'[w] \cap Invoices : invStatus'[i] # "none"
      BY <2>1 DEF RenewalAssumption
  <2> QED BY <1>1, <2>1, <2>2, CoveredMove DEF Holding
<1>4. CASE RetrySelect(w)
  <2>1. /\ pc'[w] = "next" /\ seenPeriod'[w] = seenPeriod[w]
        /\ \A i \in todo'[w] : invStatus[i] = "open"
      BY <1>4 DEF RetrySelect
  <2>2. \A i \in todo'[w] \cap Invoices : invStatus'[i] # "none"
      BY <2>1 DEF RowsStay
  <2> QED BY <1>1, <2>1, <2>2, CoveredMove DEF Holding
<1>5. CASE BillCreate(w)
  <2>1. PICK i \in Invoices : /\ i.sub = at[w]
                              /\ invStatus' = [invStatus EXCEPT ![i] = "open"]
                              /\ cur' = [cur EXCEPT ![w] = i]
      BY <1>5 DEF BillCreate
  <2>2. /\ pc'[w] \in {"charge", "fail"} /\ cur'[w] = i /\ at'[w] = at[w]
        /\ invStatus'[i] # "none" /\ seenPeriod'[w] = seenPeriod[w]
        /\ todo'[w] = todo[w]
      BY <1>5, <2>1 DEF BillCreate, InvoicesOK
  <2>3. \A j \in todo'[w] \cap Invoices : invStatus'[j] # "none"
      BY <2>2 DEF Covered, RowsStay
  <2> QED BY <1>1, <2>1, <2>2, <2>3, CoveredMove
<1>6. ASSUME NEW s \in Subs, BillLookup(w, s) PROVE Covered(w)'
  <2>1. CASE Close(w)
      BY <2>1, CoveredClose
  <2>2. CASE ~Close(w)
    <3>1. /\ todo'[w] = todo[w] \ {s} /\ at'[w] = s
          /\ seenPeriod'[w] = seenPeriod[w] /\ UNCHANGED invStatus
        BY <1>6, <2>2 DEF BillLookup, seen, database, invoiceRows
    <3>2. \/ pc'[w] = "create"
          \/ /\ pc'[w] \in {"charge", "fail"}
             /\ cur'[w] \in OpenFor(w, s)
        BY <1>6, <2>2 DEF BillLookup
    <3>3. \A j \in todo'[w] \cap Invoices : invStatus'[j] # "none"
        BY <3>1 DEF Covered
    <3>4. pc'[w] \in Holding => cur'[w].sub = at'[w] /\ invStatus'[cur'[w]] # "none"
        BY <3>1, <3>2 DEF OpenFor, Holding
    <3> QED BY <1>1, <3>1, <3>2, <3>3, <3>4, CoveredMove
  <2> QED BY <2>1, <2>2
<1>7. ASSUME NEW i \in Invoices, RetryLoad(w, i) PROVE Covered(w)'
  <2>1. CASE EndItem(w, todo[w] \ {i})
      BY <2>1, CoveredEndItem
  <2>2. CASE ~EndItem(w, todo[w] \ {i})
    <3>1. /\ pc'[w] = "charge" /\ todo'[w] = todo[w] \ {i} /\ at'[w] = i.sub
          /\ cur'[w] = i /\ UNCHANGED invStatus
          /\ seenPeriod'[w] = [seenPeriod[w] EXCEPT ![i.sub] = subPeriod[i.sub]]
        BY <1>7, <2>2 DEF RetryLoad
    <3>2. i \in todo[w] /\ invStatus[i] # "none"
        BY <1>7 DEF RetryLoad, Covered
    <3>3. \A j \in todo'[w] \cap Invoices : invStatus'[j] # "none"
        BY <3>1 DEF Covered
    <3>4. \A s \in Subs : seenPeriod'[w][s] \in Nat
                          /\ seenPeriod'[w][s] - 1 <= Cardinality(PaidOf(s))
      <4> TAKE s \in Subs
      <4>1. seenPeriod'[w][s] \in {subPeriod[s], seenPeriod[w][s]}
          BY <3>1
      <4> QED BY <1>1, <4>1
    <3> QED BY <3>1, <3>2, <3>3, <3>4, CoveredMove
  <2> QED BY <2>1, <2>2
<1> QED BY <1>2, <1>3, <1>4, <1>5, <1>6, <1>7

\* The steps that neither look up nor pay.
LEMMA CoveredSteps ==
    ASSUME RenewalAssumption, TypeOK, AllReady, RowsStay, NEW w \in Sessions,
           Covered(w),
           \/ Charge(w) \/ ChargeRaises(w) \/ AdvancePeriod(w) \/ Dunning(w)
           \/ ClearDunning(w) \/ Recover(w) \/ Request(w) \/ AbortJob(w)
           \/ \E s \in Subs : GraceCancel(w, s)
    PROVE  Covered(w)'
<1> USE DEF TypeOK, SessionsOK, Goto
<1>1. \A s \in Subs : /\ seenPeriod[w][s] \in Nat
                      /\ seenPeriod[w][s] - 1 <= Cardinality(PaidOf(s))
    BY DEF Covered
<1>2. CASE ChargeRaises(w) \/ AbortJob(w) \/ RequestCommit(w)
    BY <1>2, CoveredClose DEF ChargeRaises, AbortJob, RequestCommit
<1>3. CASE \/ AdvancePeriod(w) \/ Recover(w) \/ SkipDunning(w) \/ Revoke(w)
           \/ \E s \in Subs : GraceCancel(w, s)
  <2>1. \E remaining \in SUBSET todo[w] : EndItem(w, remaining)
      BY <1>3 DEF AdvancePeriod, Recover, SkipDunning, Revoke, GraceCancel
  <2> QED BY <2>1, CoveredEndItem
<1>4. ASSUME UNCHANGED <<todo, at, cur, seenPeriod, invStatus>>,
             pc[w] \in Holding,
             pc'[w] \notin {"pay", "advance", "clear", "recover"}
      PROVE  Covered(w)'
  <2>1. /\ \A i \in todo'[w] \cap Invoices : invStatus'[i] # "none"
        /\ cur'[w].sub = at'[w] /\ invStatus'[cur'[w]] # "none"
      BY <1>4 DEF Covered
  <2> QED BY <1>1, <1>4, <2>1, CoveredMove
<1>5. CASE Charge(w)
  <2>1. UNCHANGED <<todo, at, cur, seenPeriod, invStatus>> /\ pc'[w] = "record"
      BY <1>5 DEF Charge, seen, subscriptionCopies, database, invoiceRows
  <2> QED BY <1>4, <1>5, <2>1 DEF Charge, Holding
<1>6. CASE OpenCycle(w)
  <2>1. /\ UNCHANGED <<todo, at, cur, seenPeriod, invStatus>>
        /\ pc'[w] \in {"schedule", "flag", "exhaust"}
      BY <1>6 DEF OpenCycle, Decision
  <2> QED BY <1>4, <1>6, <2>1 DEF OpenCycle, Holding
<1>7. ASSUME NEW decision, Settle(w, decision), pc[w] \in Holding
      PROVE  Covered(w)'
  <2>1. CASE decision = "exhaust"
    <3>1. UNCHANGED <<todo, at, cur, seenPeriod, invStatus>> /\ pc'[w] = "revoke"
        BY <1>7, <2>1 DEF Settle, seen, subscriptionCopies
    <3> QED BY <1>4, <1>7, <3>1
  <2>2. CASE decision # "exhaust"
      BY <1>7, <2>2, CoveredEndItem DEF Settle
  <2> QED BY <2>1, <2>2
<1>8. CASE AdvanceCycle(w) \/ ScheduleRetry(w)
    BY <1>7, <1>8 DEF AdvanceCycle, ScheduleRetry, Holding
<1>9. CASE ClearDunning(w)
  <2>1. /\ UNCHANGED <<todo, at, cur, seenPeriod, invStatus>>
        /\ pc[w] = "clear" /\ pc'[w] = "recover"
      BY <1>9 DEF ClearDunning, seen, subscriptionCopies
  <2>2. \A s : PaidOf(s)' = PaidOf(s)
      BY <2>1 DEF PaidOf
  <2>3. PICK s \in Subs : s = at[w]
      BY <2>1 DEF AllReady, Ready, Holding
  <2>4. seenPeriod'[w][s] <= Cardinality(PaidOf(s)') /\ at'[w] = s
      BY <2>1, <2>2, <2>3 DEF Covered
  <2>5. \A r \in Subs : seenPeriod'[w][r] - 1 <= Cardinality(PaidOf(r)')
      BY <1>1, <2>1, <2>2
  <2>6. /\ \A i \in todo'[w] \cap Invoices : invStatus'[i] # "none"
        /\ cur'[w].sub = at'[w] /\ invStatus'[cur'[w]] # "none"
      BY <2>1 DEF Covered, Holding
  <2> QED BY <2>1, <2>4, <2>5, <2>6 DEF Covered
<1>10. ASSUME NEW s \in Subs, NEW op \in Operations, RequestRead(w, s, op)
       PROVE  Covered(w)'
  <2>1. /\ pc'[w] \in {"cancel", "pause", "resume"} /\ todo'[w] = todo[w]
        /\ seenPeriod'[w] = seenPeriod[w] /\ UNCHANGED invStatus
      BY <1>10 DEF RequestRead, RenewalAssumption, database, invoiceRows
  <2>2. \A i \in todo'[w] \cap Invoices : invStatus'[i] # "none"
      BY <2>1 DEF Covered
  <2> QED BY <1>1, <2>1, <2>2, CoveredMove DEF Holding
<1> QED BY <1>2, <1>3, <1>5, <1>6, <1>8, <1>9, <1>10 DEF Dunning, Request

\* What sessions answer for is an invariant, and with it the periods granted.
LEMMA GrantIsInvariant == Spec => [](TypeOK /\ AllReady /\ GrantInv)
<1> DEFINE Inv == TypeOK /\ AllReady /\ GrantInv
<1>1. Init => Inv
  <2> SUFFICES ASSUME Init PROVE GrantInv
      BY InitOK, RenewalAssumption
  <2>1. \A s \in Subs : Cardinality(PaidOf(s)) \in Nat
    <3> TAKE s \in Subs
    <3>1. PaidOf(s) \in SUBSET {i \in Invoices : i.sub = s}
        BY DEF PaidOf
    <3> QED BY <3>1, RenewalAssumption, PaidIsFinite, FS_Subset,
               FS_CardinalityType
  <2>2. GrantedIsPaid
      BY <2>1 DEF Init, GrantedIsPaid, PaidOf
  <2>3. \A w \in Sessions : Covered(w)
      BY <2>1 DEF Init, Covered, Holding
  <2> QED BY <2>2, <2>3 DEF GrantInv
<1>2. Inv /\ [Next]_vars => Inv'
  <2> SUFFICES ASSUME Inv, [Next]_vars PROVE Inv' OBVIOUS
  <2> USE RenewalAssumption
  <2>1. TypeOK' /\ AllReady' /\ RowsStay
      BY NextOK, StepKeepsRows
  <2>2. ASSUME NEW w \in Sessions,
               Biller(w) \/ Retrier(w) \/ Grace(w) \/ Request(w) \/ AbortJob(w)
        PROVE  Covered(w)'
    <3>1. CASE PayInvoice(w)
        BY <2>1, <3>1, CoveredPay DEF GrantInv
    <3>2. CASE RecordAttempt(w)
        BY <2>1, <3>2, CoveredRecord DEF GrantInv
    <3>3. CASE ~PayInvoice(w) /\ ~RecordAttempt(w)
        BY <2>1, <2>2, <3>3, CoveredSelect, CoveredSteps
           DEF GrantInv, Biller, Retrier, Charging, Grace
    <3> QED BY <3>1, <3>2, <3>3
  <2>3. ASSUME NEW w \in Sessions,
               Biller(w) \/ Retrier(w) \/ Grace(w) \/ Request(w) \/ AbortJob(w),
               NEW v \in Sessions
        PROVE  Covered(v)'
      BY <2>1, <2>2, <2>3, OtherSessionsKept, CoveredKept DEF GrantInv
  <2>4. CASE \/ Time \/ UNCHANGED vars
             \/ \E s \in Subs : AddCard(s) \/ LoseCard(s)
    <3>1. \A w \in Sessions : Covered(w)'
        BY <2>1, <2>4, SessionsKept, CoveredKept DEF GrantInv
    <3>2. GrantedIsPaid'
        BY <2>4, SessionsKept DEF GrantInv, GrantedIsPaid
    <3> QED BY <2>1, <3>1, <3>2 DEF GrantInv
  <2>5. ASSUME NEW w \in Sessions,
               Biller(w) \/ Retrier(w) \/ Grace(w) \/ Request(w) \/ AbortJob(w)
        PROVE  GrantedIsPaid'
    <3>1. ASSUME UNCHANGED subPeriod PROVE GrantedIsPaid'
      <4>1. \A s \in Subs : subPeriod[s] \in Nat
                            /\ subPeriod[s] - 1 <= Cardinality(PaidOf(s))
          BY DEF GrantInv, GrantedIsPaid, PaidOf, TypeOK, SubscriptionsOK
      <4>2. \A s \in Subs : subPeriod'[s] - 1 <= Cardinality(PaidOf(s)')
          BY <2>1, <3>1, <4>1, PaidGrows
      <4> QED BY <4>2 DEF GrantedIsPaid, PaidOf
    <3>2. CASE AdvancePeriod(w) \/ Recover(w)
      <4>1. PICK s \in Subs : s = at[w]
          BY <3>2 DEF AllReady, Ready, Holding, AdvancePeriod, Recover
      <4>2. subPeriod' = [subPeriod EXCEPT ![s] = seenPeriod[w][s] + 1]
          BY <3>2, <4>1 DEF AdvancePeriod, Recover
      <4>3. seenPeriod[w][s] \in Nat
            /\ seenPeriod[w][s] <= Cardinality(PaidOf(s))
        <5>1. Covered(w) /\ pc[w] \in {"advance", "clear", "recover"}
            BY <3>2 DEF AdvancePeriod, Recover, GrantInv
        <5>2. seenPeriod[w][s] <= Cardinality(PaidOf(s))
            BY <4>1, <5>1 DEF Covered
        <5> QED BY <5>2 DEF TypeOK, SessionsOK
      <4>4. \A r \in Subs : subPeriod[r] \in Nat
                            /\ subPeriod[r] - 1 <= Cardinality(PaidOf(r))
          BY DEF GrantInv, GrantedIsPaid, PaidOf, TypeOK, SubscriptionsOK
      <4>5. \A r \in Subs : subPeriod'[r] - 1 <= Cardinality(PaidOf(r)')
        <5> TAKE r \in Subs
        <5>1. CASE r = s
          <6>1. subPeriod'[r] = seenPeriod[w][s] + 1
              BY <4>2, <5>1 DEF TypeOK, SubscriptionsOK
          <6> QED BY <2>1, <4>3, <5>1, <6>1, PaidGrows
        <5>2. CASE r # s
          <6>1. subPeriod'[r] = subPeriod[r]
              BY <4>2, <5>2 DEF TypeOK, SubscriptionsOK
          <6> QED BY <2>1, <4>4, <6>1, PaidGrows
        <5> QED BY <5>1, <5>2
      <4> QED BY <4>5 DEF GrantedIsPaid, PaidOf
    <3>3. CASE ~AdvancePeriod(w) /\ ~Recover(w)
      <4>1. UNCHANGED subPeriod
        <5>1. CASE Charging(w)
            BY <5>1 DEF Charging, Charge, ChargeRaises, RecordAttempt, PayInvoice,
               Dunning, SkipDunning, OpenCycle, AdvanceCycle, ScheduleRetry,
               Settle, Revoke, database, subscriptionRows
        <5>2. CASE ~Charging(w)
            BY <2>5, <3>3, <5>2 DEF Biller, Retrier, Grace, Request, BillSelect,
               BillCreate, BillLookup, RetrySelect, ClearDunning, RetryLoad,
               GraceSelect, GraceCancel, RequestCommit, RequestRead, AbortJob,
               database, subscriptionRows
        <5> QED BY <5>1, <5>2
      <4> QED BY <3>1, <4>1
    <3> QED BY <3>2, <3>3
  <2>6. \/ \E w \in Sessions : \/ Biller(w) \/ Retrier(w) \/ Grace(w)
                               \/ Request(w) \/ AbortJob(w)
        \/ Time \/ UNCHANGED vars
        \/ \E s \in Subs : AddCard(s) \/ LoseCard(s)
      BY DEF Next, Sessions
  <2> QED BY <2>1, <2>3, <2>4, <2>5, <2>6 DEF GrantInv
<1> QED BY <1>1, <1>2, PTL DEF Spec

\* Whatever overlaps and wherever jobs are cut short, a subscription is granted
\* no more periods than invoices of its were paid: the period a job writes is
\* one more than its copy's, and the copy's was covered by other invoices.
THEOREM GrantsArePaid == Spec => []GrantedIsPaid
<1>1. GrantInv => GrantedIsPaid
    BY DEF GrantInv
<1> QED BY <1>1, GrantIsInvariant, PTL
--------------------------------------------------------------------------
\* The ends of arrears.

\* A session that has a period to grant has a paid invoice behind it.
Behind(w) ==
    pc[w] \in {"advance", "clear", "recover"} => invStatus[cur[w]] = "paid"

AllBehind == \A w \in Sessions : Behind(w)

\* A session comes to grant a period by a payment only.
LEMMA GrantFollowsPayment ==
    ASSUME TypeOK, AllReady, NEW w \in Sessions, Behind(w),
           Biller(w) \/ Retrier(w) \/ Grace(w) \/ Request(w) \/ AbortJob(w)
    PROVE  Behind(w)'
<1> USE DEF TypeOK, SessionsOK, Goto
<1> DEFINE Elsewhere == pc'[w] \notin {"advance", "clear", "recover"}
<1>1. Close(w) => Elsewhere
    BY DEF Close
<1>2. \A remaining : EndItem(w, remaining) => Elsewhere
    BY <1>1 DEF EndItem
<1>3. CASE PayInvoice(w)
  <2>1. CASE Close(w)
      BY <1>1, <2>1 DEF Behind
  <2>2. CASE ~Close(w)
    <3>1. /\ cur' = cur
          /\ invStatus' = [invStatus EXCEPT ![cur[w]] = "paid"]
        BY <1>3, <2>2 DEF PayInvoice
    <3>2. cur[w] \in Invoices
        BY <1>3 DEF PayInvoice, AllReady, Ready, Holding
    <3> QED BY <3>1, <3>2 DEF Behind, InvoicesOK
  <2> QED BY <2>1, <2>2
<1>4. CASE ClearDunning(w)
  <2>1. pc[w] = "clear" /\ UNCHANGED <<cur, invStatus>>
      BY <1>4 DEF ClearDunning
  <2> QED BY <2>1 DEF Behind
<1>5. CASE BillSelect(w) \/ RetrySelect(w) \/ GraceSelect(w) \/ BillCreate(w)
    BY <1>5 DEF BillSelect, RetrySelect, GraceSelect, BillCreate, Begin, Behind
<1>6. ASSUME NEW s \in Subs, BillLookup(w, s) PROVE Behind(w)'
    BY <1>1, <1>6 DEF BillLookup, Behind
<1>7. CASE Charge(w) \/ RecordAttempt(w) \/ OpenCycle(w)
    BY <1>7 DEF Charge, RecordAttempt, AfterAttempt, OpenCycle, Decision, Behind
<1>8. CASE ChargeRaises(w) \/ AbortJob(w) \/ RequestCommit(w)
    BY <1>1, <1>8 DEF ChargeRaises, AbortJob, RequestCommit, Behind
<1>9. CASE AdvancePeriod(w) \/ Recover(w) \/ Revoke(w) \/ SkipDunning(w)
    BY <1>2, <1>9 DEF AdvancePeriod, Recover, Revoke, SkipDunning, Behind
<1>10. \A decision : Settle(w, decision) => Elsewhere
    BY <1>2 DEF Settle
<1>11. CASE AdvanceCycle(w) \/ ScheduleRetry(w)
    BY <1>10, <1>11 DEF AdvanceCycle, ScheduleRetry, Behind
<1>12. ASSUME NEW i \in Invoices, RetryLoad(w, i) PROVE Behind(w)'
    BY <1>2, <1>12 DEF RetryLoad, Behind
<1>13. ASSUME NEW s \in Subs, GraceCancel(w, s) PROVE Behind(w)'
    BY <1>2, <1>13 DEF GraceCancel, Behind
<1>14. ASSUME NEW s \in Subs, NEW op \in Operations, RequestRead(w, s, op)
       PROVE  Behind(w)'
    BY <1>14, RenewalAssumption DEF RequestRead, RenewalAssumption, Behind
<1> QED BY <1>3, <1>4, <1>5, <1>6, <1>7, <1>8, <1>9, <1>11, <1>12, <1>13, <1>14
       DEF Biller, Retrier, Grace, Request, Charging, Dunning

\* That is so of every session, always.
LEMMA AlwaysBehind == Spec => []AllBehind
<1>1. Init => AllBehind
    BY DEF Init, AllBehind, Behind
<1>2. TypeOK /\ AllReady /\ AllBehind /\ [Next]_vars => AllBehind'
  <2> SUFFICES ASSUME TypeOK, AllReady, AllBehind, [Next]_vars,
                      NEW v \in Sessions
               PROVE  Behind(v)'
      BY DEF AllBehind
  <2>1. RowsStay
      BY StepKeepsRows
  <2>2. ASSUME pc'[v] = pc[v], cur'[v] = cur[v] PROVE Behind(v)'
      BY <2>1, <2>2 DEF AllBehind, Behind, RowsStay, AllReady, Ready, Holding
  <2>3. ASSUME NEW w \in Sessions,
               Biller(w) \/ Retrier(w) \/ Grace(w) \/ Request(w) \/ AbortJob(w)
        PROVE  Behind(v)'
    <3>1. CASE v = w
        BY <2>3, <3>1, GrantFollowsPayment DEF AllBehind
    <3>2. CASE v # w
        BY <2>2, <2>3, <3>2, OtherSessionsKept
    <3> QED BY <3>1, <3>2
  <2>4. CASE \/ Time \/ UNCHANGED vars
             \/ \E s \in Subs : AddCard(s) \/ LoseCard(s)
      BY <2>2, <2>4, SessionsKept
  <2> QED BY <2>3, <2>4 DEF Next, Sessions
<1> QED BY <1>1, <1>2, TypeCorrect, PTL DEF Spec

\* Whatever overlaps and wherever jobs are cut short, arrears end for active
\* only in a session with a paid invoice of the subscription behind it or by a
\* resume request: the other status a job or a request writes is never active.
THEOREM ArrearsEndByPaymentOrResume == Spec => RecoveredOrResumed
<1> DEFINE Ends(w, s) ==
              /\ at[w] = s
              /\ \/ w \in Requests /\ pc[w] = "resume"
                 \/ /\ cur[w] \in Invoices /\ cur[w].sub = s
                    /\ invStatus[cur[w]] = "paid"
           Action == \A s \in Subs : subStatus[s] \in {"past_due", "unpaid"}
                                      /\ subStatus'[s] = "active"
                         => \E w \in Sessions : Ends(w, s)
           Stays == \A s \in Subs : subStatus'[s] = "active" => subStatus[s] = "active"
<1>1. TypeOK /\ AllReady /\ GrantInv /\ AllBehind /\ [Next]_vars => [Action]_vars
  <2> SUFFICES ASSUME TypeOK, AllReady, GrantInv, AllBehind, [Next]_vars
               PROVE  Action
      OBVIOUS
  <2> USE DEF TypeOK, SubscriptionsOK
  <2>1. ASSUME NEW w \in Sessions, Recover(w) PROVE Action
    <3>1. /\ pc[w] = "recover"
          /\ subStatus' = [subStatus EXCEPT ![at[w]] = "active"]
        BY <2>1 DEF Recover
    <3>2. /\ cur[w] \in Invoices /\ cur[w].sub = at[w]
          /\ invStatus[cur[w]] = "paid"
        BY <3>1 DEF AllReady, Ready, Holding, GrantInv, Covered, AllBehind, Behind
    <3> QED BY <3>1, <3>2
  <2>2. ASSUME NEW w \in Requests, RequestCommit(w) PROVE Action
    <3>1. w \in Sessions /\ pc[w] \in {"cancel", "pause", "resume"}
        BY <2>2, RenewalAssumption DEF RequestCommit, RenewalAssumption, Sessions
    <3>2. \/ subStatus' = [subStatus EXCEPT ![at[w]] = Target[pc[w]]]
          \/ subStatus' = subStatus
        BY <2>2 DEF RequestCommit
    <3>3. pc[w] # "resume" => Target[pc[w]] # "active"
        BY <3>1 DEF Target
    <3> QED BY <2>2, <3>1, <3>2, <3>3
  <2>3. ASSUME NEW w \in Sessions, Charging(w) PROVE Stays
      BY <2>3 DEF Charging, Charge, ChargeRaises, RecordAttempt, PayInvoice,
         Dunning, SkipDunning, OpenCycle, AdvanceCycle, ScheduleRetry, Settle,
         Revoke, database, subscriptionRows
  <2>4. ASSUME NEW w \in Sessions,
               \/ BillSelect(w) \/ BillCreate(w) \/ AdvancePeriod(w)
               \/ \E s \in Subs : BillLookup(w, s)
               \/ RetrySelect(w) \/ ClearDunning(w)
               \/ \E i \in Invoices : RetryLoad(w, i)
               \/ Grace(w) \/ AbortJob(w)
               \/ \E s \in Subs, op \in Operations : RequestRead(w, s, op)
        PROVE  Stays
      BY <2>4 DEF BillSelect, BillCreate, AdvancePeriod, BillLookup, RetrySelect,
         ClearDunning, RetryLoad, Grace, GraceSelect, GraceCancel, AbortJob,
         RequestRead, database, subscriptionRows
  <2>5. CASE \/ Time \/ UNCHANGED vars
             \/ \E s \in Subs : AddCard(s) \/ LoseCard(s)
      BY <2>5 DEF Time, PeriodEnds, RetryComesDue, GraceElapses, AddCard, LoseCard,
         vars, database, subscriptionRows
  <2> QED BY <2>1, <2>2, <2>3, <2>4, <2>5
          DEF Next, Sessions, Biller, Retrier, Request
<1> QED BY <1>1, GrantIsInvariant, AlwaysBehind, PTL DEF Spec, RecoveredOrResumed
==========================================================================
