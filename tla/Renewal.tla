----------------------------- MODULE Renewal -----------------------------
(***************************************************************************)
(* Renewal of recurring subscriptions: the billing-cycle job, the dunning  *)
(* retry job, the unpaid-grace job and the customer's pause, resume and    *)
(* cancel requests, running as database sessions over the same rows.       *)
(*                                                                         *)
(* One action stands for the code between two commits or provider calls.   *)
(* A session keeps what it read in its seen... copies (the identity map    *)
(* with expire_on_commit=False): its later guards are evaluated on them,   *)
(* and a commit writes only the columns the code assigned.                 *)
(* Any exception rolls the session back, expires its rows and so ends the  *)
(* job at the next unprotected attribute read: AbortJob.                   *)
(***************************************************************************)
EXTENDS Lifecycle, DunningPolicy, FiniteSets

CONSTANTS
    Subs,           \* recurring subscriptions, one customer and one plan each
    MaxClock,       \* billing periods that may end
    MaxCopies,      \* invoices that may be created for one period
    MaxAttempts,    \* charges that may be attempted on one invoice
    Declines,       \* the failure reasons the provider may answer with
    Billers,        \* sessions running process_billing_cycle
    Retriers,       \* sessions running process_dunning_retries
    Graces,         \* sessions running process_unpaid_grace
    Requests,       \* sessions serving the lifecycle endpoints
    Operations,     \* the endpoints called: "cancel", "pause", "resume"
    CardsAtStart,   \* whether a subscription starts with a usable card
    CardChanges,    \* what may happen to a card: "add", "remove"
    AbortAt,        \* the control points at which a job may be cut short
    MaxAborts,      \* how often that may happen
    Adapters,       \* whether the provider's adapter accepts order_reference:
                    \* NombaProvider does not, the tests' providers do
    None            \* a model value: no subscription, no invoice

Sessions == Billers \cup Retriers \cup Graces \cup Requests

ControlPoints ==
    {"idle", "next", "create", "charge", "record", "pay", "advance", "clear",
     "recover", "fail", "schedule", "flag", "exhaust", "revoke",
     "cancel", "pause", "resume"}

\* The n-th invoice created for a subscription's period.  Period p of a
\* subscription ends when the clock reaches p.
Invoices == [sub : Subs, period : 1..(MaxClock + 1), copy : 1..MaxCopies]

ASSUME RenewalAssumption ==
    /\ MaxClock \in Nat /\ MaxCopies \in Nat /\ MaxAttempts \in Nat
    /\ MaxAborts \in Nat
    /\ Declines \subseteq FailureReason
    /\ Operations \subseteq {"cancel", "pause", "resume"}
    /\ CardsAtStart \subseteq BOOLEAN
    /\ CardChanges \subseteq {"add", "remove"}
    /\ AbortAt \subseteq ControlPoints
    /\ Adapters \subseteq BOOLEAN
    /\ None \notin Subs /\ Subs \cap Invoices = {}

\* What the provider recorded for a charge reference, and a session's answer.
Outcomes == {"captured"} \cup FailureReason
NoOutcome == "none"

VARIABLES
    clock,
    subStatus, subPeriod, card, graceOver,             \* subscriptions
    invStatus, attempts, retries, nextRetry, anchor,   \* invoices, attempts
    ledger, takesOrderReference,                       \* the provider
    pc, todo, at, cur, answer,                         \* sessions
    seenStatus, seenPeriod, seenAttempts, seenInvoice, seenAnchor,
    aborts

subscriptionRows == <<subStatus, subPeriod, card, graceOver>>
invoiceRows == <<invStatus, attempts, retries, nextRetry, anchor>>
database == <<subscriptionRows, invoiceRows>>
subscriptionCopies == <<seenStatus, seenPeriod>>
invoiceCopies == <<seenAttempts, seenInvoice, seenAnchor>>
seen == <<subscriptionCopies, invoiceCopies>>
session == <<pc, todo, at, cur, answer, seen>>
world == <<clock, ledger, takesOrderReference, aborts>>
vars == <<clock, subStatus, subPeriod, card, graceOver, invStatus, attempts,
          retries, nextRetry, anchor, ledger, takesOrderReference, pc, todo, at,
          cur, answer, seenStatus, seenPeriod, seenAttempts, seenInvoice,
          seenAnchor, aborts>>

\* invStatus "none": the row does not exist.  nextRetry folds next_retry_at
\* and the wall clock: no date, a date in the future, a date that has come.
RowStatus == {"none"} \cup InvoiceStatus
RetryDate == {"none", "waiting", "due"}
Anchors == {"none"} \cup FailureReason

SubscriptionsOK ==
    /\ subStatus \in [Subs -> SubscriptionStatus]
    /\ subPeriod \in [Subs -> Nat]
    /\ card \in [Subs -> BOOLEAN]
    /\ graceOver \in [Subs -> BOOLEAN]

InvoicesOK ==
    /\ invStatus \in [Invoices -> RowStatus]
    /\ attempts \in [Invoices -> Nat]
    /\ retries \in [Invoices -> Nat]
    /\ nextRetry \in [Invoices -> RetryDate]
    /\ anchor \in [Invoices -> Anchors]

SessionsOK ==
    /\ pc \in [Sessions -> ControlPoints]
    /\ todo \in [Sessions -> SUBSET (Subs \cup Invoices)]
    /\ at \in [Sessions -> Subs \cup {None}]
    /\ cur \in [Sessions -> Invoices \cup {None}]
    /\ answer \in [Sessions -> {NoOutcome} \cup Outcomes]
    /\ seenStatus \in [Sessions -> [Subs -> SubscriptionStatus]]
    /\ seenPeriod \in [Sessions -> [Subs -> Nat]]
    /\ seenAttempts \in [Sessions -> [Invoices -> Nat]]
    /\ seenInvoice \in [Sessions -> RowStatus]
    /\ seenAnchor \in [Sessions -> Anchors]

WorldOK ==
    /\ clock \in 0..MaxClock
    /\ aborts \in 0..MaxAborts
    /\ ledger \in [Invoices -> [0..MaxAttempts -> {NoOutcome} \cup Outcomes]]
    /\ takesOrderReference \in BOOLEAN

TypeOK == SubscriptionsOK /\ InvoicesOK /\ SessionsOK /\ WorldOK

\* Subscriptions past their first payment, at the start of a paid period.
Init ==
    /\ clock = 0
    /\ subStatus = [s \in Subs |-> "active"]
    /\ subPeriod = [s \in Subs |-> 1]
    /\ card \in [Subs -> CardsAtStart]
    /\ graceOver = [s \in Subs |-> FALSE]
    /\ invStatus = [i \in Invoices |-> "none"]
    /\ attempts = [i \in Invoices |-> 0]
    /\ retries = [i \in Invoices |-> 0]
    /\ nextRetry = [i \in Invoices |-> "none"]
    /\ anchor = [i \in Invoices |-> "none"]
    /\ takesOrderReference \in Adapters
    /\ ledger = [i \in Invoices |-> [k \in 0..MaxAttempts |-> NoOutcome]]
    /\ pc = [w \in Sessions |-> "idle"]
    /\ todo = [w \in Sessions |-> {}]
    /\ at = [w \in Sessions |-> None]
    /\ cur = [w \in Sessions |-> None]
    /\ answer = [w \in Sessions |-> NoOutcome]
    /\ seenStatus = [w \in Sessions |-> [s \in Subs |-> "active"]]
    /\ seenPeriod = [w \in Sessions |-> [s \in Subs |-> 1]]
    /\ seenAttempts = [w \in Sessions |-> [i \in Invoices |-> 0]]
    /\ seenInvoice = [w \in Sessions |-> "none"]
    /\ seenAnchor = [w \in Sessions |-> "none"]
    /\ aborts = 0
--------------------------------------------------------------------------
\* A session's life.

\* The session's copies of its invoices: every attempt_count, and the status
\* and anchor of the one at hand.
Hold(w, counts, status, reason) ==
    /\ seenAttempts' = [seenAttempts EXCEPT ![w] = counts]
    /\ seenInvoice' = [seenInvoice EXCEPT ![w] = status]
    /\ seenAnchor' = [seenAnchor EXCEPT ![w] = reason]

HoldRow(w, i, count, status, reason) ==
    Hold(w, [seenAttempts[w] EXCEPT ![i] = count], status, reason)

\* The job or request ends; what it had not committed is gone.
Close(w) ==
    /\ pc' = [pc EXCEPT ![w] = "idle"]
    /\ todo' = [todo EXCEPT ![w] = {}]
    /\ at' = [at EXCEPT ![w] = None]
    /\ cur' = [cur EXCEPT ![w] = None]
    /\ answer' = [answer EXCEPT ![w] = NoOutcome]
    /\ seenStatus' = [seenStatus EXCEPT ![w] = [s \in Subs |-> "active"]]
    /\ seenPeriod' = [seenPeriod EXCEPT ![w] = [s \in Subs |-> 1]]
    /\ Hold(w, [i \in Invoices |-> 0], "none", "none")

\* The loop goes on to the remaining items of its batch, or ends.
EndItem(w, remaining) ==
    IF remaining = {}
    THEN Close(w)
    ELSE /\ pc' = [pc EXCEPT ![w] = "next"]
         /\ todo' = [todo EXCEPT ![w] = remaining]
         /\ at' = [at EXCEPT ![w] = None]
         /\ cur' = [cur EXCEPT ![w] = None]
         /\ answer' = [answer EXCEPT ![w] = NoOutcome]
         /\ UNCHANGED seen

Goto(w, point) == pc' = [pc EXCEPT ![w] = point]

\* Starts a job over the rows its SELECT returned.
Begin(w, batch) ==
    /\ pc[w] = "idle"
    /\ batch # {}
    /\ Goto(w, "next")
    /\ todo' = [todo EXCEPT ![w] = batch]
    /\ UNCHANGED <<at, cur, answer>>

\* Any write to a subscription row sets updated_at, the grace job's timer.
Touch(s) == graceOver' = [graceOver EXCEPT ![s] = FALSE]
--------------------------------------------------------------------------
\* process_billing_cycle

LateDueSubs ==  \* mutant: only what is overdue by a whole period
    {s \in Subs : subStatus[s] = "active" /\ subPeriod[s] < clock}

DueSubs == {s \in Subs : subStatus[s] = "active" /\ subPeriod[s] <= clock}

BillSelect(w) ==
    /\ Begin(w, DueSubs)
    /\ seenStatus' = [seenStatus EXCEPT ![w] = subStatus]
    /\ seenPeriod' = [seenPeriod EXCEPT ![w] = subPeriod]
    /\ UNCHANGED <<invoiceCopies, database, world>>

\* The invoices the job takes for this period's: open, same period_start.
NoneOpenFor(w, s) == {}  \* mutant: no look for an earlier run's invoice

OpenFor(w, s) ==
    {i \in Invoices : /\ i.sub = s
                      /\ i.period = seenPeriod[w][s]
                      /\ invStatus[i] = "open"}

\* The card and the period's open invoice are looked up; more than one such
\* invoice makes scalar_one_or_none raise.
BillLookup(w, s) ==
    /\ pc[w] = "next"
    /\ s \in todo[w]
    /\ \/ /\ OpenFor(w, s) = {}
          /\ Goto(w, "create")
          /\ UNCHANGED <<cur, seen>>
          /\ todo' = [todo EXCEPT ![w] = @ \ {s}]
          /\ at' = [at EXCEPT ![w] = s]
          /\ answer' = [answer EXCEPT
                ![w] = IF card[s] THEN NoOutcome ELSE "invalid_payment_method"]
       \/ \E i \in Invoices :
          /\ OpenFor(w, s) = {i}
          /\ Goto(w, IF card[s] THEN "charge" ELSE "fail")
          /\ cur' = [cur EXCEPT ![w] = i]
          /\ HoldRow(w, i, attempts[i], invStatus[i], anchor[i])
          /\ UNCHANGED subscriptionCopies
          /\ todo' = [todo EXCEPT ![w] = @ \ {s}]
          /\ at' = [at EXCEPT ![w] = s]
          /\ answer' = [answer EXCEPT
                ![w] = IF card[s] THEN NoOutcome ELSE "invalid_payment_method"]
       \/ /\ \E i, j \in OpenFor(w, s) : i # j
          /\ Close(w)
    /\ UNCHANGED <<database, world>>

BillCreate(w) ==
    /\ pc[w] = "create"
    /\ \E i \in Invoices :
        /\ i.sub = at[w]
        /\ i.period = seenPeriod[w][at[w]]
        /\ invStatus[i] = "none"
        /\ \A j \in Invoices : j.sub = i.sub /\ j.period = i.period
              /\ j.copy < i.copy => invStatus[j] # "none"
        /\ invStatus' = [invStatus EXCEPT ![i] = "open"]
        /\ cur' = [cur EXCEPT ![w] = i]
        /\ HoldRow(w, i, 0, "open", "none")
    /\ Goto(w, IF answer[w] = NoOutcome THEN "charge" ELSE "fail")
    /\ UNCHANGED <<attempts, retries, nextRetry, anchor, subscriptionRows,
                   todo, at, answer, subscriptionCopies, world>>
--------------------------------------------------------------------------
\* The charge, shared by both jobs.  The reference is the invoice and the
\* attempt_count in the session's copy; the provider answers a reference it
\* has already settled with the outcome it recorded.

FreshReference(w) ==  \* mutant: a new reference for every call
    Cardinality({k \in 0..MaxAttempts : ledger[cur[w]][k] # NoOutcome})

Reference(w) == seenAttempts[w][cur[w]]

Charge(w) ==
    LET i == cur[w]
        k == Reference(w)
    IN  /\ pc[w] = "charge"
        /\ w \in Billers => takesOrderReference
        /\ k < MaxAttempts
        /\ \E a \in {"captured"} \cup Declines :
            /\ ledger[i][k] \in {NoOutcome, a}
            /\ ledger' = [ledger EXCEPT ![i][k] = a]
            /\ answer' = [answer EXCEPT ![w] = a]
        /\ Goto(w, "record")
        /\ UNCHANGED <<database, todo, at, cur, seen, clock, takesOrderReference,
                       aborts>>

\* The billing job passes order_reference, which NombaProvider does not take.
ChargeRaises(w) ==
    /\ pc[w] = "charge"
    /\ w \in Billers
    /\ ~takesOrderReference
    /\ Close(w)
    /\ UNCHANGED <<database, world>>

AnyAnswerPays(w) ==  \* mutant: a soft decline taken for a success
    IF answer[w] # "expired_card" THEN "pay" ELSE "fail"

AfterAttempt(w) == IF answer[w] = "captured" THEN "pay" ELSE "fail"

RecordUncounted(w) ==  \* mutant: a retry not marked as one
    LET i == cur[w]
        n == seenAttempts[w][i] + 1
    IN  /\ pc[w] = "record"
        /\ attempts' = [attempts EXCEPT ![i] = n]
        /\ HoldRow(w, i, n, invStatus[i], anchor[i])
        /\ Goto(w, AfterAttempt(w))
        /\ UNCHANGED <<subscriptionRows, invStatus, retries, nextRetry, anchor,
                       todo, at, cur, answer, subscriptionCopies, world>>

RecordAttempt(w) ==
    LET i == cur[w]
        n == seenAttempts[w][i] + 1
    IN  /\ pc[w] = "record"
        /\ attempts' = [attempts EXCEPT ![i] = n]
        /\ retries' = IF w \in Retriers
                      THEN [retries EXCEPT ![i] = @ + 1] ELSE retries
        /\ HoldRow(w, i, n, invStatus[i], anchor[i])
        /\ Goto(w, AfterAttempt(w))
        /\ UNCHANGED <<subscriptionRows, invStatus, nextRetry, anchor,
                       todo, at, cur, answer, subscriptionCopies, world>>

PayUnrecorded(w) ==  \* mutant: the invoice's own row is not committed
    /\ pc[w] = "pay"
    /\ Goto(w, IF w \in Retriers THEN "clear" ELSE "advance")
    /\ UNCHANGED <<database, todo, at, cur, answer, seen, world>>

\* transition_invoice(paid), checked on the copy refreshed after the attempt.
PayInvoice(w) ==
    /\ pc[w] = "pay"
    /\ IF InvoiceAllowed(seenInvoice[w], "paid")
       THEN /\ invStatus' = [invStatus EXCEPT ![cur[w]] = "paid"]
            /\ Goto(w, IF w \in Retriers THEN "clear" ELSE "advance")
            /\ UNCHANGED <<todo, at, cur, answer, seen>>
       ELSE Close(w) /\ UNCHANGED invStatus
    /\ UNCHANGED <<subscriptionRows, attempts, retries, nextRetry, anchor, world>>

AdvanceFromNow(w) ==  \* mutant: the new period starts today
    /\ pc[w] = "advance"
    /\ subPeriod' = [subPeriod EXCEPT ![at[w]] = clock + 1]
    /\ Touch(at[w])
    /\ EndItem(w, todo[w])
    /\ UNCHANGED <<subStatus, card, invoiceRows, world>>

AdvanceInPlace(w) ==  \* mutant: incremented in the database, not from the copy
    /\ pc[w] = "advance"
    /\ subPeriod' = [subPeriod EXCEPT ![at[w]] = @ + 1]
    /\ Touch(at[w])
    /\ EndItem(w, todo[w])
    /\ UNCHANGED <<subStatus, card, invoiceRows, world>>

\* The billing job's last commit: the period moves on from the copy's.
AdvancePeriod(w) ==
    /\ pc[w] = "advance"
    /\ subPeriod' = [subPeriod EXCEPT ![at[w]] = seenPeriod[w][at[w]] + 1]
    /\ Touch(at[w])
    /\ EndItem(w, todo[w])
    /\ UNCHANGED <<subStatus, card, invoiceRows, world>>
--------------------------------------------------------------------------
\* open_or_advance_dunning

OneMoreRetry(reason, done) ==  \* mutant: off by one at the schedule's end
    IF RetrySchedule(reason) # <<>> /\ done <= Len(RetrySchedule(reason))
    THEN "schedule"
    ELSE IF RequiresPaymentMethodUpdate(reason) /\ done = 0 THEN "flag"
    ELSE "exhaust"

RevokeAtOnce(reason, done) ==  \* mutant: no waiting for a new card
    IF NextRetryGapDays(reason, done) # NoGap THEN "schedule" ELSE "exhaust"

NeverRevoke(reason, done) ==  \* mutant: an exhausted schedule is only flagged
    IF NextRetryGapDays(reason, done) # NoGap THEN "schedule" ELSE "flag"

Decision(reason, done) ==
    IF NextRetryGapDays(reason, done) # NoGap THEN "schedule"
    ELSE IF RequiresPaymentMethodUpdate(reason) /\ done = 0 THEN "flag"
    ELSE "exhaust"

\* The reason that opened the cycle, or the one this failure opens it with.
Reason(w) == IF seenAnchor[w] = "none" THEN answer[w] ELSE seenAnchor[w]

SkipDunning(w) ==
    /\ pc[w] = "fail"
    /\ \/ answer[w] = "requires_action"
       \/ seenStatus[w][at[w]] \notin {"active", "past_due"}
    /\ EndItem(w, todo[w])
    /\ UNCHANGED <<database, world>>

\* The first commit, for a subscription the session holds as active.
OpenCycle(w) ==
    LET s == at[w]
        i == cur[w]
    IN  /\ pc[w] = "fail"
        /\ answer[w] # "requires_action"
        /\ seenStatus[w][s] = "active"
        /\ subStatus' = [subStatus EXCEPT ![s] = "past_due"]
        /\ Touch(s)
        /\ anchor' = IF seenAnchor[w] = "none"
                     THEN [anchor EXCEPT ![i] = Reason(w)] ELSE anchor
        /\ seenStatus' = [seenStatus EXCEPT ![w][s] = "past_due"]
        /\ seenAnchor' = [seenAnchor EXCEPT ![w] = Reason(w)]
        /\ Goto(w, Decision(Reason(w), retries[i]))
        /\ UNCHANGED <<subPeriod, card, invStatus, attempts, retries,
                       nextRetry, todo, at, cur, answer, seenPeriod,
                       seenAttempts, seenInvoice, world>>

\* The commit that sets or clears next_retry_at, then the way on.
Settle(w, decision) ==
    /\ nextRetry' = [nextRetry EXCEPT
            ![cur[w]] = IF decision = "schedule" THEN "waiting" ELSE "none"]
    /\ IF decision = "exhaust"
       THEN Goto(w, "revoke") /\ UNCHANGED <<todo, at, cur, answer, seen>>
       ELSE EndItem(w, todo[w])
    /\ UNCHANGED <<subscriptionRows, invStatus, attempts, retries, world>>

ScheduleRetry(w) ==
    /\ pc[w] \in {"schedule", "flag", "exhaust"}
    /\ Settle(w, pc[w])
    /\ UNCHANGED anchor

\* For a past_due subscription the anchor and the date are one commit.
AdvanceCycle(w) ==
    /\ pc[w] = "fail"
    /\ answer[w] # "requires_action"
    /\ seenStatus[w][at[w]] = "past_due"
    /\ Settle(w, Decision(Reason(w), retries[cur[w]]))
    /\ anchor' = IF seenAnchor[w] = "none"
                 THEN [anchor EXCEPT ![cur[w]] = Reason(w)] ELSE anchor

WritesOff(w) ==  \* mutant: an invoice's status for the subscription's
    /\ pc[w] = "revoke"
    /\ subStatus' = [subStatus EXCEPT ![at[w]] = "uncollectible"]
    /\ Touch(at[w])
    /\ EndItem(w, todo[w])
    /\ UNCHANGED <<subPeriod, card, invoiceRows, world>>

Revoke(w) ==
    /\ pc[w] = "revoke"
    /\ subStatus' = [subStatus EXCEPT ![at[w]] = "unpaid"]
    /\ Touch(at[w])
    /\ EndItem(w, todo[w])
    /\ UNCHANGED <<subPeriod, card, invoiceRows, world>>
--------------------------------------------------------------------------
\* process_dunning_retries

RetrySelect(w) ==
    /\ Begin(w, {i \in Invoices : invStatus[i] = "open" /\ nextRetry[i] = "due"})
    /\ Hold(w, attempts, "none", "none")
    /\ UNCHANGED <<subscriptionCopies, database, world>>

\* The subscription is read when its invoice's turn comes.
RetryLoad(w, i) ==
    LET s == i.sub
    IN  /\ pc[w] = "next"
        /\ i \in todo[w]
        /\ \/ /\ subStatus[s] = "past_due" /\ card[s]
              /\ Goto(w, "charge")
              /\ todo' = [todo EXCEPT ![w] = @ \ {i}]
              /\ at' = [at EXCEPT ![w] = s]
              /\ cur' = [cur EXCEPT ![w] = i]
              /\ seenStatus' = [seenStatus EXCEPT ![w][s] = subStatus[s]]
              /\ seenPeriod' = [seenPeriod EXCEPT ![w][s] = subPeriod[s]]
              /\ UNCHANGED <<nextRetry, answer, invoiceCopies>>
           \/ /\ subStatus[s] # "past_due" \/ ~card[s]
              /\ nextRetry' = [nextRetry EXCEPT ![i] = "none"]
              /\ EndItem(w, todo[w] \ {i})
        /\ UNCHANGED <<subscriptionRows, invStatus, attempts, retries, anchor,
                       world>>

ClearDunning(w) ==
    /\ pc[w] = "clear"
    /\ nextRetry' = [nextRetry EXCEPT ![cur[w]] = "none"]
    /\ anchor' = [anchor EXCEPT ![cur[w]] = "none"]
    /\ Goto(w, "recover")
    /\ UNCHANGED <<subscriptionRows, invStatus, attempts, retries,
                   todo, at, cur, answer, seen, world>>

\* The period and the status are one commit.
Recover(w) ==
    LET s == at[w]
    IN  /\ pc[w] = "recover"
        /\ subPeriod' = [subPeriod EXCEPT ![s] = seenPeriod[w][s] + 1]
        /\ subStatus' = [subStatus EXCEPT ![s] = "active"]
        /\ Touch(s)
        /\ EndItem(w, todo[w])
        /\ UNCHANGED <<card, invoiceRows, world>>
--------------------------------------------------------------------------
\* process_unpaid_grace

GraceSelect(w) ==
    /\ Begin(w, {s \in Subs : subStatus[s] = "unpaid" /\ graceOver[s]})
    /\ seenStatus' = [seenStatus EXCEPT ![w] = subStatus]
    /\ UNCHANGED <<seenPeriod, invoiceCopies, database, world>>

GraceDefaults(w, s) ==  \* mutant: every subscription defaults
    /\ pc[w] = "next"
    /\ s \in todo[w]
    /\ subStatus' = [subStatus EXCEPT ![s] = "defaulted"]
    /\ Touch(s)
    /\ EndItem(w, todo[w] \ {s})
    /\ UNCHANGED <<subPeriod, card, invoiceRows, world>>

GraceCancel(w, s) ==
    /\ pc[w] = "next"
    /\ s \in todo[w]
    /\ SubscriptionAllowed(seenStatus[w][s], "canceled")
    /\ subStatus' = [subStatus EXCEPT ![s] = "canceled"]
    /\ Touch(s)
    /\ EndItem(w, todo[w] \ {s})
    /\ UNCHANGED <<subPeriod, card, invoiceRows, world>>
--------------------------------------------------------------------------
\* The lifecycle endpoints of the merchant API and the customer portal.

Target == [cancel |-> "canceled", pause |-> "paused", resume |-> "active"]

RequestRead(w, s, op) ==
    /\ pc[w] = "idle"
    /\ Goto(w, op)
    /\ at' = [at EXCEPT ![w] = s]
    /\ seenStatus' = [seenStatus EXCEPT ![w][s] = subStatus[s]]
    /\ UNCHANGED <<todo, cur, answer, seenPeriod, invoiceCopies, database, world>>

RequestCommit(w) ==
    LET s == at[w]
    IN  /\ pc[w] \in Operations
        /\ IF SubscriptionAllowed(seenStatus[w][s], Target[pc[w]])
           THEN subStatus' = [subStatus EXCEPT ![s] = Target[pc[w]]] /\ Touch(s)
           ELSE UNCHANGED <<subStatus, graceOver>>
        /\ Close(w)
        /\ UNCHANGED <<subPeriod, card, invoiceRows, world>>

\* update_card and confirm_update_card link a new card to the subscription.
AddCard(s) ==
    /\ "add" \in CardChanges
    /\ ~card[s]
    /\ card' = [card EXCEPT ![s] = TRUE]
    /\ Touch(s)
    /\ UNCHANGED <<subStatus, subPeriod, invoiceRows, session, world>>

\* The payment method no longer carries a usable token.
LoseCard(s) ==
    /\ "remove" \in CardChanges
    /\ card[s]
    /\ card' = [card EXCEPT ![s] = FALSE]
    /\ UNCHANGED <<subStatus, subPeriod, graceOver, invoiceRows, session, world>>
--------------------------------------------------------------------------
\* Time, and whatever cuts a job short.

PeriodEnds ==
    /\ clock < MaxClock
    /\ clock' = clock + 1
    /\ UNCHANGED <<database, session, ledger, takesOrderReference, aborts>>

RetryComesDue(i) ==
    /\ nextRetry[i] = "waiting"
    /\ nextRetry' = [nextRetry EXCEPT ![i] = "due"]
    /\ UNCHANGED <<subscriptionRows, invStatus, attempts, retries, anchor,
                   session, world>>

GraceElapses(s) ==
    /\ subStatus[s] = "unpaid"
    /\ ~graceOver[s]
    /\ graceOver' = [graceOver EXCEPT ![s] = TRUE]
    /\ UNCHANGED <<subStatus, subPeriod, card, invoiceRows, session, world>>

\* A provider error, a lost answer, a failing enqueue or a dead process.
AbortJob(w) ==
    /\ pc[w] \in AbortAt
    /\ aborts < MaxAborts
    /\ aborts' = aborts + 1
    /\ Close(w)
    /\ UNCHANGED <<database, clock, ledger, takesOrderReference>>
--------------------------------------------------------------------------
Dunning(w) ==
    \/ SkipDunning(w) \/ OpenCycle(w) \/ AdvanceCycle(w)
    \/ ScheduleRetry(w) \/ Revoke(w)

Charging(w) ==
    \/ Charge(w) \/ ChargeRaises(w) \/ RecordAttempt(w) \/ PayInvoice(w)
    \/ Dunning(w)

Biller(w) ==
    \/ BillSelect(w) \/ BillCreate(w) \/ AdvancePeriod(w) \/ Charging(w)
    \/ \E s \in Subs : BillLookup(w, s)

Retrier(w) ==
    \/ RetrySelect(w) \/ ClearDunning(w) \/ Recover(w) \/ Charging(w)
    \/ \E i \in Invoices : RetryLoad(w, i)

Grace(w) == GraceSelect(w) \/ \E s \in Subs : GraceCancel(w, s)

Request(w) ==
    \/ RequestCommit(w)
    \/ \E s \in Subs, op \in Operations : RequestRead(w, s, op)

Time ==
    \/ PeriodEnds
    \/ \E i \in Invoices : RetryComesDue(i)
    \/ \E s \in Subs : GraceElapses(s)

Next ==
    \/ \E w \in Billers : Biller(w)
    \/ \E w \in Retriers : Retrier(w)
    \/ \E w \in Graces : Grace(w)
    \/ \E w \in Requests : Request(w)
    \/ \E w \in Sessions : AbortJob(w)
    \/ \E s \in Subs : AddCard(s) \/ LoseCard(s)
    \/ Time

Spec == Init /\ [][Next]_vars

\* The crons run every hour or day and their statements terminate; time passes.
FairSpec ==
    /\ Spec
    /\ \A w \in Billers : WF_vars(Biller(w))
    /\ \A w \in Retriers : WF_vars(Retrier(w))
    /\ \A w \in Graces : WF_vars(Grace(w))
    /\ WF_vars(PeriodEnds)
    /\ \A i \in Invoices : WF_vars(RetryComesDue(i))
    /\ \A s \in Subs : WF_vars(GraceElapses(s))
--------------------------------------------------------------------------
Captures(i) == {k \in 0..MaxAttempts : ledger[i][k] = "captured"}

\* An invoice is marked paid only when the provider captured money for it,
\* whatever was stale, lost or cut short on the way.
PaidIsCaptured ==
    \A i \in Invoices : invStatus[i] = "paid" => Captures(i) # {}

\* The provider takes the money for an invoice at most once: a charge whose
\* answer was lost is repeated under the same reference.
CapturedOnce == \A i \in Invoices : Cardinality(Captures(i)) <= 1

SamePeriod(i) == {j \in Invoices : j.sub = i.sub /\ j.period = i.period}

\* A session has the invoice's payment behind it and the period before it.
Granting(i) ==
    \E w \in Sessions : pc[w] \in {"advance", "clear", "recover"} /\ cur[w] = i

\* Paid, and nobody is left to grant the period it was paid for.
Lapsed(i) ==
    invStatus[i] = "paid" /\ i.period = subPeriod[i.sub] /\ ~Granting(i)

\* A period is collected through a second invoice only after the first one
\* lapsed, and an invoice lapses only when a job is cut short between the
\* payment and the period it grants.
PeriodCollectedOnce ==
    [][\A i \in Invoices :
        /\ Captures(i) = {} /\ Captures(i)' # {} =>
              \A j \in SamePeriod(i) \ {i} : Captures(j) # {} => Lapsed(j)
        /\ ~Lapsed(i) /\ Lapsed(i)' =>
              \E w \in Sessions : AbortJob(w) /\ cur[w] = i]_vars

\* The billing period advances only past periods that were paid for.
NoFreePeriod ==
    \A s \in Subs : \A p \in 1..(subPeriod[s] - 1) :
        \E i \in Invoices : i.sub = s /\ i.period = p /\ invStatus[i] = "paid"

\* Whatever overlaps, a subscription is granted no more periods than invoices
\* of its were paid.
GrantedIsPaid ==
    \A s \in Subs : subPeriod[s] - 1
        <= Cardinality({i \in Invoices : i.sub = s /\ invStatus[i] = "paid"})

\* A declined invoice is retried at most as often as the schedule of the
\* reason that opened its cycle has entries.
RetriesWithinSchedule ==
    \A i \in Invoices : invStatus[i] = "open" /\ anchor[i] # "none"
        => retries[i] <= Len(RetrySchedule(anchor[i]))

\* A retry of an open invoice is to come, or a session is at work.
Driven(s) ==
    \/ \E i \in Invoices : i.sub = s /\ invStatus[i] = "open" /\ nextRetry[i] # "none"
    \/ \E w \in Sessions : at[w] = s

\* In dunning, and no job will select it any more: the retry job selects dates,
\* the billing job active and the grace job unpaid subscriptions.
LeftBehind(s) == subStatus[s] = "past_due" /\ ~Driven(s)

\* A subscription in dunning is left behind in three ways only: its cycle waits
\* for another card, its retry found no card, or a job was cut short between two
\* commits of open_or_advance_dunning or of a recovery.
LeftBehindOnlySo ==
    [][\A s \in Subs : ~LeftBehind(s) /\ LeftBehind(s)' =>
        \E w \in Sessions :
            \/ /\ at[w] = s /\ pc[w] = "flag"
               /\ RequiresPaymentMethodUpdate(anchor[cur[w]])
            \/ /\ ~card[s]
               /\ \E i \in todo[w] \cap Invoices : i.sub = s
            \/ /\ at[w] = s /\ AbortJob(w)
               /\ pc[w] \in {"schedule", "flag", "clear", "recover", "revoke"}]_vars

\* Access is revoked only when an open invoice has used up its schedule.
RevokedAfterSchedule ==
    [][\A s \in Subs : subStatus[s] # "unpaid" /\ subStatus'[s] = "unpaid"
        => \E i \in Invoices :
              /\ i.sub = s /\ invStatus[i] = "open" /\ anchor[i] # "none"
              /\ retries[i] > 0
              /\ retries[i] >= Len(RetrySchedule(anchor[i]))]_vars

\* Arrears end for active only in a session that holds a paid invoice of the
\* subscription, or by a resume request, whatever overlaps.
RecoveredOrResumed ==
    [][\A s \in Subs : subStatus[s] \in {"past_due", "unpaid"}
                       /\ subStatus'[s] = "active"
        => \E w \in Sessions :
              /\ at[w] = s
              /\ \/ w \in Requests /\ pc[w] = "resume"
                 \/ /\ cur[w] \in Invoices /\ cur[w].sub = s
                    /\ invStatus[cur[w]] = "paid"]_vars

\* "isolate one bad invoice" (app/dunning/worker.py:64): a run of the retry job
\* that ends has given every invoice it selected its turn.
BadInvoiceIsIsolated ==
    [][\A w \in Retriers : pc[w] # "idle" /\ pc'[w] = "idle"
        => todo[w] \ {cur[w]} = {}]_vars

\* Every status change, of any session, is one the table allows.
Machine == INSTANCE SubscriptionMachine
FollowsTable == Machine!MachineSpec

\* Dunning comes to an end, unless the subscription is left behind.
PastDueResolves ==
    \A s \in Subs : subStatus[s] = "past_due"
        ~> subStatus[s] # "past_due" \/ LeftBehind(s)

\* A subscription whose period has ended is charged for it.
DueIsBilled ==
    \A s \in Subs : subStatus[s] = "active" /\ subPeriod[s] <= clock
        ~> subStatus[s] # "active" \/ subPeriod[s] > clock

\* Money the provider captured is credited to the invoice it was taken for,
\* unless the card is gone before the lost answer was asked for again.
CaptureIsCredited ==
    \A i \in Invoices : Captures(i) # {}
        ~> invStatus[i] = "paid" \/ LeftBehind(i.sub)
==========================================================================
