--------------------------- MODULE PlanBilling ---------------------------
(***************************************************************************)
(* Installment plans and plan changes of one subscription: the hourly      *)
(* installments job, the dunning retry job and the change-plan endpoint    *)
(* run as database sessions over the same invoices.                        *)
(*                                                                         *)
(* One action is the code between two commits or provider calls.  A        *)
(* session decides on the copies it read (seen) and writes only the        *)
(* columns it assigned; an exception ends it.                              *)
(***************************************************************************)
EXTENDS Lifecycle, DunningPolicy, Proration, FiniteSets

CONSTANTS
    Count,        \* plan.installments_count; without it a plan is recurring
    Changes,      \* change-plan requests, each with the invoice it creates
    Jobs,         \* sessions running process_due_installment_invoices
    Retriers,     \* sessions running process_dunning_retries
    Price,        \* the plans and what they cost, in minor units
    Cycles,       \* what may be left of the billing cycle: days of total days
    Declines,     \* the failure reasons the provider may answer with
    MaxAttempts,  \* charges followed per invoice
    Losses,       \* provider calls without an answer
    AbortAt,      \* control points at which a session may die
    MaxAborts,    \* how often that may happen
    None          \* a model value: no invoice at hand

Plans == DOMAIN Price
Installments == 1 .. Count
Bills == Installments \cup Changes
Sessions == Jobs \cup Retriers \cup Changes

ControlPoints ==
    {"idle", "next", "create", "swap", "charge", "record", "pay", "remaining",
     "complete", "clear", "recover", "fail", "schedule", "flag", "exhaust", "revoke"}

ASSUME PlanBillingAssumption ==
    /\ Count \in Nat \ {0} /\ MaxAttempts \in Nat /\ Losses \in Nat /\ MaxAborts \in Nat
    /\ Price \in [Plans -> Nat]
    /\ Cycles \subseteq [days : Int, total : Int]
    /\ Declines \subseteq FailureReason
    /\ AbortAt \subseteq ControlPoints
    /\ Changes \cap Installments = {} /\ None \notin Bills
    /\ Jobs \cap Retriers = {} /\ Jobs \cap Changes = {} /\ Retriers \cap Changes = {}

NoOutcome == "none"
Captured == "captured"
Outcomes == {NoOutcome, Captured} \cup FailureReason
RowStatus == {"none"} \cup InvoiceStatus

VARIABLES
    kind,    \* Subscription.type
    status, plan, card,                              \* the subscription
    inv, due, tries, retries, nextRetry, anchor,     \* invoices and attempts
    change,  \* of a change request: the plans, the cycle, whether it was committed
    ledger,  \* what the provider settled under each reference
    pc, todo, cur, answer, seen,                     \* sessions
    lost, aborts

subscription == <<kind, status, plan, card>>
invoices == <<inv, due, tries, retries, nextRetry, anchor, change>>
session == <<pc, todo, cur, answer, seen>>
faults == <<lost, aborts>>
vars == <<kind, status, plan, card, inv, due, tries, retries, nextRetry, anchor,
          change, ledger, pc, todo, cur, answer, seen, lost, aborts>>

\* A request that was not made.
AnyPlan == CHOOSE p \in Plans : TRUE
NoChange == [swapped |-> FALSE, from |-> AnyPlan, to |-> AnyPlan, days |-> 0, total |-> 0]

\* The rows a session reads: the subscription's status and its invoices.
Rows == [status |-> status, inv |-> inv, tries |-> tries, anchor |-> anchor]
NoRows == [status |-> "active", inv |-> [b \in Bills |-> "none"],
           tries |-> [b \in Bills |-> 0], anchor |-> [b \in Bills |-> "none"]]

\* Past the first payment: the checkout paid the first installment.
Init ==
    /\ kind \in {"installment", "recurring"}
    /\ status = "active"
    /\ plan \in Plans
    /\ card = TRUE
    /\ inv = [b \in Bills |-> IF b \in Changes \/ kind = "recurring" THEN "none"
                              ELSE IF b = 1 THEN "paid" ELSE "open"]
    /\ due = [i \in Installments |-> i = 1]
    /\ tries = [b \in Bills |-> 0]
    /\ retries = [b \in Bills |-> 0]
    /\ nextRetry = [b \in Bills |-> "none"]
    /\ anchor = [b \in Bills |-> "none"]
    /\ change = [c \in Changes |-> NoChange]
    /\ ledger = [b \in Bills |-> [k \in 0 .. MaxAttempts |->
                    IF b = 1 /\ k = 0 /\ kind = "installment" THEN Captured
                    ELSE NoOutcome]]
    /\ pc = [w \in Sessions |-> "idle"]
    /\ todo = [w \in Sessions |-> {}]
    /\ cur = [w \in Sessions |-> None]
    /\ answer = [w \in Sessions |-> NoOutcome]
    /\ seen = [w \in Sessions |-> NoRows]
    /\ lost = 0
    /\ aborts = 0
--------------------------------------------------------------------------
(* A session's life. *)

Goto(w, point) == pc' = [pc EXCEPT ![w] = point]

Close(w) ==
    /\ Goto(w, "idle")
    /\ todo' = [todo EXCEPT ![w] = {}]
    /\ cur' = [cur EXCEPT ![w] = None]
    /\ answer' = [answer EXCEPT ![w] = NoOutcome]
    /\ seen' = [seen EXCEPT ![w] = NoRows]

\* The loop of a job goes on to the rest of its batch, with what it holds by
\* then; a request just ends.
NextItem(w, remaining, copy) ==
    IF remaining = {} THEN Close(w)
    ELSE /\ Goto(w, "next")
         /\ todo' = [todo EXCEPT ![w] = remaining]
         /\ cur' = [cur EXCEPT ![w] = None]
         /\ answer' = [answer EXCEPT ![w] = NoOutcome]
         /\ seen' = [seen EXCEPT ![w] = copy]

EndItem(w, remaining) == NextItem(w, remaining, seen[w])

Continue(w, point) == Goto(w, point) /\ UNCHANGED <<todo, cur, answer>>
--------------------------------------------------------------------------
(* process_due_installment_invoices *)

NeverTriedInstallments ==  \* mutant: only a first attempt
    {i \in Installments : inv[i] = "open" /\ due[i] /\ tries[i] = 0}

DueInstallments ==
    {i \in Installments : inv[i] = "open" /\ due[i] /\ nextRetry[i] = "none"}

JobSelect(w) ==
    /\ pc[w] = "idle"
    /\ kind = "installment" /\ status = "active" /\ DueInstallments # {}
    /\ Goto(w, "next")
    /\ todo' = [todo EXCEPT ![w] = DueInstallments]
    /\ seen' = [seen EXCEPT ![w] = Rows]
    /\ UNCHANGED <<subscription, invoices, ledger, cur, answer, faults>>

\* The status the session holds is not looked at again.
JobItem(w, i) ==
    /\ pc[w] = "next" /\ i \in todo[w]
    /\ Goto(w, IF card THEN "charge" ELSE "fail")
    /\ todo' = [todo EXCEPT ![w] = @ \ {i}]
    /\ cur' = [cur EXCEPT ![w] = i]
    /\ answer' = [answer EXCEPT ![w] = IF card THEN NoOutcome ELSE "invalid_payment_method"]
    /\ UNCHANGED <<subscription, invoices, ledger, seen, faults>>
--------------------------------------------------------------------------
(* process_dunning_retries *)

RetrySelect(w) ==
    LET batch == {b \in Bills : inv[b] = "open" /\ nextRetry[b] = "due"}
    IN  /\ pc[w] = "idle" /\ batch # {}
        /\ Goto(w, "next")
        /\ todo' = [todo EXCEPT ![w] = batch]
        /\ seen' = [seen EXCEPT ![w] = Rows]
        /\ UNCHANGED <<subscription, invoices, ledger, cur, answer, faults>>

\* The subscription is read when its invoice's turn comes; one that is not
\* past_due any more, or has no card, ends the retries.
RetryItem(w, b) ==
    /\ pc[w] = "next" /\ b \in todo[w]
    /\ \/ /\ status = "past_due" /\ card
          /\ Goto(w, "charge")
          /\ todo' = [todo EXCEPT ![w] = @ \ {b}]
          /\ cur' = [cur EXCEPT ![w] = b]
          /\ seen' = [seen EXCEPT ![w].status = status]
          /\ UNCHANGED <<nextRetry, answer>>
       \/ /\ status # "past_due" \/ ~card
          /\ nextRetry' = [nextRetry EXCEPT ![b] = "none"]
          /\ EndItem(w, todo[w] \ {b})
    /\ UNCHANGED <<subscription, inv, due, tries, retries, anchor, change, ledger, faults>>
--------------------------------------------------------------------------
(* change_plan_flow *)

Net(c) == CalculateProration(Price[change[c].from], Price[change[c].to],
                             change[c].days, change[c].total)

ChangeRead(c, to, cycle) ==
    /\ pc[c] = "idle" /\ inv[c] = "none"
    /\ status = "active" /\ to # plan
    /\ change' = [change EXCEPT ![c] = [swapped |-> FALSE, from |-> plan, to |-> to,
                                       days |-> cycle.days, total |-> cycle.total]]
    /\ Goto(c, "create")
    /\ UNCHANGED <<subscription, inv, due, tries, retries, nextRetry, anchor, ledger,
                   todo, cur, answer, seen, faults>>

\* The invoice is committed by itself, with the net for its amount.
ChangeCreate(c) ==
    /\ pc[c] = "create"
    /\ inv' = [inv EXCEPT ![c] = "open"]
    /\ Goto(c, "swap")
    /\ cur' = [cur EXCEPT ![c] = c]
    /\ UNCHANGED <<subscription, due, tries, retries, nextRetry, anchor, change, ledger,
                   todo, answer, seen, faults>>

\* Its line items and the new plan are the next commit; then the rows are
\* refreshed and a positive net is collected.
ChangeSwap(c) ==
    /\ pc[c] = "swap"
    /\ plan' = change[c].to
    /\ change' = [change EXCEPT ![c].swapped = TRUE]
    /\ seen' = [seen EXCEPT ![c] = Rows]
    /\ Goto(c, IF Net(c).net <= 0 THEN "pay" ELSE IF card THEN "charge" ELSE "fail")
    /\ answer' = [answer EXCEPT ![c] = IF Net(c).net > 0 /\ ~card
                                      THEN "invalid_payment_method" ELSE NoOutcome]
    /\ UNCHANGED <<kind, status, card, inv, due, tries, retries, nextRetry, anchor,
                   ledger, todo, cur, faults>>
--------------------------------------------------------------------------
(* The charge, its record and the payment, shared by the three. *)

\* The reference is the invoice and the attempt_count the session holds; the
\* provider answers a settled reference with the outcome it recorded.
Charge(w) ==
    LET b == cur[w]
        k == seen[w].tries[b]
    IN  /\ pc[w] = "charge" /\ k < MaxAttempts
        /\ \E outcome \in {Captured} \cup Declines :
            /\ ledger[b][k] \in {NoOutcome, outcome}
            /\ ledger' = [ledger EXCEPT ![b][k] = outcome]
            /\ answer' = [answer EXCEPT ![w] = outcome]
        /\ Goto(w, "record")
        /\ UNCHANGED <<subscription, invoices, todo, cur, seen, faults>>

\* No answer, before or after the provider settled the charge: the
\* installments job goes on, the others raise.
LoseAnswer(w) ==
    /\ pc[w] \in {"charge", "record"} /\ lost < Losses
    /\ lost' = lost + 1
    /\ IF w \in Jobs THEN EndItem(w, todo[w]) ELSE Close(w)
    /\ UNCHANGED <<subscription, invoices, ledger, aborts>>

\* The installments job does not refresh the invoice after this commit.
RecordAttempt(w) ==
    LET b == cur[w]
        n == seen[w].tries[b] + 1
        copy == IF w \in Jobs THEN seen[w] ELSE [Rows EXCEPT !.status = seen[w].status]
    IN  /\ pc[w] = "record"
        /\ tries' = [tries EXCEPT ![b] = n]
        /\ retries' = IF w \in Retriers THEN [retries EXCEPT ![b] = @ + 1] ELSE retries
        /\ seen' = [seen EXCEPT ![w] = [copy EXCEPT !.tries = [seen[w].tries EXCEPT ![b] = n]]]
        /\ Goto(w, IF answer[w] = Captured THEN "pay" ELSE "fail")
        /\ UNCHANGED <<subscription, inv, due, nextRetry, anchor, change, ledger,
                       todo, cur, answer, faults>>

\* transition_invoice(paid), its first commit.
PayInvoice(w) ==
    /\ pc[w] = "pay"
    /\ IF InvoiceAllowed(seen[w].inv[cur[w]], "paid")
       THEN /\ inv' = [inv EXCEPT ![cur[w]] = "paid"]
            /\ Continue(w, "remaining") /\ UNCHANGED seen
       ELSE Close(w) /\ UNCHANGED inv
    /\ UNCHANGED <<subscription, due, tries, retries, nextRetry, anchor, change, ledger, faults>>

AfterPayment(w) ==
    IF w \in Retriers THEN Continue(w, "clear") /\ UNCHANGED seen
    ELSE EndItem(w, todo[w])

NothingDueRemains ==  \* mutant: the installments that have fallen due
    \A b \in Bills : inv[b] \in {"draft", "open"} => b \in Installments /\ ~due[b]

NothingRemains == \A b \in Bills : inv[b] \notin {"draft", "open"}

\* ... then, for an installment subscription, the look for open invoices.
Remaining(w) ==
    /\ pc[w] = "remaining"
    /\ IF /\ kind = "installment" /\ seen[w].status # "completed"
          /\ NothingRemains
       THEN IF SubscriptionAllowed(seen[w].status, "completed")
            THEN Continue(w, "complete") /\ UNCHANGED seen
            ELSE Close(w)
       ELSE AfterPayment(w)
    /\ UNCHANGED <<subscription, invoices, ledger, faults>>

\* transition_subscription(completed); the retry job, which then asks for
\* active, is never here: it holds the subscription as past_due.
Complete(w) ==
    /\ pc[w] = "complete"
    /\ status' = "completed"
    /\ NextItem(w, todo[w], [seen[w] EXCEPT !.status = "completed"])
    /\ UNCHANGED <<kind, plan, card, invoices, ledger, faults>>

ClearDunning(w) ==
    /\ pc[w] = "clear"
    /\ nextRetry' = [nextRetry EXCEPT ![cur[w]] = "none"]
    /\ anchor' = [anchor EXCEPT ![cur[w]] = "none"]
    /\ Continue(w, "recover")
    /\ UNCHANGED <<subscription, inv, due, tries, retries, change, ledger, seen, faults>>

Recover(w) ==
    /\ pc[w] = "recover"
    /\ status' = "active"
    /\ EndItem(w, todo[w])
    /\ UNCHANGED <<kind, plan, card, invoices, ledger, faults>>
--------------------------------------------------------------------------
(* open_or_advance_dunning *)

Reason(w) == IF seen[w].anchor[cur[w]] = "none" THEN answer[w] ELSE seen[w].anchor[cur[w]]

Decision(reason, done) ==
    IF NextRetryGapDays(reason, done) # NoGap THEN "schedule"
    ELSE IF RequiresPaymentMethodUpdate(reason) /\ done = 0 THEN "flag"
    ELSE "exhaust"

SkipDunning(w) ==
    /\ pc[w] = "fail"
    /\ answer[w] = "requires_action" \/ seen[w].status \notin {"active", "past_due"}
    /\ EndItem(w, todo[w])
    /\ UNCHANGED <<subscription, invoices, ledger, faults>>

\* The first commit, by a session that holds the subscription as active.
OpenCycle(w) ==
    LET b == cur[w]
        reason == Reason(w)
    IN  /\ pc[w] = "fail" /\ answer[w] # "requires_action" /\ seen[w].status = "active"
        /\ status' = "past_due"
        /\ anchor' = [anchor EXCEPT ![b] = reason]
        /\ seen' = [seen EXCEPT ![w] =
              [@ EXCEPT !.status = "past_due",
                         !.anchor = [seen[w].anchor EXCEPT ![b] = reason]]]
        /\ Continue(w, Decision(reason, retries[b]))
        /\ UNCHANGED <<kind, plan, card, inv, due, tries, retries, nextRetry, change,
                       ledger, faults>>

Settle(w, decision) ==
    /\ nextRetry' = [nextRetry EXCEPT
            ![cur[w]] = IF decision = "schedule" THEN "waiting" ELSE "none"]
    /\ IF decision = "exhaust" THEN Continue(w, "revoke") /\ UNCHANGED seen
       ELSE EndItem(w, todo[w])
    /\ UNCHANGED <<subscription, inv, due, tries, retries, change, ledger, faults>>

ScheduleRetry(w) ==
    /\ pc[w] \in {"schedule", "flag", "exhaust"}
    /\ Settle(w, pc[w])
    /\ UNCHANGED anchor

AdvanceCycle(w) ==
    /\ pc[w] = "fail" /\ answer[w] # "requires_action" /\ seen[w].status = "past_due"
    /\ Settle(w, Decision(Reason(w), retries[cur[w]]))
    /\ anchor' = [anchor EXCEPT ![cur[w]] = Reason(w)]

Revoke(w) ==
    /\ pc[w] = "revoke"
    /\ status' = "unpaid"
    /\ NextItem(w, todo[w], [seen[w] EXCEPT !.status = "unpaid"])
    /\ UNCHANGED <<kind, plan, card, invoices, ledger, faults>>
--------------------------------------------------------------------------
(* Time, the customer, and whatever cuts a session short. *)

FallsDue(i) ==
    /\ ~due[i] /\ (i > 1 => due[i - 1])
    /\ due' = [due EXCEPT ![i] = TRUE]
    /\ UNCHANGED <<subscription, inv, tries, retries, nextRetry, anchor, change, ledger,
                   session, faults>>

RetryComesDue(b) ==
    /\ nextRetry[b] = "waiting"
    /\ nextRetry' = [nextRetry EXCEPT ![b] = "due"]
    /\ UNCHANGED <<subscription, inv, due, tries, retries, anchor, change, ledger,
                   session, faults>>

\* The payment method loses its token.
LoseCard ==
    /\ card
    /\ card' = FALSE
    /\ UNCHANGED <<kind, status, plan, invoices, ledger, session, faults>>

Cancel ==
    /\ SubscriptionAllowed(status, "canceled")
    /\ status' = "canceled"
    /\ UNCHANGED <<kind, plan, card, invoices, ledger, session, faults>>

Abort(w) ==
    /\ pc[w] \in AbortAt /\ aborts < MaxAborts
    /\ aborts' = aborts + 1
    /\ Close(w)
    /\ UNCHANGED <<subscription, invoices, ledger, lost>>
--------------------------------------------------------------------------
Collect(w) ==
    \/ Charge(w) \/ RecordAttempt(w) \/ PayInvoice(w) \/ Remaining(w) \/ Complete(w)
    \/ SkipDunning(w) \/ OpenCycle(w) \/ ScheduleRetry(w) \/ AdvanceCycle(w) \/ Revoke(w)

Job(w) == JobSelect(w) \/ (\E i \in Installments : JobItem(w, i)) \/ Collect(w)

Retrier(w) ==
    \/ RetrySelect(w) \/ (\E b \in Bills : RetryItem(w, b))
    \/ Collect(w) \/ ClearDunning(w) \/ Recover(w)

Change(c) ==
    \/ \E to \in Plans, cycle \in Cycles : ChangeRead(c, to, cycle)
    \/ ChangeCreate(c) \/ ChangeSwap(c) \/ Collect(c)

Next ==
    \/ \E w \in Jobs : Job(w)
    \/ \E w \in Retriers : Retrier(w)
    \/ \E c \in Changes : Change(c)
    \/ \E w \in Sessions : LoseAnswer(w) \/ Abort(w)
    \/ \E i \in Installments : FallsDue(i)
    \/ \E b \in Bills : RetryComesDue(b)
    \/ LoseCard \/ Cancel

Spec == Init /\ [][Next]_vars

\* The crons run every hour and what they begin they end.
FairSpec ==
    /\ Spec
    /\ \A w \in Jobs : WF_vars(Job(w))
    /\ \A w \in Retriers : WF_vars(Retrier(w))
    /\ \A c \in Changes : WF_vars(ChangeCreate(c) \/ ChangeSwap(c) \/ Collect(c))
    /\ \A b \in Bills : WF_vars(RetryComesDue(b))
--------------------------------------------------------------------------
(* Properties. *)

Captures(b) == {k \in 0 .. MaxAttempts : ledger[b][k] = Captured}

\* A subscription is completed only when the provider took the money of every
\* installment, though jobs overlap, hold old copies and are cut short
\* (transition_invoice's check for remaining invoices).
CompletedIsPaid ==
    status = "completed" =>
        /\ kind = "installment"
        /\ \A i \in Installments : inv[i] = "paid" /\ Captures(i) # {}

Abs(n) == IF n < 0 THEN -n ELSE n

\* A plan change costs the price difference of the days left, to the minor
\* unit; its invoice is paid by a capture exactly when something is owed, and
\* nothing is captured before the plan was swapped (change_plan_flow).
ChangeIsFair ==
    \A c \in Changes : inv[c] # "none" =>
        LET this == change[c]
            left == Clamp(this.days, this.total)
            exact == (Price[this.to] - Price[this.from]) * left
        IN  /\ this.total > 0 => Abs(this.total * Net(c).net - exact) <= this.total
            /\ this.total <= 0 => Net(c).net = 0
            /\ Captures(c) # {} => this.swapped /\ Net(c).net > 0
            /\ inv[c] = "paid" /\ Captures(c) = {} => Net(c).net <= 0

\* An installment that is due while the subscription is active does not lie
\* there: it is paid, or the subscription leaves active.
DueIsCollected ==
    \A i \in Installments :
        (status = "active" /\ inv[i] = "open" /\ due[i])
            ~> (inv[i] = "paid" \/ status # "active")
==========================================================================
