----------------------------- MODULE Checkout -----------------------------
(***************************************************************************)
(* The first payment of a subscription: create_subscription_flow and the   *)
(* public page's flow, the provider's hosted checkout, its webhook, the    *)
(* verify-checkout endpoint, and the deferred expiry and trial jobs.       *)
(*                                                                         *)
(* One action stands for the code between two commits or provider calls; a *)
(* session acts on what it read when it began (seenStatus, seenInvoice).   *)
(***************************************************************************)
EXTENDS Lifecycle, Integers, FiniteSets

CONSTANTS
    Subs,           \* subscriptions that may be created
    Customers, Owner,   \* who they belong to
    Tokens,         \* card tokens a customer may pay with
    Kinds,          \* the ways of creation: "checkout", "trial", "bank"
    Hooks,          \* sessions serving the provider's webhook
    Verifiers,      \* sessions serving verify-checkout
    Timers,         \* workers running the deferred jobs
    AbortAt,        \* the points at which a session may be cut short
    MaxAborts,      \* how often that may happen
    MaxSaved,       \* payment_methods rows for one card, before or through the portal
    None            \* a model value: no event, no card

Sessions == Hooks \cup Verifiers \cup Timers

Points == {"idle", "pay", "clear", "activate", "save", "past_due", "schedule",
           "record", "ask", "settle", "load", "verify", "expire", "convert",
           "lapse"}

Phases == {"none", "created", "invoiced", "linked", "done"}

\* An order is absent, waiting for a payment, or paid with a card.
Waiting == "waiting"
Unordered == "none"

ASSUME CheckoutAssumption ==
    /\ {Waiting, Unordered} \cap Tokens = {}
    /\ Owner \in [Subs -> Customers]
    /\ Kinds \subseteq {"checkout", "trial", "bank"}
    /\ AbortAt \subseteq Points \cup Phases
    /\ MaxAborts \in Nat /\ MaxSaved \in Nat

\* What the provider tells about the order of a subscription's first invoice.
Events == [sub : Subs, paid : BOOLEAN]

VARIABLES
    subStatus, period, card,        \* subscriptions; period: one is set
    invStatus, retrySet,            \* the first invoice; next_retry_at is set
    saved,                          \* payment_methods rows by customer, token
    recorded,                       \* webhook_events
    creating, timer,                \* the creating request, the deferred job
    order, sent,                    \* the provider's order, events it emitted
    pc, at, seenStatus, seenInvoice,    \* sessions
    aborts

rows == <<subStatus, period, card, invStatus, retrySet, saved, recorded>>
provider == <<order, sent>>
session == <<pc, at, seenStatus, seenInvoice>>
vars == <<subStatus, period, card, invStatus, retrySet, saved, recorded,
          creating, timer, order, sent, pc, at, seenStatus, seenInvoice, aborts>>

Statuses == {"none"} \cup SubscriptionStatus
RowStatus == {"none"} \cup InvoiceStatus

\* The order was paid: it holds the card that paid it.
IsPaid(s) == order[s] \in Tokens

CheckoutTypeOK ==
    /\ subStatus \in [Subs -> Statuses]
    /\ period \in [Subs -> BOOLEAN] /\ card \in [Subs -> BOOLEAN]
    /\ invStatus \in [Subs -> RowStatus] /\ retrySet \in [Subs -> BOOLEAN]
    /\ saved \in [Customers -> [Tokens -> Nat]]
    /\ recorded \subseteq Events /\ sent \subseteq Events
    /\ creating \in [Subs -> Phases]
    /\ timer \in [Subs -> {"none", "expiry", "trial"}]
    /\ order \in [Subs -> Tokens \cup {Waiting, Unordered}]
    /\ pc \in [Sessions -> Points]
    /\ at \in [Sessions -> Events \cup {None}]
    /\ seenStatus \in [Sessions -> Statuses]
    /\ seenInvoice \in [Sessions -> RowStatus]
    /\ aborts \in 0..MaxAborts

Init ==
    /\ subStatus = [s \in Subs |-> "none"]
    /\ period = [s \in Subs |-> FALSE]
    /\ card = [s \in Subs |-> FALSE]
    /\ invStatus = [s \in Subs |-> "none"]
    /\ retrySet = [s \in Subs |-> FALSE]
    /\ saved \in [Customers -> [Tokens -> 0 .. MaxSaved]]
    /\ recorded = {}
    /\ creating = [s \in Subs |-> "none"]
    /\ timer = [s \in Subs |-> "none"]
    /\ order = [s \in Subs |-> Unordered]
    /\ sent = {}
    /\ pc = [w \in Sessions |-> "idle"]
    /\ at = [w \in Sessions |-> None]
    /\ seenStatus = [w \in Sessions |-> "none"]
    /\ seenInvoice = [w \in Sessions |-> "none"]
    /\ aborts = 0

Write(s, status) == subStatus' = [subStatus EXCEPT ![s] = status]
Goto(w, point) == pc' = [pc EXCEPT ![w] = point]

Close(w) ==
    /\ Goto(w, "idle")
    /\ at' = [at EXCEPT ![w] = None]
    /\ seenStatus' = [seenStatus EXCEPT ![w] = "none"]
    /\ seenInvoice' = [seenInvoice EXCEPT ![w] = "none"]

\* A session begins: what it reads of the subscription and its invoice.
Load(w, e, point) ==
    /\ Goto(w, point)
    /\ at' = [at EXCEPT ![w] = e]
    /\ seenStatus' = [seenStatus EXCEPT ![w] = subStatus[e.sub]]
    /\ seenInvoice' = [seenInvoice EXCEPT ![w] = invStatus[e.sub]]
--------------------------------------------------------------------------
\* create_subscription_flow, one step per commit or call.

Phase(s, from, to) ==
    /\ creating[s] = from
    /\ creating' = [creating EXCEPT ![s] = to]

\* A stored bank account activates at once, with no period and no invoice; a
\* trial's window is its first period.  A card that is linked is one of the
\* customer's rows.
InitialStatus == [checkout |-> "incomplete", trial |-> "trialing", bank |-> "active"]

\* The customer's cards.
RowsOf(c) == {t \in Tokens : saved[c][t] > 0}

Create(s, kind, hasCard) ==
    /\ IF kind = "bank" THEN hasCard ELSE hasCard => RowsOf(Owner[s]) # {}
    /\ Phase(s, "none", IF kind = "bank" THEN "done" ELSE "created")
    /\ Write(s, InitialStatus[kind])
    /\ period' = [period EXCEPT ![s] = (kind = "trial")]
    /\ card' = [card EXCEPT ![s] = hasCard]
    /\ UNCHANGED <<invStatus, retrySet, saved, recorded, timer, provider,
                   session, aborts>>

ScheduleTrial(s) ==
    /\ Phase(s, "created", "done")
    /\ subStatus[s] = "trialing"
    /\ timer' = [timer EXCEPT ![s] = "trial"]
    /\ UNCHANGED <<rows, provider, session, aborts>>

CreateInvoice(s) ==
    /\ Phase(s, "created", "invoiced")
    /\ subStatus[s] = "incomplete"
    /\ invStatus' = [invStatus EXCEPT ![s] = "open"]
    /\ UNCHANGED <<subStatus, period, card, retrySet, saved, recorded, timer,
                   provider, session, aborts>>

InitiateCheckout(s) ==
    /\ Phase(s, "invoiced", "linked")
    /\ order' = [order EXCEPT ![s] = Waiting]
    /\ UNCHANGED <<rows, timer, sent, session, aborts>>

ScheduleExpiry(s) ==
    /\ Phase(s, "linked", "done")
    /\ timer' = [timer EXCEPT ![s] = "expiry"]
    /\ UNCHANGED <<rows, provider, session, aborts>>

\* The provider refuses, redis is away, the process dies: what was committed
\* stays.
CreationFails(s) ==
    /\ creating[s] \in AbortAt \ {"none", "done"}
    /\ aborts < MaxAborts
    /\ aborts' = aborts + 1
    /\ creating' = [creating EXCEPT ![s] = "done"]
    /\ UNCHANGED <<rows, timer, provider, session>>
--------------------------------------------------------------------------
\* The customer at the provider's page, and the events that follow.

Declines(s) ==
    /\ order[s] = Waiting
    /\ sent' = sent \cup {[sub |-> s, paid |-> FALSE]}
    /\ UNCHANGED <<rows, creating, timer, order, session, aborts>>

Pays(s, t) ==
    /\ order[s] = Waiting
    /\ order' = [order EXCEPT ![s] = t]
    /\ sent' = sent \cup {[sub |-> s, paid |-> TRUE]}
    /\ UNCHANGED <<rows, creating, timer, session, aborts>>
--------------------------------------------------------------------------
\* process_nomba_webhook.  An event that is not recorded is delivered again,
\* in any order and to any number of sessions at once.

EligibleForDunning == {"active", "past_due"}

ActivateFirst(e) ==  \* mutant: the subscription before the invoice
    IF e.paid THEN "clear" ELSE "record"

FirstHookStep(e) ==
    IF e.paid THEN IF invStatus[e.sub] = "paid" THEN "clear" ELSE "pay"
    ELSE IF subStatus[e.sub] = "active" THEN "past_due"
    ELSE IF subStatus[e.sub] = "past_due" THEN "schedule" ELSE "record"

HookRecordsFirst(w, e) ==  \* mutant: the event is recorded before it is handled
    /\ pc[w] = "idle"
    /\ e \in sent \ recorded
    /\ recorded' = recorded \cup {e}
    /\ Load(w, e, FirstHookStep(e))
    /\ UNCHANGED <<subStatus, period, card, invStatus, retrySet, saved,
                   creating, timer, provider, aborts>>

HookRead(w, e) ==
    /\ pc[w] = "idle"
    /\ e \in sent \ recorded
    /\ Load(w, e, FirstHookStep(e))
    /\ UNCHANGED <<rows, creating, timer, provider, aborts>>

HookPay(w) ==
    /\ pc[w] = "pay"
    /\ invStatus' = [invStatus EXCEPT ![at[w].sub] = "paid"]
    /\ Goto(w, "clear")
    /\ UNCHANGED <<subStatus, period, card, retrySet, saved, recorded, creating,
                   timer, provider, at, seenStatus, seenInvoice, aborts>>

HookClear(w) ==
    /\ pc[w] = "clear"
    /\ retrySet' = [retrySet EXCEPT ![at[w].sub] = FALSE]
    /\ Goto(w, IF seenStatus[w] \in {"incomplete", "past_due"}
               THEN "activate" ELSE "save")
    /\ UNCHANGED <<subStatus, period, card, invStatus, saved, recorded, creating,
                   timer, provider, at, seenStatus, seenInvoice, aborts>>

\* The period and the status are one commit.
HookActivate(w) ==
    /\ pc[w] = "activate"
    /\ Write(at[w].sub, "active")
    /\ period' = [period EXCEPT ![at[w].sub] = TRUE]
    /\ Goto(w, "save")
    /\ UNCHANGED <<card, invStatus, retrySet, saved, recorded, creating, timer,
                   provider, at, seenStatus, seenInvoice, aborts>>

\* As the two scalar_one_or_none queries count them.
AtMostOneRow(c) == \A t, u \in RowsOf(c) : t = u /\ saved[c][t] = 1

\* The card and the event row are one transaction.  It raises when the card is
\* known already (last_four is then unbound), when the customer has two cards,
\* and when another delivery recorded the event first.
Saves(e) ==
    /\ saved[Owner[e.sub]][order[e.sub]] = 0
    /\ AtMostOneRow(Owner[e.sub])
    /\ e \notin recorded

HookSave(w) ==
    LET e == at[w]
        s == e.sub
    IN  /\ pc[w] = "save"
        /\ IF Saves(e)
           THEN /\ saved' = [saved EXCEPT ![Owner[s]][order[s]] = 1]
                /\ card' = [card EXCEPT ![s] = TRUE]
                /\ recorded' = recorded \cup {e}
           ELSE UNCHANGED <<saved, card, recorded>>
        /\ Close(w)
        /\ UNCHANGED <<subStatus, period, invStatus, retrySet, creating, timer,
                       provider, aborts>>

\* open_or_advance_dunning with card_declined: the status, then the date.
HookPastDue(w) ==
    /\ pc[w] = "past_due"
    /\ Write(at[w].sub, "past_due")
    /\ Goto(w, "schedule")
    /\ UNCHANGED <<period, card, invStatus, retrySet, saved, recorded, creating,
                   timer, provider, at, seenStatus, seenInvoice, aborts>>

HookSchedule(w) ==
    /\ pc[w] = "schedule"
    /\ retrySet' = [retrySet EXCEPT ![at[w].sub] = TRUE]
    /\ Goto(w, "record")
    /\ UNCHANGED <<subStatus, period, card, invStatus, saved, recorded, creating,
                   timer, provider, at, seenStatus, seenInvoice, aborts>>

HookRecord(w) ==
    /\ pc[w] = "record"
    /\ recorded' = recorded \cup {at[w]}
    /\ Close(w)
    /\ UNCHANGED <<subStatus, period, card, invStatus, retrySet, saved, creating,
                   timer, provider, aborts>>
--------------------------------------------------------------------------
\* verify_checkout, when the customer comes back from the provider's page.

VerifyRead(w, s) ==
    /\ pc[w] = "idle"
    /\ invStatus[s] = "open"
    /\ Load(w, [sub |-> s, paid |-> TRUE], "ask")
    /\ UNCHANGED <<rows, creating, timer, provider, aborts>>

TrustsRedirect(w) ==  \* mutant: the return from the page is taken for a payment
    /\ pc[w] = "ask"
    /\ Goto(w, "settle")
    /\ UNCHANGED <<rows, creating, timer, provider, at, seenStatus, seenInvoice,
                   aborts>>

VerifyAsk(w) ==
    /\ pc[w] = "ask"
    /\ IF IsPaid(at[w].sub)
       THEN Goto(w, "settle") /\ UNCHANGED <<at, seenStatus, seenInvoice>>
       ELSE Close(w)
    /\ UNCHANGED <<rows, creating, timer, provider, aborts>>

\* transition_invoice, checked on the copy read before the provider was asked.
VerifySettle(w) ==
    /\ pc[w] = "settle"
    /\ InvoiceAllowed(seenInvoice[w], "paid")
    /\ invStatus' = [invStatus EXCEPT ![at[w].sub] = "paid"]
    /\ Goto(w, "load")
    /\ UNCHANGED <<subStatus, period, card, retrySet, saved, recorded, creating,
                   timer, provider, at, seenStatus, seenInvoice, aborts>>

VerifyLoad(w) ==
    /\ pc[w] = "load"
    /\ IF subStatus[at[w].sub] \in {"incomplete", "past_due"}
       THEN Load(w, at[w], "verify") ELSE Close(w)
    /\ UNCHANGED <<rows, creating, timer, provider, aborts>>

\* No period is set here.
VerifyActivate(w) ==
    /\ pc[w] = "verify"
    /\ Write(at[w].sub, "active")
    /\ Close(w)
    /\ UNCHANGED <<period, card, invStatus, retrySet, saved, recorded, creating,
                   timer, provider, aborts>>
--------------------------------------------------------------------------
\* The deferred jobs.

ExpiresPastDue(w, s) ==  \* mutant: the wrong status is looked for
    /\ pc[w] = "idle"
    /\ timer[s] = "expiry"
    /\ timer' = [timer EXCEPT ![s] = "none"]
    /\ IF subStatus[s] = "past_due"
       THEN Load(w, [sub |-> s, paid |-> FALSE], "expire") ELSE UNCHANGED session
    /\ UNCHANGED <<rows, creating, provider, aborts>>

ExpireRead(w, s) ==
    /\ pc[w] = "idle"
    /\ timer[s] = "expiry"
    /\ timer' = [timer EXCEPT ![s] = "none"]
    /\ IF subStatus[s] = "incomplete"
       THEN Load(w, [sub |-> s, paid |-> FALSE], "expire") ELSE UNCHANGED session
    /\ UNCHANGED <<rows, creating, provider, aborts>>

MisspeltExpiry(w) ==  \* mutant: a status the table does not know
    /\ pc[w] = "expire"
    /\ Write(at[w].sub, "expired")
    /\ Close(w)
    /\ UNCHANGED <<period, card, invStatus, retrySet, saved, recorded, creating,
                   timer, provider, aborts>>

ExpireCommit(w) ==
    /\ pc[w] = "expire"
    /\ Write(at[w].sub, "incomplete_expired")
    /\ Close(w)
    /\ UNCHANGED <<period, card, invStatus, retrySet, saved, recorded, creating,
                   timer, provider, aborts>>

TrialRead(w, s) ==
    /\ pc[w] = "idle"
    /\ timer[s] = "trial"
    /\ timer' = [timer EXCEPT ![s] = "none"]
    /\ IF subStatus[s] = "trialing"
       THEN Load(w, [sub |-> s, paid |-> FALSE],
                 IF card[s] THEN "convert" ELSE "lapse")
       ELSE UNCHANGED session
    /\ UNCHANGED <<rows, creating, provider, aborts>>

TrialConvert(w) ==
    /\ pc[w] = "convert"
    /\ Write(at[w].sub, "active")
    /\ period' = [period EXCEPT ![at[w].sub] = TRUE]
    /\ Close(w)
    /\ UNCHANGED <<card, invStatus, retrySet, saved, recorded, creating, timer,
                   provider, aborts>>

TrialLapse(w) ==
    /\ pc[w] = "lapse"
    /\ Write(at[w].sub, "paused")
    /\ Close(w)
    /\ UNCHANGED <<period, card, invStatus, retrySet, saved, recorded, creating,
                   timer, provider, aborts>>

\* The portal's update_card: a new row, whatever is saved already.
LinkCard(s, t) ==
    /\ subStatus[s] # "none"
    /\ saved[Owner[s]][t] < MaxSaved
    /\ saved' = [saved EXCEPT ![Owner[s]][t] = @ + 1]
    /\ card' = [card EXCEPT ![s] = TRUE]
    /\ UNCHANGED <<subStatus, period, invStatus, retrySet, recorded, creating,
                   timer, provider, session, aborts>>

SessionFails(w) ==
    /\ pc[w] \in AbortAt \ {"idle"}
    /\ aborts < MaxAborts
    /\ aborts' = aborts + 1
    /\ Close(w)
    /\ UNCHANGED <<rows, creating, timer, provider>>
--------------------------------------------------------------------------
Creation(s) ==
    \/ ScheduleTrial(s) \/ CreateInvoice(s) \/ InitiateCheckout(s)
    \/ ScheduleExpiry(s)

Handle(w) ==
    \/ HookPay(w) \/ HookClear(w) \/ HookActivate(w) \/ HookSave(w)
    \/ HookPastDue(w) \/ HookSchedule(w) \/ HookRecord(w)

Verify(w) == VerifyAsk(w) \/ VerifySettle(w) \/ VerifyLoad(w) \/ VerifyActivate(w)

Job(w) ==
    \/ ExpireCommit(w) \/ TrialConvert(w) \/ TrialLapse(w)
    \/ \E s \in Subs : ExpireRead(w, s) \/ TrialRead(w, s)

Next ==
    \/ \E s \in Subs :
        \/ \E kind \in Kinds, hasCard \in BOOLEAN : Create(s, kind, hasCard)
        \/ Creation(s) \/ CreationFails(s) \/ Declines(s)
        \/ \E t \in Tokens : Pays(s, t) \/ LinkCard(s, t)
    \/ \E w \in Hooks : Handle(w) \/ \E e \in Events : HookRead(w, e)
    \/ \E w \in Verifiers : Verify(w) \/ \E s \in Subs : VerifyRead(w, s)
    \/ \E w \in Timers : Job(w)
    \/ \E w \in Sessions : SessionFails(w)

Spec == Init /\ [][Next]_vars

\* Requests run on, deferred jobs are run, and the provider delivers an event
\* until it is answered with success.
FairSpec ==
    /\ Spec
    /\ \A s \in Subs : WF_vars(Creation(s))
    /\ \A w \in Hooks : WF_vars(Handle(w))
    /\ \A e \in Events : SF_vars(\E w \in Hooks : HookRead(w, e))
    /\ \A w \in Verifiers : WF_vars(Verify(w))
    /\ \A w \in Timers : WF_vars(Job(w))
--------------------------------------------------------------------------
\* An event is recorded, and so never delivered again, only when its work is
\* done: the invoice paid, the subscription past its first payment, the card
\* linked.
RecordedIsServed ==
    \A e \in recorded : e.paid =>
        /\ invStatus[e.sub] = "paid"
        /\ subStatus[e.sub] # "incomplete"
        /\ card[e.sub]

\* A first invoice is marked paid only when the provider's order was paid.
PaidIsOrdered == \A s \in Subs : invStatus[s] = "paid" => IsPaid(s)

\* A subscription leaves incomplete for active only with its invoice paid.
ActivatedByPayment ==
    [][\A s \in Subs : subStatus[s] = "incomplete" /\ subStatus'[s] = "active"
        => invStatus[s] = "paid"]_vars

\* A payment is credited, whatever cuts its deliveries short.
PaymentIsCredited == \A s \in Subs : IsPaid(s) ~> invStatus[s] = "paid"

\* Unpaid or paid, a subscription whose expiry was deferred does not stay
\* incomplete.
IncompleteEnds ==
    \A s \in Subs : timer[s] = "expiry" ~> subStatus[s] # "incomplete"
==========================================================================
