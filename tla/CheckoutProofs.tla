--------------------------- MODULE CheckoutProofs ---------------------------
(***************************************************************************)
(* Theorems about Checkout for every set of subscriptions, customers and   *)
(* cards, any number of deliveries, verify-checkout requests and jobs at a *)
(* time, and every place where one of them may be cut short.               *)
(***************************************************************************)
EXTENDS Checkout, TLAPS

\* The points of a delivery, of a paid event and of a declined one.
PaidPoints == {"pay", "clear", "activate", "save"}
DeclinedPoints == {"past_due", "schedule", "record"}

Begun(s) == subStatus[s] # "none"
Past(s) == subStatus[s] \notin {"none", "incomplete"}
Credited(s) == invStatus[s] = "paid"

\* What the rows, the creating request and the provider's order say of each
\* other: an event is about an order, and an order about a request that has
\* created the subscription and its invoice.
OrdersOK ==
    /\ \A s \in Subs :
        /\ creating[s] = "none" => ~Begun(s) /\ invStatus[s] = "none"
        /\ ~Begun(s) => creating[s] = "none"
        /\ order[s] # Unordered => creating[s] \in {"linked", "done"}
    /\ \A e \in sent : order[e.sub] # Unordered
    /\ \A e \in sent : e.paid => IsPaid(e.sub)
    /\ recorded \subseteq sent

\* What a session at each point has established.
SessionOK(w) ==
    /\ pc[w] # "idle" => at[w] \in Events /\ Begun(at[w].sub)
    /\ pc[w] \in PaidPoints => at[w] \in sent /\ at[w].paid
    /\ pc[w] \in DeclinedPoints => at[w] \in sent /\ ~at[w].paid
    /\ pc[w] \in {"settle", "load"} => IsPaid(at[w].sub)
    /\ pc[w] \in {"clear", "activate", "save", "load", "verify"}
        => Credited(at[w].sub)
    /\ pc[w] \in {"pay", "clear"}
        => seenStatus[w] = "incomplete" \/ Past(at[w].sub)
    /\ pc[w] \in {"save", "convert"} => Past(at[w].sub)

AllSessionsOK == \A w \in Sessions : SessionOK(w)

IInv ==
    /\ CheckoutTypeOK /\ OrdersOK /\ AllSessionsOK
    /\ PaidIsOrdered /\ RecordedIsServed
--------------------------------------------------------------------------

\* No step takes back an event, a payment, a credited invoice, or the end of
\* a first payment.
Kept ==
    /\ sent \subseteq sent'
    /\ \A s \in Subs :
        /\ IsPaid(s) => IsPaid(s)'
        /\ Credited(s) => Credited(s)'
        /\ Begun(s) => Begun(s)'
        /\ Past(s) => Past(s)'

\* What a session has established is not undone behind its back.
LEMMA OthersOK ==
    ASSUME IInv, Kept, NEW v \in Sessions, UNCHANGED <<pc[v], at[v], seenStatus[v]>>
    PROVE  SessionOK(v)'
<1>1. SessionOK(v)
      BY DEF IInv, AllSessionsOK
<1>2. CASE pc[v] = "idle"
      BY <1>2 DEF SessionOK, PaidPoints, DeclinedPoints
<1>3. CASE pc[v] # "idle"
  <2>1. at[v] \in Events /\ at[v].sub \in Subs
        BY <1>1, <1>3 DEF SessionOK, Events
  <2> QED BY <1>1, <1>3, <2>1 DEF SessionOK, Kept
<1> QED BY <1>2, <1>3

\* A step of one session keeps the invariant if its own part of it does.
LEMMA SessionStepOK ==
    ASSUME IInv, CheckoutTypeOK', OrdersOK', Kept, PaidIsOrdered',
           RecordedIsServed', NEW w \in Sessions, SessionOK(w)',
           \A v \in Sessions \ {w} : UNCHANGED <<pc[v], at[v], seenStatus[v]>>
    PROVE  IInv'
<1>1. ASSUME NEW v \in Sessions PROVE SessionOK(v)'
  <2>1. CASE v = w
      BY <2>1
  <2>2. CASE v # w
      BY <2>2, OthersOK
  <2> QED BY <2>1, <2>2
<1> QED BY <1>1 DEF IInv, AllSessionsOK

\* A step of no session keeps it if the rows and orders do.
LEMMA OtherStepOK ==
    ASSUME IInv, CheckoutTypeOK', OrdersOK', Kept, PaidIsOrdered',
           RecordedIsServed', UNCHANGED session
    PROVE  IInv'
<1>1. ASSUME NEW v \in Sessions PROVE SessionOK(v)'
      BY OthersOK DEF session
<1> QED BY <1>1 DEF IInv, AllSessionsOK

\* A session that ends has nothing to establish, and nothing else moves.
LEMMA CloseOK ==
    ASSUME CheckoutTypeOK, NEW w \in Sessions, Close(w)
    PROVE  /\ SessionOK(w)'
           /\ \A v \in Sessions \ {w} : UNCHANGED <<pc[v], at[v], seenStatus[v]>>
           /\ pc' \in [Sessions -> Points]
           /\ at' \in [Sessions -> Events \cup {None}]
           /\ seenStatus' \in [Sessions -> Statuses]
           /\ seenInvoice' \in [Sessions -> RowStatus]
<1>1. "idle" \in Points /\ "none" \in Statuses /\ "none" \in RowStatus
      BY DEF Points, Statuses, RowStatus
<1>2. pc'[w] = "idle"
      BY DEF Close, Goto, CheckoutTypeOK
<1>3. SessionOK(w)'
      BY <1>2 DEF SessionOK, PaidPoints, DeclinedPoints
<1> QED BY <1>1, <1>3 DEF Close, Goto, CheckoutTypeOK

\* A session that begins, or reads again, holds what the rows say.
LEMMA LoadOK ==
    ASSUME CheckoutTypeOK, NEW w \in Sessions, NEW e \in Events,
           NEW point \in Points, Load(w, e, point)
    PROVE  /\ pc'[w] = point /\ at'[w] = e /\ seenStatus'[w] = subStatus[e.sub]
           /\ \A v \in Sessions \ {w} : UNCHANGED <<pc[v], at[v], seenStatus[v]>>
           /\ pc' \in [Sessions -> Points]
           /\ at' \in [Sessions -> Events \cup {None}]
           /\ seenStatus' \in [Sessions -> Statuses]
           /\ seenInvoice' \in [Sessions -> RowStatus]
<1>1. e.sub \in Subs
      BY DEF Events
<1>2. subStatus[e.sub] \in Statuses /\ invStatus[e.sub] \in RowStatus
      BY <1>1 DEF CheckoutTypeOK
<1> QED BY <1>2 DEF Load, Goto, CheckoutTypeOK

\* Steps that leave the rows, the orders and the request alone.
LEMMA QuietOK ==
    ASSUME IInv, UNCHANGED <<subStatus, invStatus, card, recorded, creating,
                             provider>>
    PROVE  OrdersOK' /\ Kept /\ PaidIsOrdered' /\ RecordedIsServed'
<1>1. OrdersOK'
      BY DEF IInv, OrdersOK, provider, Begun, IsPaid
<1>2. Kept
      BY DEF Kept, provider, Begun, IsPaid, Credited, Past
<1>3. PaidIsOrdered' /\ RecordedIsServed'
      BY DEF IInv, PaidIsOrdered, RecordedIsServed, provider, IsPaid
<1> QED BY <1>1, <1>2, <1>3
--------------------------------------------------------------------------
\* Creation: nothing is known of a subscription before it is created.

LEMMA CreateOK ==
    ASSUME IInv, NEW s \in Subs, NEW kind \in Kinds, NEW hasCard \in BOOLEAN,
           Create(s, kind, hasCard)
    PROVE  IInv'
<1> USE CheckoutAssumption
<1>1. kind \in {"checkout", "trial", "bank"}
      OBVIOUS
<1>2. /\ InitialStatus[kind] \in {"incomplete", "trialing", "active"}
      /\ InitialStatus[kind] \in Statuses
      BY <1>1 DEF InitialStatus, Statuses, SubscriptionStatus
<1>3. CheckoutTypeOK'
      BY <1>1, <1>2 DEF IInv, CheckoutTypeOK, Create, Phase, Phases, Write,
                        provider, session
<1>4. /\ creating[s] = "none" /\ ~Begun(s) /\ invStatus[s] = "none"
      /\ order[s] = Unordered
      BY DEF Create, Phase, IInv, OrdersOK
<1>5. OrdersOK'
      BY <1>2, <1>4 DEF IInv, CheckoutTypeOK, OrdersOK, Create, Phase, Phases,
                        Write, Begun, IsPaid, provider
<1>6. Kept
      BY <1>2, <1>4 DEF IInv, CheckoutTypeOK, Kept, Create, Write, Begun, Past,
                        Credited, IsPaid, provider
<1>7. PaidIsOrdered'
      BY DEF IInv, PaidIsOrdered, Create, IsPaid, provider
<1>8. \A e \in recorded : e.sub # s
      BY <1>4 DEF IInv, OrdersOK
<1>9. RecordedIsServed'
      BY <1>8 DEF IInv, CheckoutTypeOK, RecordedIsServed, Create, Write, Events
<1> QED BY <1>3, <1>5, <1>6, <1>7, <1>9, OtherStepOK DEF Create

\* The invoice and the order come after the subscription and before any event.
LEMMA CreateInvoiceOK ==
    ASSUME IInv, NEW s \in Subs, CreateInvoice(s)
    PROVE  IInv'
<1>1. CheckoutTypeOK'
      BY DEF IInv, CheckoutTypeOK, CreateInvoice, Phase, Phases, RowStatus,
             InvoiceStatus, provider, session
<1>2. order[s] = Unordered /\ creating[s] = "created"
      BY DEF CreateInvoice, Phase, IInv, OrdersOK
<1>3. OrdersOK'
      BY <1>2 DEF IInv, CheckoutTypeOK, OrdersOK, CreateInvoice, Phase, Phases,
                  Begun, IsPaid, provider
<1>4. ~Credited(s)
      BY <1>2, CheckoutAssumption DEF IInv, PaidIsOrdered, IsPaid, Credited
<1>5. Kept
      BY <1>4 DEF IInv, CheckoutTypeOK, Kept, CreateInvoice, Begun, Past,
                  Credited, IsPaid, provider
<1>6. PaidIsOrdered'
      BY DEF IInv, CheckoutTypeOK, PaidIsOrdered, CreateInvoice, IsPaid, provider
<1>7. RecordedIsServed'
      BY <1>4 DEF IInv, CheckoutTypeOK, RecordedIsServed, CreateInvoice, Credited,
                  Events
<1> QED BY <1>1, <1>3, <1>5, <1>6, <1>7, OtherStepOK DEF CreateInvoice

LEMMA InitiateCheckoutOK ==
    ASSUME IInv, NEW s \in Subs, InitiateCheckout(s)
    PROVE  IInv'
<1>1. CheckoutTypeOK'
      BY DEF IInv, CheckoutTypeOK, InitiateCheckout, Phase, Phases, rows, session
<1>2. order[s] = Unordered /\ creating[s] = "invoiced"
      BY DEF InitiateCheckout, Phase, IInv, OrdersOK
<1>3. ~IsPaid(s)
      BY <1>2, CheckoutAssumption DEF IsPaid
<1>4. \A e \in sent : e.sub # s
      BY <1>2 DEF IInv, OrdersOK
<1>5. OrdersOK'
      BY <1>2, <1>4 DEF IInv, CheckoutTypeOK, OrdersOK, InitiateCheckout, Phase,
                        Phases, Begun, IsPaid, rows
<1>6. Kept
      BY <1>3 DEF IInv, CheckoutTypeOK, Kept, InitiateCheckout, Begun, Past,
                  Credited, IsPaid, rows
<1>7. PaidIsOrdered'
      BY <1>3 DEF IInv, CheckoutTypeOK, PaidIsOrdered, InitiateCheckout, IsPaid,
                  rows
<1>8. RecordedIsServed'
      BY DEF IInv, RecordedIsServed, InitiateCheckout, rows
<1> QED BY <1>1, <1>5, <1>6, <1>7, <1>8, OtherStepOK DEF InitiateCheckout

\* The request's other steps touch no row.
LEMMA RequestOK ==
    ASSUME IInv, NEW s \in Subs,
           ScheduleTrial(s) \/ ScheduleExpiry(s) \/ CreationFails(s)
    PROVE  IInv'
<1> DEFINE next == creating[s] # "none" /\ creating' = [creating EXCEPT ![s] = "done"]
<1>1. next /\ UNCHANGED <<rows, provider, session>>
      BY DEF ScheduleTrial, ScheduleExpiry, CreationFails, Phase
<1>2. CheckoutTypeOK'
  <2>1. /\ timer' \in [Subs -> {"none", "expiry", "trial"}]
        /\ creating' \in [Subs -> Phases]
        BY <1>1 DEF IInv, CheckoutTypeOK, ScheduleTrial, ScheduleExpiry,
                    CreationFails, Phases
  <2>2. aborts' \in 0..MaxAborts
        BY CheckoutAssumption DEF IInv, CheckoutTypeOK, ScheduleTrial,
           ScheduleExpiry, CreationFails
  <2> QED BY <1>1, <2>1, <2>2 DEF IInv, CheckoutTypeOK, rows, provider, session
<1>3. OrdersOK'
      BY <1>1 DEF IInv, CheckoutTypeOK, OrdersOK, Begun, IsPaid, rows, provider
<1>4. Kept
      BY <1>1 DEF Kept, Begun, Past, Credited, IsPaid, rows, provider
<1>5. PaidIsOrdered' /\ RecordedIsServed'
      BY <1>1 DEF IInv, PaidIsOrdered, RecordedIsServed, IsPaid, rows, provider
<1> QED BY <1>1, <1>2, <1>3, <1>4, <1>5, OtherStepOK

\* The customer acts on an order that waits: declined, it waits on.
LEMMA DeclinesOK ==
    ASSUME IInv, NEW s \in Subs, Declines(s)
    PROVE  IInv'
<1> DEFINE e == [sub |-> s, paid |-> FALSE]
<1>1. /\ order[s] = Waiting /\ sent' = sent \cup {e}
      /\ UNCHANGED <<rows, creating, timer, order, session, aborts>>
      BY DEF Declines
<1>2. e \in Events /\ e.sub = s /\ ~e.paid
      BY DEF Events
<1> HIDE DEF e
<1>3. CheckoutTypeOK'
      BY <1>1, <1>2 DEF IInv, CheckoutTypeOK, rows, session
<1>4. Waiting # Unordered
      BY DEF Waiting, Unordered
<1>5. OrdersOK'
      BY <1>1, <1>2, <1>4 DEF IInv, OrdersOK, Begun, IsPaid, rows
<1>6. Kept
      BY <1>1 DEF Kept, Begun, Past, Credited, IsPaid, rows
<1>7. PaidIsOrdered' /\ RecordedIsServed'
      BY <1>1 DEF IInv, PaidIsOrdered, RecordedIsServed, IsPaid, rows
<1> QED BY <1>1, <1>3, <1>5, <1>6, <1>7, OtherStepOK

\* Paid, it stays paid.
LEMMA PaysOK ==
    ASSUME IInv, NEW s \in Subs, NEW t \in Tokens, Pays(s, t)
    PROVE  IInv'
<1> DEFINE e == [sub |-> s, paid |-> TRUE]
<1>1. /\ order[s] = Waiting /\ order' = [order EXCEPT ![s] = t]
      /\ sent' = sent \cup {e}
      /\ UNCHANGED <<rows, creating, timer, session, aborts>>
      BY DEF Pays
<1>2. e \in Events /\ e.sub = s
      BY DEF Events
<1> HIDE DEF e
<1>3. CheckoutTypeOK'
      BY <1>1, <1>2 DEF IInv, CheckoutTypeOK, rows, session
<1>4. Waiting # Unordered /\ t # Unordered
      BY CheckoutAssumption DEF Waiting, Unordered
<1>5. OrdersOK'
      BY <1>1, <1>2, <1>4 DEF IInv, CheckoutTypeOK, OrdersOK, Begun, IsPaid, rows,
                              Events
<1>6. Kept
      BY <1>1 DEF IInv, CheckoutTypeOK, Kept, Begun, Past, Credited, IsPaid, rows
<1>7. PaidIsOrdered' /\ RecordedIsServed'
      BY <1>1 DEF IInv, CheckoutTypeOK, PaidIsOrdered, RecordedIsServed, IsPaid, rows
<1> QED BY <1>1, <1>3, <1>5, <1>6, <1>7, OtherStepOK

\* A card linked in the portal is never taken back.
LEMMA LinkCardOK ==
    ASSUME IInv, NEW s \in Subs, NEW t \in Tokens, LinkCard(s, t)
    PROVE  IInv'
<1>1. CheckoutTypeOK'
  <2>1. Owner[s] \in Customers /\ saved[Owner[s]] \in [Tokens -> Nat]
        BY CheckoutAssumption DEF IInv, CheckoutTypeOK
  <2>2. [saved[Owner[s]] EXCEPT ![t] = @ + 1] \in [Tokens -> Nat]
        BY <2>1
  <2>3. saved' = [saved EXCEPT ![Owner[s]] =
                      [saved[Owner[s]] EXCEPT ![t] = @ + 1]]
        BY <2>1 DEF LinkCard
  <2>4. saved' \in [Customers -> [Tokens -> Nat]]
        BY <2>2, <2>3 DEF IInv, CheckoutTypeOK
  <2> QED BY <2>4 DEF IInv, CheckoutTypeOK, LinkCard, provider, session
<1>2. OrdersOK' /\ Kept
      BY DEF IInv, OrdersOK, Kept, LinkCard, Begun, Past, Credited, IsPaid, provider
<1>3. PaidIsOrdered'
      BY DEF IInv, PaidIsOrdered, LinkCard, IsPaid, provider
<1>4. RecordedIsServed'
      BY DEF IInv, CheckoutTypeOK, RecordedIsServed, LinkCard, Events
<1> QED BY <1>1, <1>2, <1>3, <1>4, OtherStepOK DEF LinkCard
--------------------------------------------------------------------------
\* Sessions.  Those that write write one of two things.

\* A status a session writes is one that follows the first payment, and the
\* subscription it writes it to was created.
LEMMA WriteOK ==
    ASSUME IInv, NEW s \in Subs, Begun(s),
           NEW status \in SubscriptionStatus \ {"incomplete"}, Write(s, status),
           UNCHANGED <<invStatus, card, recorded, creating, provider>>
    PROVE  /\ OrdersOK' /\ Kept /\ PaidIsOrdered' /\ RecordedIsServed'
           /\ subStatus' \in [Subs -> Statuses] /\ Past(s)'
<1>1. status \notin {"none", "incomplete"} /\ status \in Statuses
      BY DEF SubscriptionStatus, Statuses
<1>2. subStatus' \in [Subs -> Statuses] /\ subStatus'[s] = status
      BY <1>1 DEF IInv, CheckoutTypeOK, Write
<1>3. Past(s)'
      BY <1>1, <1>2 DEF Past
<1>4. OrdersOK'
      BY <1>1 DEF IInv, CheckoutTypeOK, OrdersOK, Write, Begun, IsPaid, provider
<1>5. Kept
      BY <1>1 DEF IInv, CheckoutTypeOK, Kept, Write, Begun, Past, Credited, IsPaid,
                  provider
<1>6. PaidIsOrdered'
      BY DEF IInv, PaidIsOrdered, IsPaid, provider
<1>7. RecordedIsServed'
      BY <1>1 DEF IInv, CheckoutTypeOK, RecordedIsServed, Write, Events
<1> QED BY <1>2, <1>3, <1>4, <1>5, <1>6, <1>7

\* An invoice is marked paid for an order that was paid.
LEMMA CreditOK ==
    ASSUME IInv, NEW s \in Subs, Begun(s), IsPaid(s),
           invStatus' = [invStatus EXCEPT ![s] = "paid"],
           UNCHANGED <<subStatus, card, recorded, creating, provider>>
    PROVE  /\ OrdersOK' /\ Kept /\ PaidIsOrdered' /\ RecordedIsServed'
           /\ invStatus' \in [Subs -> RowStatus] /\ Credited(s)'
<1>1. invStatus' \in [Subs -> RowStatus] /\ Credited(s)'
      BY DEF IInv, CheckoutTypeOK, RowStatus, InvoiceStatus, Credited
<1>2. OrdersOK'
      BY DEF IInv, CheckoutTypeOK, OrdersOK, Begun, IsPaid, provider
<1>3. Kept
      BY DEF IInv, CheckoutTypeOK, Kept, Begun, Past, Credited, IsPaid, provider
<1>4. PaidIsOrdered' /\ RecordedIsServed'
      BY DEF IInv, CheckoutTypeOK, PaidIsOrdered, RecordedIsServed, IsPaid,
             provider, Events
<1> QED BY <1>1, <1>2, <1>3, <1>4

\* What a session in the middle of its work holds.
LEMMA HoldsOK ==
    ASSUME IInv, NEW w \in Sessions, pc[w] # "idle"
    PROVE  /\ at[w] \in Events /\ at[w].sub \in Subs /\ Begun(at[w].sub)
           /\ SessionOK(w)
BY DEF IInv, AllSessionsOK, SessionOK, Events

\* A session that goes on moves itself alone.
LEMMA GotoOK ==
    ASSUME CheckoutTypeOK, NEW w \in Sessions, NEW point \in Points,
           Goto(w, point), UNCHANGED <<at, seenStatus, seenInvoice>>
    PROVE  /\ pc'[w] = point /\ pc' \in [Sessions -> Points]
           /\ \A v \in Sessions \ {w} : UNCHANGED <<pc[v], at[v], seenStatus[v]>>
BY DEF CheckoutTypeOK, Goto
--------------------------------------------------------------------------
\* A delivery of the provider's webhook.

LEMMA HookReadOK ==
    ASSUME IInv, NEW w \in Hooks, NEW e \in Events, HookRead(w, e)
    PROVE  IInv'
<1> DEFINE point == FirstHookStep(e)
<1> w \in Sessions
      BY DEF Sessions
<1>1. /\ e \in sent /\ e.sub \in Subs /\ order[e.sub] # Unordered
      /\ Load(w, e, point)
      /\ UNCHANGED <<rows, creating, timer, provider, aborts>>
      BY DEF HookRead, IInv, OrdersOK, Events
<1>2. /\ point \in Points
      /\ e.paid => point \in {"pay", "clear"}
                   /\ (point = "clear" => Credited(e.sub))
      /\ ~e.paid => point \in DeclinedPoints
      BY DEF FirstHookStep, Points, DeclinedPoints, Credited
<1> HIDE DEF point
<1>3. Begun(e.sub)
      BY <1>1 DEF IInv, OrdersOK
<1>4. CheckoutTypeOK'
      BY <1>1, <1>2, LoadOK DEF IInv, CheckoutTypeOK, rows, provider
<1>5. OrdersOK' /\ Kept /\ PaidIsOrdered' /\ RecordedIsServed'
      BY <1>1, QuietOK DEF rows
<1>6. pc'[w] = point /\ at'[w] = e /\ seenStatus'[w] = subStatus[e.sub]
      BY <1>1, <1>2, LoadOK DEF IInv
<1>7. SessionOK(w)'
  <2>1. UNCHANGED <<subStatus, invStatus, order, sent>>
        BY <1>1 DEF rows, provider
  <2>2. CASE e.paid
        BY <1>1, <1>2, <1>3, <1>6, <2>1, <2>2 DEF SessionOK, PaidPoints,
           DeclinedPoints, Begun, Past, Credited, IsPaid
  <2>3. CASE ~e.paid
        BY <1>1, <1>2, <1>3, <1>6, <2>1, <2>3 DEF SessionOK, PaidPoints,
           DeclinedPoints, Begun, Past, Credited, IsPaid
  <2> QED BY <2>2, <2>3
<1> QED BY <1>1, <1>2, <1>4, <1>5, <1>7, LoadOK, SessionStepOK DEF IInv

LEMMA HookPayOK ==
    ASSUME IInv, NEW w \in Sessions, HookPay(w)
    PROVE  IInv'
<1>1. pc[w] = "pay"
      BY DEF HookPay
<1>2. /\ at[w] \in Events /\ at[w].sub \in Subs /\ Begun(at[w].sub)
      /\ SessionOK(w)
      BY <1>1, HoldsOK
<1>3. IsPaid(at[w].sub)
      BY <1>1, <1>2 DEF SessionOK, PaidPoints, IInv, OrdersOK
<1>4. /\ OrdersOK' /\ Kept /\ PaidIsOrdered' /\ RecordedIsServed'
      /\ invStatus' \in [Subs -> RowStatus] /\ Credited(at[w].sub)'
      BY <1>2, <1>3, CreditOK DEF HookPay
<1>5. /\ pc'[w] = "clear" /\ pc' \in [Sessions -> Points]
      /\ \A v \in Sessions \ {w} : UNCHANGED <<pc[v], at[v], seenStatus[v]>>
      BY GotoOK DEF HookPay, IInv, Points
<1>6. CheckoutTypeOK'
      BY <1>4, <1>5 DEF IInv, CheckoutTypeOK, HookPay, provider
<1>7. SessionOK(w)'
      BY <1>1, <1>2, <1>4, <1>5 DEF HookPay, SessionOK, PaidPoints, DeclinedPoints,
         Begun, Past, Credited, IsPaid, provider
<1> QED BY <1>4, <1>5, <1>6, <1>7, SessionStepOK

LEMMA HookClearOK ==
    ASSUME IInv, NEW w \in Sessions, HookClear(w)
    PROVE  IInv'
<1> DEFINE point == IF seenStatus[w] \in {"incomplete", "past_due"}
                    THEN "activate" ELSE "save"
<1>1. pc[w] = "clear" /\ Goto(w, point) /\ UNCHANGED <<at, seenStatus, seenInvoice>>
      BY DEF HookClear
<1>2. /\ at[w] \in Events /\ at[w].sub \in Subs /\ Begun(at[w].sub)
      /\ SessionOK(w)
      BY <1>1, HoldsOK
<1>3. /\ point \in {"activate", "save"} /\ point \in Points
      /\ point = "save" => seenStatus[w] # "incomplete"
      BY DEF Points
<1> HIDE DEF point
<1>4. OrdersOK' /\ Kept /\ PaidIsOrdered' /\ RecordedIsServed'
      BY QuietOK DEF HookClear
<1>5. /\ pc'[w] = point /\ pc' \in [Sessions -> Points]
      /\ \A v \in Sessions \ {w} : UNCHANGED <<pc[v], at[v], seenStatus[v]>>
      BY <1>1, <1>3, GotoOK DEF IInv
<1>6. CheckoutTypeOK'
      BY <1>2, <1>5 DEF IInv, CheckoutTypeOK, HookClear, provider
<1>7. SessionOK(w)'
      BY <1>1, <1>2, <1>3, <1>5 DEF HookClear, SessionOK, PaidPoints,
         DeclinedPoints, Begun, Past, Credited, IsPaid, provider
<1> QED BY <1>4, <1>5, <1>6, <1>7, SessionStepOK

LEMMA HookActivateOK ==
    ASSUME IInv, NEW w \in Sessions, HookActivate(w)
    PROVE  IInv'
<1>1. pc[w] = "activate"
      BY DEF HookActivate
<1>2. /\ at[w] \in Events /\ at[w].sub \in Subs /\ Begun(at[w].sub)
      /\ SessionOK(w)
      BY <1>1, HoldsOK
<1>3. "active" \in SubscriptionStatus \ {"incomplete"}
      BY DEF SubscriptionStatus
<1>4. /\ OrdersOK' /\ Kept /\ PaidIsOrdered' /\ RecordedIsServed'
      /\ subStatus' \in [Subs -> Statuses] /\ Past(at[w].sub)'
      BY <1>2, <1>3, WriteOK DEF HookActivate
<1>5. /\ pc'[w] = "save" /\ pc' \in [Sessions -> Points]
      /\ \A v \in Sessions \ {w} : UNCHANGED <<pc[v], at[v], seenStatus[v]>>
      BY GotoOK DEF HookActivate, IInv, Points
<1>6. CheckoutTypeOK'
      BY <1>4, <1>5 DEF IInv, CheckoutTypeOK, HookActivate, provider
<1>7. SessionOK(w)'
      BY <1>1, <1>2, <1>4, <1>5 DEF HookActivate, SessionOK, PaidPoints,
         DeclinedPoints, Begun, Past, Credited, IsPaid, provider
<1> QED BY <1>4, <1>5, <1>6, <1>7, SessionStepOK

\* The card is linked in the transaction that records the event.
LEMMA HookSaveOK ==
    ASSUME IInv, NEW w \in Sessions, HookSave(w)
    PROVE  IInv'
<1> DEFINE e == at[w]
           s == e.sub
<1>1. pc[w] = "save" /\ Close(w)
      /\ UNCHANGED <<subStatus, period, invStatus, retrySet, creating, timer,
                     provider, aborts>>
      BY DEF HookSave
<1>2. e \in Events /\ s \in Subs /\ SessionOK(w)
      BY <1>1, HoldsOK
<1>3. e \in sent /\ e.paid /\ Credited(s) /\ Past(s)
      BY <1>1, <1>2 DEF SessionOK, PaidPoints
<1>4. SessionOK(w)' /\ \A v \in Sessions \ {w} : UNCHANGED <<pc[v], at[v], seenStatus[v]>>
      BY <1>1, CloseOK DEF IInv
<1>5. Kept
      BY <1>1 DEF Kept, Begun, Past, Credited, IsPaid, provider
<1>6. PaidIsOrdered'
      BY <1>1 DEF IInv, PaidIsOrdered, IsPaid, provider
<1>7. CASE Saves(e)
  <2>1. /\ saved' = [saved EXCEPT ![Owner[s]][order[s]] = 1]
        /\ card' = [card EXCEPT ![s] = TRUE]
        /\ recorded' = recorded \cup {e}
        BY <1>7 DEF HookSave
  <2>2. saved' \in [Customers -> [Tokens -> Nat]]
    <3>1. Owner[s] \in Customers /\ order[s] \in Tokens
          BY <1>2, <1>3, CheckoutAssumption DEF IInv, OrdersOK, IsPaid
    <3>2. saved[Owner[s]] \in [Tokens -> Nat]
          BY <3>1 DEF IInv, CheckoutTypeOK
    <3>3. [saved[Owner[s]] EXCEPT ![order[s]] = 1] \in [Tokens -> Nat]
          BY <3>1, <3>2
    <3>4. saved' = [saved EXCEPT ![Owner[s]] =
                        [saved[Owner[s]] EXCEPT ![order[s]] = 1]]
          BY <2>1
    <3> QED BY <3>3, <3>4 DEF IInv, CheckoutTypeOK
  <2>3. CheckoutTypeOK'
        BY <1>1, <1>2, <2>1, <2>2, CloseOK DEF IInv, CheckoutTypeOK, provider
  <2>4. OrdersOK'
        BY <1>1, <1>3, <2>1 DEF IInv, OrdersOK, Begun, IsPaid, provider
  <2>5. RecordedIsServed'
    <3> SUFFICES ASSUME NEW f \in recorded', f.paid
                 PROVE  /\ invStatus'[f.sub] = "paid"
                        /\ subStatus'[f.sub] # "incomplete"
                        /\ card'[f.sub]
          BY DEF RecordedIsServed
    <3>1. CASE f = e
          BY <1>1, <1>2, <1>3, <2>1, <3>1 DEF IInv, CheckoutTypeOK, Credited, Past
    <3>2. CASE f # e
      <4>1. f \in recorded /\ f.sub \in Subs
            BY <2>1, <3>2 DEF IInv, CheckoutTypeOK, Events
      <4> QED BY <1>1, <2>1, <4>1 DEF IInv, CheckoutTypeOK, RecordedIsServed
    <3> QED BY <3>1, <3>2
  <2> QED BY <1>4, <1>5, <1>6, <2>3, <2>4, <2>5, SessionStepOK
<1>8. CASE ~Saves(e)
  <2>1. UNCHANGED <<saved, card, recorded>>
        BY <1>8 DEF HookSave
  <2>2. CheckoutTypeOK'
        BY <1>1, <2>1, CloseOK DEF IInv, CheckoutTypeOK, provider
  <2>3. OrdersOK' /\ RecordedIsServed'
        BY <1>1, <2>1, QuietOK
  <2> QED BY <1>4, <1>5, <1>6, <2>2, <2>3, SessionStepOK
<1> QED BY <1>7, <1>8

LEMMA HookPastDueOK ==
    ASSUME IInv, NEW w \in Sessions, HookPastDue(w)
    PROVE  IInv'
<1>1. pc[w] = "past_due"
      BY DEF HookPastDue
<1>2. /\ at[w] \in Events /\ at[w].sub \in Subs /\ Begun(at[w].sub)
      /\ SessionOK(w)
      BY <1>1, HoldsOK
<1>3. "past_due" \in SubscriptionStatus \ {"incomplete"}
      BY DEF SubscriptionStatus
<1>4. /\ OrdersOK' /\ Kept /\ PaidIsOrdered' /\ RecordedIsServed'
      /\ subStatus' \in [Subs -> Statuses] /\ Past(at[w].sub)'
      BY <1>2, <1>3, WriteOK DEF HookPastDue
<1>5. /\ pc'[w] = "schedule" /\ pc' \in [Sessions -> Points]
      /\ \A v \in Sessions \ {w} : UNCHANGED <<pc[v], at[v], seenStatus[v]>>
      BY GotoOK DEF HookPastDue, IInv, Points
<1>6. CheckoutTypeOK'
      BY <1>4, <1>5 DEF IInv, CheckoutTypeOK, HookPastDue, provider
<1>7. SessionOK(w)'
      BY <1>1, <1>2, <1>4, <1>5 DEF HookPastDue, SessionOK, PaidPoints,
         DeclinedPoints, Begun, Past, provider
<1> QED BY <1>4, <1>5, <1>6, <1>7, SessionStepOK

LEMMA HookScheduleOK ==
    ASSUME IInv, NEW w \in Sessions, HookSchedule(w)
    PROVE  IInv'
<1>1. pc[w] = "schedule"
      BY DEF HookSchedule
<1>2. /\ at[w] \in Events /\ at[w].sub \in Subs /\ Begun(at[w].sub)
      /\ SessionOK(w)
      BY <1>1, HoldsOK
<1>3. OrdersOK' /\ Kept /\ PaidIsOrdered' /\ RecordedIsServed'
      BY QuietOK DEF HookSchedule
<1>4. /\ pc'[w] = "record" /\ pc' \in [Sessions -> Points]
      /\ \A v \in Sessions \ {w} : UNCHANGED <<pc[v], at[v], seenStatus[v]>>
      BY GotoOK DEF HookSchedule, IInv, Points
<1>5. CheckoutTypeOK'
      BY <1>4 DEF IInv, CheckoutTypeOK, HookSchedule, provider
<1>6. SessionOK(w)'
      BY <1>1, <1>2, <1>4 DEF HookSchedule, SessionOK, PaidPoints, DeclinedPoints,
         Begun, provider
<1> QED BY <1>3, <1>4, <1>5, <1>6, SessionStepOK

\* Only a declined event is recorded without a card.
LEMMA HookRecordOK ==
    ASSUME IInv, NEW w \in Sessions, HookRecord(w)
    PROVE  IInv'
<1>1. /\ pc[w] = "record" /\ recorded' = recorded \cup {at[w]} /\ Close(w)
      /\ UNCHANGED <<subStatus, period, card, invStatus, retrySet, saved, creating,
                     timer, provider, aborts>>
      BY DEF HookRecord
<1>2. at[w] \in Events /\ at[w] \in sent /\ ~at[w].paid
      BY <1>1, HoldsOK DEF SessionOK, DeclinedPoints
<1>3. CheckoutTypeOK'
      BY <1>1, <1>2, CloseOK DEF IInv, CheckoutTypeOK, provider
<1>4. OrdersOK'
      BY <1>1, <1>2 DEF IInv, OrdersOK, Begun, IsPaid, provider
<1>5. Kept
      BY <1>1 DEF Kept, Begun, Past, Credited, IsPaid, provider
<1>6. PaidIsOrdered' /\ RecordedIsServed'
      BY <1>1, <1>2 DEF IInv, PaidIsOrdered, RecordedIsServed, IsPaid, provider
<1> QED BY <1>1, <1>3, <1>4, <1>5, <1>6, CloseOK, SessionStepOK DEF IInv
--------------------------------------------------------------------------
\* verify-checkout.

\* The provider is asked, and the answer believed only when it says paid.
LEMMA VerifyReadOK ==
    ASSUME IInv, NEW w \in Verifiers, NEW s \in Subs, VerifyRead(w, s)
    PROVE  IInv'
<1> DEFINE e == [sub |-> s, paid |-> TRUE]
<1> w \in Sessions
      BY DEF Sessions
<1>1. e \in Events /\ e.sub = s /\ "ask" \in Points
      BY DEF Events, Points
<1> HIDE DEF e
<1>2. invStatus[s] = "open" /\ Load(w, e, "ask")
      /\ UNCHANGED <<rows, creating, timer, provider, aborts>>
      BY DEF VerifyRead, e
<1>3. Begun(s)
      BY <1>2 DEF IInv, OrdersOK
<1>4. CheckoutTypeOK'
      BY <1>1, <1>2, LoadOK DEF IInv, CheckoutTypeOK, rows, provider
<1>5. OrdersOK' /\ Kept /\ PaidIsOrdered' /\ RecordedIsServed'
      BY <1>2, QuietOK DEF rows
<1>6. pc'[w] = "ask" /\ at'[w] = e
      BY <1>1, <1>2, LoadOK DEF IInv
<1>7. SessionOK(w)'
      BY <1>1, <1>2, <1>3, <1>6 DEF SessionOK, PaidPoints, DeclinedPoints, Begun,
         rows
<1> QED BY <1>1, <1>2, <1>4, <1>5, <1>7, LoadOK, SessionStepOK DEF IInv

LEMMA VerifyAskOK ==
    ASSUME IInv, NEW w \in Sessions, VerifyAsk(w)
    PROVE  IInv'
<1>1. pc[w] = "ask" /\ UNCHANGED <<rows, creating, timer, provider, aborts>>
      BY DEF VerifyAsk
<1>2. /\ at[w] \in Events /\ at[w].sub \in Subs /\ Begun(at[w].sub)
      BY <1>1, HoldsOK
<1>3. OrdersOK' /\ Kept /\ PaidIsOrdered' /\ RecordedIsServed'
      BY <1>1, QuietOK DEF rows
<1>4. CASE IsPaid(at[w].sub)
  <2>1. Goto(w, "settle") /\ UNCHANGED <<at, seenStatus, seenInvoice>>
        BY <1>4 DEF VerifyAsk
  <2>2. /\ pc'[w] = "settle" /\ pc' \in [Sessions -> Points]
        /\ \A v \in Sessions \ {w} : UNCHANGED <<pc[v], at[v], seenStatus[v]>>
        BY <2>1, GotoOK DEF IInv, Points
  <2>3. CheckoutTypeOK'
        BY <1>1, <2>1, <2>2 DEF IInv, CheckoutTypeOK, rows, provider
  <2>4. SessionOK(w)'
        BY <1>1, <1>2, <1>4, <2>1, <2>2 DEF SessionOK, PaidPoints, DeclinedPoints,
           Begun, IsPaid, rows, provider
  <2> QED BY <1>3, <2>2, <2>3, <2>4, SessionStepOK
<1>5. CASE ~IsPaid(at[w].sub)
  <2>1. Close(w)
        BY <1>5 DEF VerifyAsk
  <2>2. CheckoutTypeOK'
        BY <1>1, <2>1, CloseOK DEF IInv, CheckoutTypeOK, rows, provider
  <2> QED BY <1>3, <2>1, <2>2, CloseOK, SessionStepOK DEF IInv
<1> QED BY <1>4, <1>5

LEMMA VerifySettleOK ==
    ASSUME IInv, NEW w \in Sessions, VerifySettle(w)
    PROVE  IInv'
<1>1. pc[w] = "settle"
      BY DEF VerifySettle
<1>2. /\ at[w] \in Events /\ at[w].sub \in Subs /\ Begun(at[w].sub)
      /\ SessionOK(w)
      BY <1>1, HoldsOK
<1>3. IsPaid(at[w].sub)
      BY <1>1, <1>2 DEF SessionOK
<1>4. /\ OrdersOK' /\ Kept /\ PaidIsOrdered' /\ RecordedIsServed'
      /\ invStatus' \in [Subs -> RowStatus] /\ Credited(at[w].sub)'
      BY <1>2, <1>3, CreditOK DEF VerifySettle
<1>5. /\ pc'[w] = "load" /\ pc' \in [Sessions -> Points]
      /\ \A v \in Sessions \ {w} : UNCHANGED <<pc[v], at[v], seenStatus[v]>>
      BY GotoOK DEF VerifySettle, IInv, Points
<1>6. CheckoutTypeOK'
      BY <1>4, <1>5 DEF IInv, CheckoutTypeOK, VerifySettle, provider
<1>7. SessionOK(w)'
      BY <1>2, <1>3, <1>4, <1>5 DEF VerifySettle, SessionOK, PaidPoints,
         DeclinedPoints, Begun, IsPaid, Credited, provider
<1> QED BY <1>4, <1>5, <1>6, <1>7, SessionStepOK

LEMMA VerifyLoadOK ==
    ASSUME IInv, NEW w \in Sessions, VerifyLoad(w)
    PROVE  IInv'
<1>1. pc[w] = "load" /\ UNCHANGED <<rows, creating, timer, provider, aborts>>
      BY DEF VerifyLoad
<1>2. /\ at[w] \in Events /\ at[w].sub \in Subs /\ Begun(at[w].sub)
      /\ SessionOK(w)
      BY <1>1, HoldsOK
<1>3. OrdersOK' /\ Kept /\ PaidIsOrdered' /\ RecordedIsServed'
      BY <1>1, QuietOK DEF rows
<1>4. CASE Load(w, at[w], "verify")
  <2>1. "verify" \in Points
        BY DEF Points
  <2>2. /\ pc'[w] = "verify" /\ at'[w] = at[w] /\ pc' \in [Sessions -> Points]
        /\ \A v \in Sessions \ {w} : UNCHANGED <<pc[v], at[v], seenStatus[v]>>
        BY <1>2, <1>4, <2>1, LoadOK DEF IInv
  <2>3. CheckoutTypeOK'
        BY <1>1, <1>2, <1>4, <2>1, LoadOK DEF IInv, CheckoutTypeOK, rows, provider
  <2>4. SessionOK(w)'
        BY <1>1, <1>2, <2>2 DEF SessionOK, PaidPoints, DeclinedPoints, Begun,
           Credited, rows
  <2> QED BY <1>3, <2>2, <2>3, <2>4, SessionStepOK
<1>5. CASE Close(w)
  <2>1. CheckoutTypeOK'
        BY <1>1, <1>5, CloseOK DEF IInv, CheckoutTypeOK, rows, provider
  <2> QED BY <1>3, <1>5, <2>1, CloseOK, SessionStepOK DEF IInv
<1> QED BY <1>4, <1>5 DEF VerifyLoad
--------------------------------------------------------------------------
\* The last commit of verify-checkout, and the deferred jobs.

\* A session that ends with a status written.
LEMMA LastWriteOK ==
    ASSUME IInv, NEW w \in Sessions, pc[w] # "idle",
           NEW status \in {"active", "incomplete_expired", "paused"},
           Write(at[w].sub, status), Close(w),
           period' \in [Subs -> BOOLEAN],
           UNCHANGED <<card, invStatus, retrySet, saved, recorded, creating, timer,
                       provider, aborts>>
    PROVE  IInv'
<1>1. at[w].sub \in Subs /\ Begun(at[w].sub)
      BY HoldsOK
<1>2. status \in SubscriptionStatus \ {"incomplete"}
      BY DEF SubscriptionStatus
<1>3. /\ OrdersOK' /\ Kept /\ PaidIsOrdered' /\ RecordedIsServed'
      /\ subStatus' \in [Subs -> Statuses]
      BY <1>1, <1>2, WriteOK
<1>4. CheckoutTypeOK'
      BY <1>3, CloseOK DEF IInv, CheckoutTypeOK, provider
<1> QED BY <1>3, <1>4, CloseOK, SessionStepOK DEF IInv

LEMMA LastStepsOK ==
    ASSUME IInv, NEW w \in Sessions,
           \/ VerifyActivate(w) \/ ExpireCommit(w)
           \/ TrialConvert(w) \/ TrialLapse(w)
    PROVE  IInv'
<1>1. CASE VerifyActivate(w)
      BY <1>1, LastWriteOK DEF VerifyActivate, IInv, CheckoutTypeOK
<1>2. CASE ExpireCommit(w)
      BY <1>2, LastWriteOK DEF ExpireCommit, IInv, CheckoutTypeOK
<1>3. CASE TrialConvert(w)
  <2>1. period' \in [Subs -> BOOLEAN]
        BY <1>3 DEF TrialConvert, IInv, CheckoutTypeOK
  <2> QED BY <1>3, <2>1, LastWriteOK DEF TrialConvert
<1>4. CASE TrialLapse(w)
      BY <1>4, LastWriteOK DEF TrialLapse, IInv, CheckoutTypeOK
<1> QED BY <1>1, <1>2, <1>3, <1>4

\* A deferred job starts with a subscription that was created; a trial that
\* converts is past its first payment.
LEMMA JobReadOK ==
    ASSUME IInv, NEW w \in Timers, NEW s \in Subs,
           ExpireRead(w, s) \/ TrialRead(w, s)
    PROVE  IInv'
<1> DEFINE e == [sub |-> s, paid |-> FALSE]
<1> w \in Sessions
      BY DEF Sessions
<1>1. e \in Events /\ e.sub = s
      BY DEF Events
<1>2. /\ UNCHANGED <<rows, creating, provider, aborts>>
      /\ timer' = [timer EXCEPT ![s] = "none"]
      BY DEF ExpireRead, TrialRead
<1>3. OrdersOK' /\ Kept /\ PaidIsOrdered' /\ RecordedIsServed'
      BY <1>2, QuietOK DEF rows
<1>4. CASE UNCHANGED session
  <2>1. CheckoutTypeOK'
        BY <1>2, <1>4 DEF IInv, CheckoutTypeOK, rows, provider, session
  <2> QED BY <1>3, <1>4, <2>1, OtherStepOK
<1>5. ASSUME NEW point \in {"expire", "convert", "lapse"}, Load(w, e, point),
             Begun(s), point = "convert" => Past(s)
      PROVE  IInv'
  <2> HIDE DEF e
  <2>1. point \in Points
        BY DEF Points
  <2>2. /\ pc'[w] = point /\ at'[w] = e
        /\ \A v \in Sessions \ {w} : UNCHANGED <<pc[v], at[v], seenStatus[v]>>
        BY <1>1, <1>5, <2>1, LoadOK DEF IInv
  <2>3. CheckoutTypeOK'
        BY <1>1, <1>2, <1>5, <2>1, LoadOK DEF IInv, CheckoutTypeOK, rows, provider
  <2>4. SessionOK(w)'
        BY <1>1, <1>2, <1>5, <2>2 DEF SessionOK, PaidPoints, DeclinedPoints, Begun,
           Past, rows
  <2> QED BY <1>3, <2>2, <2>3, <2>4, SessionStepOK
<1>6. CASE ExpireRead(w, s) /\ ~UNCHANGED session
  <2>1. Load(w, e, "expire") /\ subStatus[s] = "incomplete"
        BY <1>6 DEF ExpireRead
  <2> HIDE DEF e
  <2> QED BY <1>5, <2>1 DEF Begun
<1>7. CASE TrialRead(w, s) /\ ~UNCHANGED session
  <2>1. /\ Load(w, e, IF card[s] THEN "convert" ELSE "lapse")
        /\ subStatus[s] = "trialing"
        BY <1>7 DEF TrialRead
  <2> HIDE DEF e
  <2>2. CASE card[s]
        BY <1>5, <2>1, <2>2 DEF Begun, Past
  <2>3. CASE ~card[s]
        BY <1>5, <2>1, <2>3 DEF Begun, Past
  <2> QED BY <2>2, <2>3
<1> QED BY <1>4, <1>6, <1>7

\* A session cut short leaves what it committed.
LEMMA SessionFailsOK ==
    ASSUME IInv, NEW w \in Sessions, SessionFails(w)
    PROVE  IInv'
<1>1. Close(w) /\ UNCHANGED <<rows, creating, timer, provider>>
      BY DEF SessionFails
<1>2. OrdersOK' /\ Kept /\ PaidIsOrdered' /\ RecordedIsServed'
      BY <1>1, QuietOK DEF rows
<1>3. aborts' \in 0..MaxAborts
      BY CheckoutAssumption DEF SessionFails, IInv, CheckoutTypeOK
<1>4. CheckoutTypeOK'
      BY <1>1, <1>3, CloseOK DEF IInv, CheckoutTypeOK, rows, provider
<1> QED BY <1>1, <1>2, <1>4, CloseOK, SessionStepOK DEF IInv
--------------------------------------------------------------------------
\* The specification.

LEMMA InitOK == Init => IInv
<1> SUFFICES ASSUME Init PROVE IInv
      OBVIOUS
<1>1. CheckoutTypeOK
      BY CheckoutAssumption DEF Init, CheckoutTypeOK, Statuses, RowStatus, Phases,
         Points
<1>2. OrdersOK /\ PaidIsOrdered /\ RecordedIsServed
      BY DEF Init, OrdersOK, Begun, PaidIsOrdered, RecordedIsServed
<1>3. AllSessionsOK
      BY DEF Init, AllSessionsOK, SessionOK, PaidPoints, DeclinedPoints
<1> QED BY <1>1, <1>2, <1>3 DEF IInv

LEMMA NextOK == IInv /\ [Next]_vars => IInv'
<1> SUFFICES ASSUME IInv, [Next]_vars PROVE IInv'
      OBVIOUS
<1>1. ASSUME NEW s \in Subs, NEW kind \in Kinds, NEW hasCard \in BOOLEAN,
             Create(s, kind, hasCard)
      PROVE  IInv'
      BY <1>1, CreateOK
<1>2. ASSUME NEW s \in Subs, Creation(s) \/ CreationFails(s)
      PROVE  IInv'
      BY <1>2, CreateInvoiceOK, InitiateCheckoutOK, RequestOK DEF Creation
<1>3. ASSUME NEW s \in Subs, NEW t \in Tokens, Pays(s, t) \/ LinkCard(s, t)
      PROVE  IInv'
      BY <1>3, PaysOK, LinkCardOK
<1>4. ASSUME NEW s \in Subs, Declines(s)
      PROVE  IInv'
      BY <1>4, DeclinesOK
<1>5. ASSUME NEW w \in Hooks, Handle(w)
      PROVE  IInv'
      BY <1>5, HookPayOK, HookClearOK, HookActivateOK, HookSaveOK, HookPastDueOK,
         HookScheduleOK, HookRecordOK DEF Handle, Sessions
<1>6. ASSUME NEW w \in Hooks, NEW e \in Events, HookRead(w, e)
      PROVE  IInv'
      BY <1>6, HookReadOK
<1>7. ASSUME NEW w \in Verifiers, Verify(w) \/ \E s \in Subs : VerifyRead(w, s)
      PROVE  IInv'
      BY <1>7, VerifyReadOK, VerifyAskOK, VerifySettleOK, VerifyLoadOK, LastStepsOK
         DEF Verify, Sessions
<1>8. ASSUME NEW w \in Timers, Job(w)
      PROVE  IInv'
      BY <1>8, JobReadOK, LastStepsOK DEF Job, Sessions
<1>9. ASSUME NEW w \in Sessions, SessionFails(w)
      PROVE  IInv'
      BY <1>9, SessionFailsOK
<1>10. CASE UNCHANGED vars
  <2>1. CheckoutTypeOK'
        BY <1>10 DEF vars, IInv, CheckoutTypeOK
  <2>2. OrdersOK' /\ Kept /\ PaidIsOrdered' /\ RecordedIsServed'
        BY <1>10, QuietOK DEF vars, provider
  <2> QED BY <1>10, <2>1, <2>2, OtherStepOK DEF vars, session
<1> QED BY <1>1, <1>2, <1>3, <1>4, <1>5, <1>6, <1>7, <1>8, <1>9, <1>10 DEF Next

\* An event of the provider is recorded, and so never delivered again, only
\* when its invoice is paid, its subscription past the first payment and its
\* card linked: process_nomba_webhook records it in its last commit.
THEOREM RecordedMeansServed == Spec => []RecordedIsServed
<1>1. IInv => RecordedIsServed
      BY DEF IInv
<1> QED BY <1>1, InitOK, NextOK, PTL DEF Spec

\* No first invoice is marked paid, by the webhook or by verify-checkout, for
\* an order the customer has not paid.
THEOREM PaidMeansOrdered == Spec => []PaidIsOrdered
<1>1. IInv => PaidIsOrdered
      BY DEF IInv
<1> QED BY <1>1, InitOK, NextOK, PTL DEF Spec

\* Every row, event and session keeps its type.
THEOREM CheckoutTypeCorrect == Spec => []CheckoutTypeOK
<1>1. IInv => CheckoutTypeOK
      BY DEF IInv
<1> QED BY <1>1, InitOK, NextOK, PTL DEF Spec
--------------------------------------------------------------------------

\* Who makes a subscription active: a request that creates it so, a delivery,
\* verify-checkout, or a trial that ends.  Of these only a delivery and
\* verify-checkout meet one that is incomplete, and both marked its invoice
\* paid before.
LEMMA ActivationOK ==
    ASSUME IInv, [Next]_vars, NEW s \in Subs,
           subStatus[s] = "incomplete", subStatus'[s] = "active"
    PROVE  invStatus[s] = "paid"
<1>1. ~UNCHANGED subStatus /\ s \in DOMAIN subStatus
      BY DEF IInv, CheckoutTypeOK
<1>2. ASSUME NEW w \in Sessions, NEW status, pc[w] # "idle",
             Write(at[w].sub, status)
      PROVE  at[w].sub = s /\ status = "active" /\ SessionOK(w)
      BY <1>2, HoldsOK DEF Write, IInv, CheckoutTypeOK
<1>3. CASE \E r \in Subs, kind \in Kinds, hasCard \in BOOLEAN :
              Create(r, kind, hasCard)
  <2>1. PICK r \in Subs, kind \in Kinds, hasCard \in BOOLEAN :
            Create(r, kind, hasCard)
        BY <1>3
  <2>2. r = s
        BY <2>1 DEF Create, Write, IInv, CheckoutTypeOK
  <2>3. ~Begun(s)
        BY <2>1, <2>2 DEF Create, Phase, IInv, OrdersOK
  <2> QED BY <2>3 DEF Begun
<1>4. CASE \E r \in Subs : \/ Creation(r) \/ CreationFails(r) \/ Declines(r)
                           \/ \E t \in Tokens : Pays(r, t) \/ LinkCard(r, t)
      BY <1>1, <1>4 DEF Creation, CreationFails, Declines, Pays, LinkCard,
         ScheduleTrial, CreateInvoice, InitiateCheckout, ScheduleExpiry, rows
<1>5. CASE \E w \in Hooks : Handle(w) \/ \E e \in Events : HookRead(w, e)
  <2>1. PICK w \in Hooks : Handle(w) \/ \E e \in Events : HookRead(w, e)
        BY <1>5
  <2>2. w \in Sessions
        BY DEF Sessions
  <2>3. CASE HookActivate(w)
    <3>1. pc[w] = "activate" /\ Write(at[w].sub, "active")
          BY <2>3 DEF HookActivate
    <3>2. pc[w] # "idle"
          BY <3>1
    <3> QED BY <3>1, <3>2, <2>2, <1>2 DEF SessionOK, Credited
  <2>4. CASE HookPastDue(w)
    <3>1. pc[w] = "past_due" /\ Write(at[w].sub, "past_due")
          BY <2>4 DEF HookPastDue
    <3>2. pc[w] # "idle"
          BY <3>1
    <3>3. "past_due" = "active"
          BY <3>1, <3>2, <2>2, <1>2
    <3> QED BY <3>3
  <2>5. CASE ~HookActivate(w) /\ ~HookPastDue(w)
        BY <1>1, <2>1, <2>5 DEF Handle, HookRead, HookPay, HookClear, HookSave,
           HookSchedule, HookRecord, rows
  <2> QED BY <2>3, <2>4, <2>5
<1>6. CASE \E w \in Verifiers : Verify(w) \/ \E r \in Subs : VerifyRead(w, r)
  <2>1. PICK w \in Verifiers : Verify(w) \/ \E r \in Subs : VerifyRead(w, r)
        BY <1>6
  <2>2. w \in Sessions
        BY DEF Sessions
  <2>3. CASE VerifyActivate(w)
    <3>1. pc[w] = "verify" /\ Write(at[w].sub, "active")
          BY <2>3 DEF VerifyActivate
    <3>2. pc[w] # "idle"
          BY <3>1
    <3> QED BY <3>1, <3>2, <2>2, <1>2 DEF SessionOK, Credited
  <2>4. CASE ~VerifyActivate(w)
        BY <1>1, <2>1, <2>4 DEF Verify, VerifyRead, VerifyAsk, VerifySettle,
           VerifyLoad, rows
  <2> QED BY <2>3, <2>4
<1>7. CASE \E w \in Timers : Job(w)
  <2>1. PICK w \in Timers : Job(w)
        BY <1>7
  <2>2. w \in Sessions
        BY DEF Sessions
  <2>3. CASE TrialConvert(w)
    <3>1. pc[w] = "convert" /\ Write(at[w].sub, "active")
          BY <2>3 DEF TrialConvert
    <3>2. pc[w] # "idle"
          BY <3>1
    <3> QED BY <3>1, <3>2, <2>2, <1>2 DEF SessionOK, Past
  <2>4. CASE ExpireCommit(w)
    <3>1. pc[w] = "expire" /\ Write(at[w].sub, "incomplete_expired")
          BY <2>4 DEF ExpireCommit
    <3>2. pc[w] # "idle"
          BY <3>1
    <3>3. "incomplete_expired" = "active"
          BY <3>1, <3>2, <2>2, <1>2
    <3> QED BY <3>3
  <2>5. CASE TrialLapse(w)
    <3>1. pc[w] = "lapse" /\ Write(at[w].sub, "paused")
          BY <2>5 DEF TrialLapse
    <3>2. pc[w] # "idle"
          BY <3>1
    <3>3. "paused" = "active"
          BY <3>1, <3>2, <2>2, <1>2
    <3> QED BY <3>3
  <2>6. CASE \E r \in Subs : ExpireRead(w, r) \/ TrialRead(w, r)
        BY <1>1, <2>6 DEF ExpireRead, TrialRead, rows
  <2> QED BY <2>1, <2>3, <2>4, <2>5, <2>6 DEF Job
<1>8. CASE \E w \in Sessions : SessionFails(w)
      BY <1>1, <1>8 DEF SessionFails, rows
<1>9. CASE UNCHANGED vars
      BY <1>1, <1>9 DEF vars
<1> QED BY <1>3, <1>4, <1>5, <1>6, <1>7, <1>8, <1>9 DEF Next

\* A subscription leaves incomplete for active only when its first invoice was
\* marked paid before, in whatever order a delivery, its redelivery and
\* verify-checkout interleave.
THEOREM ActivationIsPaid == Spec => ActivatedByPayment
<1>1. IInv /\ [Next]_vars =>
        [\A s \in Subs : subStatus[s] = "incomplete" /\ subStatus'[s] = "active"
            => invStatus[s] = "paid"]_vars
      BY ActivationOK
<1> QED BY <1>1, InitOK, NextOK, PTL DEF Spec, ActivatedByPayment
==========================================================================
