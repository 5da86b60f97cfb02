------------------------- MODULE PlanBillingProofs -------------------------
(***************************************************************************)
(* Theorems about PlanBilling for every number of installments, sessions   *)
(* and faults: a subscription is completed only when every installment was *)
(* captured, and a change of plan costs what its days left are worth.      *)
(***************************************************************************)
EXTENDS PlanBilling, TLAPS

SessionRows ==
    [status : SubscriptionStatus, inv : [Bills -> RowStatus], tries : [Bills -> Nat],
     anchor : [Bills -> {"none"} \cup FailureReason]]

RowTypes ==
    /\ kind \in {"installment", "recurring"}
    /\ status \in SubscriptionStatus
    /\ plan \in Plans
    /\ card \in BOOLEAN
    /\ inv \in [Bills -> RowStatus]
    /\ due \in [Installments -> BOOLEAN]
    /\ tries \in [Bills -> Nat]
    /\ retries \in [Bills -> Nat]
    /\ nextRetry \in [Bills -> {"none", "waiting", "due"}]
    /\ anchor \in [Bills -> {"none"} \cup FailureReason]
    /\ change \in [Changes -> [swapped : BOOLEAN, from : Plans, to : Plans,
                               days : Int, total : Int]]
    /\ ledger \in [Bills -> [0 .. MaxAttempts -> Outcomes]]
    /\ lost \in 0 .. Losses /\ aborts \in 0 .. MaxAborts

SessionTypes ==
    /\ pc \in [Sessions -> ControlPoints]
    /\ todo \in [Sessions -> SUBSET Bills]
    /\ cur \in [Sessions -> Bills \cup {None}]
    /\ \A w \in Sessions : pc[w] \notin {"idle", "next", "create"} => cur[w] \in Bills
    /\ answer \in [Sessions -> Outcomes]
    /\ seen \in [Sessions -> SessionRows]

\* Every variable stays in its domain, and a session at work on an invoice has
\* one at hand.
PlanTypeOK == RowTypes /\ SessionTypes

\* An installment is open until it is paid, and a paid one was captured.
InstallmentsOK ==
    \A i \in Installments :
        /\ kind = "installment" => inv[i] \in {"open", "paid"}
        /\ inv[i] = "paid" => Captures(i) # {}

AllPaid == kind = "installment" /\ \A i \in Installments : inv[i] = "paid"

\* What a session is about to do is justified by rows that no other can undo.
WorkOK(w) ==
    /\ w \in Changes => cur[w] \in {w, None}
    /\ pc[w] = "record" =>
          /\ answer[w] # NoOutcome /\ seen[w].tries[cur[w]] \in 0 .. MaxAttempts
          /\ ledger[cur[w]][seen[w].tries[cur[w]]] = answer[w]
    /\ pc[w] = "fail" => answer[w] \in FailureReason
    /\ pc[w] = "pay" /\ cur[w] \in Installments => Captures(cur[w]) # {}
    /\ pc[w] = "complete" => AllPaid

PlanInv ==
    /\ PlanTypeOK
    /\ InstallmentsOK
    /\ status = "completed" => AllPaid
    /\ \A w \in Sessions : WorkOK(w)

\* A step of one session.
Frame(w) ==
    \A u \in Sessions : u # w =>
        pc'[u] = pc[u] /\ cur'[u] = cur[u] /\ answer'[u] = answer[u] /\ seen'[u] = seen[u]

\* What the provider settled and what is paid stays so.
Grows ==
    /\ kind' = kind
    /\ \A b \in Bills, k \in 0 .. MaxAttempts :
          ledger[b][k] # NoOutcome => ledger'[b][k] = ledger[b][k]
    /\ \A i \in Installments : inv[i] = "paid" => inv'[i] = "paid"
----------------------------------------------------------------------------
LEMMA Constants ==
    /\ Installments \subseteq Bills /\ Changes \subseteq Bills /\ None \notin Bills
    /\ Installments \cap Changes = {}
    /\ Jobs \subseteq Sessions /\ Retriers \subseteq Sessions /\ Changes \subseteq Sessions
    /\ Jobs \cap Changes = {} /\ Retriers \cap Changes = {}
    /\ Declines \subseteq FailureReason /\ NoOutcome \notin {Captured} \cup FailureReason
    /\ NoOutcome # Captured
    /\ "invalid_payment_method" \in FailureReason
BY PlanBillingAssumption DEF PlanBillingAssumption, Bills, Sessions, FailureReason, NoOutcome,
   Captured

LEMMA GrowsKeepsCaptures ==
    ASSUME Grows, NEW b \in Bills, Captures(b) # {}
    PROVE  Captures(b)' # {}
<1>1. PICK k \in 0 .. MaxAttempts : ledger[b][k] = Captured
    BY DEF Captures
<1>2. ledger'[b][k] = Captured
    BY <1>1, Constants DEF Grows
<1> QED BY <1>2 DEF Captures

\* A step of one session does not take the ground from under another.
LEMMA OthersKeep ==
    ASSUME PlanInv, Grows, NEW w \in Sessions, Frame(w), NEW u \in Sessions, u # w
    PROVE  WorkOK(u)'
<1>1. WorkOK(u) /\ (pc[u] \notin {"idle", "next", "create"} => cur[u] \in Bills)
    BY DEF PlanInv, PlanTypeOK, SessionTypes
<1>2. pc'[u] = pc[u] /\ cur'[u] = cur[u] /\ answer'[u] = answer[u] /\ seen'[u] = seen[u]
    BY DEF Frame
<1>3. pc[u] = "record" => ledger'[cur[u]][seen[u].tries[cur[u]]] = answer[u]
    BY <1>1 DEF WorkOK, Grows
<1>4. pc[u] = "pay" /\ cur[u] \in Installments => Captures(cur[u])' # {}
    BY <1>1, <1>2, GrowsKeepsCaptures, Constants DEF WorkOK, Captures
<1>5. AllPaid => AllPaid'
    BY DEF AllPaid, Grows
<1>6. pc[u] = "complete" => AllPaid'
    BY <1>1, <1>5 DEF WorkOK
<1> QED BY <1>1, <1>2, <1>3, <1>4, <1>6 DEF WorkOK, Captures

\* Steps that settle nothing and pay nothing.
LEMMA QuietStep ==
    ASSUME PlanInv, NEW w \in Sessions, Frame(w), PlanTypeOK', UNCHANGED <<kind, inv, ledger>>,
           WorkOK(w)', status' = "completed" => status = "completed" \/ pc[w] = "complete"
    PROVE  PlanInv'
<1>1. Grows
    BY DEF Grows
<1>2. \A u \in Sessions : WorkOK(u)'
    BY <1>1, OthersKeep
<1>3. InstallmentsOK'
    BY DEF PlanInv, InstallmentsOK, Captures
<1>4. status' = "completed" => AllPaid'
    BY DEF PlanInv, WorkOK, AllPaid
<1> QED BY <1>2, <1>3, <1>4 DEF PlanInv
----------------------------------------------------------------------------
(* How a session moves on. *)

LEMMA RowsTyped == ASSUME RowTypes PROVE Rows \in SessionRows
BY DEF RowTypes, Rows, SessionRows

LEMMA CloseMoves ==
    ASSUME PlanInv, NEW w \in Sessions, Close(w)
    PROVE  SessionTypes' /\ Frame(w) /\ WorkOK(w)'
<1>1. NoRows \in SessionRows
    BY DEF NoRows, SessionRows, SubscriptionStatus, RowStatus
<1>2. SessionTypes /\ cur' = [cur EXCEPT ![w] = None] /\ pc' = [pc EXCEPT ![w] = "idle"]
    BY DEF PlanInv, PlanTypeOK, Close, Goto
<1>3. SessionTypes'
    BY <1>1, <1>2 DEF SessionTypes, Close, ControlPoints, Outcomes, NoOutcome
<1>4. Frame(w)
    BY <1>2 DEF SessionTypes, Frame, Close
<1>5. WorkOK(w)'
    BY <1>2, Constants DEF SessionTypes, WorkOK
<1> QED BY <1>3, <1>4, <1>5

LEMMA NextItemMoves ==
    ASSUME PlanInv, NEW w \in Sessions, NEW remaining \in SUBSET Bills,
           NEW copy \in SessionRows, NextItem(w, remaining, copy)
    PROVE  SessionTypes' /\ Frame(w) /\ WorkOK(w)'
<1>1. CASE Close(w)
    BY <1>1, CloseMoves
<1>2. CASE /\ pc' = [pc EXCEPT ![w] = "next"] /\ todo' = [todo EXCEPT ![w] = remaining]
           /\ cur' = [cur EXCEPT ![w] = None] /\ answer' = [answer EXCEPT ![w] = NoOutcome]
           /\ seen' = [seen EXCEPT ![w] = copy]
  <2>1. SessionTypes
      BY DEF PlanInv, PlanTypeOK
  <2>2. SessionTypes'
      BY <1>2, <2>1 DEF SessionTypes, ControlPoints, Outcomes, NoOutcome
  <2>3. Frame(w)
      BY <1>2, <2>1 DEF SessionTypes, Frame
  <2>4. WorkOK(w)'
      BY <1>2, <2>1, Constants DEF SessionTypes, WorkOK
  <2> QED BY <2>2, <2>3, <2>4
<1> QED BY <1>1, <1>2 DEF NextItem, Goto

LEMMA EndItemMoves ==
    ASSUME PlanInv, NEW w \in Sessions, NEW remaining \in SUBSET Bills, EndItem(w, remaining)
    PROVE  SessionTypes' /\ Frame(w) /\ WorkOK(w)'
<1>1. seen[w] \in SessionRows
    BY DEF PlanInv, PlanTypeOK, SessionTypes
<1> QED BY <1>1, NextItemMoves DEF EndItem

LEMMA WaysToEnd ==
    ASSUME PlanInv, NEW w \in Sessions, Close(w) \/ EndItem(w, todo[w])
    PROVE  SessionTypes' /\ Frame(w) /\ WorkOK(w)'
<1>1. todo[w] \in SUBSET Bills
    BY DEF PlanInv, PlanTypeOK, SessionTypes
<1> QED BY <1>1, CloseMoves, EndItemMoves

LEMMA ContinueMoves ==
    ASSUME PlanInv, NEW w \in Sessions, NEW point \in ControlPoints, cur[w] \in Bills,
           NEW copy \in SessionRows, Continue(w, point), seen' = [seen EXCEPT ![w] = copy]
    PROVE  /\ SessionTypes' /\ Frame(w)
           /\ pc'[w] = point /\ UNCHANGED <<cur, answer>>
<1>1. /\ SessionTypes /\ pc' = [pc EXCEPT ![w] = point] /\ UNCHANGED <<todo, cur, answer>>
    BY DEF PlanInv, PlanTypeOK, Continue, Goto
<1>2. SessionTypes'
    BY <1>1 DEF SessionTypes
<1>3. Frame(w)
    BY <1>1 DEF SessionTypes, Frame
<1> QED BY <1>1, <1>2, <1>3 DEF SessionTypes

\* ... with the rows it has.
LEMMA ContinueKeeps ==
    ASSUME PlanInv, NEW w \in Sessions, NEW point \in ControlPoints, cur[w] \in Bills,
           Continue(w, point), UNCHANGED seen
    PROVE  /\ SessionTypes' /\ Frame(w)
           /\ pc'[w] = point /\ UNCHANGED <<cur, answer>>
<1>1. seen[w] \in SessionRows /\ seen' = [seen EXCEPT ![w] = seen[w]]
    BY DEF PlanInv, PlanTypeOK, SessionTypes
<1> QED BY <1>1, ContinueMoves

\* Points at which nothing is yet decided about an invoice.
LEMMA FreePoints ==
    ASSUME PlanInv, NEW w \in Sessions, cur' = cur,
           pc'[w] \notin {"record", "fail", "pay", "complete"}
    PROVE  WorkOK(w)'
BY DEF PlanInv, WorkOK

LEMMA AtHand ==
    ASSUME PlanInv, NEW w \in Sessions, pc[w] \notin {"idle", "next", "create"}
    PROVE  cur[w] \in Bills
BY DEF PlanInv, PlanTypeOK, SessionTypes
----------------------------------------------------------------------------
(* One lemma per operation. *)

LEMMA JobSelectOK ==
    ASSUME PlanInv, NEW w \in Jobs, JobSelect(w)
    PROVE  PlanInv'
<1>1. w \in Sessions /\ PlanTypeOK
    BY Constants DEF PlanInv
<1>2. /\ pc' = [pc EXCEPT ![w] = "next"] /\ todo' = [todo EXCEPT ![w] = DueInstallments]
      /\ seen' = [seen EXCEPT ![w] = Rows]
      /\ UNCHANGED <<kind, status, plan, card, inv, due, tries, retries, nextRetry, anchor, change,
                     ledger, cur, answer, lost, aborts>>
    BY DEF JobSelect, Goto, subscription, invoices, faults
<1>3. Rows \in SessionRows /\ DueInstallments \subseteq Bills
    BY <1>1, RowsTyped, Constants DEF PlanTypeOK, DueInstallments
<1>4. RowTypes'
    BY <1>1, <1>2 DEF PlanTypeOK, RowTypes
<1>5. SessionTypes'
    BY <1>1, <1>2, <1>3 DEF PlanTypeOK, SessionTypes, ControlPoints
<1>6. Frame(w) /\ pc'[w] = "next"
    BY <1>1, <1>2 DEF Frame, PlanTypeOK, SessionTypes
<1> QED BY <1>1, <1>2, <1>4, <1>5, <1>6, FreePoints, QuietStep DEF PlanTypeOK

LEMMA JobItemOK ==
    ASSUME PlanInv, NEW w \in Jobs, NEW i \in Installments, JobItem(w, i)
    PROVE  PlanInv'
<1>1. w \in Sessions /\ w \notin Changes /\ PlanTypeOK /\ i \in Bills
    BY Constants DEF PlanInv
<1>2. /\ pc' = [pc EXCEPT ![w] = IF card THEN "charge" ELSE "fail"]
      /\ todo' = [todo EXCEPT ![w] = @ \ {i}]
      /\ cur' = [cur EXCEPT ![w] = i]
      /\ answer' = [answer EXCEPT ![w] = IF card THEN NoOutcome ELSE "invalid_payment_method"]
      /\ UNCHANGED <<kind, status, plan, card, inv, due, tries, retries, nextRetry, anchor, change,
                     ledger, seen, lost, aborts>>
    BY DEF JobItem, Goto, subscription, invoices, faults
<1>3. RowTypes'
    BY <1>1, <1>2 DEF PlanTypeOK, RowTypes
<1>4. SessionTypes'
    BY <1>1, <1>2, Constants DEF PlanTypeOK, SessionTypes, ControlPoints, Outcomes
<1>5. Frame(w)
    BY <1>1, <1>2 DEF Frame, PlanTypeOK, SessionTypes
<1>6. WorkOK(w)'
    BY <1>1, <1>2, Constants DEF WorkOK, PlanTypeOK, SessionTypes
<1> QED BY <1>1, <1>2, <1>3, <1>4, <1>5, <1>6, QuietStep DEF PlanTypeOK

LEMMA RetrySelectOK ==
    ASSUME PlanInv, NEW w \in Retriers, RetrySelect(w)
    PROVE  PlanInv'
<1> DEFINE batch == {b \in Bills : inv[b] = "open" /\ nextRetry[b] = "due"}
<1>1. w \in Sessions /\ PlanTypeOK
    BY Constants DEF PlanInv
<1>2. /\ pc' = [pc EXCEPT ![w] = "next"] /\ todo' = [todo EXCEPT ![w] = batch]
      /\ seen' = [seen EXCEPT ![w] = Rows]
      /\ UNCHANGED <<kind, status, plan, card, inv, due, tries, retries, nextRetry, anchor, change,
                     ledger, cur, answer, lost, aborts>>
    BY DEF RetrySelect, Goto, subscription, invoices, faults
<1>3. Rows \in SessionRows /\ batch \subseteq Bills
    BY <1>1, RowsTyped DEF PlanTypeOK
<1> HIDE DEF batch
<1>4. RowTypes'
    BY <1>1, <1>2 DEF PlanTypeOK, RowTypes
<1>5. SessionTypes'
    BY <1>1, <1>2, <1>3 DEF PlanTypeOK, SessionTypes, ControlPoints
<1>6. Frame(w) /\ pc'[w] = "next"
    BY <1>1, <1>2 DEF Frame, PlanTypeOK, SessionTypes
<1> QED BY <1>1, <1>2, <1>4, <1>5, <1>6, FreePoints, QuietStep DEF PlanTypeOK

LEMMA RetryItemOK ==
    ASSUME PlanInv, NEW w \in Retriers, NEW b \in Bills, RetryItem(w, b)
    PROVE  PlanInv'
<1>1. w \in Sessions /\ w \notin Changes /\ PlanTypeOK
    BY Constants DEF PlanInv
<1>2. UNCHANGED <<kind, status, plan, card, inv, due, tries, retries, anchor, change,
                  ledger, lost, aborts>>
    BY DEF RetryItem, subscription, faults
<1>3. CASE /\ Goto(w, "charge") /\ todo' = [todo EXCEPT ![w] = @ \ {b}]
           /\ cur' = [cur EXCEPT ![w] = b] /\ seen' = [seen EXCEPT ![w].status = status]
           /\ UNCHANGED <<nextRetry, answer>>
  <2>1. pc' = [pc EXCEPT ![w] = "charge"]
      BY <1>3 DEF Goto
  <2>2. RowTypes'
      BY <1>1, <1>2, <1>3 DEF PlanTypeOK, RowTypes
  <2>3. [seen[w] EXCEPT !.status = status] \in SessionRows
      BY <1>1 DEF PlanTypeOK, SessionTypes, SessionRows, RowTypes
  <2>4. seen' = [seen EXCEPT ![w] = [seen[w] EXCEPT !.status = status]]
      BY <1>3
  <2>5. SessionTypes'
      BY <1>1, <1>3, <2>1, <2>3, <2>4 DEF PlanTypeOK, SessionTypes, ControlPoints
  <2>6. Frame(w) /\ WorkOK(w)'
      BY <1>1, <1>3, <2>1, <2>4 DEF Frame, WorkOK, PlanTypeOK, SessionTypes
  <2> QED BY <1>1, <1>2, <2>2, <2>5, <2>6, QuietStep DEF PlanTypeOK
<1>4. CASE nextRetry' = [nextRetry EXCEPT ![b] = "none"] /\ EndItem(w, todo[w] \ {b})
  <2>1. RowTypes'
      BY <1>1, <1>2, <1>4 DEF PlanTypeOK, RowTypes
  <2>2. todo[w] \ {b} \in SUBSET Bills
      BY <1>1 DEF PlanTypeOK, SessionTypes
  <2>3. SessionTypes' /\ Frame(w) /\ WorkOK(w)'
      BY <1>1, <1>4, <2>2, EndItemMoves
  <2> QED BY <1>1, <1>2, <2>1, <2>3, QuietStep DEF PlanTypeOK
<1> QED BY <1>3, <1>4 DEF RetryItem

LEMMA ChangeReadOK ==
    ASSUME PlanInv, NEW c \in Changes, NEW to \in Plans, NEW cycle \in Cycles,
           ChangeRead(c, to, cycle)
    PROVE  PlanInv'
<1>1. c \in Sessions /\ PlanTypeOK
    BY Constants DEF PlanInv
<1> DEFINE made == [swapped |-> FALSE, from |-> plan, to |-> to,
                    days |-> cycle.days, total |-> cycle.total]
<1>2. /\ change' = [change EXCEPT ![c] = made] /\ pc' = [pc EXCEPT ![c] = "create"]
      /\ UNCHANGED <<kind, status, plan, card, inv, due, tries, retries, nextRetry, anchor,
                     ledger, todo, cur, answer, seen, lost, aborts>>
    BY DEF ChangeRead, Goto, subscription, faults
<1>3. made \in [swapped : BOOLEAN, from : Plans, to : Plans, days : Int, total : Int]
    BY <1>1, PlanBillingAssumption DEF PlanBillingAssumption, PlanTypeOK, RowTypes
<1> HIDE DEF made
<1>4. RowTypes'
    BY <1>1, <1>2, <1>3 DEF PlanTypeOK, RowTypes
<1>5. SessionTypes'
    BY <1>1, <1>2 DEF PlanTypeOK, SessionTypes, ControlPoints
<1>6. Frame(c) /\ pc'[c] = "create"
    BY <1>1, <1>2 DEF Frame, PlanTypeOK, SessionTypes
<1> QED BY <1>1, <1>2, <1>4, <1>5, <1>6, FreePoints, QuietStep DEF PlanTypeOK

LEMMA ChangeCreateOK ==
    ASSUME PlanInv, NEW c \in Changes, ChangeCreate(c)
    PROVE  PlanInv'
<1>1. c \in Sessions /\ c \in Bills /\ c \notin Installments /\ PlanTypeOK
    BY Constants DEF PlanInv
<1>2. /\ inv' = [inv EXCEPT ![c] = "open"] /\ pc' = [pc EXCEPT ![c] = "swap"]
      /\ cur' = [cur EXCEPT ![c] = c]
      /\ UNCHANGED <<kind, status, plan, card, due, tries, retries, nextRetry, anchor, change,
                     ledger, todo, answer, seen, lost, aborts>>
    BY DEF ChangeCreate, Goto, subscription, faults
<1>3. RowTypes'
    BY <1>1, <1>2 DEF PlanTypeOK, RowTypes, RowStatus, InvoiceStatus
<1>4. SessionTypes'
    BY <1>1, <1>2 DEF PlanTypeOK, SessionTypes, ControlPoints
<1>5. \A i \in Installments : inv'[i] = inv[i]
    BY <1>1, <1>2, Constants DEF PlanTypeOK, RowTypes
<1>6. Grows
    BY <1>2, <1>5 DEF Grows
<1>7. Frame(c) /\ WorkOK(c)'
    BY <1>1, <1>2 DEF Frame, WorkOK, PlanTypeOK, SessionTypes
<1>8. \A u \in Sessions : WorkOK(u)'
    BY <1>1, <1>6, <1>7, OthersKeep
<1>9. InstallmentsOK' /\ (status' = "completed" => AllPaid')
    BY <1>2, <1>5 DEF PlanInv, InstallmentsOK, AllPaid, Captures
<1> QED BY <1>3, <1>4, <1>8, <1>9 DEF PlanInv, PlanTypeOK

\* A net is a whole number of minor units.
LEMMA NetIsWhole ==
    ASSUME PlanTypeOK, NEW c \in Changes
    PROVE  Net(c).net \in Int
<1>1. ASSUME NEW amount \in Nat, NEW days \in Int, NEW total \in Int
      PROVE  Prorate(amount, days, total) \in Int
  <2>1. Clamp(days, total) \in Int
      BY DEF Clamp
  <2>2. amount * Clamp(days, total) \in Int
      BY <2>1
  <2>3. ASSUME NEW n \in Int, total > 0 PROVE RoundHalfEven(n, total) \in Int
      BY <2>3 DEF RoundHalfEven
  <2> QED BY <2>2, <2>3 DEF Prorate
<1>2. /\ change[c].days \in Int /\ change[c].total \in Int
      /\ Price[change[c].from] \in Nat /\ Price[change[c].to] \in Nat
    BY PlanBillingAssumption DEF PlanBillingAssumption, PlanTypeOK, RowTypes
<1> DEFINE credit == Prorate(Price[change[c].from], change[c].days, change[c].total)
           charge == Prorate(Price[change[c].to], change[c].days, change[c].total)
<1>3. credit \in Int /\ charge \in Int
    BY <1>1, <1>2
<1>4. Net(c).net = charge - credit
    BY DEF Net, CalculateProration
<1> HIDE DEF credit, charge
<1> QED BY <1>3, <1>4

LEMMA ChangeSwapOK ==
    ASSUME PlanInv, NEW c \in Changes, ChangeSwap(c)
    PROVE  PlanInv'
<1>1. c \in Sessions /\ c \notin Installments /\ PlanTypeOK
    BY Constants DEF PlanInv
<1>2. /\ plan' = change[c].to /\ change' = [change EXCEPT ![c].swapped = TRUE]
      /\ seen' = [seen EXCEPT ![c] = Rows]
      /\ UNCHANGED <<kind, status, card, inv, due, tries, retries, nextRetry, anchor,
                     ledger, todo, cur, lost, aborts>>
    BY DEF ChangeSwap, faults
<1>3. cur[c] = c
    BY <1>1, AtHand, Constants DEF ChangeSwap, PlanInv, WorkOK
<1>4. PICK point \in {"pay", "charge", "fail"}, result \in {"invalid_payment_method", NoOutcome} :
         /\ pc' = [pc EXCEPT ![c] = point] /\ answer' = [answer EXCEPT ![c] = result]
         /\ point = "fail" => result = "invalid_payment_method"
  <2>1. Net(c).net \in Int
      BY <1>1, NetIsWhole
  <2>2. CASE Net(c).net <= 0
      BY <2>1, <2>2 DEF ChangeSwap, Goto
  <2>3. CASE Net(c).net > 0
      BY <2>1, <2>3 DEF ChangeSwap, Goto
  <2> QED BY <2>1, <2>2, <2>3
<1>5. RowTypes'
    BY <1>1, <1>2 DEF PlanTypeOK, RowTypes
<1>6. Rows \in SessionRows /\ c \in Bills
    BY <1>1, RowsTyped, Constants DEF PlanTypeOK
<1>7. SessionTypes'
    BY <1>1, <1>2, <1>3, <1>4, <1>6, Constants
       DEF PlanTypeOK, SessionTypes, ControlPoints, Outcomes
<1>8. Frame(c)
    BY <1>1, <1>2, <1>4 DEF Frame, PlanTypeOK, SessionTypes
<1>9. WorkOK(c)'
    BY <1>1, <1>2, <1>3, <1>4, Constants DEF WorkOK, PlanTypeOK, SessionTypes
<1> QED BY <1>1, <1>2, <1>5, <1>7, <1>8, <1>9, QuietStep DEF PlanTypeOK

LEMMA ChargeOK ==
    ASSUME PlanInv, NEW w \in Sessions, Charge(w)
    PROVE  PlanInv'
<1> DEFINE b == cur[w]
           k == seen[w].tries[b]
<1>1. PlanTypeOK /\ b \in Bills /\ WorkOK(w)
    BY AtHand DEF PlanInv, Charge
<1>2. k \in 0 .. MaxAttempts
    BY <1>1, PlanBillingAssumption
       DEF Charge, PlanTypeOK, SessionTypes, SessionRows, PlanBillingAssumption
<1>3. PICK outcome \in {Captured} \cup Declines :
         /\ ledger[b][k] \in {NoOutcome, outcome} /\ ledger' = [ledger EXCEPT ![b][k] = outcome]
         /\ answer' = [answer EXCEPT ![w] = outcome]
    BY DEF Charge
<1>4. /\ pc' = [pc EXCEPT ![w] = "record"]
      /\ UNCHANGED <<kind, status, plan, card, inv, due, tries, retries, nextRetry, anchor, change,
                     todo, cur, seen, lost, aborts>>
    BY DEF Charge, Goto, subscription, invoices, faults
<1>5. outcome \in Outcomes /\ outcome # NoOutcome
    BY <1>3, Constants DEF Outcomes
<1>6. ledger' \in [Bills -> [0 .. MaxAttempts -> Outcomes]]
    BY <1>1, <1>2, <1>3, <1>5 DEF PlanTypeOK, RowTypes
<1>7. RowTypes'
    BY <1>1, <1>4, <1>6 DEF PlanTypeOK, RowTypes
<1>8. SessionTypes'
    BY <1>1, <1>3, <1>4, <1>5 DEF PlanTypeOK, SessionTypes, ControlPoints
<1>9. ledger'[b][k] = outcome
    BY <1>1, <1>2, <1>3 DEF PlanTypeOK, RowTypes
<1>10. \A a \in Bills, n \in 0 .. MaxAttempts :
          ledger[a][n] # NoOutcome => ledger'[a][n] = ledger[a][n]
  <2> SUFFICES ASSUME NEW a \in Bills, NEW n \in 0 .. MaxAttempts, ledger[a][n] # NoOutcome
               PROVE  ledger'[a][n] = ledger[a][n]
      OBVIOUS
  <2>1. CASE a = b /\ n = k
      BY <2>1, <1>3, <1>9
  <2>2. CASE ~ (a = b /\ n = k)
      BY <2>2, <1>1, <1>3 DEF PlanTypeOK, RowTypes
  <2> QED BY <2>1, <2>2
<1>11. Grows
    BY <1>4, <1>10 DEF Grows
<1>12. Frame(w)
    BY <1>1, <1>3, <1>4 DEF Frame, PlanTypeOK, SessionTypes
<1>13. WorkOK(w)'
    BY <1>1, <1>2, <1>3, <1>4, <1>5, <1>9 DEF WorkOK, PlanTypeOK, SessionTypes
<1>14. \A u \in Sessions : WorkOK(u)'
    BY <1>11, <1>12, <1>13, OthersKeep
<1>15. InstallmentsOK'
    BY <1>4, <1>11, GrowsKeepsCaptures, Constants DEF PlanInv, InstallmentsOK
<1>16. status' = "completed" => AllPaid'
    BY <1>4 DEF PlanInv, AllPaid
<1> QED BY <1>7, <1>8, <1>14, <1>15, <1>16 DEF PlanInv, PlanTypeOK

LEMMA RecordAttemptOK ==
    ASSUME PlanInv, NEW w \in Sessions, RecordAttempt(w)
    PROVE  PlanInv'
<1> DEFINE b == cur[w]
           n == seen[w].tries[b] + 1
           copy == IF w \in Jobs THEN seen[w] ELSE [Rows EXCEPT !.status = seen[w].status]
           row == [copy EXCEPT !.tries = [seen[w].tries EXCEPT ![b] = n]]
<1>1. PlanTypeOK /\ b \in Bills /\ WorkOK(w) /\ pc[w] = "record"
    BY AtHand DEF PlanInv, RecordAttempt
<1>2. seen[w] \in SessionRows /\ Rows \in SessionRows
    BY <1>1, RowsTyped DEF PlanTypeOK, SessionTypes
<1>3. n \in Nat
    BY <1>1, <1>2 DEF SessionRows
<1>4. row \in SessionRows
  <2>1. copy \in SessionRows
      BY <1>2 DEF SessionRows
  <2>2. [seen[w].tries EXCEPT ![b] = n] \in [Bills -> Nat]
      BY <1>1, <1>2, <1>3 DEF SessionRows
  <2> HIDE DEF copy, n
  <2> QED BY <2>1, <2>2 DEF SessionRows
<1>5. /\ tries' = [tries EXCEPT ![b] = n]
      /\ retries' = IF w \in Retriers THEN [retries EXCEPT ![b] = @ + 1] ELSE retries
      /\ seen' = [seen EXCEPT ![w] = row]
      /\ pc' = [pc EXCEPT ![w] = IF answer[w] = Captured THEN "pay" ELSE "fail"]
      /\ UNCHANGED <<kind, status, plan, card, inv, due, nextRetry, anchor, change, ledger, todo,
                     cur, answer, lost, aborts>>
    BY DEF RecordAttempt, Goto, subscription, faults
<1> HIDE DEF row, n, copy
<1>6. RowTypes'
    BY <1>1, <1>3, <1>5 DEF PlanTypeOK, RowTypes
<1>7. SessionTypes'
    BY <1>1, <1>4, <1>5 DEF PlanTypeOK, SessionTypes, ControlPoints
<1>8. Frame(w)
    BY <1>1, <1>5 DEF Frame, PlanTypeOK, SessionTypes
<1>9. answer[w] = Captured => Captures(b) # {}
    BY <1>1 DEF WorkOK, Captures
<1>10. answer[w] # Captured => answer[w] \in FailureReason
    BY <1>1 DEF WorkOK, PlanTypeOK, SessionTypes, Outcomes
<1>11. WorkOK(w)'
    BY <1>1, <1>5, <1>9, <1>10 DEF WorkOK, Captures, PlanTypeOK, SessionTypes
<1> QED BY <1>1, <1>5, <1>6, <1>7, <1>8, <1>11, QuietStep DEF PlanTypeOK

LEMMA PayInvoiceOK ==
    ASSUME PlanInv, NEW w \in Sessions, PayInvoice(w)
    PROVE  PlanInv'
<1>1. PlanTypeOK /\ cur[w] \in Bills /\ WorkOK(w) /\ pc[w] = "pay"
    BY AtHand DEF PlanInv, PayInvoice
<1>2. UNCHANGED <<kind, status, plan, card, due, tries, retries, nextRetry, anchor, change, ledger,
                  lost, aborts>>
    BY DEF PayInvoice, subscription, faults
<1>3. CASE inv' = [inv EXCEPT ![cur[w]] = "paid"] /\ Continue(w, "remaining") /\ UNCHANGED seen
  <2>1. RowTypes'
      BY <1>1, <1>2, <1>3 DEF PlanTypeOK, RowTypes, RowStatus, InvoiceStatus
  <2>2. SessionTypes' /\ Frame(w) /\ pc'[w] = "remaining" /\ UNCHANGED <<cur, answer>>
      BY <1>1, <1>3, ContinueKeeps DEF ControlPoints
  <2>3. \A i \in Installments : inv'[i] = IF i = cur[w] THEN "paid" ELSE inv[i]
      BY <1>1, <1>3, Constants DEF PlanTypeOK, RowTypes
  <2>4. Grows
      BY <1>2, <2>3 DEF Grows
  <2>5. \A u \in Sessions : WorkOK(u)'
      BY <2>2, <2>4, FreePoints, OthersKeep
  <2>6. \A i \in Installments : Captures(i)' = Captures(i)
      BY <1>2 DEF Captures
  <2>7. InstallmentsOK'
      BY <1>1, <1>2, <2>3, <2>6 DEF PlanInv, InstallmentsOK, WorkOK
  <2>8. status' = "completed" => AllPaid'
      BY <1>2, <2>3 DEF PlanInv, AllPaid
  <2> QED BY <2>1, <2>2, <2>5, <2>7, <2>8 DEF PlanInv, PlanTypeOK
<1>4. CASE Close(w) /\ UNCHANGED inv
  <2>1. RowTypes'
      BY <1>1, <1>2, <1>4 DEF PlanTypeOK, RowTypes
  <2> QED BY <1>2, <1>4, <2>1, CloseMoves, QuietStep DEF PlanTypeOK
<1> QED BY <1>3, <1>4 DEF PayInvoice

\* Bills of an installment subscription that are not open are paid.
LEMMA RemainingOK ==
    ASSUME PlanInv, NEW w \in Sessions, Remaining(w)
    PROVE  PlanInv'
<1>1. PlanTypeOK /\ cur[w] \in Bills /\ WorkOK(w) /\ pc[w] = "remaining"
    BY AtHand DEF PlanInv, Remaining
<1>2. UNCHANGED <<kind, status, plan, card, inv, due, tries, retries, nextRetry, anchor, change,
                  ledger, lost, aborts>>
    BY DEF Remaining, subscription, invoices, faults
<1>3. RowTypes'
    BY <1>1, <1>2 DEF PlanTypeOK, RowTypes
<1>4. CASE kind = "installment" /\ NothingRemains /\ Continue(w, "complete") /\ UNCHANGED seen
  <2>1. SessionTypes' /\ Frame(w) /\ pc'[w] = "complete" /\ UNCHANGED <<cur, answer>>
      BY <1>1, <1>4, ContinueKeeps DEF ControlPoints
  <2>2. AllPaid'
      BY <1>2, <1>4, Constants DEF PlanInv, InstallmentsOK, NothingRemains, AllPaid
  <2>3. WorkOK(w)'
      BY <1>1, <2>1, <2>2 DEF WorkOK
  <2> QED BY <1>2, <1>3, <2>1, <2>3, QuietStep DEF PlanTypeOK
<1>5. CASE Continue(w, "clear") /\ UNCHANGED seen
  <2>1. SessionTypes' /\ Frame(w) /\ pc'[w] = "clear" /\ UNCHANGED <<cur, answer>>
      BY <1>1, <1>5, ContinueKeeps DEF ControlPoints
  <2>2. WorkOK(w)'
      BY <2>1, FreePoints
  <2> QED BY <1>2, <1>3, <2>1, <2>2, QuietStep DEF PlanTypeOK
<1>6. CASE Close(w) \/ EndItem(w, todo[w])
    BY <1>2, <1>3, <1>6, WaysToEnd, QuietStep DEF PlanTypeOK
<1> QED BY <1>4, <1>5, <1>6 DEF Remaining, AfterPayment

LEMMA CompleteOK ==
    ASSUME PlanInv, NEW w \in Sessions, Complete(w)
    PROVE  PlanInv'
<1>1. PlanTypeOK /\ pc[w] = "complete"
    BY DEF PlanInv, Complete
<1>2. status' = "completed"
      /\ UNCHANGED <<kind, plan, card, inv, due, tries, retries, nextRetry, anchor, change, ledger,
                     lost, aborts>>
    BY DEF Complete, invoices, faults
<1>3. RowTypes'
    BY <1>1, <1>2 DEF PlanTypeOK, RowTypes, SubscriptionStatus
<1>4. [seen[w] EXCEPT !.status = "completed"] \in SessionRows /\ todo[w] \in SUBSET Bills
    BY <1>1 DEF PlanTypeOK, SessionTypes, SessionRows, SubscriptionStatus
<1>5. SessionTypes' /\ Frame(w) /\ WorkOK(w)'
    BY <1>4, NextItemMoves DEF Complete
<1> QED BY <1>1, <1>2, <1>3, <1>5, QuietStep DEF PlanTypeOK

LEMMA RevokeOK ==
    ASSUME PlanInv, NEW w \in Sessions, Revoke(w)
    PROVE  PlanInv'
<1>1. PlanTypeOK
    BY DEF PlanInv
<1>2. status' = "unpaid"
      /\ UNCHANGED <<kind, plan, card, inv, due, tries, retries, nextRetry, anchor, change, ledger,
                     lost, aborts>>
    BY DEF Revoke, invoices, faults
<1>3. RowTypes'
    BY <1>1, <1>2 DEF PlanTypeOK, RowTypes, SubscriptionStatus
<1>4. [seen[w] EXCEPT !.status = "unpaid"] \in SessionRows /\ todo[w] \in SUBSET Bills
    BY <1>1 DEF PlanTypeOK, SessionTypes, SessionRows, SubscriptionStatus
<1>5. SessionTypes' /\ Frame(w) /\ WorkOK(w)'
    BY <1>4, NextItemMoves DEF Revoke
<1> QED BY <1>2, <1>3, <1>5, QuietStep DEF PlanTypeOK

LEMMA ClearDunningOK ==
    ASSUME PlanInv, NEW w \in Sessions, ClearDunning(w)
    PROVE  PlanInv'
<1>1. PlanTypeOK /\ cur[w] \in Bills
    BY AtHand DEF PlanInv, ClearDunning
<1>2. /\ nextRetry' = [nextRetry EXCEPT ![cur[w]] = "none"]
      /\ anchor' = [anchor EXCEPT ![cur[w]] = "none"]
      /\ UNCHANGED <<kind, status, plan, card, inv, due, tries, retries, change, ledger, seen,
                     lost, aborts>>
    BY DEF ClearDunning, subscription, faults
<1>3. RowTypes'
    BY <1>1, <1>2 DEF PlanTypeOK, RowTypes
<1>4. SessionTypes' /\ Frame(w) /\ pc'[w] = "recover" /\ UNCHANGED <<cur, answer>>
    BY <1>1, <1>2, ContinueKeeps DEF ClearDunning, ControlPoints
<1> QED BY <1>2, <1>3, <1>4, FreePoints, QuietStep DEF PlanTypeOK

LEMMA RecoverOK ==
    ASSUME PlanInv, NEW w \in Sessions, Recover(w)
    PROVE  PlanInv'
<1>1. PlanTypeOK
    BY DEF PlanInv
<1>2. status' = "active"
      /\ UNCHANGED <<kind, plan, card, inv, due, tries, retries, nextRetry, anchor, change, ledger,
                     lost, aborts>>
    BY DEF Recover, invoices, faults
<1>3. RowTypes'
    BY <1>1, <1>2 DEF PlanTypeOK, RowTypes, SubscriptionStatus
<1>4. SessionTypes' /\ Frame(w) /\ WorkOK(w)'
    BY WaysToEnd DEF Recover
<1> QED BY <1>2, <1>3, <1>4, QuietStep DEF PlanTypeOK

LEMMA SkipDunningOK ==
    ASSUME PlanInv, NEW w \in Sessions, SkipDunning(w)
    PROVE  PlanInv'
<1>1. PlanTypeOK
    BY DEF PlanInv
<1>2. UNCHANGED <<kind, status, plan, card, inv, due, tries, retries, nextRetry, anchor, change,
                  ledger, lost, aborts>>
    BY DEF SkipDunning, subscription, invoices, faults
<1>3. RowTypes'
    BY <1>1, <1>2 DEF PlanTypeOK, RowTypes
<1>4. SessionTypes' /\ Frame(w) /\ WorkOK(w)'
    BY WaysToEnd DEF SkipDunning
<1> QED BY <1>2, <1>3, <1>4, QuietStep DEF PlanTypeOK

\* A failed session has a reason at hand.
LEMMA ReasonIsOne ==
    ASSUME PlanInv, NEW w \in Sessions, pc[w] = "fail"
    PROVE  Reason(w) \in FailureReason /\ cur[w] \in Bills
<1>1. seen[w] \in SessionRows /\ cur[w] \in Bills /\ answer[w] \in FailureReason
    BY AtHand DEF PlanInv, PlanTypeOK, SessionTypes, WorkOK
<1>2. seen[w].anchor[cur[w]] \in {"none"} \cup FailureReason
    BY <1>1 DEF SessionRows
<1> QED BY <1>1, <1>2 DEF Reason

LEMMA OpenCycleOK ==
    ASSUME PlanInv, NEW w \in Sessions, OpenCycle(w)
    PROVE  PlanInv'
<1> DEFINE b == cur[w]
           reason == Reason(w)
           point == Decision(reason, retries[b])
           row == [seen[w] EXCEPT !.status = "past_due",
                                  !.anchor = [seen[w].anchor EXCEPT ![b] = reason]]
<1>1. PlanTypeOK /\ b \in Bills /\ reason \in FailureReason
    BY ReasonIsOne DEF PlanInv, OpenCycle
<1>2. /\ status' = "past_due" /\ anchor' = [anchor EXCEPT ![b] = reason]
      /\ seen' = [seen EXCEPT ![w] = row] /\ Continue(w, point)
      /\ UNCHANGED <<kind, plan, card, inv, due, tries, retries, nextRetry, change, ledger, lost,
                     aborts>>
    BY DEF OpenCycle, faults
<1>3. point \in {"schedule", "flag", "exhaust"}
    BY DEF Decision
<1>4. row \in SessionRows
  <2>1. seen[w] \in SessionRows
      BY <1>1 DEF PlanTypeOK, SessionTypes
  <2>2. [seen[w].anchor EXCEPT ![b] = reason] \in [Bills -> {"none"} \cup FailureReason]
      BY <1>1, <2>1 DEF SessionRows
  <2> HIDE DEF reason
  <2> QED BY <2>1, <2>2 DEF SessionRows, SubscriptionStatus
<1> HIDE DEF row, point, reason
<1>5. RowTypes'
    BY <1>1, <1>2 DEF PlanTypeOK, RowTypes, SubscriptionStatus
<1>6. SessionTypes' /\ Frame(w) /\ pc'[w] = point /\ UNCHANGED <<cur, answer>>
    BY <1>1, <1>2, <1>3, <1>4, ContinueMoves DEF ControlPoints
<1>7. WorkOK(w)'
    BY <1>3, <1>6, FreePoints
<1> QED BY <1>2, <1>5, <1>6, <1>7, QuietStep DEF PlanTypeOK

\* The decision's commit, for either of its two callers.
LEMMA SettleOK ==
    ASSUME PlanInv, NEW w \in Sessions, NEW decision, Settle(w, decision), cur[w] \in Bills,
           anchor' \in [Bills -> {"none"} \cup FailureReason]
    PROVE  PlanInv'
<1>1. PlanTypeOK
    BY DEF PlanInv
<1>2. /\ nextRetry' = [nextRetry EXCEPT
            ![cur[w]] = IF decision = "schedule" THEN "waiting" ELSE "none"]
      /\ UNCHANGED <<kind, status, plan, card, inv, due, tries, retries, change, ledger, lost,
                     aborts>>
    BY DEF Settle, subscription, faults
<1>3. RowTypes'
    BY <1>1, <1>2 DEF PlanTypeOK, RowTypes
<1>4. CASE Continue(w, "revoke") /\ UNCHANGED seen
  <2>1. SessionTypes' /\ Frame(w) /\ pc'[w] = "revoke" /\ UNCHANGED <<cur, answer>>
      BY <1>4, ContinueKeeps DEF ControlPoints
  <2> QED BY <1>2, <1>3, <2>1, FreePoints, QuietStep DEF PlanTypeOK
<1>5. CASE EndItem(w, todo[w])
    BY <1>2, <1>3, <1>5, WaysToEnd, QuietStep DEF PlanTypeOK
<1> QED BY <1>4, <1>5 DEF Settle

LEMMA ScheduleOK ==
    ASSUME PlanInv, NEW w \in Sessions, ScheduleRetry(w) \/ AdvanceCycle(w)
    PROVE  PlanInv'
<1>1. PlanTypeOK
    BY DEF PlanInv
<1>2. CASE ScheduleRetry(w)
  <2>1. cur[w] \in Bills /\ anchor' = anchor
      BY <1>2, AtHand DEF ScheduleRetry
  <2>2. anchor' \in [Bills -> {"none"} \cup FailureReason]
      BY <1>1, <2>1 DEF PlanTypeOK, RowTypes
  <2> QED BY <1>2, <2>1, <2>2, SettleOK DEF ScheduleRetry
<1>3. CASE AdvanceCycle(w)
  <2>1. cur[w] \in Bills /\ Reason(w) \in FailureReason
      BY <1>3, ReasonIsOne DEF AdvanceCycle
  <2>2. anchor' \in [Bills -> {"none"} \cup FailureReason]
      BY <1>1, <1>3, <2>1 DEF AdvanceCycle, PlanTypeOK, RowTypes
  <2> QED BY <1>3, <2>1, <2>2, SettleOK DEF AdvanceCycle
<1> QED BY <1>2, <1>3

\* A session that loses its answer, or dies, ends or goes on to its next item.
LEMMA FaultOK ==
    ASSUME PlanInv, NEW w \in Sessions, LoseAnswer(w) \/ Abort(w)
    PROVE  PlanInv'
<1>1. PlanTypeOK
    BY DEF PlanInv
<1>2. /\ Close(w) \/ EndItem(w, todo[w])
      /\ \/ lost < Losses /\ lost' = lost + 1 /\ aborts' = aborts
         \/ aborts < MaxAborts /\ aborts' = aborts + 1 /\ lost' = lost
      /\ UNCHANGED <<kind, status, plan, card, inv, due, tries, retries, nextRetry, anchor, change,
                     ledger>>
    BY DEF LoseAnswer, Abort, subscription, invoices
<1>3. lost' \in 0 .. Losses /\ aborts' \in 0 .. MaxAborts
    BY <1>1, <1>2, PlanBillingAssumption DEF PlanTypeOK, RowTypes, PlanBillingAssumption
<1>4. RowTypes'
    BY <1>1, <1>2, <1>3 DEF PlanTypeOK, RowTypes
<1> QED BY <1>2, <1>4, WaysToEnd, QuietStep DEF PlanTypeOK

\* Time and the customer touch no session.
LEMMA WorldOK ==
    ASSUME PlanInv,
           \/ \E i \in Installments : FallsDue(i)
           \/ \E b \in Bills : RetryComesDue(b)
           \/ LoseCard \/ Cancel
    PROVE  PlanInv'
<1>1. PlanTypeOK
    BY DEF PlanInv
<1>2. UNCHANGED <<kind, plan, inv, tries, retries, anchor, change, ledger, lost, aborts, pc, todo,
                  cur, answer, seen>>
    BY DEF FallsDue, RetryComesDue, LoseCard, Cancel, subscription, invoices, session, faults
<1>3. /\ status' \in {status, "canceled"} /\ card' \in BOOLEAN
      /\ due' \in [Installments -> BOOLEAN]
      /\ nextRetry' \in [Bills -> {"none", "waiting", "due"}]
    BY <1>1 DEF FallsDue, RetryComesDue, LoseCard, Cancel, subscription, invoices, PlanTypeOK,
                RowTypes
<1>4. PlanTypeOK'
    BY <1>1, <1>2, <1>3 DEF PlanTypeOK, RowTypes, SessionTypes, SubscriptionStatus
<1>5. InstallmentsOK' /\ (status' = "completed" => AllPaid')
    BY <1>2, <1>3 DEF PlanInv, InstallmentsOK, AllPaid, Captures
<1>6. \A w \in Sessions : WorkOK(w)'
    BY <1>2 DEF PlanInv, WorkOK, AllPaid, Captures
<1> QED BY <1>4, <1>5, <1>6 DEF PlanInv
----------------------------------------------------------------------------
LEMMA PlanInit == Init => PlanInv
<1> SUFFICES ASSUME Init PROVE PlanInv
    OBVIOUS
<1> USE PlanBillingAssumption DEF PlanBillingAssumption
<1>1. NoChange \in [swapped : BOOLEAN, from : Plans, to : Plans, days : Int, total : Int]
  <2>1. AnyPlan \in Plans
      BY DEF Init, AnyPlan
  <2> QED BY <2>1 DEF NoChange
<1>2. NoRows \in SessionRows
    BY DEF NoRows, SessionRows, SubscriptionStatus, RowStatus
<1>3. ledger \in [Bills -> [0 .. MaxAttempts -> Outcomes]]
    BY DEF Init, Outcomes
<1>4. RowTypes
  <2>1. inv \in [Bills -> RowStatus]
      BY DEF Init, RowStatus, InvoiceStatus
  <2>2. due \in [Installments -> BOOLEAN]
      BY DEF Init
  <2>3. /\ tries \in [Bills -> Nat] /\ retries \in [Bills -> Nat]
        /\ nextRetry \in [Bills -> {"none", "waiting", "due"}]
        /\ anchor \in [Bills -> {"none"} \cup FailureReason]
      BY DEF Init
  <2>4. /\ kind \in {"installment", "recurring"} /\ status \in SubscriptionStatus
        /\ plan \in Plans /\ card \in BOOLEAN
        /\ change \in [Changes -> [swapped : BOOLEAN, from : Plans, to : Plans,
                                   days : Int, total : Int]]
        /\ lost \in 0 .. Losses /\ aborts \in 0 .. MaxAborts
      BY <1>1 DEF Init, SubscriptionStatus
  <2> QED BY <1>3, <2>1, <2>2, <2>3, <2>4 DEF RowTypes
<1>5. SessionTypes
    BY <1>2 DEF Init, SessionTypes, ControlPoints, Outcomes
<1>6. InstallmentsOK
  <2> SUFFICES ASSUME NEW i \in Installments
               PROVE  /\ kind = "installment" => inv[i] \in {"open", "paid"}
                      /\ inv[i] = "paid" => Captures(i) # {}
      BY DEF InstallmentsOK
  <2>1. i \in Bills /\ i \notin Changes
      BY Constants
  <2>2. inv[i] = IF kind = "recurring" THEN "none" ELSE IF i = 1 THEN "paid" ELSE "open"
      BY <2>1 DEF Init
  <2>3. kind = "installment" /\ i = 1 => ledger[i][0] = Captured /\ 0 \in 0 .. MaxAttempts
      BY <2>1 DEF Init
  <2>4. inv[i] = "paid" => kind = "installment" /\ i = 1
      BY <2>2 DEF Init
  <2>5. Captures(i) = {k \in 0 .. MaxAttempts : ledger[i][k] = Captured}
      BY DEF Captures
  <2>6. kind = "installment" /\ i = 1 => 0 \in Captures(i)
      BY <2>3, <2>5
  <2>7. kind = "installment" => inv[i] \in {"open", "paid"}
      BY <2>2
  <2> QED BY <2>4, <2>6, <2>7
<1>7. \A w \in Sessions : WorkOK(w)
    BY DEF Init, WorkOK
<1>8. status # "completed"
    BY DEF Init
<1> QED BY <1>4, <1>5, <1>6, <1>7, <1>8 DEF PlanInv, PlanTypeOK

LEMMA CollectOK ==
    ASSUME PlanInv, NEW w \in Sessions, Collect(w)
    PROVE  PlanInv'
BY ChargeOK, RecordAttemptOK, PayInvoiceOK, RemainingOK, CompleteOK, SkipDunningOK, OpenCycleOK,
   ScheduleOK, RevokeOK DEF Collect

LEMMA PlanStep == PlanInv /\ [Next]_vars => PlanInv'
<1> SUFFICES ASSUME PlanInv, [Next]_vars PROVE PlanInv'
    OBVIOUS
<1>1. CASE \E w \in Jobs : Job(w)
    BY <1>1, JobSelectOK, JobItemOK, CollectOK, Constants DEF Job
<1>2. CASE \E w \in Retriers : Retrier(w)
    BY <1>2, RetrySelectOK, RetryItemOK, CollectOK, ClearDunningOK, RecoverOK, Constants
       DEF Retrier
<1>3. CASE \E c \in Changes : Change(c)
    BY <1>3, ChangeReadOK, ChangeCreateOK, ChangeSwapOK, CollectOK, Constants DEF Change
<1>4. CASE \E w \in Sessions : LoseAnswer(w) \/ Abort(w)
    BY <1>4, FaultOK
<1>5. CASE UNCHANGED vars
    BY <1>5 DEF vars, PlanInv, PlanTypeOK, RowTypes, SessionTypes, InstallmentsOK, AllPaid, WorkOK,
                Captures
<1> QED BY <1>1, <1>2, <1>3, <1>4, <1>5, WorldOK DEF Next

LEMMA PlanInvariant == Spec => []PlanInv
BY PlanInit, PlanStep, PTL DEF Spec

\* CompletedIsPaid for every number of installments, jobs, retry jobs, plan
\* changes, lost answers and aborts: nothing that another session commits can
\* undo what a session on its way to completed has seen.
THEOREM CompletionIsPaidFor == Spec => []CompletedIsPaid
<1>1. PlanInv => CompletedIsPaid
    BY DEF PlanInv, AllPaid, InstallmentsOK, CompletedIsPaid
<1> QED BY <1>1, PlanInvariant, PTL
----------------------------------------------------------------------------
(* ChangeIsFair. *)

\* Something is due for the change, and its plan was swapped.
Owed(b) == inv[b] # "none" /\ change[b].swapped /\ Net(b).net > 0

\* The points between the decision to collect and the retry's date.
OwedPoints == {"charge", "record", "fail", "schedule", "flag", "exhaust"}

FairBill(b) ==
    /\ nextRetry[b] # "none" \/ Captures(b) # {} => Owed(b)
    /\ inv[b] = "paid" /\ Captures(b) = {} => Net(b).net <= 0

\* A session that handles a change's invoice has seen that something is owed, or
\* that nothing is.
FairWork(w) ==
    /\ \A b \in todo[w] \cap Changes : Owed(b)
    /\ cur[w] \in Changes =>
          /\ pc[w] \in OwedPoints => Owed(cur[w])
          /\ pc[w] = "swap" => inv[cur[w]] # "none"
          /\ pc[w] = "pay" =>
                /\ inv[cur[w]] # "none"
                /\ Captures(cur[w]) # {} \/ Net(cur[w]).net <= 0

FairInv ==
    /\ \A b \in Changes : FairBill(b)
    /\ \A w \in Sessions : FairWork(w)

\* A step of one session, as FairInv sees it.
Alone(w) ==
    \A u \in Sessions : u # w =>
        pc'[u] = pc[u] /\ cur'[u] = cur[u] /\ todo'[u] = todo[u]

\* What is known of a change's invoice stays known.
Kept ==
    \A b \in Changes :
        /\ Owed(b) => Owed(b)'
        /\ inv[b] # "none" => inv'[b] # "none" /\ Net(b)' = Net(b)
        /\ Captures(b) # {} => Captures(b)' # {}

Still == UNCHANGED <<inv, change, ledger>>

LEMMA StillKeeps ==
    ASSUME Still
    PROVE  /\ Kept
           /\ \A b \in Changes : /\ Owed(b)' = Owed(b) /\ Net(b)' = Net(b)
                                 /\ Captures(b)' = Captures(b)
<1>1. \A b \in Changes : Net(b)' = Net(b) /\ Captures(b)' = Captures(b)
    BY DEF Still, Net, Captures
<1>2. \A b \in Changes : Owed(b)' = Owed(b)
    BY <1>1 DEF Still, Owed
<1> QED BY <1>1, <1>2 DEF Kept, Still

LEMMA FairOthers ==
    ASSUME FairInv, NEW w \in Sessions, Alone(w), Kept, FairWork(w)'
    PROVE  \A u \in Sessions : FairWork(u)'
<1> SUFFICES ASSUME NEW u \in Sessions, u # w PROVE FairWork(u)'
    OBVIOUS
<1>1. FairWork(u) /\ pc'[u] = pc[u] /\ cur'[u] = cur[u] /\ todo'[u] = todo[u]
    BY DEF FairInv, Alone
<1>2. \A b \in todo'[u] \cap Changes : Owed(b)'
    BY <1>1 DEF FairWork, Kept
<1>3. ASSUME NEW b \in Changes, b = cur[u]
      PROVE  /\ pc[u] \in OwedPoints => Owed(b)'
             /\ pc[u] = "swap" => inv'[b] # "none"
             /\ pc[u] = "pay" => /\ inv'[b] # "none"
                                 /\ Captures(b)' # {} \/ Net(b)'.net <= 0
    BY <1>1, <1>3 DEF FairWork, Kept
<1>4. cur[u] \in Changes =>
          /\ pc[u] \in OwedPoints => Owed(cur[u])'
          /\ pc[u] = "swap" => inv'[cur[u]] # "none"
          /\ pc[u] = "pay" => /\ inv'[cur[u]] # "none"
                              /\ Captures(cur[u])' # {} \/ Net(cur[u])'.net <= 0
    BY <1>1, <1>3 DEF Owed, Net, Captures
<1> QED BY <1>1, <1>2, <1>4 DEF FairWork, Owed, Net, Captures

\* Steps that write neither invoices nor the ledger.
LEMMA FairStill ==
    ASSUME FairInv, NEW w \in Sessions, Still, Alone(w), FairWork(w)',
           \A b \in Changes : nextRetry'[b] # "none" => nextRetry[b] # "none" \/ Owed(b)
    PROVE  FairInv'
<1>1. \A u \in Sessions : FairWork(u)'
    BY StillKeeps, FairOthers
<1>2. ASSUME NEW b \in Changes PROVE FairBill(b)'
    BY StillKeeps DEF FairInv, FairBill, Still
<1> QED BY <1>1, <1>2 DEF FairInv

LEMMA FairEnds ==
    ASSUME PlanInv, FairInv, NEW w \in Sessions, Still,
           NEW remaining \in SUBSET todo[w], NEW copy,
           Close(w) \/ NextItem(w, remaining, copy)
    PROVE  Alone(w) /\ FairWork(w)'
<1>1. PICK point \in {"idle", "next"}, rest \in SUBSET todo[w] :
         /\ pc' = [pc EXCEPT ![w] = point] /\ todo' = [todo EXCEPT ![w] = rest]
         /\ cur' = [cur EXCEPT ![w] = None]
  <2>1. CASE Close(w)
      BY <2>1 DEF Close, Goto
  <2>2. CASE ~Close(w)
      BY <2>2 DEF NextItem, Goto
  <2> QED BY <2>1, <2>2
<1>2. SessionTypes /\ FairWork(w)
    BY DEF PlanInv, PlanTypeOK, FairInv
<1>3. Alone(w) /\ todo'[w] = rest /\ cur'[w] = None
    BY <1>1, <1>2 DEF SessionTypes, Alone
<1>4. None \notin Changes
    BY Constants
<1>5. \A b \in todo'[w] \cap Changes : Owed(b)'
    BY <1>2, <1>3, StillKeeps DEF FairWork
<1> QED BY <1>3, <1>4, <1>5 DEF FairWork

LEMMA FairGoesOn ==
    ASSUME PlanInv, FairInv, NEW w \in Sessions, Still, NEW point,
           point \notin {"swap", "pay"}, point \in OwedPoints => pc[w] \in OwedPoints,
           pc' = [pc EXCEPT ![w] = point], UNCHANGED <<todo, cur>>
    PROVE  Alone(w) /\ FairWork(w)'
<1>1. SessionTypes /\ FairWork(w)
    BY DEF PlanInv, PlanTypeOK, FairInv
<1>2. Alone(w) /\ pc'[w] = point
    BY <1>1 DEF SessionTypes, Alone
<1>3. \A b \in todo'[w] \cap Changes : Owed(b)'
    BY <1>1, StillKeeps DEF FairWork
<1>4. cur[w] \in Changes /\ pc[w] \in OwedPoints => Owed(cur[w])'
    BY <1>1 DEF FairWork, Still, Owed, Net
<1> QED BY <1>2, <1>3, <1>4 DEF FairWork, Owed, Net

\* The two, with nothing else that FairInv is about.
LEMMA FairLeaves ==
    ASSUME PlanInv, FairInv, NEW w \in Sessions, Still, nextRetry' = nextRetry,
           NEW remaining \in SUBSET todo[w], NEW copy,
           \/ Close(w) \/ NextItem(w, remaining, copy)
           \/ \E point \in ControlPoints \ (OwedPoints \cup {"swap", "pay"}) : Continue(w, point)
    PROVE  FairInv'
<1>1. CASE Close(w) \/ NextItem(w, remaining, copy)
    BY <1>1, FairEnds, FairStill
<1>2. CASE \E point \in ControlPoints \ (OwedPoints \cup {"swap", "pay"}) : Continue(w, point)
    BY <1>2, FairGoesOn, FairStill DEF Continue, Goto
<1> QED BY <1>1, <1>2

\* The jobs take installments; the retry job takes invoices with a retry date,
\* and a change's has one only if something is owed.
LEMMA FairSelects ==
    ASSUME PlanInv, FairInv, NEW w \in Sessions,
           \/ JobSelect(w)
           \/ \E i \in Installments : JobItem(w, i)
           \/ RetrySelect(w)
           \/ \E b \in Bills : RetryItem(w, b)
    PROVE  FairInv'
<1>1. SessionTypes /\ FairWork(w) /\ \A b \in Changes : FairBill(b)
    BY DEF PlanInv, PlanTypeOK, FairInv
<1>2. Still
    BY DEF Still, JobSelect, JobItem, RetrySelect, RetryItem, invoices
<1>3. CASE JobSelect(w) \/ RetrySelect(w)
  <2>1. PICK batch \in SUBSET Bills :
           /\ \A b \in batch \cap Changes : Owed(b)
           /\ pc' = [pc EXCEPT ![w] = "next"] /\ todo' = [todo EXCEPT ![w] = batch]
           /\ cur' = cur /\ nextRetry' = nextRetry
    <3>1. CASE JobSelect(w)
      <4>1. DueInstallments \in SUBSET Bills /\ DueInstallments \cap Changes = {}
          BY Constants DEF DueInstallments
      <4> QED BY <3>1, <4>1 DEF JobSelect, Goto, invoices
    <3>2. CASE RetrySelect(w)
      <4> DEFINE batch == {b \in Bills : inv[b] = "open" /\ nextRetry[b] = "due"}
      <4>1. \A b \in batch \cap Changes : Owed(b)
          BY <1>1 DEF FairBill
      <4>2. batch \in SUBSET Bills
          OBVIOUS
      <4>3. /\ pc' = [pc EXCEPT ![w] = "next"] /\ todo' = [todo EXCEPT ![w] = batch]
            /\ cur' = cur /\ nextRetry' = nextRetry
          BY <3>2 DEF RetrySelect, Goto, invoices
      <4> HIDE DEF batch
      <4> QED BY <4>1, <4>2, <4>3
    <3> QED BY <1>3, <3>1, <3>2
  <2>2. Alone(w) /\ pc'[w] = "next" /\ todo'[w] = batch
      BY <1>1, <2>1 DEF SessionTypes, Alone
  <2>3. \A b \in todo'[w] \cap Changes : Owed(b)'
      BY <1>2, <2>1, <2>2, StillKeeps
  <2>4. FairWork(w)'
      BY <2>2, <2>3 DEF FairWork, OwedPoints
  <2> QED BY <1>2, <2>1, <2>2, <2>4, FairStill
<1>4. CASE \E i \in Installments : JobItem(w, i)
  <2>1. PICK i \in Installments : JobItem(w, i)
      BY <1>4
  <2>2. /\ Alone(w) /\ todo'[w] = todo[w] \ {i} /\ cur'[w] = i /\ i \notin Changes
        /\ nextRetry' = nextRetry
      BY <1>1, <2>1, Constants DEF JobItem, Goto, SessionTypes, Alone, invoices
  <2>3. \A b \in todo'[w] \cap Changes : Owed(b)'
      BY <1>1, <1>2, <2>2, StillKeeps DEF FairWork
  <2>4. FairWork(w)'
      BY <2>2, <2>3 DEF FairWork
  <2> QED BY <1>2, <2>2, <2>4, FairStill
<1>5. CASE \E b \in Bills : RetryItem(w, b)
  <2>1. PICK b \in Bills : RetryItem(w, b)
      BY <1>5
  <2>2. b \in todo[w]
      BY <2>1 DEF RetryItem
  <2>3. CASE /\ Goto(w, "charge") /\ todo' = [todo EXCEPT ![w] = @ \ {b}]
             /\ cur' = [cur EXCEPT ![w] = b] /\ nextRetry' = nextRetry
    <3>1. Alone(w) /\ todo'[w] = todo[w] \ {b} /\ cur'[w] = b /\ pc'[w] = "charge"
        BY <1>1, <2>3 DEF Goto, SessionTypes, Alone
    <3>2. \A a \in todo[w] \cap Changes : Owed(a)'
        BY <1>1, <1>2, StillKeeps DEF FairWork
    <3>3. b \in Changes => Owed(b)'
        BY <2>2, <3>2
    <3>4. FairWork(w)'
        BY <3>1, <3>2, <3>3 DEF FairWork, Owed, Net
    <3> QED BY <1>2, <2>3, <3>1, <3>4, FairStill
  <2>4. CASE nextRetry' = [nextRetry EXCEPT ![b] = "none"] /\ EndItem(w, todo[w] \ {b})
    <3>1. nextRetry \in [Bills -> {"none", "waiting", "due"}]
        BY DEF PlanInv, PlanTypeOK, RowTypes
    <3>2. \A a \in Changes : nextRetry'[a] # "none" => nextRetry[a] # "none"
        BY <2>4, <3>1, Constants
    <3>3. todo[w] \ {b} \in SUBSET todo[w]
        OBVIOUS
    <3>4. Alone(w) /\ FairWork(w)'
        BY <1>2, <2>4, <3>3, FairEnds DEF EndItem
    <3> QED BY <1>2, <3>2, <3>4, FairStill
  <2> QED BY <2>1, <2>3, <2>4 DEF RetryItem
<1> QED BY <1>3, <1>4, <1>5

\* A change of plan begins while its invoice does not exist: nothing is known
\* of it.
LEMMA FairChangeRead ==
    ASSUME PlanInv, FairInv, NEW c \in Changes, NEW to \in Plans, NEW cycle \in Cycles,
           ChangeRead(c, to, cycle)
    PROVE  FairInv'
<1>1. /\ c \in Sessions /\ SessionTypes /\ FairWork(c) /\ \A b \in Changes : FairBill(b)
      /\ change \in [Changes -> [swapped : BOOLEAN, from : Plans, to : Plans,
                                 days : Int, total : Int]]
    BY Constants DEF PlanInv, PlanTypeOK, RowTypes, FairInv
<1>2. /\ inv[c] = "none" /\ pc' = [pc EXCEPT ![c] = "create"]
      /\ UNCHANGED <<inv, ledger, nextRetry, todo, cur>>
      /\ \A b \in Changes \ {c} : change'[b] = change[b]
    BY <1>1 DEF ChangeRead, Goto
<1>3. \A b \in Changes \ {c} : Owed(b)' = Owed(b) /\ Net(b)' = Net(b)
    BY <1>2 DEF Owed, Net
<1>4. ~Owed(c)
    BY <1>2 DEF Owed
<1>5. \A b \in Changes : Captures(b)' = Captures(b)
    BY <1>2 DEF Captures
<1>6. Kept
    BY <1>2, <1>3, <1>4, <1>5 DEF Kept
<1>7. Alone(c) /\ pc'[c] = "create"
    BY <1>1, <1>2 DEF SessionTypes, Alone
<1>8. \A b \in todo'[c] \cap Changes : Owed(b)'
    BY <1>1, <1>2, <1>6 DEF FairWork, Kept
<1>9. FairWork(c)'
    BY <1>7, <1>8 DEF FairWork, OwedPoints
<1>10. \A u \in Sessions : FairWork(u)'
    BY <1>1, <1>6, <1>7, <1>9, FairOthers
<1>11. ASSUME NEW b \in Changes PROVE FairBill(b)'
  <2>1. CASE b = c
      BY <1>1, <1>2, <1>4, <1>5, <2>1 DEF FairBill
  <2>2. CASE b # c
      BY <1>1, <1>2, <1>3, <1>5, <2>2 DEF FairBill
  <2> QED BY <2>1, <2>2
<1> QED BY <1>10, <1>11 DEF FairInv

LEMMA FairChangeCreate ==
    ASSUME PlanInv, FairInv, NEW c \in Changes, ChangeCreate(c)
    PROVE  FairInv'
<1>1. /\ c \in Sessions /\ c \in Bills /\ SessionTypes /\ FairWork(c)
      /\ \A b \in Changes : FairBill(b) /\ b \in Bills
      /\ inv \in [Bills -> RowStatus]
    BY Constants DEF PlanInv, PlanTypeOK, RowTypes, FairInv
<1>2. /\ inv' = [inv EXCEPT ![c] = "open"] /\ pc' = [pc EXCEPT ![c] = "swap"]
      /\ cur' = [cur EXCEPT ![c] = c] /\ UNCHANGED <<ledger, nextRetry, todo, change>>
    BY DEF ChangeCreate, Goto
<1>3. \A b \in Changes : inv'[b] = IF b = c THEN "open" ELSE inv[b]
    BY <1>1, <1>2
<1>4. \A b \in Changes : Captures(b)' = Captures(b) /\ Net(b)' = Net(b)
    BY <1>2 DEF Captures, Net
<1>5. \A b \in Changes : Owed(b) => Owed(b)'
    BY <1>2, <1>3, <1>4 DEF Owed
<1>6. Kept
    BY <1>3, <1>4, <1>5 DEF Kept
<1>7. Alone(c) /\ pc'[c] = "swap" /\ cur'[c] = c
    BY <1>1, <1>2 DEF SessionTypes, Alone
<1>8. \A b \in todo'[c] \cap Changes : Owed(b)'
    BY <1>1, <1>2, <1>6 DEF FairWork, Kept
<1>9. FairWork(c)'
    BY <1>3, <1>7, <1>8 DEF FairWork, OwedPoints
<1>10. \A u \in Sessions : FairWork(u)'
    BY <1>1, <1>6, <1>7, <1>9, FairOthers
<1>11. ASSUME NEW b \in Changes PROVE FairBill(b)'
    BY <1>1, <1>2, <1>3, <1>4, <1>5 DEF FairBill
<1> QED BY <1>10, <1>11 DEF FairInv

LEMMA FairChangeSwap ==
    ASSUME PlanInv, FairInv, NEW c \in Changes, ChangeSwap(c)
    PROVE  FairInv'
<1>1. /\ c \in Sessions /\ SessionTypes /\ FairWork(c) /\ \A b \in Changes : FairBill(b)
      /\ change \in [Changes -> [swapped : BOOLEAN, from : Plans, to : Plans,
                                 days : Int, total : Int]]
    BY Constants DEF PlanInv, PlanTypeOK, RowTypes, FairInv
<1>2. cur[c] = c /\ Net(c).net \in Int
    BY <1>1, AtHand, NetIsWhole, Constants DEF ChangeSwap, PlanInv, WorkOK
<1>3. inv[c] # "none"
    BY <1>1, <1>2 DEF ChangeSwap, FairWork
<1>4. change' = [change EXCEPT ![c].swapped = TRUE]
      /\ UNCHANGED <<inv, ledger, nextRetry, todo, cur>>
    BY DEF ChangeSwap
<1>5. PICK point \in {"pay", "charge", "fail"} :
         /\ pc' = [pc EXCEPT ![c] = point]
         /\ IF point = "pay" THEN Net(c).net <= 0 ELSE Net(c).net > 0
  <2>1. CASE Net(c).net <= 0
      BY <1>2, <2>1 DEF ChangeSwap, Goto
  <2>2. CASE Net(c).net > 0
      BY <1>2, <2>2 DEF ChangeSwap, Goto
  <2> QED BY <1>2, <2>1, <2>2
<1>6. ASSUME NEW b \in Changes
      PROVE  /\ change'[b].from = change[b].from /\ change'[b].to = change[b].to
             /\ change'[b].days = change[b].days /\ change'[b].total = change[b].total
             /\ change'[b].swapped = (b = c \/ change[b].swapped)
    BY <1>1, <1>4, <1>6
<1>7. \A b \in Changes : Net(b)' = Net(b) /\ Captures(b)' = Captures(b)
    BY <1>4, <1>6 DEF Net, Captures
<1>8. \A b \in Changes : Owed(b) => Owed(b)'
    BY <1>4, <1>6, <1>7 DEF Owed
<1>9. Kept
    BY <1>4, <1>7, <1>8 DEF Kept
<1>10. Alone(c) /\ pc'[c] = point
    BY <1>1, <1>4, <1>5 DEF SessionTypes, Alone
<1>11. \A b \in todo'[c] \cap Changes : Owed(b)'
    BY <1>1, <1>4, <1>8 DEF FairWork
<1>12. point # "pay" => Owed(c)'
    BY <1>3, <1>4, <1>5, <1>6, <1>7 DEF Owed
<1>13. point = "pay" => Net(c)'.net <= 0
    BY <1>5, <1>7
<1>14. FairWork(c)'
    BY <1>2, <1>3, <1>4, <1>10, <1>11, <1>12, <1>13 DEF FairWork, OwedPoints
<1>15. \A u \in Sessions : FairWork(u)'
    BY <1>1, <1>9, <1>10, <1>14, FairOthers
<1>16. ASSUME NEW b \in Changes PROVE FairBill(b)'
    BY <1>1, <1>4, <1>7, <1>8 DEF FairBill
<1> QED BY <1>15, <1>16 DEF FairInv

LEMMA FairCharge ==
    ASSUME PlanInv, FairInv, NEW w \in Sessions, Charge(w)
    PROVE  FairInv'
<1> DEFINE a == cur[w]
           k == seen[w].tries[a]
<1>1. /\ SessionTypes /\ FairWork(w) /\ a \in Bills /\ pc[w] = "charge"
      /\ \A b \in Changes : FairBill(b) /\ b \in Bills
      /\ ledger \in [Bills -> [0 .. MaxAttempts -> Outcomes]]
    BY AtHand, Constants DEF PlanInv, PlanTypeOK, RowTypes, FairInv, Charge
<1>2. k \in 0 .. MaxAttempts
    BY <1>1, PlanBillingAssumption
       DEF Charge, SessionTypes, SessionRows, PlanBillingAssumption
<1>3. PICK outcome \in {Captured} \cup Declines :
         /\ ledger[a][k] \in {NoOutcome, outcome} /\ ledger' = [ledger EXCEPT ![a][k] = outcome]
    BY DEF Charge
<1>4. /\ pc' = [pc EXCEPT ![w] = "record"]
      /\ UNCHANGED <<inv, nextRetry, change, todo, cur>>
    BY DEF Charge, Goto, invoices
<1>5. \A b \in Changes : b # a => Captures(b)' = Captures(b)
    BY <1>1, <1>3 DEF Captures
<1>6. a \in Changes => Owed(a)
    BY <1>1 DEF FairWork, OwedPoints
<1>7. ASSUME NEW b \in Changes, b = a, NEW n \in Captures(b) PROVE n \in Captures(b)'
  <2>1. n \in 0 .. MaxAttempts /\ ledger[b][n] = Captured /\ b \in Bills
      BY <1>1, <1>7 DEF Captures
  <2>2. ledger'[b][n] = Captured
    <3>1. CASE n = k
        BY <1>1, <1>2, <1>3, <1>7, <2>1, <3>1, Constants
    <3>2. CASE n # k
        BY <1>1, <1>2, <1>3, <1>7, <2>1, <3>2
    <3> QED BY <3>1, <3>2
  <2> QED BY <2>1, <2>2 DEF Captures
<1>8. \A b \in Changes : Captures(b) # {} => Captures(b)' # {}
    BY <1>5, <1>7
<1>9. \A b \in Changes : Net(b)' = Net(b) /\ Owed(b)' = Owed(b)
    BY <1>4 DEF Net, Owed
<1>10. Kept
    BY <1>4, <1>8, <1>9 DEF Kept
<1>11. Alone(w) /\ pc'[w] = "record"
    BY <1>1, <1>4 DEF SessionTypes, Alone
<1>12. \A b \in todo'[w] \cap Changes : Owed(b)'
    BY <1>1, <1>4, <1>9 DEF FairWork
<1>13. FairWork(w)'
    BY <1>4, <1>6, <1>11, <1>12 DEF FairWork, Owed, Net
<1>14. \A u \in Sessions : FairWork(u)'
    BY <1>10, <1>11, <1>13, FairOthers
<1>15. ASSUME NEW b \in Changes PROVE FairBill(b)'
  <2>1. CASE b = a
      BY <1>1, <1>4, <1>6, <1>8, <1>9, <2>1 DEF FairBill
  <2>2. CASE b # a
      BY <1>1, <1>4, <1>5, <1>9, <2>2 DEF FairBill
  <2> QED BY <2>1, <2>2
<1> QED BY <1>14, <1>15 DEF FairInv

LEMMA FairRecord ==
    ASSUME PlanInv, FairInv, NEW w \in Sessions, RecordAttempt(w)
    PROVE  FairInv'
<1>1. /\ SessionTypes /\ FairWork(w) /\ WorkOK(w) /\ cur[w] \in Bills /\ pc[w] = "record"
    BY AtHand DEF PlanInv, PlanTypeOK, FairInv, RecordAttempt
<1>2. /\ Still /\ UNCHANGED <<nextRetry, todo, cur>>
      /\ pc' = [pc EXCEPT ![w] = IF answer[w] = Captured THEN "pay" ELSE "fail"]
    BY DEF RecordAttempt, Goto, Still
<1>3. Alone(w) /\ pc'[w] = IF answer[w] = Captured THEN "pay" ELSE "fail"
    BY <1>1, <1>2 DEF SessionTypes, Alone
<1>4. \A b \in todo'[w] \cap Changes : Owed(b)'
    BY <1>1, <1>2, StillKeeps DEF FairWork
<1>5. cur[w] \in Changes => Owed(cur[w])'
    BY <1>1, <1>2 DEF FairWork, OwedPoints, Still, Owed, Net
<1>6. answer[w] = Captured => Captures(cur[w])' # {}
    BY <1>1, <1>2 DEF WorkOK, Captures, Still
<1>7. FairWork(w)'
    BY <1>2, <1>3, <1>4, <1>5, <1>6 DEF FairWork, OwedPoints, Owed, Net, Captures
<1> QED BY <1>2, <1>3, <1>7, FairStill

LEMMA FairPay ==
    ASSUME PlanInv, FairInv, NEW w \in Sessions, PayInvoice(w)
    PROVE  FairInv'
<1>1. /\ SessionTypes /\ FairWork(w) /\ cur[w] \in Bills /\ pc[w] = "pay"
      /\ \A b \in Changes : FairBill(b) /\ b \in Bills
      /\ inv \in [Bills -> RowStatus]
    BY AtHand, Constants DEF PlanInv, PlanTypeOK, RowTypes, FairInv, PayInvoice
<1>2. UNCHANGED <<ledger, nextRetry, change>>
    BY DEF PayInvoice
<1>3. CASE Close(w) /\ UNCHANGED inv
  <2>1. Still
      BY <1>2, <1>3 DEF Still
  <2>2. Alone(w) /\ FairWork(w)'
      BY <1>3, <2>1, FairEnds
  <2> QED BY <1>2, <2>1, <2>2, FairStill
<1>4. CASE inv' = [inv EXCEPT ![cur[w]] = "paid"] /\ Continue(w, "remaining")
  <2>1. pc' = [pc EXCEPT ![w] = "remaining"] /\ UNCHANGED <<todo, cur>>
      BY <1>4 DEF Continue, Goto
  <2>2. \A b \in Changes : inv'[b] = IF b = cur[w] THEN "paid" ELSE inv[b]
      BY <1>1, <1>4
  <2>3. \A b \in Changes : Captures(b)' = Captures(b) /\ Net(b)' = Net(b)
      BY <1>2 DEF Captures, Net
  <2>4. \A b \in Changes : Owed(b) => Owed(b)'
      BY <1>2, <2>2, <2>3 DEF Owed
  <2>5. Kept
      BY <2>2, <2>3, <2>4 DEF Kept
  <2>6. Alone(w) /\ pc'[w] = "remaining"
      BY <1>1, <2>1 DEF SessionTypes, Alone
  <2>7. \A b \in todo'[w] \cap Changes : Owed(b)'
      BY <1>1, <2>1, <2>4 DEF FairWork
  <2>8. FairWork(w)'
      BY <2>6, <2>7 DEF FairWork, OwedPoints
  <2>9. \A u \in Sessions : FairWork(u)'
      BY <2>5, <2>6, <2>8, FairOthers
  <2>10. ASSUME NEW b \in Changes PROVE FairBill(b)'
    <3>1. CASE b = cur[w]
        BY <1>1, <1>2, <2>2, <2>3, <2>4, <3>1 DEF FairBill, FairWork
    <3>2. CASE b # cur[w]
        BY <1>1, <1>2, <2>2, <2>3, <2>4, <3>2 DEF FairBill
    <3> QED BY <3>1, <3>2
  <2> QED BY <2>9, <2>10 DEF FairInv
<1> QED BY <1>3, <1>4 DEF PayInvoice

\* The decision of dunning gives an invoice a retry date only if it is owed.
LEMMA FairSettles ==
    ASSUME PlanInv, FairInv, NEW w \in Sessions, ScheduleRetry(w) \/ AdvanceCycle(w)
    PROVE  FairInv'
<1>1. /\ SessionTypes /\ FairWork(w) /\ cur[w] \in Bills
      /\ pc[w] \in {"fail", "schedule", "flag", "exhaust"}
      /\ nextRetry \in [Bills -> {"none", "waiting", "due"}]
    BY AtHand DEF PlanInv, PlanTypeOK, RowTypes, FairInv, ScheduleRetry, AdvanceCycle
<1>2. PICK decision : Settle(w, decision)
    BY DEF ScheduleRetry, AdvanceCycle
<1>3. Still /\ nextRetry' = [nextRetry EXCEPT
                  ![cur[w]] = IF decision = "schedule" THEN "waiting" ELSE "none"]
    BY <1>2 DEF Settle, Still
<1>4. cur[w] \in Changes => Owed(cur[w])
    BY <1>1 DEF FairWork, OwedPoints
<1>5. \A b \in Changes : nextRetry'[b] # "none" => nextRetry[b] # "none" \/ Owed(b)
    BY <1>1, <1>3, <1>4, Constants
<1>6. CASE Continue(w, "revoke")
  <2>1. "revoke" \notin {"swap", "pay"} \cup OwedPoints
      BY DEF OwedPoints
  <2>2. pc' = [pc EXCEPT ![w] = "revoke"] /\ UNCHANGED <<todo, cur>>
      BY <1>6 DEF Continue, Goto
  <2> QED BY <1>3, <1>5, <2>1, <2>2, FairGoesOn, FairStill
<1>7. CASE EndItem(w, todo[w])
    BY <1>3, <1>5, <1>7, FairEnds, FairStill DEF EndItem
<1> QED BY <1>2, <1>6, <1>7 DEF Settle

LEMMA FairOpens ==
    ASSUME PlanInv, FairInv, NEW w \in Sessions, OpenCycle(w)
    PROVE  FairInv'
<1>1. PICK point \in {"schedule", "flag", "exhaust"} : Continue(w, point)
    BY DEF OpenCycle, Decision
<1>2. /\ Still /\ nextRetry' = nextRetry /\ pc[w] \in OwedPoints
      /\ pc' = [pc EXCEPT ![w] = point] /\ UNCHANGED <<todo, cur>>
    BY <1>1 DEF OpenCycle, Still, Continue, Goto, OwedPoints
<1> QED BY <1>2, FairGoesOn, FairStill

\* What is left of a session's work.
LEMMA FairRest ==
    ASSUME PlanInv, FairInv, NEW w \in Sessions,
           \/ Remaining(w) \/ Complete(w) \/ SkipDunning(w) \/ Revoke(w)
           \/ Recover(w) \/ LoseAnswer(w) \/ Abort(w)
    PROVE  FairInv'
<1>1. Still /\ nextRetry' = nextRetry
    BY DEF Still, Remaining, Complete, SkipDunning, Revoke, Recover, LoseAnswer, Abort, invoices
<1>2. \/ Close(w)
      \/ \E copy : NextItem(w, todo[w], copy)
      \/ Continue(w, "complete") \/ Continue(w, "clear")
    BY DEF Remaining, AfterPayment, Complete, SkipDunning, Revoke, Recover, LoseAnswer, Abort,
           EndItem
<1>3. {"complete", "clear"} \subseteq ControlPoints \ (OwedPoints \cup {"swap", "pay"})
    BY DEF ControlPoints, OwedPoints
<1>4. CASE Close(w) \/ \E copy : NextItem(w, todo[w], copy)
    BY <1>1, <1>4, FairLeaves
<1>5. CASE Continue(w, "complete") \/ Continue(w, "clear")
    BY <1>1, <1>3, <1>5, FairLeaves
<1> QED BY <1>2, <1>4, <1>5

LEMMA FairClears ==
    ASSUME PlanInv, FairInv, NEW w \in Sessions, ClearDunning(w)
    PROVE  FairInv'
<1>1. nextRetry \in [Bills -> {"none", "waiting", "due"}]
    BY DEF PlanInv, PlanTypeOK, RowTypes
<1>2. /\ Still /\ nextRetry' = [nextRetry EXCEPT ![cur[w]] = "none"]
      /\ pc' = [pc EXCEPT ![w] = "recover"] /\ UNCHANGED <<todo, cur>>
    BY DEF ClearDunning, Still, Continue, Goto
<1>3. \A b \in Changes : nextRetry'[b] # "none" => nextRetry[b] # "none"
    BY <1>1, <1>2, Constants
<1>4. "recover" \notin {"swap", "pay"} \cup OwedPoints
    BY DEF OwedPoints
<1> QED BY <1>2, <1>3, <1>4, FairGoesOn, FairStill

LEMMA FairWorld ==
    ASSUME PlanInv, FairInv,
           \/ \E i \in Installments : FallsDue(i)
           \/ \E b \in Bills : RetryComesDue(b)
           \/ LoseCard \/ Cancel \/ UNCHANGED vars
    PROVE  FairInv'
<1>1. Still /\ UNCHANGED <<pc, todo, cur>>
    BY DEF Still, FallsDue, RetryComesDue, LoseCard, Cancel, invoices, session, vars
<1>2. nextRetry \in [Bills -> {"none", "waiting", "due"}]
    BY DEF PlanInv, PlanTypeOK, RowTypes
<1>3. \A b \in Changes : nextRetry'[b] # "none" => nextRetry[b] # "none"
    BY <1>2, Constants DEF FallsDue, RetryComesDue, LoseCard, Cancel, invoices, vars
<1>4. ASSUME NEW b \in Changes PROVE FairBill(b)'
    BY <1>1, <1>3, StillKeeps DEF FairInv, FairBill, Still
<1>5. ASSUME NEW w \in Sessions PROVE FairWork(w)'
    BY <1>1 DEF FairInv, FairWork, Still, Owed, Net, Captures
<1> QED BY <1>4, <1>5 DEF FairInv

LEMMA FairInit == Init => FairInv
<1> SUFFICES ASSUME Init PROVE FairInv
    OBVIOUS
<1>1. ASSUME NEW b \in Changes PROVE FairBill(b)
  <2>1. b \in Bills /\ b \notin Installments
      BY <1>1, Constants
  <2>2. inv[b] = "none" /\ nextRetry[b] = "none"
      BY <1>1, <2>1 DEF Init
  <2>3. b # 1
      BY <2>1, PlanBillingAssumption DEF PlanBillingAssumption, Installments
  <2>4. ASSUME NEW k \in 0 .. MaxAttempts PROVE ledger[b][k] # Captured
      BY <2>1, <2>3, <2>4, Constants DEF Init
  <2> QED BY <2>2, <2>4 DEF FairBill, Captures
<1>2. ASSUME NEW w \in Sessions PROVE FairWork(w)
    BY Constants DEF Init, FairWork
<1> QED BY <1>1, <1>2 DEF FairInv

LEMMA FairStep == PlanInv /\ FairInv /\ [Next]_vars => FairInv'
<1> SUFFICES ASSUME PlanInv, FairInv, [Next]_vars PROVE FairInv'
    OBVIOUS
<1>1. ASSUME NEW w \in Sessions, Collect(w) PROVE FairInv'
    BY <1>1, FairCharge, FairRecord, FairPay, FairRest, FairOpens, FairSettles DEF Collect
<1>2. CASE \E w \in Jobs : Job(w)
    BY <1>1, <1>2, FairSelects, Constants DEF Job
<1>3. CASE \E w \in Retriers : Retrier(w)
    BY <1>1, <1>3, FairSelects, FairClears, FairRest, Constants DEF Retrier
<1>4. CASE \E c \in Changes : Change(c)
    BY <1>1, <1>4, FairChangeRead, FairChangeCreate, FairChangeSwap, Constants DEF Change
<1>5. CASE \E w \in Sessions : LoseAnswer(w) \/ Abort(w)
    BY <1>5, FairRest
<1> QED BY <1>2, <1>3, <1>4, <1>5, FairWorld DEF Next

LEMMA FairInvariant == Spec => [](PlanInv /\ FairInv)
<1>1. Spec => []PlanInv
    BY PlanInvariant
<1> QED BY <1>1, FairInit, FairStep, PTL DEF Spec
----------------------------------------------------------------------------
(* The arithmetic of proration. *)

LEMMA Division ==
    \A n \in Int : \A d \in Int : d > 0 =>
        /\ n \div d \in Int /\ n % d \in 0 .. d - 1
        /\ n = d * (n \div d) + (n % d)
<1>1. \A n \in Int : \A d \in Int : d > 0 => n \div d \in Int /\ n % d \in 0 .. d - 1
    OBVIOUS
<1>2. \A n \in Int : \A d \in Int : d > 0 => n = d * (n \div d) + (n % d)
    OBVIOUS
<1> QED BY <1>1, <1>2

\* Rounding moves a quotient by half a unit at most.
LEMMA RoundingIsClose ==
    ASSUME NEW n \in Int, NEW d \in Int, d > 0
    PROVE  /\ RoundHalfEven(n, d) \in Int
           /\ 2 * (d * RoundHalfEven(n, d) - n) \in -d .. d
<1> DEFINE q == n \div d
           r == n % d
<1>1. q \in Int /\ r \in 0 .. d - 1 /\ n = d * q + r
    BY Division
<1>2. \/ RoundHalfEven(n, d) = q /\ 2 * r <= d
      \/ RoundHalfEven(n, d) = q + 1 /\ 2 * r >= d
    BY <1>1 DEF RoundHalfEven
<1> HIDE DEF q, r
<1>3. d * q \in Int /\ d * (q + 1) = d * q + d
    BY <1>1
<1>4. CASE RoundHalfEven(n, d) = q /\ 2 * r <= d
    BY <1>1, <1>3, <1>4
<1>5. CASE RoundHalfEven(n, d) = q + 1 /\ 2 * r >= d
    BY <1>1, <1>3, <1>5
<1> QED BY <1>2, <1>4, <1>5

\* The two roundings of a proration together cost a unit at most.
LEMMA ProrationIsClose ==
    ASSUME NEW old \in Nat, NEW new \in Nat, NEW days \in Int, NEW total \in Int
    PROVE  LET net == CalculateProration(old, new, days, total).net
           IN  /\ net \in Int
               /\ total <= 0 => net = 0
               /\ total > 0 => total * net - (new - old) * Clamp(days, total) \in -total .. total
<1> DEFINE left == Clamp(days, total)
           credit == Prorate(old, days, total)
           charge == Prorate(new, days, total)
<1>1. left \in Int
    BY DEF Clamp
<1>2. CalculateProration(old, new, days, total).net = charge - credit
    BY DEF CalculateProration
<1>3. CASE total <= 0
  <2>1. credit = 0 /\ charge = 0
      BY <1>3 DEF Prorate
  <2> HIDE DEF credit, charge, left
  <2> QED BY <1>2, <1>3, <2>1
<1>4. CASE total > 0
  <2> DEFINE m == old * left
             n == new * left
  <2>1. credit = RoundHalfEven(m, total) /\ charge = RoundHalfEven(n, total)
      BY <1>4 DEF Prorate
  <2> HIDE DEF left
  <2>2. m \in Int /\ n \in Int /\ (new - old) * left = n - m
      BY <1>1
  <2> HIDE DEF m, n, credit, charge
  <2>3. /\ credit \in Int /\ 2 * (total * credit - m) \in -total .. total
        /\ charge \in Int /\ 2 * (total * charge - n) \in -total .. total
      BY <1>4, <2>1, <2>2, RoundingIsClose
  <2>4. total * (charge - credit) = total * charge - total * credit
      BY <2>3
  <2>5. total * charge \in Int /\ total * credit \in Int
      BY <2>3
  <2>6. total * (charge - credit) - (n - m) \in -total .. total
      BY <1>4, <2>2, <2>3, <2>4, <2>5
  <2>7. charge - credit \in Int
      BY <2>3
  <2> QED BY <1>2, <1>4, <2>2, <2>6, <2>7 DEF left
<1> QED BY <1>3, <1>4

\* ChangeIsFair for every number of sessions and changes, all prices and
\* cycles: what a change costs is the price difference of the days left to the
\* minor unit, and no job, retry or abort captures money for a change that was
\* not made or for which nothing is due.
THEOREM ChangesAreFair == Spec => []ChangeIsFair
<1>1. ASSUME PlanInv, FairInv PROVE ChangeIsFair
  <2> SUFFICES ASSUME NEW c \in Changes
               PROVE  LET this == change[c]
                          left == Clamp(this.days, this.total)
                          exact == (Price[this.to] - Price[this.from]) * left
                      IN  /\ this.total > 0 => Abs(this.total * Net(c).net - exact) <= this.total
                          /\ this.total <= 0 => Net(c).net = 0
                          /\ Captures(c) # {} => this.swapped /\ Net(c).net > 0
                          /\ inv[c] = "paid" /\ Captures(c) = {} => Net(c).net <= 0
      BY DEF ChangeIsFair
  <2> DEFINE days == change[c].days
             total == change[c].total
             old == Price[change[c].from]
             new == Price[change[c].to]
             net == Net(c).net
             off == total * net - (new - old) * Clamp(days, total)
  <2>1. days \in Int /\ total \in Int /\ old \in Nat /\ new \in Nat
      BY <1>1, PlanBillingAssumption DEF PlanBillingAssumption, PlanInv, PlanTypeOK, RowTypes
  <2>2. net = CalculateProration(old, new, days, total).net
      BY DEF Net
  <2>3. FairBill(c)
      BY <1>1 DEF FairInv
  <2> HIDE DEF days, total, old, new, net
  <2>4. /\ total <= 0 => net = 0
        /\ total > 0 => off \in -total .. total
      BY <2>1, <2>2, ProrationIsClose
  <2> HIDE DEF off
  <2>5. total > 0 => Abs(off) <= total
      BY <2>1, <2>4 DEF Abs
  <2> QED BY <2>3, <2>4, <2>5 DEF FairBill, Owed, days, total, old, new, net, off
<1> QED BY <1>1, FairInvariant, PTL
==========================================================================
