------------------------ MODULE RenewalSoloProofs ------------------------
(***************************************************************************)
(* Theorems about Renewal when runs of one job do not overlap and no       *)
(* customer request falls between a job's read and its write: the          *)
(* promises that overlapping sessions break.  They hold for every number   *)
(* of subscriptions and every bound, for cards that come and go, and for   *)
(* jobs cut short wherever the theorem at hand allows it.                  *)
(***************************************************************************)
EXTENDS RenewalProofs

\* One run of each job at a time, and no request.
Solo ==
    /\ \A v, w \in Billers : v = w
    /\ \A v, w \in Retriers : v = w
    /\ \A v, w \in Graces : v = w
    /\ Billers \cap Retriers = {}
    /\ Billers \cap Graces = {}
    /\ Retriers \cap Graces = {}
    /\ Requests = {}

\* The control points at which a job works on a subscription.
Working == {"create"} \cup Holding

\* A session works on a subscription, or will when its turn comes.
Uses(w, s) ==
    \/ pc[w] \in Working /\ at[w] = s
    \/ s \in todo[w]
    \/ \E i \in todo[w] \cap Invoices : i.sub = s

\* No two sessions have to do with one subscription.
Exclusive ==
    \A v, w \in Sessions : \A s \in Subs : Uses(v, s) /\ Uses(w, s) => v = w

InvoicesOf(s) == {i \in Invoices : i.sub = s}

NoneOpen(s) == \A i \in InvoicesOf(s) : invStatus[i] # "open"

\* What the rows of a subscription and its invoices say of each other.
InvoiceSound(i) ==
    LET s == i.sub
    IN  /\ invStatus[i] \in {"none", "open", "paid"}
        /\ invStatus[i] # "none" => i.period <= subPeriod[s]
        /\ invStatus[i] = "none" =>
             /\ attempts[i] = 0 /\ retries[i] = 0
             /\ nextRetry[i] = "none" /\ anchor[i] = "none"
        /\ invStatus[i] = "open" =>
             /\ i.period = subPeriod[s]
             /\ nextRetry[i] # "none" => subStatus[s] = "past_due"
             /\ subStatus[s] = "active" => retries[i] = 0 /\ anchor[i] = "none"
        /\ anchor[i] # "requires_action"

SubSound(s) ==
    /\ \A i \in InvoicesOf(s) : InvoiceSound(i)
    /\ \A i, j \in InvoicesOf(s) :
         invStatus[i] = "open" /\ invStatus[j] = "open" => i = j

\* The billing job's copies of a subscription are still its row.
Fresh(b, s) ==
    /\ subStatus[s] = "active" /\ seenStatus[b][s] = "active"
    /\ seenPeriod[b][s] = subPeriod[s]

\* A session holds an open invoice of the subscription it works on.
HoldsOpen(w) == cur[w] \in InvoicesOf(at[w]) /\ invStatus[cur[w]] = "open"

\* It has just paid the invoice of the current period.
HoldsPaid(w) ==
    /\ cur[w] \in InvoicesOf(at[w]) /\ invStatus[cur[w]] = "paid"
    /\ cur[w].period = subPeriod[at[w]]
    /\ NoneOpen(at[w])

\* Its copies of the invoice are still the row.
CopiesSound(w) ==
    /\ pc[w] \in {"charge", "record"} => seenAttempts[w][cur[w]] = attempts[cur[w]]
    /\ pc[w] = "pay" => seenInvoice[w] = "open"
    /\ pc[w] = "fail" => seenAnchor[w] = anchor[cur[w]]

BillerSound(b) ==
    /\ pc[b] \in {"idle", "next", "create", "charge", "record", "pay", "advance",
                  "fail", "schedule", "flag"}
    /\ todo[b] \subseteq Subs
    /\ \A s \in todo[b] : Fresh(b, s)
    /\ pc[b] \in {"create", "charge", "record", "pay", "advance", "fail"}
         => Fresh(b, at[b])
    /\ pc[b] = "create" => NoneOpen(at[b])
    /\ pc[b] \in {"charge", "record", "pay", "fail", "schedule", "flag"}
         => HoldsOpen(b)
    /\ pc[b] = "advance" => HoldsPaid(b)
    /\ pc[b] \in {"schedule", "flag"} =>
         /\ subStatus[at[b]] = "past_due"
         /\ nextRetry[cur[b]] = "none" /\ anchor[cur[b]] # "none"
    /\ pc[b] = "schedule" => retries[cur[b]] < Len(RetrySchedule(anchor[cur[b]]))
    /\ pc[b] = "flag" => RequiresPaymentMethodUpdate(anchor[cur[b]])
    /\ pc[b] \in Working => at[b] \notin todo[b]
    /\ CopiesSound(b)

RetrierSound(r) ==
    /\ pc[r] \in {"idle", "next", "charge", "record", "pay", "clear", "recover",
                  "fail", "revoke"}
    /\ todo[r] \subseteq Invoices
    /\ \A i \in todo[r] : /\ invStatus[i] = "open" /\ nextRetry[i] = "due"
                          /\ seenAttempts[r][i] = attempts[i]
    /\ pc[r] \in Working =>
         /\ subStatus[at[r]] = "past_due"
         /\ \A i \in todo[r] : i.sub # at[r]
    /\ pc[r] \in {"charge", "record", "pay", "clear", "recover", "fail"} =>
         /\ seenStatus[r][at[r]] = "past_due"
         /\ seenPeriod[r][at[r]] = subPeriod[at[r]]
    /\ pc[r] \in {"charge", "record", "pay", "fail"} =>
         HoldsOpen(r) /\ nextRetry[cur[r]] = "due"
    /\ pc[r] \in {"clear", "recover"} => HoldsPaid(r)
    /\ pc[r] \in {"pay", "fail"} => retries[cur[r]] > 0
    /\ pc[r] = "revoke" =>
         /\ HoldsOpen(r) /\ nextRetry[cur[r]] = "none"
         /\ anchor[cur[r]] # "none" /\ retries[cur[r]] > 0
         /\ retries[cur[r]] >= Len(RetrySchedule(anchor[cur[r]]))
    /\ CopiesSound(r)

GraceSound(g) ==
    /\ pc[g] \in {"idle", "next"}
    /\ todo[g] \subseteq Subs
    /\ \A s \in todo[g] : subStatus[s] = "unpaid" /\ seenStatus[g][s] = "unpaid"

SessionSound(w) ==
    /\ w \in Billers => BillerSound(w)
    /\ w \in Retriers => RetrierSound(w)
    /\ w \in Graces => GraceSound(w)

SoloInv ==
    /\ \A s \in Subs : SubSound(s)
    /\ \A w \in Sessions : SessionSound(w)
    /\ Exclusive
--------------------------------------------------------------------------
\* A step works on the rows of one subscription, and leaves the sessions that
\* have nothing to do with it as they were.

\* The rows of every subscription but this one stay.
Frame(s) ==
    /\ \A t \in Subs : t # s => /\ subStatus'[t] = subStatus[t]
                                /\ subPeriod'[t] = subPeriod[t]
    /\ \A i \in Invoices : i.sub # s =>
         /\ invStatus'[i] = invStatus[i] /\ attempts'[i] = attempts[i]
         /\ retries'[i] = retries[i] /\ nextRetry'[i] = nextRetry[i]
         /\ anchor'[i] = anchor[i]

\* A session stays where it is.
SameSession(v) ==
    /\ pc'[v] = pc[v] /\ todo'[v] = todo[v] /\ at'[v] = at[v]
    /\ cur'[v] = cur[v] /\ answer'[v] = answer[v]
    /\ seenStatus'[v] = seenStatus[v] /\ seenPeriod'[v] = seenPeriod[v]
    /\ seenAttempts'[v] = seenAttempts[v]
    /\ seenInvoice'[v] = seenInvoice[v] /\ seenAnchor'[v] = seenAnchor[v]

\* What is sound about a subscription stays sound while others are worked on.
LEMMA SubFramed ==
    ASSUME NEW s, Frame(s), NEW t \in Subs, t # s, SubSound(t)
    PROVE  SubSound(t)'
BY DEF Frame, SubSound, InvoiceSound, InvoicesOf

\* So is what a session holds, and its batch.
LEMMA SessionFramed ==
    ASSUME TypeOK, AllReady, Solo, NEW s, Frame(s), NEW v \in Sessions,
           SameSession(v), s \in Subs => ~Uses(v, s), SessionSound(v)
    PROVE  SessionSound(v)'
<1>1. pc[v] \in Working => at[v] \in Subs /\ at[v] # s
    BY DEF Working, AllReady, Ready, Uses
<1> \A i \in Invoices : i.sub \in Subs
    BY DEF Invoices
<1>2. CASE v \in Billers
  <2>1. BillerSound(v)
      BY <1>2 DEF SessionSound
  <2>2. \A t \in todo[v] : t \in Subs /\ t # s
      BY <2>1 DEF BillerSound, Uses
  <2>3. BillerSound(v)'
      BY <1>1, <2>1, <2>2 DEF BillerSound, Frame, SameSession, Fresh, NoneOpen,
         HoldsOpen, HoldsPaid, InvoicesOf, CopiesSound, Working, Holding
  <2> QED BY <1>2, <2>3 DEF SessionSound, Solo
<1>3. CASE v \in Retriers
  <2>1. RetrierSound(v)
      BY <1>3 DEF SessionSound
  <2>2. \A i \in todo[v] : i \in Invoices /\ i.sub # s
      BY <2>1 DEF RetrierSound, Uses
  <2>3. RetrierSound(v)'
      BY <1>1, <2>1, <2>2 DEF RetrierSound, Frame, SameSession, NoneOpen,
         HoldsOpen, HoldsPaid, InvoicesOf, CopiesSound, Working, Holding
  <2> QED BY <1>3, <2>3 DEF SessionSound, Solo
<1>4. CASE v \in Graces
  <2>1. GraceSound(v)
      BY <1>4 DEF SessionSound
  <2>2. \A t \in todo[v] : t \in Subs /\ t # s
      BY <2>1 DEF GraceSound, Uses
  <2>3. GraceSound(v)'
      BY <2>1, <2>2 DEF GraceSound, Frame, SameSession
  <2> QED BY <1>4, <2>3 DEF SessionSound, Solo
<1> QED BY <1>2, <1>3, <1>4 DEF Sessions, Solo

\* A step of one session keeps the invariant if it works on one subscription,
\* which no other session has to do with, leaves it sound, and takes up
\* nothing another session has to do with.
LEMMA StepSound ==
    ASSUME TypeOK, AllReady, Solo, SoloInv, NEW w \in Sessions, NEW s, Frame(s),
           \A v \in Sessions \ {w} : SameSession(v),
           s \in Subs => /\ \A v \in Sessions \ {w} : ~Uses(v, s)
                         /\ SubSound(s)',
           SessionSound(w)',
           \A t \in Subs : Uses(w, t)' =>
                \/ Uses(w, t)
                \/ \A v \in Sessions \ {w} : ~Uses(v, t)
    PROVE  SoloInv'
<1>1. \A t \in Subs : SubSound(t)'
    BY SubFramed DEF SoloInv
<1>2. \A v \in Sessions : SessionSound(v)'
    BY SessionFramed DEF SoloInv
<1>3. ASSUME NEW u \in Sessions, NEW v \in Sessions, NEW t \in Subs,
             Uses(u, t)', Uses(v, t)', u # v
      PROVE  FALSE
  <2>1. \A x \in Sessions \ {w} : Uses(x, t)' => Uses(x, t)
      BY DEF Uses, SameSession
  <2>2. Uses(u, t) /\ Uses(v, t) => FALSE
      BY <1>3 DEF SoloInv, Exclusive
  <2>3. CASE u # w /\ v # w
      BY <1>3, <2>1, <2>2, <2>3
  <2>4. CASE u = w
      BY <1>3, <2>1, <2>2, <2>4
  <2>5. CASE v = w
      BY <1>3, <2>1, <2>2, <2>5
  <2> QED BY <2>3, <2>4, <2>5
<1>4. Exclusive'
    BY <1>3 DEF Exclusive
<1> QED BY <1>1, <1>2, <1>4 DEF SoloInv

\* No session but the one that works on a subscription has to do with it.
LEMMA OthersAway ==
    ASSUME SoloInv, NEW w \in Sessions, NEW s \in Subs, Uses(w, s),
           NEW v \in Sessions \ {w}
    PROVE  ~Uses(v, s)
BY DEF SoloInv, Exclusive

\* A session that ends is sound and has to do with nothing.
LEMMA CloseSound ==
    ASSUME TypeOK, Solo, NEW w \in Sessions, Close(w)
    PROVE  SessionSound(w)' /\ \A t : ~Uses(w, t)'
<1>1. pc'[w] = "idle" /\ todo'[w] = {}
    BY DEF Close, TypeOK, SessionsOK
<1>2. \A t : ~Uses(w, t)'
    BY <1>1 DEF Uses, Working, Holding
<1>3. SessionSound(w)'
    BY <1>1 DEF SessionSound, BillerSound, RetrierSound, GraceSound, CopiesSound,
       Working, Holding
<1> QED BY <1>2, <1>3

\* One that goes on to the rest of its batch is, if the step was about none of
\* that.
LEMMA EndItemSound ==
    ASSUME TypeOK, Solo, NEW w \in Sessions, SessionSound(w), NEW s, Frame(s),
           NEW remaining \in SUBSET todo[w], EndItem(w, remaining),
           s \notin remaining, \A i \in remaining \cap Invoices : i.sub # s
    PROVE  SessionSound(w)' /\ \A t : Uses(w, t)' => Uses(w, t)
<1>1. CASE remaining = {}
    BY <1>1, CloseSound DEF EndItem
<1>2. CASE remaining # {}
  <2>1. /\ pc'[w] = "next" /\ todo'[w] = remaining
        /\ seenStatus'[w] = seenStatus[w] /\ seenPeriod'[w] = seenPeriod[w]
        /\ seenAttempts'[w] = seenAttempts[w]
      BY <1>2 DEF EndItem, TypeOK, SessionsOK, seen, subscriptionCopies,
                  invoiceCopies
  <2>2. \A t : Uses(w, t)' => Uses(w, t)
      BY <2>1 DEF Uses, Working, Holding
  <2>3. w \in Billers => BillerSound(w)'
      BY <2>1 DEF SessionSound, BillerSound, Fresh, Frame, CopiesSound, Working,
                  Holding
  <2>4. w \in Retriers => RetrierSound(w)'
      BY <2>1 DEF SessionSound, RetrierSound, Frame, CopiesSound, Working, Holding
  <2>5. w \in Graces => GraceSound(w)'
      BY <2>1 DEF SessionSound, GraceSound, Frame
  <2> QED BY <2>2, <2>3, <2>4, <2>5 DEF SessionSound
<1> QED BY <1>1, <1>2

\* What having to do with a subscription says of its row.
LEMMA UsersKnow ==
    ASSUME RenewalAssumption, Solo, SoloInv, NEW v \in Sessions, NEW s \in Subs,
           Uses(v, s)
    PROVE  /\ v \in Billers =>
                \/ subStatus[s] = "active"
                \/ /\ subStatus[s] = "past_due"
                   /\ \E i \in InvoicesOf(s) :
                        invStatus[i] = "open" /\ nextRetry[i] = "none"
           /\ v \in Retriers => subStatus[s] = "past_due"
           /\ v \in Graces => subStatus[s] = "unpaid"
<1> SessionSound(v) /\ \A t \in Subs : SubSound(t)
    BY DEF SoloInv
<1>1. ASSUME v \in Billers
      PROVE  \/ subStatus[s] = "active"
             \/ /\ subStatus[s] = "past_due"
                /\ \E i \in InvoicesOf(s) :
                     invStatus[i] = "open" /\ nextRetry[i] = "none"
  <2>1. BillerSound(v) /\ todo[v] \cap Invoices = {}
      BY <1>1 DEF SessionSound, BillerSound, RenewalAssumption
  <2>2. s \in todo[v] \/ (at[v] = s /\ pc[v] \in Working)
      BY <2>1 DEF Uses
  <2>3. CASE s \in todo[v]
      BY <2>1, <2>3 DEF BillerSound, Fresh
  <2>4. CASE at[v] = s /\ pc[v] \in Working
      BY <2>1, <2>4 DEF BillerSound, Fresh, HoldsOpen, Working, Holding
  <2> QED BY <2>2, <2>3, <2>4
<1>2. ASSUME v \in Retriers PROVE subStatus[s] = "past_due"
  <2>1. RetrierSound(v) /\ s \notin todo[v]
      BY <1>2 DEF SessionSound, RetrierSound, RenewalAssumption
  <2>2. CASE at[v] = s /\ pc[v] \in Working
      BY <2>1, <2>2 DEF RetrierSound
  <2>3. ASSUME NEW i \in todo[v] \cap Invoices, i.sub = s
        PROVE  subStatus[s] = "past_due"
    <3>1. i \in InvoicesOf(s) /\ invStatus[i] = "open" /\ nextRetry[i] = "due"
        BY <2>1, <2>3 DEF RetrierSound, InvoicesOf
    <3> QED BY <3>1 DEF SubSound, InvoiceSound, InvoicesOf
  <2> QED BY <2>1, <2>2, <2>3 DEF Uses
<1>3. ASSUME v \in Graces PROVE subStatus[s] = "unpaid"
  <2>1. GraceSound(v) /\ todo[v] \cap Invoices = {}
      BY <1>3 DEF SessionSound, GraceSound, RenewalAssumption
  <2> QED BY <2>1 DEF GraceSound, Uses, Working, Holding
<1> QED BY <1>1, <1>2, <1>3

\* A step that changes no row the invariant speaks of.
RowsSame == UNCHANGED <<subStatus, subPeriod, invStatus, attempts, retries,
                        nextRetry, anchor>>

LEMMA QuietSound ==
    ASSUME RenewalAssumption, TypeOK, AllReady, Solo, SoloInv,
           NEW w \in Sessions, RowsSame,
           \A v \in Sessions \ {w} : SameSession(v),
           SessionSound(w)',
           \A t \in Subs : Uses(w, t)' =>
                \/ Uses(w, t)
                \/ \A v \in Sessions \ {w} : ~Uses(v, t)
    PROVE  SoloInv'
<1>1. Frame(None) /\ None \notin Subs
    BY DEF RowsSame, Frame, RenewalAssumption
<1> QED BY <1>1, StepSound

\* A step on the rows of a subscription the session has to do with.
LEMMA WorkSound ==
    ASSUME TypeOK, AllReady, Solo, SoloInv, NEW w \in Sessions,
           NEW s \in Subs, Uses(w, s), Frame(s),
           \A v \in Sessions \ {w} : SameSession(v),
           SubSound(s)', SessionSound(w)',
           \A t \in Subs : Uses(w, t)' => Uses(w, t)
    PROVE  SoloInv'
<1>1. \A v \in Sessions \ {w} : ~Uses(v, s)
    BY OthersAway
<1> QED BY <1>1, StepSound

\* The other sessions stay where they are, whoever steps.
LEMMA OthersSame ==
    ASSUME TypeOK, NEW w \in Sessions,
           Biller(w) \/ Retrier(w) \/ Grace(w) \/ Request(w) \/ AbortJob(w)
    PROVE  \A v \in Sessions \ {w} : SameSession(v)
<1> SUFFICES ASSUME NEW v \in Sessions, v # w PROVE SameSession(v)
    OBVIOUS
<1> QED BY OtherSessionsKept DEF SameSession

\* An end of the session, wherever it comes from, keeps the invariant.
LEMMA AbortSound ==
    ASSUME RenewalAssumption, TypeOK, AllReady, Solo, SoloInv,
           NEW w \in Sessions, Close(w), RowsSame,
           \A v \in Sessions \ {w} : SameSession(v)
    PROVE  SoloInv'
<1>1. SessionSound(w)' /\ \A t : ~Uses(w, t)'
    BY CloseSound
<1> QED BY <1>1, QuietSound
--------------------------------------------------------------------------
\* The billing job.

\* Its SELECT takes up subscriptions that are active: nobody else does.
LEMMA BillSelectSound ==
    ASSUME RenewalAssumption, TypeOK, AllReady, Solo, SoloInv,
           NEW w \in Billers, BillSelect(w)
    PROVE  SoloInv'
<1> w \in Sessions BY DEF Sessions
<1>1. RowsSame
    BY DEF BillSelect, RowsSame, database, subscriptionRows, invoiceRows
<1>2. /\ pc'[w] = "next" /\ todo'[w] = DueSubs /\ DueSubs \subseteq Subs
      /\ seenStatus'[w] = subStatus /\ seenPeriod'[w] = subPeriod
    BY DEF BillSelect, Begin, Goto, TypeOK, SessionsOK, DueSubs
<1>3. BillerSound(w)'
    BY <1>1, <1>2 DEF BillerSound, RowsSame, Fresh, DueSubs, CopiesSound, Working,
                      Holding
<1>4. ASSUME NEW t \in Subs, Uses(w, t)', NEW v \in Sessions \ {w}
      PROVE  ~Uses(v, t)
  <2>1. subStatus[t] = "active"
      BY <1>2, <1>4 DEF Uses, DueSubs, Working, Holding, RenewalAssumption
  <2>2. v \in Retriers \/ v \in Graces
      BY DEF Sessions, Solo
  <2> QED BY <2>1, <2>2, UsersKnow
<1>5. SessionSound(w)'
    BY <1>3 DEF SessionSound, Solo
<1>6. \A v \in Sessions \ {w} : SameSession(v)
    BY OthersSame DEF Biller
<1> QED BY <1>1, <1>4, <1>5, <1>6, QuietSound

\* The look for the period's invoice finds the open one, if there is one.
LEMMA BillLookupSound ==
    ASSUME RenewalAssumption, TypeOK, AllReady, Solo, SoloInv,
           NEW w \in Billers, NEW s \in Subs, BillLookup(w, s)
    PROVE  SoloInv'
<1> w \in Sessions BY DEF Sessions
<1>1. RowsSame
    BY DEF BillLookup, RowsSame, database, subscriptionRows, invoiceRows
<1>2. \A v \in Sessions \ {w} : SameSession(v)
    BY OthersSame DEF Biller
<1>3. CASE Close(w)
    BY <1>1, <1>2, <1>3, AbortSound
<1>4. CASE ~Close(w)
  <2>1. BillerSound(w) /\ SubSound(s) /\ s \in todo[w] /\ Fresh(w, s)
      BY DEF SoloInv, SessionSound, BillerSound, BillLookup
  <2>2. /\ todo'[w] = todo[w] \ {s} /\ at'[w] = s
        /\ seenStatus'[w] = seenStatus[w] /\ seenPeriod'[w] = seenPeriod[w]
      BY <1>4 DEF BillLookup, TypeOK, SessionsOK, seen, subscriptionCopies
  <2>3. \/ pc'[w] = "create" /\ OpenFor(w, s) = {}
        \/ \E i \in Invoices :
             /\ OpenFor(w, s) = {i}
             /\ pc'[w] \in {"charge", "fail"} /\ cur'[w] = i
             /\ seenAttempts'[w][i] = attempts[i] /\ seenAnchor'[w] = anchor[i]
      BY <1>4 DEF BillLookup, Goto, HoldRow, Hold, TypeOK, SessionsOK
  <2>4. OpenFor(w, s) = {i \in InvoicesOf(s) : invStatus[i] = "open"}
      BY <2>1 DEF OpenFor, Fresh, SubSound, InvoiceSound, InvoicesOf
  <2>5. /\ todo'[w] \subseteq Subs /\ \A t \in todo'[w] : Fresh(w, t)'
        /\ Fresh(w, s)'
      BY <1>1, <2>1, <2>2 DEF BillerSound, Fresh, RowsSame
  <2>6. ASSUME pc'[w] = "create", OpenFor(w, s) = {} PROVE BillerSound(w)'
    <3>1. NoneOpen(s)'
        BY <1>1, <2>4, <2>6 DEF NoneOpen, RowsSame, InvoicesOf
    <3> QED
        BY <2>2, <2>5, <2>6, <3>1 DEF BillerSound, CopiesSound, NoneOpen
  <2>7. ASSUME NEW i \in Invoices, OpenFor(w, s) = {i},
               pc'[w] \in {"charge", "fail"}, cur'[w] = i,
               seenAttempts'[w][i] = attempts[i], seenAnchor'[w] = anchor[i]
        PROVE  BillerSound(w)'
    <3>1. HoldsOpen(w)'
        BY <1>1, <2>2, <2>4, <2>7 DEF HoldsOpen, RowsSame, InvoicesOf
    <3>2. CopiesSound(w)'
        BY <1>1, <2>7 DEF CopiesSound, RowsSame
    <3> QED BY <2>2, <2>5, <2>7, <3>1, <3>2 DEF BillerSound
  <2>8. BillerSound(w)'
      BY <2>3, <2>6, <2>7
  <2>9. \A t \in Subs : Uses(w, t)' => Uses(w, t)
      BY <2>1, <2>2 DEF Uses
  <2>10. SessionSound(w)'
      BY <2>8 DEF SessionSound, Solo
  <2> QED BY <1>1, <1>2, <2>9, <2>10, QuietSound
<1> QED BY <1>3, <1>4

\* What a session at work on a subscription and an open invoice of it holds.
LEMMA AtWork ==
    ASSUME AllReady, SoloInv, NEW w \in Sessions, pc[w] \in Working
    PROVE  \E s \in Subs : /\ s = at[w] /\ Uses(w, s) /\ SubSound(s)
                           /\ SessionSound(w)
BY DEF AllReady, Ready, Working, SoloInv, Uses

\* The invoice created is the only open one.
LEMMA BillCreateSound ==
    ASSUME RenewalAssumption, TypeOK, AllReady, Solo, SoloInv,
           NEW w \in Billers, BillCreate(w)
    PROVE  SoloInv'
<1> w \in Sessions BY DEF Sessions
<1>1. pc[w] = "create" /\ pc[w] \in Working
    BY DEF BillCreate, Working
<1>2. PICK s \in Subs : s = at[w] /\ Uses(w, s) /\ SubSound(s) /\ SessionSound(w)
    BY <1>1, AtWork
<1>3. BillerSound(w) /\ Fresh(w, s) /\ NoneOpen(s)
    BY <1>1, <1>2 DEF SessionSound, BillerSound
<1>4. PICK i \in Invoices :
        /\ i.sub = s /\ i.period = subPeriod[s] /\ invStatus[i] = "none"
        /\ invStatus' = [invStatus EXCEPT ![i] = "open"]
        /\ cur' = [cur EXCEPT ![w] = i]
        /\ HoldRow(w, i, 0, "open", "none")
    BY <1>2, <1>3 DEF BillCreate, Fresh
<1>5. /\ UNCHANGED <<subStatus, subPeriod, attempts, retries, nextRetry, anchor>>
      /\ UNCHANGED <<todo, at, seenStatus, seenPeriod>>
      /\ pc'[w] \in {"charge", "fail"} /\ cur'[w] = i
      /\ seenAttempts'[w][i] = 0 /\ seenAnchor'[w] = "none"
    BY <1>4 DEF BillCreate, Goto, HoldRow, Hold, TypeOK, SessionsOK,
                subscriptionRows, subscriptionCopies
<1>6. invStatus'[i] = "open"
      /\ \A j \in Invoices : j # i => invStatus'[j] = invStatus[j]
    BY <1>4 DEF TypeOK, InvoicesOK
<1>7. Frame(s)
    BY <1>4, <1>5, <1>6 DEF Frame
<1>8. SubSound(s)'
  <2>1. /\ i \in InvoicesOf(s) /\ InvoiceSound(i)
        /\ \A j \in InvoicesOf(s) : InvoiceSound(j) /\ invStatus[j] # "open"
      BY <1>2, <1>3, <1>4 DEF SubSound, InvoicesOf, NoneOpen
  <2>2. InvoiceSound(i)'
      BY <1>4, <1>5, <1>6, <2>1 DEF InvoiceSound, TypeOK, SubscriptionsOK
  <2>3. \A j \in InvoicesOf(s) : j # i => InvoiceSound(j)'
      BY <1>5, <1>6, <2>1 DEF InvoiceSound, InvoicesOf
  <2>4. \A j \in InvoicesOf(s) : invStatus'[j] = "open" => j = i
      BY <1>6, <2>1 DEF InvoicesOf
  <2> QED BY <2>2, <2>3, <2>4 DEF SubSound, InvoicesOf
<1>9. BillerSound(w)'
  <2>1. InvoiceSound(i)
      BY <1>2, <1>4 DEF SubSound, InvoicesOf
  <2>2. CopiesSound(w)' /\ HoldsOpen(w)'
      BY <1>2, <1>4, <1>5, <1>6, <2>1 DEF CopiesSound, HoldsOpen, InvoicesOf,
         InvoiceSound
  <2> QED BY <1>1, <1>2, <1>3, <1>5, <2>2 DEF BillerSound, Fresh, Working
<1>10. \A t \in Subs : Uses(w, t)' => Uses(w, t)
    BY <1>1, <1>5 DEF Uses
<1>11. \A v \in Sessions \ {w} : SameSession(v)
    BY OthersSame DEF Biller
<1>12. SessionSound(w)'
    BY <1>9 DEF SessionSound, Solo
<1> QED BY <1>2, <1>7, <1>8, <1>10, <1>11, <1>12, WorkSound

\* The period moves on from one that is paid, to one without invoices.
LEMMA AdvancePeriodSound ==
    ASSUME RenewalAssumption, TypeOK, AllReady, Solo, SoloInv,
           NEW w \in Billers, AdvancePeriod(w)
    PROVE  SoloInv'
<1> w \in Sessions BY DEF Sessions
<1>1. pc[w] = "advance" /\ pc[w] \in Working
    BY DEF AdvancePeriod, Working, Holding
<1>2. PICK s \in Subs : s = at[w] /\ Uses(w, s) /\ SubSound(s) /\ SessionSound(w)
    BY <1>1, AtWork
<1>3. BillerSound(w) /\ Fresh(w, s) /\ NoneOpen(s) /\ s \notin todo[w]
      /\ todo[w] \subseteq Subs
    BY <1>1, <1>2 DEF SessionSound, BillerSound, HoldsPaid
<1>4. /\ subPeriod' = [subPeriod EXCEPT ![s] = subPeriod[s] + 1]
      /\ UNCHANGED <<subStatus, invStatus, attempts, retries, nextRetry, anchor>>
      /\ EndItem(w, todo[w])
    BY <1>2, <1>3 DEF AdvancePeriod, Fresh, invoiceRows
<1>5. Frame(s)
    BY <1>4 DEF Frame, TypeOK, SubscriptionsOK
<1>6. SubSound(s)'
  <2>1. subPeriod[s] \in Nat /\ subPeriod'[s] = subPeriod[s] + 1
      BY <1>4 DEF TypeOK, SubscriptionsOK
  <2>2. \A i \in Invoices : i.period \in Nat
      BY DEF Invoices
  <2> QED BY <1>2, <1>3, <1>4, <2>1, <2>2 DEF SubSound, InvoiceSound, InvoicesOf,
             NoneOpen
<1>7. s \notin todo[w] /\ \A i \in todo[w] \cap Invoices : i.sub # s
    BY <1>3 DEF RenewalAssumption
<1>8. SessionSound(w)' /\ \A t : Uses(w, t)' => Uses(w, t)
    BY <1>2, <1>4, <1>5, <1>7, EndItemSound
<1>9. \A v \in Sessions \ {w} : SameSession(v)
    BY OthersSame DEF Biller
<1> QED BY <1>2, <1>5, <1>6, <1>8, <1>9, WorkSound
--------------------------------------------------------------------------
\* The charge, for either job.

\* A session with an open invoice in hand: what it knows, by its job.
LEMMA ChargerHolds ==
    ASSUME AllReady, SoloInv, Solo, NEW w \in Billers \cup Retriers,
           pc[w] \in {"charge", "record", "pay", "fail"}
    PROVE  \E s \in Subs, i \in Invoices :
             /\ s = at[w] /\ i = cur[w] /\ i \in InvoicesOf(s)
             /\ Uses(w, s) /\ SubSound(s)
             /\ invStatus[i] = "open" /\ InvoiceSound(i) /\ CopiesSound(w)
             /\ w \in Billers => BillerSound(w) /\ Fresh(w, s)
             /\ w \in Retriers => RetrierSound(w) /\ subStatus[s] = "past_due"
<1> w \in Sessions BY DEF Sessions
<1>1. pc[w] \in Working
    BY DEF Working, Holding
<1>2. PICK s \in Subs : s = at[w] /\ Uses(w, s) /\ SubSound(s) /\ SessionSound(w)
    BY <1>1, AtWork
<1>3. HoldsOpen(w) /\ CopiesSound(w)
    BY <1>2 DEF SessionSound, BillerSound, RetrierSound
<1>4. cur[w] \in InvoicesOf(s) /\ invStatus[cur[w]] = "open"
    BY <1>2, <1>3 DEF HoldsOpen
<1>5. InvoiceSound(cur[w])
    BY <1>2, <1>4 DEF SubSound
<1>6. w \in Billers => BillerSound(w) /\ Fresh(w, s)
    BY <1>2 DEF SessionSound, BillerSound
<1>7. w \in Retriers => RetrierSound(w) /\ subStatus[s] = "past_due"
    BY <1>1, <1>2 DEF SessionSound, RetrierSound
<1>8. cur[w] \in Invoices
    BY <1>4 DEF InvoicesOf
<1> QED BY <1>2, <1>3, <1>4, <1>5, <1>6, <1>7, <1>8

\* The provider's answer changes no row.
LEMMA ChargeSound ==
    ASSUME RenewalAssumption, TypeOK, AllReady, Solo, SoloInv,
           NEW w \in Billers \cup Retriers, Charge(w)
    PROVE  SoloInv'
<1> w \in Sessions BY DEF Sessions
<1>1. RowsSame
    BY DEF Charge, RowsSame, database, subscriptionRows, invoiceRows
<1>2. /\ pc[w] = "charge" /\ pc'[w] = "record"
      /\ UNCHANGED <<todo, at, cur, seenStatus, seenPeriod, seenAttempts>>
    BY DEF Charge, Goto, TypeOK, SessionsOK, seen, subscriptionCopies,
           invoiceCopies
<1>3. SessionSound(w)
    BY DEF SoloInv
<1>4. w \in Billers => BillerSound(w)'
    BY <1>1, <1>2, <1>3 DEF SessionSound, BillerSound, RowsSame, Fresh, HoldsOpen,
       InvoicesOf, CopiesSound, Working, Holding
<1>5. w \in Retriers => RetrierSound(w)'
    BY <1>1, <1>2, <1>3 DEF SessionSound, RetrierSound, RowsSame, HoldsOpen,
       InvoicesOf, CopiesSound, Working, Holding
<1>6. SessionSound(w)'
    BY <1>4, <1>5 DEF SessionSound, Solo
<1>7. \A t \in Subs : Uses(w, t)' => Uses(w, t)
    BY <1>2 DEF Uses, Working, Holding
<1>8. \A v \in Sessions \ {w} : SameSession(v)
    BY OthersSame DEF Biller, Retrier, Charging
<1> QED BY <1>1, <1>6, <1>7, <1>8, QuietSound

\* The record of the attempt raises the counts of an invoice nobody else holds.
LEMMA RecordAttemptSound ==
    ASSUME RenewalAssumption, TypeOK, AllReady, Solo, SoloInv,
           NEW w \in Billers \cup Retriers, RecordAttempt(w)
    PROVE  SoloInv'
<1> w \in Sessions BY DEF Sessions
<1>1. pc[w] = "record"
    BY DEF RecordAttempt
<1>2. PICK s \in Subs, i \in Invoices :
        /\ s = at[w] /\ i = cur[w] /\ i \in InvoicesOf(s)
        /\ Uses(w, s) /\ SubSound(s)
        /\ invStatus[i] = "open" /\ InvoiceSound(i) /\ CopiesSound(w)
        /\ w \in Billers => BillerSound(w) /\ Fresh(w, s)
        /\ w \in Retriers => RetrierSound(w) /\ subStatus[s] = "past_due"
    BY <1>1, ChargerHolds
<1>3. i \in Invoices /\ i.sub = s
    BY <1>2 DEF InvoicesOf
<1>4. /\ UNCHANGED <<subStatus, subPeriod, invStatus, nextRetry, anchor>>
      /\ UNCHANGED <<todo, at, cur, seenStatus, seenPeriod>>
      /\ pc'[w] \in {"pay", "fail"}
    BY DEF RecordAttempt, AfterAttempt, Goto, TypeOK, SessionsOK,
           subscriptionRows, subscriptionCopies
<1>5. /\ \A j \in Invoices : j # i =>
              attempts'[j] = attempts[j] /\ retries'[j] = retries[j]
      /\ retries[i] \in Nat
      /\ retries'[i] = IF w \in Retriers THEN retries[i] + 1 ELSE retries[i]
    BY <1>2, <1>3 DEF RecordAttempt, TypeOK, InvoicesOK
<1>6. /\ \A j \in Invoices : j # i => seenAttempts'[w][j] = seenAttempts[w][j]
      /\ seenInvoice'[w] = "open" /\ seenAnchor'[w] = anchor[i]
    BY <1>2 DEF RecordAttempt, HoldRow, Hold, TypeOK, SessionsOK
<1>7. Frame(s)
    BY <1>3, <1>4, <1>5 DEF Frame
<1>8. SubSound(s)'
  <2>1. w \notin Retriers => retries'[i] = retries[i]
      BY <1>5
  <2>2. w \in Retriers => subStatus[s] # "active"
      BY <1>2
  <2>3. InvoiceSound(i)'
      BY <1>2, <1>3, <1>4, <2>1, <2>2 DEF InvoiceSound
  <2>4. \A j \in InvoicesOf(s) : j # i => InvoiceSound(j)'
      BY <1>2, <1>4, <1>5 DEF SubSound, InvoiceSound, InvoicesOf
  <2> QED BY <1>2, <1>4, <2>3, <2>4 DEF SubSound, InvoicesOf
<1>9. CopiesSound(w)'
    BY <1>2, <1>4, <1>6 DEF CopiesSound
<1>10. HoldsOpen(w)'
    BY <1>2, <1>4 DEF HoldsOpen, InvoicesOf
<1>11. w \in Billers => BillerSound(w)'
    BY <1>1, <1>2, <1>4, <1>9, <1>10 DEF BillerSound, Fresh, Working, Holding
<1>12. w \in Retriers => RetrierSound(w)'
  <2> SUFFICES ASSUME w \in Retriers PROVE RetrierSound(w)'
      OBVIOUS
  <2>1. RetrierSound(w) /\ pc[w] \in Working
      BY <1>1, <1>2 DEF Working, Holding
  <2>2. \A j \in todo[w] : j \in Invoices /\ j # i
      BY <1>2, <1>3, <2>1 DEF RetrierSound
  <2>3. retries'[i] > 0
      BY <1>5
  <2>4. \A j \in todo'[w] : /\ invStatus'[j] = "open" /\ nextRetry'[j] = "due"
                            /\ seenAttempts'[w][j] = attempts'[j]
      BY <1>4, <1>5, <1>6, <2>1, <2>2 DEF RetrierSound
  <2>5. /\ subStatus'[at'[w]] = "past_due"
        /\ \A j \in todo'[w] : j.sub # at'[w]
        /\ seenStatus'[w][at'[w]] = "past_due"
        /\ seenPeriod'[w][at'[w]] = subPeriod'[at'[w]]
        /\ nextRetry'[cur'[w]] = "due" /\ todo'[w] \subseteq Invoices
      BY <1>1, <1>4, <2>1 DEF RetrierSound
  <2> QED BY <1>2, <1>4, <1>9, <1>10, <2>3, <2>4, <2>5 DEF RetrierSound
<1>13. SessionSound(w)'
    BY <1>11, <1>12 DEF SessionSound, Solo
<1>14. \A t \in Subs : Uses(w, t)' => Uses(w, t)
    BY <1>1, <1>4 DEF Uses, Working, Holding
<1>15. \A v \in Sessions \ {w} : SameSession(v)
    BY OthersSame DEF Biller, Retrier, Charging
<1> QED BY <1>2, <1>7, <1>8, <1>13, <1>14, <1>15, WorkSound

\* The payment is allowed, and leaves the subscription without an open invoice.
LEMMA PayInvoiceSound ==
    ASSUME RenewalAssumption, TypeOK, AllReady, Solo, SoloInv,
           NEW w \in Billers \cup Retriers, PayInvoice(w)
    PROVE  SoloInv'
<1> w \in Sessions BY DEF Sessions
<1>1. pc[w] = "pay"
    BY DEF PayInvoice
<1>2. PICK s \in Subs, i \in Invoices :
        /\ s = at[w] /\ i = cur[w] /\ i \in InvoicesOf(s)
        /\ Uses(w, s) /\ SubSound(s)
        /\ invStatus[i] = "open" /\ InvoiceSound(i) /\ CopiesSound(w)
        /\ w \in Billers => BillerSound(w) /\ Fresh(w, s)
        /\ w \in Retriers => RetrierSound(w) /\ subStatus[s] = "past_due"
    BY <1>1, ChargerHolds
<1>3. i \in Invoices /\ i.sub = s
    BY <1>2 DEF InvoicesOf
<1>4. InvoiceAllowed(seenInvoice[w], "paid")
    BY <1>1, <1>2 DEF CopiesSound, InvoiceAllowed, InvoiceTransitions
<1>5. /\ UNCHANGED <<subStatus, subPeriod, attempts, retries, nextRetry, anchor>>
      /\ UNCHANGED <<todo, at, cur, seenStatus, seenPeriod, seenAttempts>>
      /\ pc'[w] = IF w \in Retriers THEN "clear" ELSE "advance"
      /\ invStatus' = [invStatus EXCEPT ![i] = "paid"]
    BY <1>2, <1>4 DEF PayInvoice, Goto, TypeOK, SessionsOK, subscriptionRows,
                      seen, subscriptionCopies, invoiceCopies
<1>6. invStatus'[i] = "paid"
      /\ \A j \in Invoices : j # i => invStatus'[j] = invStatus[j]
    BY <1>3, <1>5 DEF TypeOK, InvoicesOK
<1>7. Frame(s)
    BY <1>3, <1>5, <1>6 DEF Frame
<1>8. NoneOpen(s)'
    BY <1>2, <1>6 DEF NoneOpen, SubSound, InvoicesOf
<1>9. SubSound(s)'
  <2>1. InvoiceSound(i)'
      BY <1>2, <1>3, <1>5, <1>6 DEF InvoiceSound
  <2>2. \A j \in InvoicesOf(s) : j # i => InvoiceSound(j)'
      BY <1>2, <1>5, <1>6 DEF SubSound, InvoiceSound, InvoicesOf
  <2> QED BY <1>8, <2>1, <2>2 DEF SubSound, InvoicesOf, NoneOpen
<1>10. HoldsPaid(w)'
    BY <1>2, <1>3, <1>5, <1>6, <1>8 DEF HoldsPaid, InvoicesOf, InvoiceSound,
       NoneOpen
<1>11. w \in Billers => BillerSound(w)'
  <2> SUFFICES ASSUME w \in Billers PROVE BillerSound(w)'
      OBVIOUS
  <2>1. pc'[w] = "advance"
      BY <1>5 DEF Solo
  <2> QED BY <1>1, <1>2, <1>5, <1>10, <2>1
             DEF BillerSound, Fresh, Working, Holding, CopiesSound
<1>12. w \in Retriers => RetrierSound(w)'
  <2> SUFFICES ASSUME w \in Retriers PROVE RetrierSound(w)'
      OBVIOUS
  <2>1. RetrierSound(w) /\ pc[w] \in Working /\ pc'[w] = "clear"
      BY <1>1, <1>2, <1>5 DEF Working, Holding
  <2>2. \A j \in todo[w] : j \in Invoices /\ j # i
      BY <1>2, <1>3, <2>1 DEF RetrierSound
  <2>3. \A j \in todo'[w] : /\ invStatus'[j] = "open" /\ nextRetry'[j] = "due"
                            /\ seenAttempts'[w][j] = attempts'[j]
      BY <1>5, <1>6, <2>1, <2>2 DEF RetrierSound
  <2>4. /\ subStatus'[at'[w]] = "past_due"
        /\ \A j \in todo'[w] : j.sub # at'[w]
        /\ seenStatus'[w][at'[w]] = "past_due"
        /\ seenPeriod'[w][at'[w]] = subPeriod'[at'[w]]
        /\ todo'[w] \subseteq Invoices
      BY <1>1, <1>5, <2>1 DEF RetrierSound
  <2> QED BY <1>10, <2>1, <2>3, <2>4 DEF RetrierSound, CopiesSound
<1>13. SessionSound(w)'
    BY <1>11, <1>12 DEF SessionSound, Solo
<1>14. \A t \in Subs : Uses(w, t)' => Uses(w, t)
    BY <1>1, <1>5 DEF Uses, Working, Holding
<1>15. \A v \in Sessions \ {w} : SameSession(v)
    BY OthersSame DEF Biller, Retrier, Charging
<1> QED BY <1>2, <1>7, <1>9, <1>13, <1>14, <1>15, WorkSound
--------------------------------------------------------------------------
\* open_or_advance_dunning.

\* There is a next date exactly while the schedule has entries left.
LEMMA GapWhileEntries ==
    ASSUME NEW reason \in FailureReason, NEW done \in Nat
    PROVE  NextRetryGapDays(reason, done) = NoGap
             <=> done >= Len(RetrySchedule(reason))
<1> DEFINE schedule == RetrySchedule(reason)
<1>1. schedule \in Seq(Nat)
  <2>1. /\ <<1, 3, 7>> \in Seq(Nat) /\ <<3, 7>> \in Seq(Nat)
        /\ <<1>> \in Seq(Nat) /\ <<>> \in Seq(Nat)
      OBVIOUS
  <2>2. RetrySchedules[reason] \in {<<1, 3, 7>>, <<3, 7>>, <<1>>, <<>>}
      BY DEF RetrySchedules, FailureReason
  <2> QED BY <2>1, <2>2 DEF RetrySchedule
<1>2. CASE done >= Len(schedule)
    BY <1>1, <1>2 DEF NextRetryGapDays
<1>3. CASE done < Len(schedule)
  <2> DEFINE previous == IF done > 0 THEN schedule[done] ELSE 0
             gap      == schedule[done + 1] - previous
  <2>1. previous \in Nat /\ schedule[done + 1] \in Nat
      BY <1>1, <1>3
  <2>2. NextRetryGapDays(reason, done) = IF gap > 0 THEN gap ELSE 0
      BY <1>1, <1>3 DEF NextRetryGapDays
  <2> HIDE DEF previous
  <2>3. gap \in Int
      BY <2>1
  <2> HIDE DEF gap, schedule
  <2>4. NextRetryGapDays(reason, done) # NoGap
      BY <2>2, <2>3 DEF NoGap
  <2>5. Len(schedule) \in Nat
      BY <1>1 DEF schedule
  <2> QED BY <1>3, <2>4, <2>5 DEF schedule
<1>4. Len(schedule) \in Nat
    BY <1>1
<1> QED BY <1>2, <1>3, <1>4

\* What a decision says of the count it was taken for.
LEMMA DecisionMeans ==
    ASSUME NEW reason \in FailureReason, NEW done \in Nat
    PROVE  /\ Decision(reason, done) \in {"schedule", "flag", "exhaust"}
           /\ Decision(reason, done) = "schedule"
                => done < Len(RetrySchedule(reason))
           /\ Decision(reason, done) # "schedule"
                => done >= Len(RetrySchedule(reason))
           /\ Decision(reason, done) = "flag"
                => done = 0 /\ RequiresPaymentMethodUpdate(reason)
           /\ reason # "requires_action" /\ done = 0
                => Decision(reason, done) # "exhaust"
<1>1. Len(RetrySchedule(reason)) \in Nat
  <2>1. RetrySchedule(reason) \in {<<1, 3, 7>>, <<3, 7>>, <<1>>, <<>>}
      BY DEF RetrySchedule, RetrySchedules, FailureReason
  <2> QED BY <2>1
<1>2. reason # "requires_action" /\ ~RequiresPaymentMethodUpdate(reason)
        => 0 < Len(RetrySchedule(reason))
    BY DEF RequiresPaymentMethodUpdate, RetrySchedule, RetrySchedules,
       FailureReason
<1> QED BY <1>1, <1>2, GapWhileEntries DEF Decision

\* What is left of the batch is about other subscriptions.
LEMMA TodoElsewhere ==
    ASSUME RenewalAssumption, SoloInv, NEW w \in Billers \cup Retriers,
           NEW s \in Subs, s = at[w], pc[w] \in Working
    PROVE  s \notin todo[w] /\ \A i \in todo[w] \cap Invoices : i.sub # s
<1>1. SessionSound(w)
    BY DEF SoloInv, Sessions
<1>2. CASE w \in Billers
    BY <1>1, <1>2 DEF SessionSound, BillerSound, RenewalAssumption
<1>3. CASE w \in Retriers /\ w \notin Billers
  <2>1. RetrierSound(w)
      BY <1>1, <1>3 DEF SessionSound
  <2>2. \A i \in todo[w] \cap Invoices : i.sub # s
      BY <2>1 DEF RetrierSound
  <2>3. s \notin todo[w]
      BY <2>1 DEF RetrierSound, RenewalAssumption
  <2> QED BY <2>2, <2>3
<1> QED BY <1>2, <1>3

\* A failure that opens or advances no cycle changes nothing.
LEMMA SkipDunningSound ==
    ASSUME RenewalAssumption, TypeOK, AllReady, Solo, SoloInv,
           NEW w \in Billers \cup Retriers, SkipDunning(w)
    PROVE  SoloInv'
<1> w \in Sessions BY DEF Sessions
<1>1. pc[w] = "fail" /\ pc[w] \in Working /\ EndItem(w, todo[w]) /\ RowsSame
    BY DEF SkipDunning, Working, Holding, RowsSame, database, subscriptionRows,
           invoiceRows
<1>2. PICK s \in Subs : s = at[w] /\ Uses(w, s) /\ SubSound(s) /\ SessionSound(w)
    BY <1>1, AtWork
<1>3. Frame(s)
    BY <1>1 DEF RowsSame, Frame
<1>4. SessionSound(w)' /\ \A t : Uses(w, t)' => Uses(w, t)
    BY <1>1, <1>2, <1>3, TodoElsewhere, EndItemSound
<1>5. \A v \in Sessions \ {w} : SameSession(v)
    BY OthersSame DEF Biller, Retrier, Charging, Dunning
<1> QED BY <1>1, <1>4, <1>5, QuietSound

\* Only the billing job opens a cycle, on an invoice that was never retried.
LEMMA OpenCycleSound ==
    ASSUME RenewalAssumption, TypeOK, AllReady, Solo, SoloInv,
           NEW w \in Billers \cup Retriers, OpenCycle(w)
    PROVE  SoloInv'
<1> w \in Sessions BY DEF Sessions
<1>1. pc[w] = "fail" /\ pc[w] \in Working
    BY DEF OpenCycle, Working, Holding
<1>2. PICK s \in Subs, i \in Invoices :
        /\ s = at[w] /\ i = cur[w] /\ i \in InvoicesOf(s)
        /\ Uses(w, s) /\ SubSound(s)
        /\ invStatus[i] = "open" /\ InvoiceSound(i) /\ CopiesSound(w)
        /\ w \in Billers => BillerSound(w) /\ Fresh(w, s)
        /\ w \in Retriers => RetrierSound(w) /\ subStatus[s] = "past_due"
    BY <1>1, ChargerHolds
<1>3. i.sub = s
    BY <1>2 DEF InvoicesOf
<1>4. w \in Billers /\ BillerSound(w) /\ Fresh(w, s)
  <2>1. seenStatus[w][s] = "active"
      BY <1>2 DEF OpenCycle
  <2>2. w \in Retriers => seenStatus[w][s] = "past_due"
      BY <1>1, <1>2 DEF RetrierSound
  <2> QED BY <1>2, <2>1, <2>2
<1>5. nextRetry[i] = "none" /\ anchor[i] = "none" /\ retries[i] = 0
    BY <1>2, <1>3, <1>4 DEF InvoiceSound, Fresh
<1> DEFINE reason == answer[w]
<1>6. seenAnchor[w] = "none" /\ Reason(w) = reason
    BY <1>1, <1>2, <1>5 DEF CopiesSound, Reason
<1>7. reason \in FailureReason /\ reason # "requires_action" /\ reason # "none"
    BY <1>1 DEF OpenCycle, AllReady, Ready, FailureReason
<1>8. /\ UNCHANGED <<subPeriod, invStatus, attempts, retries, nextRetry>>
      /\ UNCHANGED <<todo, at, cur, seenPeriod>>
      /\ subStatus' = [subStatus EXCEPT ![s] = "past_due"]
      /\ anchor' = [anchor EXCEPT ![i] = reason]
      /\ pc'[w] = Decision(reason, 0)
      /\ \A t \in Subs : t # s => seenStatus'[w][t] = seenStatus[w][t]
    BY <1>2, <1>5, <1>6 DEF OpenCycle, Goto, TypeOK, SessionsOK
<1>9. /\ subStatus'[s] = "past_due" /\ anchor'[i] = reason
      /\ \A t \in Subs : t # s => subStatus'[t] = subStatus[t]
      /\ \A j \in Invoices : j # i => anchor'[j] = anchor[j]
    BY <1>8 DEF TypeOK, SubscriptionsOK, InvoicesOK
<1>10. Frame(s)
    BY <1>3, <1>8, <1>9 DEF Frame
<1>11. SubSound(s)'
  <2>1. InvoiceSound(i)'
      BY <1>2, <1>3, <1>5, <1>7, <1>8, <1>9 DEF InvoiceSound
  <2>2. \A j \in InvoicesOf(s) : j # i => InvoiceSound(j)'
      BY <1>2, <1>8, <1>9 DEF SubSound, InvoiceSound, InvoicesOf
  <2> QED BY <1>2, <1>8, <2>1, <2>2 DEF SubSound, InvoicesOf
<1>12. BillerSound(w)'
  <2>1. pc'[w] \in {"schedule", "flag"}
      BY <1>7, <1>8, DecisionMeans
  <2>2. HoldsOpen(w)'
      BY <1>2, <1>8 DEF HoldsOpen, InvoicesOf
  <2>3. /\ pc'[w] = "schedule" =>
                retries'[cur'[w]] < Len(RetrySchedule(anchor'[cur'[w]]))
        /\ pc'[w] = "flag" => RequiresPaymentMethodUpdate(anchor'[cur'[w]])
      BY <1>2, <1>5, <1>7, <1>8, <1>9, DecisionMeans
  <2>4. /\ todo'[w] \subseteq Subs /\ at'[w] \notin todo'[w]
        /\ \A t \in todo'[w] : Fresh(w, t)'
      BY <1>1, <1>2, <1>4, <1>8, <1>9 DEF BillerSound, Fresh
  <2>5. /\ subStatus'[at'[w]] = "past_due"
        /\ nextRetry'[cur'[w]] = "none" /\ anchor'[cur'[w]] # "none"
      BY <1>2, <1>5, <1>7, <1>8, <1>9
  <2> QED BY <2>1, <2>2, <2>3, <2>4, <2>5 DEF BillerSound, CopiesSound
<1>13. SessionSound(w)'
    BY <1>4, <1>12 DEF SessionSound, Solo
<1>14. \A t \in Subs : Uses(w, t)' => Uses(w, t)
    BY <1>1, <1>8 DEF Uses
<1>15. \A v \in Sessions \ {w} : SameSession(v)
    BY OthersSame DEF Biller, Retrier, Charging, Dunning
<1> QED BY <1>2, <1>10, <1>11, <1>13, <1>14, <1>15, WorkSound

\* The commit that follows is the billing job's too.
LEMMA ScheduleRetrySound ==
    ASSUME RenewalAssumption, TypeOK, AllReady, Solo, SoloInv,
           NEW w \in Billers \cup Retriers, ScheduleRetry(w)
    PROVE  SoloInv'
<1> w \in Sessions BY DEF Sessions
<1>1. pc[w] \in {"schedule", "flag", "exhaust"} /\ pc[w] \in Working
    BY DEF ScheduleRetry, Working, Holding
<1>2. PICK s \in Subs : s = at[w] /\ Uses(w, s) /\ SubSound(s) /\ SessionSound(w)
    BY <1>1, AtWork
<1>3. w \in Billers /\ BillerSound(w) /\ pc[w] \in {"schedule", "flag"}
    BY <1>1, <1>2 DEF SessionSound, BillerSound, RetrierSound
<1>4. PICK i \in Invoices : i = cur[w] /\ i \in InvoicesOf(s) /\ i.sub = s
                            /\ subStatus[s] = "past_due"
    BY <1>2, <1>3 DEF BillerSound, HoldsOpen, InvoicesOf
<1>5. /\ UNCHANGED <<subStatus, subPeriod, invStatus, attempts, retries, anchor>>
      /\ EndItem(w, todo[w])
      /\ \A j \in Invoices : j # i => nextRetry'[j] = nextRetry[j]
    BY <1>3, <1>4 DEF ScheduleRetry, Settle, subscriptionRows, TypeOK, InvoicesOK
<1>6. Frame(s)
    BY <1>4, <1>5 DEF Frame
<1>7. SubSound(s)'
  <2>1. invStatus[i] = "open" /\ InvoiceSound(i)
      BY <1>2, <1>3, <1>4 DEF BillerSound, HoldsOpen, SubSound
  <2>2. InvoiceSound(i)'
      BY <1>4, <1>5, <2>1 DEF InvoiceSound
  <2>3. \A j \in InvoicesOf(s) : j # i => InvoiceSound(j)'
      BY <1>2, <1>5 DEF SubSound, InvoiceSound, InvoicesOf
  <2> QED BY <1>2, <1>5, <2>2, <2>3 DEF SubSound, InvoicesOf
<1>8. SessionSound(w)' /\ \A t : Uses(w, t)' => Uses(w, t)
    BY <1>1, <1>2, <1>5, <1>6, TodoElsewhere, EndItemSound
<1>9. \A v \in Sessions \ {w} : SameSession(v)
    BY OthersSame DEF Biller, Retrier, Charging, Dunning
<1> QED BY <1>2, <1>6, <1>7, <1>8, <1>9, WorkSound

\* The retry job moves the cycle on, or sets out to revoke access.
LEMMA AdvanceCycleSound ==
    ASSUME RenewalAssumption, TypeOK, AllReady, Solo, SoloInv,
           NEW w \in Billers \cup Retriers, AdvanceCycle(w)
    PROVE  SoloInv'
<1> w \in Sessions BY DEF Sessions
<1>1. pc[w] = "fail" /\ pc[w] \in Working
    BY DEF AdvanceCycle, Working, Holding
<1>2. PICK s \in Subs, i \in Invoices :
        /\ s = at[w] /\ i = cur[w] /\ i \in InvoicesOf(s)
        /\ Uses(w, s) /\ SubSound(s)
        /\ invStatus[i] = "open" /\ InvoiceSound(i) /\ CopiesSound(w)
        /\ w \in Billers => BillerSound(w) /\ Fresh(w, s)
        /\ w \in Retriers => RetrierSound(w) /\ subStatus[s] = "past_due"
    BY <1>1, ChargerHolds
<1>3. i.sub = s
    BY <1>2 DEF InvoicesOf
<1>4. w \in Retriers /\ RetrierSound(w) /\ subStatus[s] = "past_due"
    BY <1>2 DEF AdvanceCycle, Fresh
<1> DEFINE reason   == Reason(w)
           decision == Decision(reason, retries[i])
<1>5. seenAnchor[w] = anchor[i] /\ retries[i] \in Nat /\ retries[i] > 0
    BY <1>1, <1>2, <1>4 DEF CopiesSound, RetrierSound, TypeOK, InvoicesOK
<1>6. reason \in FailureReason /\ reason # "requires_action" /\ reason # "none"
  <2>1. answer[w] \in FailureReason /\ answer[w] # "requires_action"
      BY <1>1 DEF AdvanceCycle, AllReady, Ready
  <2>2. anchor[i] \in Anchors /\ anchor[i] # "requires_action"
      BY <1>2 DEF TypeOK, InvoicesOK, InvoiceSound
  <2>3. "none" \notin FailureReason
      BY DEF FailureReason
  <2> QED BY <1>5, <2>1, <2>2, <2>3 DEF Reason, Anchors
<1>7. /\ UNCHANGED <<subStatus, subPeriod, invStatus, attempts, retries>>
      /\ nextRetry' = [nextRetry EXCEPT
            ![i] = IF decision = "schedule" THEN "waiting" ELSE "none"]
      /\ IF decision = "exhaust"
         THEN Goto(w, "revoke") /\ UNCHANGED <<todo, at, cur, answer, seen>>
         ELSE EndItem(w, todo[w])
      /\ anchor' = IF seenAnchor[w] = "none"
                   THEN [anchor EXCEPT ![i] = reason] ELSE anchor
    BY <1>2 DEF AdvanceCycle, Settle, subscriptionRows
<1>8. /\ nextRetry'[i] = IF decision = "schedule" THEN "waiting" ELSE "none"
      /\ anchor'[i] = reason
      /\ \A j \in Invoices : j # i => /\ nextRetry'[j] = nextRetry[j]
                                      /\ anchor'[j] = anchor[j]
    BY <1>5, <1>7 DEF Reason, TypeOK, InvoicesOK
<1>9. decision = "exhaust" => retries[i] >= Len(RetrySchedule(reason))
    BY <1>5, <1>6, DecisionMeans
<1> HIDE DEF reason, decision
<1>10. Frame(s)
    BY <1>3, <1>7, <1>8 DEF Frame
<1>11. SubSound(s)'
  <2>1. InvoiceSound(i)'
      BY <1>2, <1>3, <1>4, <1>6, <1>7, <1>8 DEF InvoiceSound
  <2>2. \A j \in InvoicesOf(s) : j # i => InvoiceSound(j)'
      BY <1>2, <1>7, <1>8 DEF SubSound, InvoiceSound, InvoicesOf
  <2> QED BY <1>2, <1>7, <2>1, <2>2 DEF SubSound, InvoicesOf
<1>12. s \notin todo[w] /\ \A j \in todo[w] \cap Invoices : j.sub # s
    BY <1>1, <1>2, TodoElsewhere
<1>13. SessionSound(w)' /\ \A t : Uses(w, t)' => Uses(w, t)
  <2>1. CASE decision # "exhaust"
      BY <1>7, <1>10, <1>12, <2>1, EndItemSound DEF SoloInv
  <2>2. CASE decision = "exhaust"
    <3>1. /\ pc'[w] = "revoke" /\ UNCHANGED <<todo, at, cur, seenAttempts>>
        BY <1>7, <2>2 DEF Goto, TypeOK, SessionsOK, seen, invoiceCopies
    <3>2. \A t : Uses(w, t)' => Uses(w, t)
        BY <1>1, <3>1 DEF Uses
    <3>3. HoldsOpen(w)'
        BY <1>2, <1>7, <3>1 DEF HoldsOpen, InvoicesOf
    <3>4. /\ nextRetry'[cur'[w]] = "none" /\ anchor'[cur'[w]] # "none"
          /\ retries'[cur'[w]] > 0
          /\ retries'[cur'[w]] >= Len(RetrySchedule(anchor'[cur'[w]]))
        BY <1>2, <1>5, <1>6, <1>7, <1>8, <1>9, <2>2, <3>1
    <3>5. \A j \in todo[w] : j \in Invoices /\ j # i
        BY <1>3, <1>4, <1>12 DEF RetrierSound
    <3>6. /\ todo'[w] \subseteq Invoices
          /\ \A j \in todo'[w] : /\ invStatus'[j] = "open" /\ nextRetry'[j] = "due"
                                 /\ seenAttempts'[w][j] = attempts'[j]
        BY <1>4, <1>7, <1>8, <3>1, <3>5 DEF RetrierSound
    <3>7. subStatus'[at'[w]] = "past_due" /\ \A j \in todo'[w] : j.sub # at'[w]
        BY <1>2, <1>4, <1>7, <1>12, <3>1, <3>5
    <3>8. RetrierSound(w)'
        BY <3>1, <3>3, <3>4, <3>6, <3>7 DEF RetrierSound, CopiesSound
    <3> QED BY <1>4, <3>2, <3>8 DEF SessionSound, Solo
  <2> QED BY <2>1, <2>2
<1>14. \A v \in Sessions \ {w} : SameSession(v)
    BY OthersSame DEF Biller, Retrier, Charging, Dunning
<1> QED BY <1>2, <1>10, <1>11, <1>13, <1>14, WorkSound

\* Access is revoked by the retry job, from a subscription whose open invoice
\* has no further date.
LEMMA RevokeSound ==
    ASSUME RenewalAssumption, TypeOK, AllReady, Solo, SoloInv,
           NEW w \in Billers \cup Retriers, Revoke(w)
    PROVE  SoloInv'
<1> w \in Sessions BY DEF Sessions
<1>1. pc[w] = "revoke" /\ pc[w] \in Working
    BY DEF Revoke, Working, Holding
<1>2. PICK s \in Subs : s = at[w] /\ Uses(w, s) /\ SubSound(s) /\ SessionSound(w)
    BY <1>1, AtWork
<1>3. RetrierSound(w)
    BY <1>1, <1>2 DEF SessionSound, BillerSound
<1>4. PICK i \in Invoices : /\ i = cur[w] /\ i \in InvoicesOf(s)
                            /\ invStatus[i] = "open" /\ nextRetry[i] = "none"
    BY <1>1, <1>2, <1>3 DEF RetrierSound, HoldsOpen, InvoicesOf
<1>5. /\ subStatus'[s] = "unpaid"
      /\ \A t \in Subs : t # s => subStatus'[t] = subStatus[t]
      /\ UNCHANGED <<subPeriod, invStatus, attempts, retries, nextRetry, anchor>>
      /\ EndItem(w, todo[w])
    BY <1>2 DEF Revoke, invoiceRows, TypeOK, SubscriptionsOK
<1>6. Frame(s)
    BY <1>5 DEF Frame
<1>7. SubSound(s)'
    BY <1>2, <1>4, <1>5 DEF SubSound, InvoiceSound, InvoicesOf
<1>8. SessionSound(w)' /\ \A t : Uses(w, t)' => Uses(w, t)
    BY <1>1, <1>2, <1>5, <1>6, TodoElsewhere, EndItemSound
<1>9. \A v \in Sessions \ {w} : SameSession(v)
    BY OthersSame DEF Biller, Retrier, Charging, Dunning
<1> QED BY <1>2, <1>6, <1>7, <1>8, <1>9, WorkSound
--------------------------------------------------------------------------
\* The retry job.

\* Its SELECT takes up invoices of subscriptions in dunning, whose one open
\* invoice has a date: neither the billing job nor the grace job is at those.
LEMMA RetrySelectSound ==
    ASSUME RenewalAssumption, TypeOK, AllReady, Solo, SoloInv,
           NEW w \in Retriers, RetrySelect(w)
    PROVE  SoloInv'
<1> w \in Sessions BY DEF Sessions
<1> DEFINE batch == {i \in Invoices : invStatus[i] = "open" /\ nextRetry[i] = "due"}
<1>1. RowsSame
    BY DEF RetrySelect, RowsSame, database, subscriptionRows, invoiceRows
<1>2. pc'[w] = "next" /\ todo'[w] = batch /\ seenAttempts'[w] = attempts
    BY DEF RetrySelect, Begin, Goto, Hold, TypeOK, SessionsOK
<1>3. RetrierSound(w)'
    BY <1>1, <1>2 DEF RetrierSound, RowsSame, CopiesSound, Working, Holding
<1>4. ASSUME NEW t \in Subs, Uses(w, t)', NEW v \in Sessions \ {w}
      PROVE  ~Uses(v, t)
  <2>1. PICK i \in batch : i.sub = t
      BY <1>2, <1>4 DEF Uses, Working, Holding, RenewalAssumption
  <2>2. i \in InvoicesOf(t) /\ invStatus[i] = "open" /\ nextRetry[i] = "due"
      BY <2>1 DEF InvoicesOf
  <2>3. SubSound(t)
      BY DEF SoloInv
  <2>4. subStatus[t] = "past_due"
      BY <2>1, <2>2, <2>3 DEF SubSound, InvoiceSound
  <2>5. v \in Billers \/ v \in Graces
      BY DEF Sessions, Solo
  <2>6. ASSUME v \in Billers, Uses(v, t) PROVE FALSE
    <3>1. PICK j \in InvoicesOf(t) : invStatus[j] = "open" /\ nextRetry[j] = "none"
        BY <2>4, <2>6, UsersKnow
    <3> QED BY <2>2, <2>3, <3>1 DEF SubSound
  <2> QED BY <2>4, <2>5, <2>6, UsersKnow
<1>5. SessionSound(w)'
    BY <1>3 DEF SessionSound, Solo
<1>6. \A v \in Sessions \ {w} : SameSession(v)
    BY OthersSame DEF Retrier
<1> QED BY <1>1, <1>4, <1>5, <1>6, QuietSound

\* An invoice's turn: it is charged, or its cycle is left without a date.
LEMMA RetryLoadSound ==
    ASSUME RenewalAssumption, TypeOK, AllReady, Solo, SoloInv,
           NEW w \in Retriers, NEW i \in Invoices, RetryLoad(w, i)
    PROVE  SoloInv'
<1> w \in Sessions BY DEF Sessions
<1>1. pc[w] = "next" /\ i \in todo[w] /\ RetrierSound(w) /\ SessionSound(w)
    BY DEF RetryLoad, SoloInv, SessionSound
<1>2. PICK s \in Subs : s = i.sub
    BY DEF Invoices
<1>3. Uses(w, s) /\ SubSound(s) /\ i \in InvoicesOf(s)
    BY <1>1, <1>2 DEF Uses, SoloInv, InvoicesOf
<1>4. invStatus[i] = "open" /\ nextRetry[i] = "due" /\ InvoiceSound(i)
    BY <1>1, <1>3 DEF RetrierSound, SubSound
<1>5. \A j \in todo[w] : j # i => j \in Invoices /\ j.sub # s
    BY <1>1, <1>2, <1>3, <1>4 DEF RetrierSound, SubSound, InvoicesOf
<1>6. \A v \in Sessions \ {w} : SameSession(v)
    BY OthersSame DEF Retrier
<1>7. UNCHANGED <<subStatus, subPeriod, invStatus, attempts, retries, anchor>>
    BY DEF RetryLoad, subscriptionRows
<1>8. CASE subStatus[s] = "past_due" /\ pc'[w] = "charge" /\ UNCHANGED nextRetry
           /\ todo' = [todo EXCEPT ![w] = @ \ {i}]
           /\ at' = [at EXCEPT ![w] = s] /\ cur' = [cur EXCEPT ![w] = i]
           /\ seenStatus' = [seenStatus EXCEPT ![w][s] = subStatus[s]]
           /\ seenPeriod' = [seenPeriod EXCEPT ![w][s] = subPeriod[s]]
           /\ UNCHANGED seenAttempts
  <2>1. RowsSame
      BY <1>7, <1>8 DEF RowsSame
  <2>2. /\ todo'[w] = todo[w] \ {i} /\ at'[w] = s /\ cur'[w] = i
        /\ seenStatus'[w][s] = "past_due" /\ seenPeriod'[w][s] = subPeriod[s]
      BY <1>8 DEF TypeOK, SessionsOK
  <2>3. HoldsOpen(w)'
      BY <1>3, <1>4, <1>7, <2>2 DEF HoldsOpen, InvoicesOf
  <2>4. CopiesSound(w)'
      BY <1>1, <1>7, <1>8, <2>2 DEF CopiesSound, RetrierSound
  <2>5. /\ todo'[w] \subseteq Invoices /\ \A j \in todo'[w] : j.sub # s
        /\ \A j \in todo'[w] : /\ invStatus'[j] = "open" /\ nextRetry'[j] = "due"
                               /\ seenAttempts'[w][j] = attempts'[j]
      BY <1>1, <1>5, <1>7, <1>8, <2>2 DEF RetrierSound
  <2>6. RetrierSound(w)'
      BY <1>4, <1>7, <1>8, <2>2, <2>3, <2>4, <2>5 DEF RetrierSound
  <2>7. \A t \in Subs : Uses(w, t)' => Uses(w, t)
      BY <1>3, <2>2 DEF Uses
  <2>8. SessionSound(w)'
      BY <2>6 DEF SessionSound, Solo
  <2> QED BY <1>6, <2>1, <2>7, <2>8, QuietSound
<1>9. CASE nextRetry' = [nextRetry EXCEPT ![i] = "none"] /\ EndItem(w, todo[w] \ {i})
  <2>1. nextRetry'[i] = "none"
        /\ \A j \in Invoices : j # i => nextRetry'[j] = nextRetry[j]
      BY <1>9 DEF TypeOK, InvoicesOK
  <2>2. Frame(s)
      BY <1>2, <1>7, <2>1 DEF Frame
  <2>3. SubSound(s)'
    <3>1. InvoiceSound(i)'
        BY <1>4, <1>7, <2>1 DEF InvoiceSound
    <3>2. \A j \in InvoicesOf(s) : j # i => InvoiceSound(j)'
        BY <1>3, <1>7, <2>1 DEF SubSound, InvoiceSound, InvoicesOf
    <3> QED BY <1>3, <1>7, <3>1, <3>2 DEF SubSound, InvoicesOf
  <2>4. s \notin todo[w]
      BY <1>1 DEF RetrierSound, RenewalAssumption
  <2>5. SessionSound(w)' /\ \A t : Uses(w, t)' => Uses(w, t)
      BY <1>1, <1>5, <1>9, <2>2, <2>4, EndItemSound
  <2> QED BY <1>3, <1>6, <2>2, <2>3, <2>5, WorkSound
<1>10. \/ /\ subStatus[s] = "past_due" /\ pc'[w] = "charge" /\ UNCHANGED nextRetry
          /\ todo' = [todo EXCEPT ![w] = @ \ {i}]
          /\ at' = [at EXCEPT ![w] = s] /\ cur' = [cur EXCEPT ![w] = i]
          /\ seenStatus' = [seenStatus EXCEPT ![w][s] = subStatus[s]]
          /\ seenPeriod' = [seenPeriod EXCEPT ![w][s] = subPeriod[s]]
          /\ UNCHANGED seenAttempts
       \/ nextRetry' = [nextRetry EXCEPT ![i] = "none"] /\ EndItem(w, todo[w] \ {i})
    BY <1>2 DEF RetryLoad, Goto, TypeOK, SessionsOK, invoiceCopies
<1> QED BY <1>8, <1>9, <1>10

\* What the retry job holds after a payment.
LEMMA RetrierPaid ==
    ASSUME AllReady, SoloInv, NEW w \in Retriers, pc[w] \in {"clear", "recover"}
    PROVE  \E s \in Subs, i \in Invoices :
             /\ s = at[w] /\ i = cur[w] /\ i \in InvoicesOf(s) /\ i.sub = s
             /\ i.period = subPeriod[s] /\ invStatus[i] = "paid"
             /\ Uses(w, s) /\ SubSound(s) /\ NoneOpen(s)
             /\ subStatus[s] = "past_due" /\ RetrierSound(w) /\ SessionSound(w)
<1> w \in Sessions BY DEF Sessions
<1>1. pc[w] \in Working
    BY DEF Working, Holding
<1>2. PICK s \in Subs : s = at[w] /\ Uses(w, s) /\ SubSound(s) /\ SessionSound(w)
    BY <1>1, AtWork
<1>3. RetrierSound(w)
    BY <1>2 DEF SessionSound
<1>4. subStatus[s] = "past_due" /\ HoldsPaid(w)
    BY <1>1, <1>2, <1>3 DEF RetrierSound
<1>5. /\ cur[w] \in InvoicesOf(s) /\ invStatus[cur[w]] = "paid"
      /\ cur[w].period = subPeriod[s] /\ NoneOpen(s)
    BY <1>2, <1>4 DEF HoldsPaid
<1>6. cur[w] \in Invoices /\ cur[w].sub = s
    BY <1>5 DEF InvoicesOf
<1> QED BY <1>2, <1>3, <1>4, <1>5, <1>6

\* The cycle of a paid invoice is cleared.
LEMMA ClearDunningSound ==
    ASSUME RenewalAssumption, TypeOK, AllReady, Solo, SoloInv,
           NEW w \in Retriers, ClearDunning(w)
    PROVE  SoloInv'
<1> w \in Sessions BY DEF Sessions
<1>1. pc[w] = "clear" /\ pc[w] \in Working
    BY DEF ClearDunning, Working, Holding
<1>2. PICK s \in Subs, i \in Invoices :
        /\ s = at[w] /\ i = cur[w] /\ i \in InvoicesOf(s) /\ i.sub = s
        /\ i.period = subPeriod[s] /\ invStatus[i] = "paid"
        /\ Uses(w, s) /\ SubSound(s) /\ NoneOpen(s)
        /\ subStatus[s] = "past_due" /\ RetrierSound(w) /\ SessionSound(w)
    BY <1>1, RetrierPaid
<1>3. /\ UNCHANGED <<subStatus, subPeriod, invStatus, attempts, retries>>
      /\ UNCHANGED <<todo, at, cur, seenStatus, seenPeriod, seenAttempts>>
      /\ pc'[w] = "recover"
    BY DEF ClearDunning, Goto, TypeOK, SessionsOK, subscriptionRows, seen,
           subscriptionCopies, invoiceCopies
<1>4. /\ nextRetry'[i] = "none" /\ anchor'[i] = "none"
      /\ \A j \in Invoices : j # i => /\ nextRetry'[j] = nextRetry[j]
                                      /\ anchor'[j] = anchor[j]
    BY <1>2 DEF ClearDunning, TypeOK, InvoicesOK
<1>5. Frame(s)
    BY <1>2, <1>3, <1>4 DEF Frame
<1>6. SubSound(s)'
  <2>1. InvoiceSound(i)
      BY <1>2 DEF SubSound
  <2>2. InvoiceSound(i)'
      BY <1>2, <1>3, <1>4, <2>1 DEF InvoiceSound
  <2>3. \A j \in InvoicesOf(s) : j # i => InvoiceSound(j)'
      BY <1>2, <1>3, <1>4 DEF SubSound, InvoiceSound, InvoicesOf
  <2> QED BY <1>2, <1>3, <2>2, <2>3 DEF SubSound, InvoicesOf
<1>7. HoldsPaid(w)'
    BY <1>2, <1>3 DEF HoldsPaid, NoneOpen, InvoicesOf
<1>8. \A j \in todo[w] : j \in Invoices /\ j # i
    BY <1>1, <1>2 DEF RetrierSound
<1>9. /\ todo'[w] \subseteq Invoices
      /\ \A j \in todo'[w] : /\ invStatus'[j] = "open" /\ nextRetry'[j] = "due"
                             /\ seenAttempts'[w][j] = attempts'[j]
    BY <1>2, <1>3, <1>4, <1>8 DEF RetrierSound
<1>10. /\ subStatus'[at'[w]] = "past_due"
       /\ \A j \in todo'[w] : j.sub # at'[w]
       /\ seenStatus'[w][at'[w]] = "past_due"
       /\ seenPeriod'[w][at'[w]] = subPeriod'[at'[w]]
    BY <1>1, <1>2, <1>3 DEF RetrierSound
<1>11. RetrierSound(w)'
    BY <1>3, <1>7, <1>9, <1>10 DEF RetrierSound, CopiesSound
<1>12. SessionSound(w)'
    BY <1>11 DEF SessionSound, Solo
<1>13. \A t \in Subs : Uses(w, t)' => Uses(w, t)
    BY <1>1, <1>3 DEF Uses
<1>14. \A v \in Sessions \ {w} : SameSession(v)
    BY OthersSame DEF Retrier
<1> QED BY <1>2, <1>5, <1>6, <1>12, <1>13, <1>14, WorkSound

\* The subscription recovers into the period after the one paid.
LEMMA RecoverSound ==
    ASSUME RenewalAssumption, TypeOK, AllReady, Solo, SoloInv,
           NEW w \in Retriers, Recover(w)
    PROVE  SoloInv'
<1> w \in Sessions BY DEF Sessions
<1>1. pc[w] = "recover" /\ pc[w] \in Working
    BY DEF Recover, Working, Holding
<1>2. PICK s \in Subs, i \in Invoices :
        /\ s = at[w] /\ i = cur[w] /\ i \in InvoicesOf(s) /\ i.sub = s
        /\ i.period = subPeriod[s] /\ invStatus[i] = "paid"
        /\ Uses(w, s) /\ SubSound(s) /\ NoneOpen(s)
        /\ subStatus[s] = "past_due" /\ RetrierSound(w) /\ SessionSound(w)
    BY <1>1, RetrierPaid
<1>3. /\ UNCHANGED <<invStatus, attempts, retries, nextRetry, anchor>>
      /\ EndItem(w, todo[w])
      /\ \A t \in Subs : t # s => /\ subStatus'[t] = subStatus[t]
                                  /\ subPeriod'[t] = subPeriod[t]
    BY <1>2 DEF Recover, invoiceRows, TypeOK, SubscriptionsOK
<1>4. subPeriod[s] \in Nat /\ subPeriod'[s] = subPeriod[s] + 1
    BY <1>1, <1>2 DEF Recover, TypeOK, SubscriptionsOK, RetrierSound
<1>5. Frame(s)
    BY <1>3 DEF Frame
<1>6. SubSound(s)'
  <2>1. \A j \in Invoices : j.period \in Nat
      BY DEF Invoices
  <2>2. ASSUME NEW j \in InvoicesOf(s) PROVE InvoiceSound(j)'
    <3>1. InvoiceSound(j) /\ invStatus[j] # "open" /\ j.sub = s /\ j \in Invoices
        BY <1>2 DEF SubSound, NoneOpen, InvoicesOf
    <3> QED BY <1>3, <1>4, <2>1, <3>1 DEF InvoiceSound
  <2> QED BY <1>2, <1>3, <2>2 DEF SubSound, InvoicesOf, NoneOpen
<1>7. SessionSound(w)' /\ \A t : Uses(w, t)' => Uses(w, t)
    BY <1>1, <1>2, <1>3, <1>5, TodoElsewhere, EndItemSound
<1>8. \A v \in Sessions \ {w} : SameSession(v)
    BY OthersSame DEF Retrier
<1> QED BY <1>2, <1>5, <1>6, <1>7, <1>8, WorkSound
--------------------------------------------------------------------------
\* The grace job.

\* Its SELECT takes up subscriptions that are unpaid: no charging job is at
\* those.
LEMMA GraceSelectSound ==
    ASSUME RenewalAssumption, TypeOK, AllReady, Solo, SoloInv,
           NEW w \in Graces, GraceSelect(w)
    PROVE  SoloInv'
<1> w \in Sessions BY DEF Sessions
<1> DEFINE batch == {s \in Subs : subStatus[s] = "unpaid" /\ graceOver[s]}
<1>1. RowsSame
    BY DEF GraceSelect, RowsSame, database, subscriptionRows, invoiceRows
<1>2. pc'[w] = "next" /\ todo'[w] = batch /\ seenStatus'[w] = subStatus
    BY DEF GraceSelect, Begin, Goto, TypeOK, SessionsOK
<1>3. GraceSound(w)'
    BY <1>1, <1>2 DEF GraceSound, RowsSame
<1>4. ASSUME NEW t \in Subs, Uses(w, t)', NEW v \in Sessions \ {w}
      PROVE  ~Uses(v, t)
  <2>1. subStatus[t] = "unpaid"
      BY <1>2, <1>4 DEF Uses, Working, Holding, RenewalAssumption
  <2>2. v \in Billers \/ v \in Retriers
      BY DEF Sessions, Solo
  <2> QED BY <2>1, <2>2, UsersKnow
<1>5. SessionSound(w)'
    BY <1>3 DEF SessionSound, Solo
<1>6. \A v \in Sessions \ {w} : SameSession(v)
    BY OthersSame DEF Grace
<1> QED BY <1>1, <1>4, <1>5, <1>6, QuietSound

\* What it cancels is still unpaid.
LEMMA GraceCancelSound ==
    ASSUME RenewalAssumption, TypeOK, AllReady, Solo, SoloInv,
           NEW w \in Graces, NEW s \in Subs, GraceCancel(w, s)
    PROVE  SoloInv'
<1> w \in Sessions BY DEF Sessions
<1>1. SessionSound(w) /\ GraceSound(w) /\ s \in todo[w] /\ SubSound(s)
    BY DEF GraceCancel, SoloInv, SessionSound
<1>2. Uses(w, s) /\ subStatus[s] = "unpaid"
    BY <1>1 DEF Uses, GraceSound
<1>3. /\ subStatus'[s] = "canceled"
      /\ \A t \in Subs : t # s => subStatus'[t] = subStatus[t]
      /\ UNCHANGED <<subPeriod, invStatus, attempts, retries, nextRetry, anchor>>
      /\ EndItem(w, todo[w] \ {s})
    BY DEF GraceCancel, invoiceRows, TypeOK, SubscriptionsOK
<1>4. Frame(s)
    BY <1>3 DEF Frame
<1>5. SubSound(s)'
    BY <1>1, <1>2, <1>3 DEF SubSound, InvoiceSound, InvoicesOf
<1>6. todo[w] \cap Invoices = {}
    BY <1>1 DEF GraceSound, RenewalAssumption
<1>7. SessionSound(w)' /\ \A t : Uses(w, t)' => Uses(w, t)
    BY <1>1, <1>3, <1>4, <1>6, EndItemSound
<1>8. \A v \in Sessions \ {w} : SameSession(v)
    BY OthersSame DEF Grace
<1> QED BY <1>2, <1>4, <1>5, <1>7, <1>8, WorkSound
--------------------------------------------------------------------------
\* Jobs cut short, and everything that happens outside the jobs.

\* An exception ends the job; so does whatever cuts it short.
LEMMA CutSound ==
    ASSUME RenewalAssumption, TypeOK, AllReady, Solo, SoloInv,
           NEW w \in Sessions,
           (w \in Billers \cup Retriers /\ ChargeRaises(w)) \/ AbortJob(w)
    PROVE  SoloInv'
<1>1. Close(w) /\ RowsSame
    BY DEF ChargeRaises, AbortJob, RowsSame, database, subscriptionRows,
           invoiceRows
<1>2. \A v \in Sessions \ {w} : SameSession(v)
    BY OthersSame DEF Biller, Retrier, Charging
<1> QED BY <1>1, <1>2, AbortSound

\* A step that touches neither the sessions nor the rows the invariant speaks
\* of.
LEMMA StillSound ==
    ASSUME SoloInv, RowsSame, UNCHANGED session
    PROVE  SoloInv'
<1>1. UNCHANGED <<pc, todo, at, cur, answer, seenStatus, seenPeriod,
                  seenAttempts, seenInvoice, seenAnchor>>
    BY DEF session, seen, subscriptionCopies, invoiceCopies
<1>2. ASSUME NEW s \in Subs PROVE SubSound(s)'
    BY DEF SoloInv, SubSound, InvoiceSound, InvoicesOf, RowsSame
<1>3. ASSUME NEW w \in Sessions PROVE SessionSound(w)'
  <2>1. w \in Billers => BillerSound(w)'
      BY <1>1 DEF SoloInv, SessionSound, BillerSound, Fresh, NoneOpen, HoldsOpen,
         HoldsPaid, InvoicesOf, CopiesSound, RowsSame
  <2>2. w \in Retriers => RetrierSound(w)'
      BY <1>1 DEF SoloInv, SessionSound, RetrierSound, NoneOpen, HoldsOpen,
         HoldsPaid, InvoicesOf, CopiesSound, RowsSame
  <2>3. w \in Graces => GraceSound(w)'
      BY <1>1 DEF SoloInv, SessionSound, GraceSound, RowsSame
  <2> QED BY <2>1, <2>2, <2>3 DEF SessionSound
<1>4. Exclusive'
    BY <1>1 DEF SoloInv, Exclusive, Uses
<1> QED BY <1>2, <1>3, <1>4 DEF SoloInv

\* A retry that comes due is one no session holds.
LEMMA RetryComesDueSound ==
    ASSUME TypeOK, AllReady, SoloInv, NEW i \in Invoices, RetryComesDue(i)
    PROVE  SoloInv'
<1>1. UNCHANGED <<pc, todo, at, cur, answer, seenStatus, seenPeriod,
                  seenAttempts, seenInvoice, seenAnchor>>
    BY DEF RetryComesDue, session, seen, subscriptionCopies, invoiceCopies
<1>2. /\ UNCHANGED <<subStatus, subPeriod, invStatus, attempts, retries, anchor>>
      /\ nextRetry[i] = "waiting" /\ nextRetry'[i] = "due"
      /\ \A j \in Invoices : j # i => nextRetry'[j] = nextRetry[j]
    BY DEF RetryComesDue, subscriptionRows, TypeOK, InvoicesOK
<1>3. ASSUME NEW s \in Subs PROVE SubSound(s)'
  <2>1. SubSound(s)
      BY DEF SoloInv
  <2>2. ASSUME NEW j \in InvoicesOf(s) PROVE InvoiceSound(j)'
    <3>1. InvoiceSound(j) /\ j \in Invoices
        BY <2>1, <2>2 DEF SubSound, InvoicesOf
    <3>2. nextRetry'[j] = nextRetry[j]
          \/ (nextRetry[j] # "none" /\ nextRetry'[j] # "none")
        BY <1>2, <3>1
    <3> QED BY <1>2, <3>1, <3>2 DEF InvoiceSound
  <2> QED BY <1>2, <2>1, <2>2 DEF SubSound, InvoicesOf
<1>4. ASSUME NEW w \in Sessions PROVE SessionSound(w)'
  <2>1. ASSUME w \in Billers PROVE BillerSound(w)'
    <3>1. BillerSound(w)
        BY <2>1 DEF SoloInv, SessionSound
    <3>2. pc[w] \in {"schedule", "flag"} =>
             nextRetry[cur[w]] = "none" /\ cur[w] \in Invoices
        BY <3>1 DEF BillerSound, AllReady, Ready, Holding
    <3>3. pc'[w] \in {"schedule", "flag"} => nextRetry'[cur'[w]] = "none"
        BY <1>1, <1>2, <3>2
    <3> QED
        BY <1>1, <1>2, <3>1, <3>3 DEF BillerSound, Fresh, NoneOpen, HoldsOpen,
           HoldsPaid, InvoicesOf, CopiesSound
  <2>2. ASSUME w \in Retriers PROVE RetrierSound(w)'
    <3>1. RetrierSound(w)
        BY <2>2 DEF SoloInv, SessionSound
    <3>2. pc[w] \in {"charge", "record", "pay", "fail", "revoke"} =>
             cur[w] \in Invoices
        BY DEF AllReady, Ready, Holding
    <3>3. pc[w] = "revoke" => nextRetry'[cur[w]] = "none"
        BY <1>2, <3>1, <3>2 DEF RetrierSound
    <3>4. pc[w] \in {"charge", "record", "pay", "fail"} =>
             nextRetry'[cur[w]] = "due"
        BY <1>2, <3>1, <3>2 DEF RetrierSound
    <3>5. \A j \in todo[w] : nextRetry'[j] = "due"
        BY <1>2, <3>1 DEF RetrierSound
    <3> QED
        BY <1>1, <1>2, <3>1, <3>3, <3>4, <3>5 DEF RetrierSound, NoneOpen,
           HoldsOpen, HoldsPaid, InvoicesOf, CopiesSound
  <2>3. w \in Graces => GraceSound(w)'
      BY <1>1, <1>2 DEF SoloInv, SessionSound, GraceSound
  <2> QED BY <2>1, <2>2, <2>3 DEF SessionSound
<1>5. Exclusive'
    BY <1>1 DEF SoloInv, Exclusive, Uses
<1> QED BY <1>3, <1>4, <1>5 DEF SoloInv

\* Cards, time and the timers.
LEMMA EnvironmentSound ==
    ASSUME TypeOK, AllReady, SoloInv,
           Time \/ \E s \in Subs : AddCard(s) \/ LoseCard(s)
    PROVE  SoloInv'
<1>1. CASE \E i \in Invoices : RetryComesDue(i)
    BY <1>1, RetryComesDueSound
<1>2. CASE PeriodEnds \/ \E s \in Subs : GraceElapses(s) \/ AddCard(s) \/ LoseCard(s)
  <2>1. RowsSame /\ UNCHANGED session
      BY <1>2 DEF PeriodEnds, GraceElapses, AddCard, LoseCard, RowsSame, database,
         subscriptionRows, invoiceRows
  <2> QED BY <2>1, StillSound
<1> QED BY <1>1, <1>2 DEF Time

\* Nobody is at work and nothing is invoiced at the start.
LEMMA InitSound ==
    ASSUME RenewalAssumption, Solo, Init
    PROVE  SoloInv
<1>1. ASSUME NEW s \in Subs PROVE SubSound(s)
    BY DEF Init, SubSound, InvoiceSound, InvoicesOf
<1>2. ASSUME NEW w \in Sessions PROVE SessionSound(w) /\ \A s : ~Uses(w, s)
  <2>1. pc[w] = "idle" /\ todo[w] = {}
      BY DEF Init
  <2> QED BY <2>1 DEF SessionSound, BillerSound, RetrierSound, GraceSound,
             CopiesSound, Uses, Working, Holding
<1> QED BY <1>1, <1>2 DEF SoloInv, Exclusive

\* Every step of the jobs and of everything around them.
LEMMA NextSound ==
    ASSUME RenewalAssumption, TypeOK, AllReady, Solo, SoloInv, [Next]_vars
    PROVE  SoloInv'
<1>1. ASSUME NEW w \in Billers \cup Retriers, Charging(w) PROVE SoloInv'
  <2> w \in Sessions BY DEF Sessions
  <2> QED
      BY <1>1, ChargeSound, CutSound, RecordAttemptSound, PayInvoiceSound,
         SkipDunningSound, OpenCycleSound, AdvanceCycleSound, ScheduleRetrySound,
         RevokeSound DEF Charging, Dunning
<1>2. ASSUME NEW w \in Billers, Biller(w) PROVE SoloInv'
    BY <1>1, <1>2, BillSelectSound, BillLookupSound, BillCreateSound,
       AdvancePeriodSound DEF Biller
<1>3. ASSUME NEW w \in Retriers, Retrier(w) PROVE SoloInv'
    BY <1>1, <1>3, RetrySelectSound, RetryLoadSound, ClearDunningSound,
       RecoverSound DEF Retrier
<1>4. ASSUME NEW w \in Graces, Grace(w) PROVE SoloInv'
    BY <1>4, GraceSelectSound, GraceCancelSound DEF Grace
<1>5. CASE UNCHANGED vars
    BY <1>5, StillSound DEF vars, RowsSame, session, seen, subscriptionCopies,
       invoiceCopies
<1>6. ~\E w \in Requests : Request(w)
    BY DEF Solo
<1> QED
    BY <1>2, <1>3, <1>4, <1>5, <1>6, CutSound, EnvironmentSound DEF Next

\* The rows and the sessions' copies agree at every moment.
LEMMA SoloIsInvariant ==
    ASSUME Solo
    PROVE  Spec => [](TypeOK /\ AllReady /\ SoloInv)
<1>1. Init => TypeOK /\ AllReady /\ SoloInv
    BY RenewalAssumption, InitOK, InitSound
<1>2. TypeOK /\ AllReady /\ SoloInv /\ [Next]_vars
        => (TypeOK /\ AllReady /\ SoloInv)'
    BY RenewalAssumption, NextOK, NextSound
<1> QED BY <1>1, <1>2, PTL DEF Spec
--------------------------------------------------------------------------
\* Statuses and periods.

\* The four ways a subscription's status moves, and what each rests on.
Opened(s) ==
    /\ subStatus[s] = "active"
    /\ subStatus' = [subStatus EXCEPT ![s] = "past_due"]

Revoked(s) ==
    /\ subStatus[s] = "past_due"
    /\ subStatus' = [subStatus EXCEPT ![s] = "unpaid"]
    /\ \E i \in Invoices :
         /\ i.sub = s /\ invStatus[i] = "open" /\ anchor[i] # "none"
         /\ retries[i] > 0
         /\ retries[i] >= Len(RetrySchedule(anchor[i]))

Recovered(s) ==
    /\ subStatus[s] = "past_due"
    /\ subStatus' = [subStatus EXCEPT ![s] = "active"]
    /\ \E i \in Invoices :
         i.sub = s /\ i.period = subPeriod[s] /\ invStatus[i] = "paid"

GivenUp(s) ==
    /\ subStatus[s] = "unpaid"
    /\ subStatus' = [subStatus EXCEPT ![s] = "canceled"]

\* No step moves a status in another way.
LEMMA StatusSteps ==
    ASSUME RenewalAssumption, TypeOK, AllReady, Solo, SoloInv, [Next]_vars
    PROVE  \/ UNCHANGED subStatus
           \/ \E s \in Subs : Opened(s) \/ Revoked(s) \/ Recovered(s) \/ GivenUp(s)
<1>1. ASSUME NEW w \in Billers \cup Retriers, OpenCycle(w)
      PROVE  \E s \in Subs : Opened(s)
  <2>1. pc[w] = "fail"
      BY <1>1 DEF OpenCycle
  <2>2. PICK s \in Subs : /\ s = at[w]
                          /\ w \in Billers => Fresh(w, s)
                          /\ w \in Retriers => RetrierSound(w)
      BY <2>1, ChargerHolds
  <2>3. seenStatus[w][s] = "active"
        /\ subStatus' = [subStatus EXCEPT ![s] = "past_due"]
      BY <1>1, <2>2 DEF OpenCycle
  <2>4. w \notin Retriers
      BY <2>1, <2>2, <2>3 DEF RetrierSound
  <2> QED BY <2>2, <2>3, <2>4 DEF Opened, Fresh
<1>2. ASSUME NEW w \in Billers \cup Retriers, Revoke(w)
      PROVE  \E s \in Subs : Revoked(s)
  <2>1. pc[w] = "revoke" /\ pc[w] \in Working /\ w \in Sessions
      BY <1>2 DEF Revoke, Working, Holding, Sessions
  <2>2. PICK s \in Subs : s = at[w] /\ SessionSound(w)
      BY <2>1, AtWork
  <2>3. RetrierSound(w)
      BY <2>1, <2>2 DEF SessionSound, BillerSound
  <2>4. subStatus[s] = "past_due"
      BY <2>1, <2>2, <2>3 DEF RetrierSound
  <2>5. /\ cur[w] \in Invoices /\ cur[w].sub = s /\ invStatus[cur[w]] = "open"
        /\ anchor[cur[w]] # "none" /\ retries[cur[w]] > 0
        /\ retries[cur[w]] >= Len(RetrySchedule(anchor[cur[w]]))
      BY <2>1, <2>2, <2>3 DEF RetrierSound, HoldsOpen, InvoicesOf
  <2>6. subStatus' = [subStatus EXCEPT ![s] = "unpaid"]
      BY <1>2, <2>2 DEF Revoke
  <2> QED BY <2>4, <2>5, <2>6 DEF Revoked
<1>3. ASSUME NEW w \in Retriers, Recover(w)
      PROVE  \E s \in Subs : Recovered(s)
  <2>1. pc[w] = "recover"
      BY <1>3 DEF Recover
  <2>2. PICK s \in Subs, i \in Invoices :
          /\ s = at[w] /\ i.sub = s /\ i.period = subPeriod[s]
          /\ invStatus[i] = "paid" /\ subStatus[s] = "past_due"
      BY <2>1, RetrierPaid
  <2>3. subStatus' = [subStatus EXCEPT ![s] = "active"]
      BY <1>3, <2>2 DEF Recover
  <2> QED BY <2>2, <2>3 DEF Recovered
<1>4. ASSUME NEW w \in Graces, NEW s \in Subs, GraceCancel(w, s)
      PROVE  GivenUp(s)
  <2>1. w \in Sessions
      BY DEF Sessions
  <2>2. GraceSound(w) /\ s \in todo[w]
      BY <1>4, <2>1 DEF GraceCancel, SoloInv, SessionSound
  <2> QED BY <1>4, <2>2 DEF GraceSound, GivenUp, GraceCancel
<1>5. ASSUME NEW w \in Sessions,
             \/ BillSelect(w) \/ BillCreate(w) \/ AdvancePeriod(w)
             \/ \E s \in Subs : BillLookup(w, s)
             \/ RetrySelect(w) \/ ClearDunning(w)
             \/ \E i \in Invoices : RetryLoad(w, i)
             \/ Charge(w) \/ ChargeRaises(w) \/ RecordAttempt(w) \/ PayInvoice(w)
             \/ SkipDunning(w) \/ AdvanceCycle(w) \/ ScheduleRetry(w)
             \/ GraceSelect(w) \/ AbortJob(w)
      PROVE  UNCHANGED subStatus
    BY <1>5 DEF BillSelect, BillCreate, AdvancePeriod, BillLookup, RetrySelect,
       ClearDunning, RetryLoad, Charge, ChargeRaises, RecordAttempt, PayInvoice,
       SkipDunning, AdvanceCycle, ScheduleRetry, Settle, GraceSelect, AbortJob,
       database, subscriptionRows
<1>6. CASE \/ Time \/ UNCHANGED vars
           \/ \E s \in Subs : AddCard(s) \/ LoseCard(s)
    BY <1>6 DEF Time, PeriodEnds, RetryComesDue, GraceElapses, AddCard, LoseCard,
       vars, database, subscriptionRows
<1>7. ~\E w \in Requests : Request(w)
    BY DEF Solo
<1>8. \A w \in Billers \cup Retriers \cup Graces : w \in Sessions
    BY DEF Sessions
<1> QED
    BY <1>1, <1>2, <1>3, <1>4, <1>5, <1>6, <1>7, <1>8
    DEF Next, Biller, Retrier, Grace, Charging, Dunning

\* A period is granted when an invoice for the one before it is paid.
LEMMA PeriodSteps ==
    ASSUME RenewalAssumption, TypeOK, AllReady, Solo, SoloInv, [Next]_vars
    PROVE  \/ UNCHANGED subPeriod
           \/ \E s \in Subs :
                /\ subPeriod' = [subPeriod EXCEPT ![s] = subPeriod[s] + 1]
                /\ \E i \in Invoices : /\ i.sub = s /\ i.period = subPeriod[s]
                                       /\ invStatus[i] = "paid"
<1> DEFINE Goal ==
             \/ UNCHANGED subPeriod
             \/ \E s \in Subs :
                  /\ subPeriod' = [subPeriod EXCEPT ![s] = subPeriod[s] + 1]
                  /\ \E i \in Invoices : /\ i.sub = s /\ i.period = subPeriod[s]
                                         /\ invStatus[i] = "paid"
<1>1. ASSUME NEW w \in Billers, AdvancePeriod(w) PROVE Goal
  <2>1. pc[w] = "advance" /\ pc[w] \in Working /\ w \in Sessions
      BY <1>1 DEF AdvancePeriod, Working, Holding, Sessions
  <2>2. PICK s \in Subs : s = at[w] /\ SessionSound(w)
      BY <2>1, AtWork
  <2>3. Fresh(w, s) /\ HoldsPaid(w)
      BY <2>1, <2>2 DEF SessionSound, BillerSound
  <2>4. /\ cur[w] \in Invoices /\ cur[w].sub = s
        /\ cur[w].period = subPeriod[s] /\ invStatus[cur[w]] = "paid"
      BY <2>2, <2>3 DEF HoldsPaid, InvoicesOf
  <2>5. subPeriod' = [subPeriod EXCEPT ![s] = subPeriod[s] + 1]
      BY <1>1, <2>2, <2>3 DEF AdvancePeriod, Fresh
  <2> QED BY <2>4, <2>5
<1>2. ASSUME NEW w \in Retriers, Recover(w) PROVE Goal
  <2>1. pc[w] = "recover"
      BY <1>2 DEF Recover
  <2>2. PICK s \in Subs, i \in Invoices :
          /\ s = at[w] /\ i.sub = s /\ i.period = subPeriod[s]
          /\ invStatus[i] = "paid" /\ RetrierSound(w)
      BY <2>1, RetrierPaid
  <2>3. subPeriod' = [subPeriod EXCEPT ![s] = subPeriod[s] + 1]
      BY <1>2, <2>1, <2>2 DEF Recover, RetrierSound
  <2> QED BY <2>2, <2>3
<1>3. ASSUME NEW w \in Sessions,
             \/ BillSelect(w) \/ BillCreate(w)
             \/ \E s \in Subs : BillLookup(w, s)
             \/ RetrySelect(w) \/ ClearDunning(w)
             \/ \E i \in Invoices : RetryLoad(w, i)
             \/ Charge(w) \/ ChargeRaises(w) \/ RecordAttempt(w) \/ PayInvoice(w)
             \/ Dunning(w) \/ Grace(w) \/ AbortJob(w)
      PROVE  UNCHANGED subPeriod
    BY <1>3 DEF BillSelect, BillCreate, BillLookup, RetrySelect,
       ClearDunning, RetryLoad, Charge, ChargeRaises, RecordAttempt, PayInvoice,
       Dunning, SkipDunning, OpenCycle, AdvanceCycle, ScheduleRetry, Revoke,
       Settle, Grace, GraceSelect, GraceCancel, AbortJob, database,
       subscriptionRows
<1>4. ASSUME \/ Time \/ UNCHANGED vars
             \/ \E s \in Subs : AddCard(s) \/ LoseCard(s)
      PROVE  UNCHANGED subPeriod
    BY <1>4, SessionsKept
<1>5. ~\E w \in Requests : Request(w)
    BY DEF Solo
<1>6. \A w \in Billers \cup Retriers \cup Graces : w \in Sessions
    BY DEF Sessions
<1> HIDE DEF Goal
<1>7. UNCHANGED subPeriod => Goal
    BY DEF Goal
<1>8. ASSUME NEW w \in Billers, Biller(w) PROVE Goal
    BY <1>1, <1>3, <1>6, <1>7, <1>8 DEF Biller, Charging
<1>9. ASSUME NEW w \in Retriers, Retrier(w) PROVE Goal
    BY <1>2, <1>3, <1>6, <1>7, <1>9 DEF Retrier, Charging
<1>10. ASSUME NEW w \in Sessions, (w \in Graces /\ Grace(w)) \/ AbortJob(w)
       PROVE  Goal
    BY <1>3, <1>7, <1>10
<1>11. Goal
    BY <1>4, <1>5, <1>6, <1>7, <1>8, <1>9, <1>10 DEF Next
<1> QED BY <1>11 DEF Goal

\* Every status change of the jobs is one the table allows: the detailed
\* specification implements the machine of app/subscriptions/state_machine.py.
THEOREM JobsFollowTable ==
    ASSUME Solo
    PROVE  Spec => FollowsTable
<1>1. Init => Machine!MachineInit
    BY DEF Init, Machine!MachineInit, Machine!SubscriptionStatus
<1>2. TypeOK /\ AllReady /\ SoloInv /\ [Next]_vars
        => [Machine!MachineNext]_subStatus
  <2> SUFFICES ASSUME TypeOK, AllReady, SoloInv, [Next]_vars,
                      subStatus' # subStatus
               PROVE  Machine!MachineNext
      OBVIOUS
  <2>1. PICK s \in Subs : Opened(s) \/ Revoked(s) \/ Recovered(s) \/ GivenUp(s)
      BY RenewalAssumption, StatusSteps
  <2>2. \E new \in Machine!SubscriptionStatus :
           /\ Machine!SubscriptionAllowed(subStatus[s], new)
           /\ subStatus' = [subStatus EXCEPT ![s] = new]
      BY <2>1 DEF Opened, Revoked, Recovered, GivenUp, Machine!SubscriptionStatus,
         Machine!SubscriptionAllowed, Machine!SubscriptionTransitions
  <2> QED BY <2>2 DEF Machine!MachineNext, Machine!TransitionSubscription
<1> QED
    BY <1>1, <1>2, SoloIsInvariant, PTL
    DEF Spec, FollowsTable, Machine!MachineSpec

\* Access is revoked only when an open invoice has used up the schedule of the
\* reason its cycle was opened for.
THEOREM RevokedWhenUsedUp ==
    ASSUME Solo
    PROVE  Spec => RevokedAfterSchedule
<1> DEFINE Action ==
             \A s \in Subs : subStatus[s] # "unpaid" /\ subStatus'[s] = "unpaid"
               => \E i \in Invoices :
                     /\ i.sub = s /\ invStatus[i] = "open" /\ anchor[i] # "none"
                     /\ retries[i] > 0
                     /\ retries[i] >= Len(RetrySchedule(anchor[i]))
<1>1. TypeOK /\ AllReady /\ SoloInv /\ [Next]_vars => [Action]_vars
  <2> SUFFICES ASSUME TypeOK, AllReady, SoloInv, [Next]_vars PROVE Action
      OBVIOUS
  <2>1. \/ UNCHANGED subStatus
        \/ \E t \in Subs : Opened(t) \/ Revoked(t) \/ Recovered(t) \/ GivenUp(t)
      BY RenewalAssumption, StatusSteps
  <2>2. CASE UNCHANGED subStatus
      BY <2>2
  <2>3. ASSUME NEW t \in Subs, Opened(t) \/ Recovered(t) \/ GivenUp(t)
        PROVE  Action
      BY <2>3 DEF Opened, Recovered, GivenUp, TypeOK, SubscriptionsOK
  <2>4. ASSUME NEW t \in Subs, Revoked(t) PROVE Action
    <3>1. \A s \in Subs : s # t => subStatus'[s] = subStatus[s]
        BY <2>4 DEF Revoked, TypeOK, SubscriptionsOK
    <3> QED BY <2>4, <3>1 DEF Revoked
  <2> QED BY <2>1, <2>2, <2>3, <2>4
<1> QED BY <1>1, SoloIsInvariant, PTL DEF Spec, RevokedAfterSchedule

\* No period is granted for free: there is a paid invoice for every one before
\* the current.
THEOREM PeriodsArePaid ==
    ASSUME Solo
    PROVE  Spec => []NoFreePeriod
<1>1. Init => NoFreePeriod
    BY DEF Init, NoFreePeriod
<1>2. NoFreePeriod /\ TypeOK /\ AllReady /\ SoloInv /\ [Next]_vars => NoFreePeriod'
  <2> SUFFICES ASSUME NoFreePeriod, TypeOK, AllReady, SoloInv, [Next]_vars,
                      NEW t \in Subs, NEW p \in 1..(subPeriod'[t] - 1)
               PROVE  \E i \in Invoices : i.sub = t /\ i.period = p
                                          /\ invStatus'[i] = "paid"
      BY DEF NoFreePeriod
  <2>1. \A i \in Invoices : invStatus[i] = "paid" => invStatus'[i] = "paid"
      BY StepKeepsRows DEF RowsStay
  <2>2. ASSUME p \in 1..(subPeriod[t] - 1)
        PROVE  \E i \in Invoices : i.sub = t /\ i.period = p
                                   /\ invStatus'[i] = "paid"
      BY <2>1, <2>2 DEF NoFreePeriod
  <2>3. CASE UNCHANGED subPeriod
      BY <2>2, <2>3
  <2>4. ASSUME NEW s \in Subs,
               subPeriod' = [subPeriod EXCEPT ![s] = subPeriod[s] + 1],
               \E i \in Invoices : i.sub = s /\ i.period = subPeriod[s]
                                   /\ invStatus[i] = "paid"
        PROVE  \E i \in Invoices : i.sub = t /\ i.period = p
                                   /\ invStatus'[i] = "paid"
    <3>1. CASE t # s
        BY <2>2, <2>4, <3>1 DEF TypeOK, SubscriptionsOK
    <3>2. CASE t = s
      <4>1. subPeriod[s] \in Nat /\ subPeriod'[t] = subPeriod[s] + 1
          BY <2>4, <3>2 DEF TypeOK, SubscriptionsOK
      <4>2. p \in 1..(subPeriod[t] - 1) \/ p = subPeriod[t]
          BY <3>2, <4>1
      <4>3. p = subPeriod[t] => \E i \in Invoices : i.sub = t /\ i.period = p
                                   /\ invStatus'[i] = "paid"
          BY <2>1, <2>4, <3>2
      <4> QED BY <2>2, <4>2, <4>3
    <3> QED BY <3>1, <3>2
  <2>5. \/ UNCHANGED subPeriod
        \/ \E s \in Subs :
             /\ subPeriod' = [subPeriod EXCEPT ![s] = subPeriod[s] + 1]
             /\ \E i \in Invoices : /\ i.sub = s /\ i.period = subPeriod[s]
                                    /\ invStatus[i] = "paid"
      BY RenewalAssumption, PeriodSteps
  <2> QED BY <2>3, <2>4, <2>5
<1> QED BY <1>1, <1>2, SoloIsInvariant, PTL DEF Spec
--------------------------------------------------------------------------
\* Where sessions stand.

\* Two sessions never hold the same invoice.
LEMMA HoldersAlone ==
    ASSUME AllReady, Solo, SoloInv, NEW v \in Sessions, NEW w \in Sessions,
           pc[v] \in Holding, pc[w] \in Holding, cur[v] = cur[w]
    PROVE  v = w
<1>1. ASSUME NEW u \in Sessions, pc[u] \in Holding
      PROVE  \E s \in Subs : s = cur[u].sub /\ Uses(u, s)
  <2>1. PICK s \in Subs : s = at[u] /\ Uses(u, s) /\ SessionSound(u)
      BY <1>1, AtWork DEF Working
  <2>2. u \in Billers \/ u \in Retriers
      BY <1>1, <2>1 DEF SessionSound, GraceSound, Holding, Sessions, Solo
  <2>3. HoldsOpen(u) \/ HoldsPaid(u)
      BY <1>1, <2>1, <2>2 DEF SessionSound, BillerSound, RetrierSound, Holding
  <2> QED BY <2>1, <2>3 DEF HoldsOpen, HoldsPaid, InvoicesOf
<1> QED BY <1>1 DEF SoloInv, Exclusive

\* A session moves on from the point where it stands only by that point's
\* action, unless it is cut short there.
LEMMA Leaving ==
    ASSUME RenewalAssumption, TypeOK, Solo, [Next]_vars, NEW v \in Sessions
    PROVE  \/ SameSession(v)
           \/ AbortJob(v)
           \/ /\ pc[v] = "record" => RecordAttempt(v)
              /\ pc[v] = "pay" => PayInvoice(v)
              /\ pc[v] = "advance" => AdvancePeriod(v)
              /\ pc[v] = "clear" => ClearDunning(v)
              /\ pc[v] = "recover" => Recover(v)
              /\ pc[v] = "fail" => SkipDunning(v) \/ OpenCycle(v) \/ AdvanceCycle(v)
              /\ pc[v] \in {"schedule", "flag", "exhaust"} => ScheduleRetry(v)
              /\ pc[v] = "revoke" => Revoke(v)
<1>1. ASSUME NEW w \in Sessions,
             Biller(w) \/ Retrier(w) \/ Grace(w) \/ AbortJob(w), v # w
      PROVE  SameSession(v)
    BY <1>1, OthersSame
<1>2. ASSUME Charging(v) \/ Grace(v)
      PROVE  /\ pc[v] = "record" => RecordAttempt(v)
             /\ pc[v] = "pay" => PayInvoice(v)
             /\ pc[v] \notin {"advance", "clear", "recover"}
             /\ pc[v] = "fail" => SkipDunning(v) \/ OpenCycle(v) \/ AdvanceCycle(v)
             /\ pc[v] \in {"schedule", "flag", "exhaust"} => ScheduleRetry(v)
             /\ pc[v] = "revoke" => Revoke(v)
    BY <1>2 DEF Charging, Dunning, Charge, ChargeRaises, RecordAttempt, PayInvoice,
       SkipDunning, OpenCycle, AdvanceCycle, ScheduleRetry, Revoke, Grace,
       GraceSelect, GraceCancel, Begin
<1>3. ASSUME \/ BillSelect(v) \/ BillCreate(v) \/ AdvancePeriod(v)
             \/ \E s \in Subs : BillLookup(v, s)
             \/ RetrySelect(v) \/ ClearDunning(v) \/ Recover(v)
             \/ \E i \in Invoices : RetryLoad(v, i)
      PROVE  /\ pc[v] = "advance" => AdvancePeriod(v)
             /\ pc[v] = "clear" => ClearDunning(v)
             /\ pc[v] = "recover" => Recover(v)
             /\ pc[v] \notin {"record", "pay", "fail", "schedule", "flag", "exhaust",
                              "revoke"}
    BY <1>3 DEF BillSelect, BillCreate, AdvancePeriod, BillLookup, RetrySelect,
       ClearDunning, Recover, RetryLoad, Begin
<1>4. ASSUME \/ Time \/ UNCHANGED vars
             \/ \E s \in Subs : AddCard(s) \/ LoseCard(s)
      PROVE  SameSession(v)
    BY <1>4, SessionsKept DEF SameSession
<1>5. ~\E w \in Requests : Request(w)
    BY DEF Solo
<1>6. \A w \in Billers \cup Retriers \cup Graces : w \in Sessions
    BY DEF Sessions
<1>7. ASSUME Biller(v) \/ Retrier(v) \/ Grace(v)
      PROVE  /\ pc[v] = "record" => RecordAttempt(v)
             /\ pc[v] = "pay" => PayInvoice(v)
             /\ pc[v] = "advance" => AdvancePeriod(v)
             /\ pc[v] = "clear" => ClearDunning(v)
             /\ pc[v] = "recover" => Recover(v)
             /\ pc[v] = "fail" => SkipDunning(v) \/ OpenCycle(v) \/ AdvanceCycle(v)
             /\ pc[v] \in {"schedule", "flag", "exhaust"} => ScheduleRetry(v)
             /\ pc[v] = "revoke" => Revoke(v)
    BY <1>2, <1>3, <1>7 DEF Biller, Retrier
<1>8. CASE \E w \in Sessions : Biller(w) \/ Retrier(w) \/ Grace(w) \/ AbortJob(w)
    BY <1>1, <1>7, <1>8
<1> QED BY <1>4, <1>5, <1>6, <1>8 DEF Next
--------------------------------------------------------------------------
\* Charges.

\* A paid answer is never lost between its record and the payment's commit.
\* (A job cut short there is the one way to a second capture: the attempt is
\* counted, the invoice is open, and the next charge has a new reference.)
PaymentNotCut == "pay" \notin AbortAt

AtPay(i) == \E w \in Sessions : pc[w] = "pay" /\ cur[w] = i

\* The ledger holds an entry for every counted attempt, at most one more, and
\* a capture among the counted ones only if the invoice is paid or about to be.
EntriesSound(i) ==
    /\ \A k \in 0..MaxAttempts :
         /\ k > attempts[i] => ledger[i][k] = NoOutcome
         /\ k >= attempts[i] /\ invStatus[i] = "paid" => ledger[i][k] = NoOutcome
         /\ k < attempts[i] /\ ledger[i][k] = "captured"
              => invStatus[i] = "paid" \/ AtPay(i)
    /\ \A k, l \in Captures(i) : k = l

\* A session that has an answer has it in the ledger; one that has recorded it
\* has no entry after it.
AnswerSound(w) ==
    /\ pc[w] = "record" => ledger[cur[w]][attempts[cur[w]]] = answer[w]
    /\ pc[w] = "pay" => \A k \in 0..MaxAttempts :
         k >= attempts[cur[w]] => ledger[cur[w]][k] = NoOutcome

LedgerSound ==
    /\ \A i \in Invoices : EntriesSound(i)
    /\ \A w \in Sessions : AnswerSound(w)

\* The state in which a step of a charging session finds its invoice.
LEMMA ChargerAlone ==
    ASSUME AllReady, SoloInv, Solo, NEW w \in Sessions,
           pc[w] \in {"charge", "record", "pay"}
    PROVE  \E i \in Invoices :
             /\ i = cur[w] /\ invStatus[i] = "open" /\ CopiesSound(w)
             /\ \A v \in Sessions \ {w} : pc[v] \in Holding => cur[v] # i
<1>1. SessionSound(w)
    BY DEF SoloInv
<1>2. w \in Billers \cup Retriers
    BY <1>1 DEF SessionSound, GraceSound, Sessions, Solo
<1>3. PICK s \in Subs, i \in Invoices :
        i = cur[w] /\ invStatus[i] = "open" /\ CopiesSound(w)
    BY <1>2, ChargerHolds
<1>4. \A v \in Sessions \ {w} : pc[v] \in Holding => cur[v] # i
    BY <1>3, HoldersAlone DEF Holding
<1> QED BY <1>3, <1>4

\* A charge adds the entry that the attempts have not counted yet.
LEMMA LedgerCharge ==
    ASSUME RenewalAssumption, TypeOK, AllReady, Solo, SoloInv, LedgerSound,
           NEW w \in Sessions, Charge(w), \A v \in Sessions \ {w} : SameSession(v)
    PROVE  LedgerSound'
<1>1. pc[w] = "charge"
    BY DEF Charge
<1>2. PICK i \in Invoices :
        /\ i = cur[w] /\ invStatus[i] = "open" /\ CopiesSound(w)
        /\ \A v \in Sessions \ {w} : pc[v] \in Holding => cur[v] # i
    BY <1>1, ChargerAlone
<1> DEFINE k == attempts[i]
<1>3. Reference(w) = k /\ k \in 0..MaxAttempts /\ k < MaxAttempts
    BY <1>1, <1>2 DEF CopiesSound, Reference, Charge, TypeOK, InvoicesOK,
       RenewalAssumption
<1>4. PICK a \in {"captured"} \cup Declines :
        /\ ledger' = [ledger EXCEPT ![i][k] = a]
        /\ answer' = [answer EXCEPT ![w] = a]
    BY <1>2, <1>3 DEF Charge
<1>5. /\ UNCHANGED <<invStatus, attempts, cur>>
      /\ pc' = [pc EXCEPT ![w] = "record"] /\ pc'[w] = "record" /\ answer'[w] = a
    BY <1>4 DEF Charge, Goto, database, invoiceRows, TypeOK, SessionsOK
<1>6. /\ ledger'[i][k] = a
      /\ \A l \in 0..MaxAttempts : l # k => ledger'[i][l] = ledger[i][l]
      /\ \A j \in Invoices : j # i => ledger'[j] = ledger[j]
    BY <1>3, <1>4 DEF TypeOK, WorldOK
<1> HIDE DEF k
<1>7. k = attempts[i]
    BY DEF k
<1>8. ~AtPay(i)
    BY <1>1, <1>2 DEF AtPay, Holding
<1>9. \A j \in Invoices : AtPay(j) => AtPay(j)'
    BY <1>1, <1>5 DEF AtPay, SameSession
<1>10. EntriesSound(i)'
  <2>1. EntriesSound(i)
      BY DEF LedgerSound
  <2>2. k \in Int /\ \A l \in 0..MaxAttempts : l \in Int
      BY <1>3
  <2>3. \A l \in 0..MaxAttempts : l # k => ledger[i][l] # "captured"
      BY <1>2, <1>7, <1>8, <2>1, <2>2 DEF EntriesSound, NoOutcome
  <2>4. \A l, m \in Captures(i)' : l = m
      BY <1>6, <2>3 DEF Captures
  <2>5. \A l \in 0..MaxAttempts :
           l > attempts'[i] => ledger'[i][l] = NoOutcome
      BY <1>5, <1>6, <1>7, <2>1, <2>2 DEF EntriesSound
  <2>6. \A l \in 0..MaxAttempts : l < attempts'[i] => ledger'[i][l] # "captured"
      BY <1>5, <1>6, <1>7, <2>2, <2>3
  <2>7. invStatus'[i] # "paid"
      BY <1>2, <1>5
  <2> QED BY <2>4, <2>5, <2>6, <2>7 DEF EntriesSound
<1>11. \A j \in Invoices : j # i => EntriesSound(j)'
    BY <1>5, <1>6, <1>9 DEF LedgerSound, EntriesSound, Captures
<1>12. AnswerSound(w)'
    BY <1>2, <1>5, <1>6, <1>7 DEF AnswerSound
<1>13. ASSUME NEW v \in Sessions, v # w PROVE AnswerSound(v)'
  <2>1. /\ SameSession(v) /\ AnswerSound(v)
        /\ pc[v] \in {"record", "pay"} => cur[v] \in Invoices /\ cur[v] # i
      BY <1>2, <1>13 DEF LedgerSound, AllReady, Ready, Holding
  <2>2. pc[v] \in {"record", "pay"} => /\ ledger'[cur[v]] = ledger[cur[v]]
                                       /\ attempts'[cur[v]] = attempts[cur[v]]
      BY <1>5, <1>6, <2>1
  <2>3. pc'[v] = pc[v] /\ cur'[v] = cur[v] /\ answer'[v] = answer[v]
      BY <2>1 DEF SameSession
  <2> QED BY <2>1, <2>2, <2>3 DEF AnswerSound
<1> QED BY <1>10, <1>11, <1>12, <1>13 DEF LedgerSound

\* Its record counts that entry, and sends the session to the payment if it is
\* a capture.
LEMMA LedgerRecord ==
    ASSUME RenewalAssumption, TypeOK, AllReady, Solo, SoloInv, LedgerSound,
           NEW w \in Sessions, RecordAttempt(w),
           \A v \in Sessions \ {w} : SameSession(v)
    PROVE  LedgerSound'
<1>1. pc[w] = "record"
    BY DEF RecordAttempt
<1>2. PICK i \in Invoices :
        /\ i = cur[w] /\ invStatus[i] = "open" /\ CopiesSound(w)
        /\ \A v \in Sessions \ {w} : pc[v] \in Holding => cur[v] # i
    BY <1>1, ChargerAlone
<1> DEFINE k == attempts[i]
<1>3. k \in Nat /\ seenAttempts[w][i] = k
    BY <1>1, <1>2 DEF CopiesSound, TypeOK, InvoicesOK
<1>4. /\ UNCHANGED <<ledger, invStatus, cur, answer>>
      /\ attempts'[i] = k + 1
      /\ \A j \in Invoices : j # i => attempts'[j] = attempts[j]
      /\ pc'[w] = IF answer[w] = "captured" THEN "pay" ELSE "fail"
    BY <1>2, <1>3 DEF RecordAttempt, AfterAttempt, Goto, world, TypeOK, InvoicesOK,
       SessionsOK
<1> HIDE DEF k
<1>5. k = attempts[i]
    BY DEF k
<1>6. ~AtPay(i) /\ \A j \in Invoices : AtPay(j) => AtPay(j)'
    BY <1>1, <1>2, <1>4 DEF AtPay, Holding, SameSession
<1>7. EntriesSound(i) /\ ledger[i][k] = answer[w]
    BY <1>1, <1>2, <1>5 DEF LedgerSound, AnswerSound
<1>8. \A l \in 0..MaxAttempts : l \in Int
    OBVIOUS
<1>9. EntriesSound(i)'
  <2>1. \A l \in 0..MaxAttempts : l > attempts'[i] => ledger'[i][l] = NoOutcome
      BY <1>3, <1>4, <1>5, <1>7, <1>8 DEF EntriesSound
  <2>2. invStatus'[i] # "paid"
      BY <1>2, <1>4
  <2>3. ASSUME NEW l \in 0..MaxAttempts, l < attempts'[i],
               ledger'[i][l] = "captured"
        PROVE  AtPay(i)'
    <3>1. ledger[i][l] = "captured" /\ ~(l < k)
        BY <1>2, <1>4, <1>5, <1>6, <1>7, <2>3 DEF EntriesSound
    <3>2. l = k
        BY <1>3, <1>4, <1>8, <2>3, <3>1
    <3> QED BY <1>2, <1>4, <1>7, <3>1, <3>2 DEF AtPay
  <2>4. \A l, m \in Captures(i)' : l = m
      BY <1>4, <1>7 DEF EntriesSound, Captures
  <2> QED BY <2>1, <2>2, <2>3, <2>4 DEF EntriesSound
<1>10. \A j \in Invoices : j # i => EntriesSound(j)'
    BY <1>4, <1>6 DEF LedgerSound, EntriesSound, Captures
<1>11. AnswerSound(w)'
  <2>1. \A l \in 0..MaxAttempts : l >= k + 1 => ledger[i][l] = NoOutcome
      BY <1>3, <1>5, <1>7, <1>8 DEF EntriesSound
  <2> QED BY <1>2, <1>4, <2>1 DEF AnswerSound
<1>12. ASSUME NEW v \in Sessions, v # w PROVE AnswerSound(v)'
  <2>1. /\ SameSession(v) /\ AnswerSound(v)
        /\ pc[v] \in {"record", "pay"} => cur[v] \in Invoices /\ cur[v] # i
      BY <1>2, <1>12 DEF LedgerSound, AllReady, Ready, Holding
  <2>2. pc[v] \in {"record", "pay"} => attempts'[cur[v]] = attempts[cur[v]]
      BY <1>4, <2>1
  <2>3. pc'[v] = pc[v] /\ cur'[v] = cur[v] /\ answer'[v] = answer[v]
      BY <2>1 DEF SameSession
  <2> QED BY <1>4, <2>1, <2>2, <2>3 DEF AnswerSound
<1> QED BY <1>9, <1>10, <1>11, <1>12 DEF LedgerSound

\* The payment of the invoice whose capture was recorded.
LEMMA LedgerPay ==
    ASSUME RenewalAssumption, TypeOK, AllReady, Solo, SoloInv, LedgerSound,
           NEW w \in Sessions, PayInvoice(w),
           \A v \in Sessions \ {w} : SameSession(v)
    PROVE  LedgerSound'
<1>1. pc[w] = "pay"
    BY DEF PayInvoice
<1>2. PICK i \in Invoices :
        /\ i = cur[w] /\ invStatus[i] = "open" /\ CopiesSound(w)
        /\ \A v \in Sessions \ {w} : pc[v] \in Holding => cur[v] # i
    BY <1>1, ChargerAlone
<1>3. InvoiceAllowed(seenInvoice[w], "paid")
    BY <1>1, <1>2 DEF CopiesSound, InvoiceAllowed, InvoiceTransitions
<1>4. /\ UNCHANGED <<ledger, attempts>>
      /\ invStatus'[i] = "paid"
      /\ \A j \in Invoices : j # i => invStatus'[j] = invStatus[j]
      /\ pc'[w] \in {"clear", "advance"}
    BY <1>2, <1>3 DEF PayInvoice, Goto, world, TypeOK, InvoicesOK, SessionsOK
<1>5. \A j \in Invoices : j # i /\ AtPay(j) => AtPay(j)'
    BY <1>2 DEF AtPay, SameSession
<1>6. EntriesSound(i)'
    BY <1>1, <1>2, <1>4 DEF LedgerSound, EntriesSound, AnswerSound, Captures
<1>7. \A j \in Invoices : j # i => EntriesSound(j)'
    BY <1>4, <1>5 DEF LedgerSound, EntriesSound, Captures
<1>8. AnswerSound(w)'
    BY <1>4 DEF AnswerSound
<1>9. \A v \in Sessions : v # w => AnswerSound(v)'
    BY <1>4 DEF LedgerSound, AnswerSound, SameSession
<1> QED BY <1>6, <1>7, <1>8, <1>9 DEF LedgerSound

\* Every other step leaves the ledger, the counts and the payments under way.
LEMMA LedgerQuiet ==
    ASSUME LedgerSound, Quiet, RowsStay, UNCHANGED attempts,
           \A v \in Sessions : pc[v] = "pay" => pc'[v] = "pay" /\ cur'[v] = cur[v]
    PROVE  LedgerSound'
<1>1. \A i \in Invoices : AtPay(i) => AtPay(i)'
    BY DEF AtPay
<1>2. \A i \in Invoices : EntriesSound(i)'
    BY <1>1 DEF LedgerSound, EntriesSound, Captures, Quiet, RowsStay
<1>3. \A v \in Sessions : AnswerSound(v)'
    BY DEF LedgerSound, AnswerSound, Quiet
<1> QED BY <1>2, <1>3 DEF LedgerSound

\* The ledger stays sound.
LEMMA LedgerSteps ==
    ASSUME RenewalAssumption, PaymentNotCut, TypeOK, AllReady, Solo, SoloInv,
           LedgerSound, [Next]_vars
    PROVE  LedgerSound'
<1>1. RowsStay
    BY StepKeepsRows
<1>2. ASSUME NEW w \in Billers \cup Retriers,
             Charge(w) \/ RecordAttempt(w) \/ PayInvoice(w)
      PROVE  LedgerSound'
  <2>1. w \in Sessions
      BY DEF Sessions
  <2>2. \A v \in Sessions \ {w} : SameSession(v)
      BY <1>2, <2>1, OthersSame DEF Biller, Retrier, Charging
  <2> QED BY <1>2, <2>1, <2>2, LedgerCharge, LedgerRecord, LedgerPay
<1>3. ASSUME Quiet, UNCHANGED attempts, ~\E w \in Billers \cup Retriers : PayInvoice(w)
      PROVE  LedgerSound'
  <2>1. ASSUME NEW v \in Sessions, pc[v] = "pay"
        PROVE  pc'[v] = "pay" /\ cur'[v] = cur[v]
    <3>1. v \in Billers \cup Retriers
        BY <2>1 DEF SoloInv, SessionSound, GraceSound, Sessions, Solo
    <3>2. ~AbortJob(v)
        BY <2>1 DEF AbortJob, PaymentNotCut
    <3>3. SameSession(v)
        BY <1>3, <2>1, <3>1, <3>2, Leaving
    <3> QED BY <2>1, <3>3 DEF SameSession
  <2> QED BY <1>1, <1>3, <2>1, LedgerQuiet
<1>4. ASSUME NEW w \in Sessions,
             \/ BillSelect(w) \/ BillCreate(w) \/ AdvancePeriod(w)
             \/ \E s \in Subs : BillLookup(w, s)
             \/ ChargeRaises(w) \/ Dunning(w)
             \/ RetrySelect(w) \/ ClearDunning(w) \/ Recover(w)
             \/ \E i \in Invoices : RetryLoad(w, i)
             \/ Grace(w) \/ AbortJob(w)
      PROVE  Quiet /\ UNCHANGED attempts
  <2>1. Quiet
      BY <1>4, QuietSteps
  <2>2. UNCHANGED attempts
      BY <1>4 DEF BillSelect, BillCreate, AdvancePeriod, BillLookup, ChargeRaises,
         Dunning, SkipDunning, OpenCycle, AdvanceCycle, ScheduleRetry, Revoke,
         Settle, RetrySelect, ClearDunning, Recover, RetryLoad, Grace, GraceSelect,
         GraceCancel, AbortJob, database, invoiceRows
  <2> QED BY <2>1, <2>2
<1>5. ASSUME \/ Time \/ UNCHANGED vars
             \/ \E s \in Subs : AddCard(s) \/ LoseCard(s)
      PROVE  Quiet /\ UNCHANGED attempts
    BY <1>5 DEF Time, PeriodEnds, RetryComesDue, GraceElapses, AddCard, LoseCard,
       vars, database, invoiceRows, session, world, Quiet
<1>6. CASE \E w \in Billers \cup Retriers : PayInvoice(w)
    BY <1>2, <1>6
<1>7. CASE ~\E w \in Billers \cup Retriers : PayInvoice(w)
  <2>1. ASSUME NEW w \in Billers, Biller(w) PROVE LedgerSound'
      BY <1>2, <1>3, <1>4, <1>7, <2>1 DEF Biller, Charging, Sessions
  <2>2. ASSUME NEW w \in Retriers, Retrier(w) PROVE LedgerSound'
      BY <1>2, <1>3, <1>4, <1>7, <2>2 DEF Retrier, Charging, Sessions
  <2>3. ASSUME NEW w \in Sessions, Grace(w) \/ AbortJob(w) PROVE LedgerSound'
      BY <1>3, <1>4, <1>7, <2>3
  <2>4. ~\E w \in Requests : Request(w)
      BY DEF Solo
  <2>5. \A w \in Graces : w \in Sessions
      BY DEF Sessions
  <2> QED BY <1>3, <1>5, <1>7, <2>1, <2>2, <2>3, <2>4, <2>5 DEF Next
<1> QED BY <1>6, <1>7

\* The provider takes the money for an invoice at most once, wherever jobs are
\* cut short but between a paid attempt and the payment's commit.
THEOREM InvoicesAreCapturedOnce ==
    ASSUME Solo, PaymentNotCut
    PROVE  Spec => []CapturedOnce
<1>1. Init => LedgerSound
    BY DEF Init, LedgerSound, EntriesSound, AnswerSound, AtPay, Captures, NoOutcome
<1>2. TypeOK /\ AllReady /\ SoloInv /\ LedgerSound /\ [Next]_vars => LedgerSound'
    BY RenewalAssumption, LedgerSteps
<1>3. LedgerSound => CapturedOnce
  <2> SUFFICES ASSUME LedgerSound, NEW i \in Invoices
               PROVE  Cardinality(Captures(i)) <= 1
      BY DEF CapturedOnce
  <2>1. CASE Captures(i) = {}
      BY <2>1, FS_EmptySet
  <2>2. ASSUME NEW k \in Captures(i)
        PROVE  Cardinality(Captures(i)) <= 1
    <3>1. Captures(i) = {k}
        BY <2>2 DEF LedgerSound, EntriesSound
    <3>2. Cardinality({k}) = 1
        BY FS_Singleton
    <3> QED BY <3>1, <3>2
  <2> QED BY <2>1, <2>2
<1> QED BY <1>1, <1>2, <1>3, SoloIsInvariant, PTL DEF Spec
--------------------------------------------------------------------------
\* Periods.

\* Money is captured for invoices that exist.
CapturedExist == \A i \in Invoices : Captures(i) # {} => invStatus[i] # "none"

\* The ledger changes by a charge of the invoice at hand only.
LEMMA LedgerMoves ==
    ASSUME TypeOK, Solo, [Next]_vars
    PROVE  \/ UNCHANGED ledger
           \/ \E w \in Billers \cup Retriers : Charge(w)
<1>1. ASSUME NEW w \in Sessions,
             \/ ChargeRaises(w) \/ RecordAttempt(w) \/ PayInvoice(w) \/ Dunning(w)
             \/ BillSelect(w) \/ BillCreate(w) \/ AdvancePeriod(w)
             \/ \E s \in Subs : BillLookup(w, s)
             \/ RetrySelect(w) \/ ClearDunning(w) \/ Recover(w)
             \/ \E i \in Invoices : RetryLoad(w, i)
             \/ Grace(w) \/ AbortJob(w)
      PROVE  UNCHANGED ledger
    BY <1>1 DEF ChargeRaises, RecordAttempt, PayInvoice, Dunning, SkipDunning,
       OpenCycle, AdvanceCycle, ScheduleRetry, Settle, Revoke, BillSelect,
       BillCreate, AdvancePeriod, BillLookup, RetrySelect, ClearDunning, Recover,
       RetryLoad, Grace, GraceSelect, GraceCancel, AbortJob, world
<1>2. ASSUME \/ Time \/ UNCHANGED vars
             \/ \E s \in Subs : AddCard(s) \/ LoseCard(s)
      PROVE  UNCHANGED ledger
    BY <1>2 DEF Time, PeriodEnds, RetryComesDue, GraceElapses, AddCard, LoseCard,
       vars, world
<1>3. \A w \in Billers \cup Retriers \cup Graces : w \in Sessions
    BY DEF Sessions
<1> QED BY <1>1, <1>2, <1>3 DEF Next, Biller, Retrier, Charging, Solo

\* The invoice charged is the one at hand, and open.
LEMMA ChargeTakes ==
    ASSUME TypeOK, AllReady, Solo, SoloInv, NEW w \in Billers \cup Retriers,
           Charge(w)
    PROVE  \E i \in Invoices :
             /\ i = cur[w] /\ invStatus[i] = "open"
             /\ UNCHANGED invStatus
             /\ \A j \in Invoices : j # i => Captures(j)' = Captures(j)
<1>1. w \in Sessions /\ pc[w] = "charge"
    BY DEF Charge, Sessions
<1>2. PICK i \in Invoices : i = cur[w] /\ invStatus[i] = "open"
    BY <1>1, ChargerAlone
<1>3. UNCHANGED invStatus /\ \A j \in Invoices : j # i => ledger'[j] = ledger[j]
    BY <1>2 DEF Charge, database, invoiceRows, TypeOK, WorldOK
<1> QED BY <1>2, <1>3 DEF Captures

\* Only a session on its way to the next period holds a paid invoice, and it is
\* alone with the subscription.
LEMMA GranterAlone ==
    ASSUME AllReady, Solo, SoloInv, NEW v \in Sessions,
           pc[v] \in {"advance", "clear", "recover"}
    PROVE  \E s \in Subs :
             /\ s = at[v] /\ Uses(v, s) /\ cur[v] \in InvoicesOf(s)
             /\ \/ v \in Billers /\ pc[v] = "advance" /\ BillerSound(v)
                \/ v \in Retriers /\ pc[v] # "advance" /\ RetrierSound(v)
<1>1. pc[v] \in Working
    BY DEF Working, Holding
<1>2. PICK s \in Subs : s = at[v] /\ Uses(v, s) /\ SessionSound(v)
    BY <1>1, AtWork
<1>3. v \notin Graces /\ v \in Billers \cup Retriers
    BY <1>2 DEF SessionSound, GraceSound, Sessions, Solo
<1>4. CASE v \in Billers
    BY <1>2, <1>4 DEF SessionSound, BillerSound, HoldsPaid
<1>5. CASE v \in Retriers
    BY <1>2, <1>5 DEF SessionSound, RetrierSound, HoldsPaid
<1> QED BY <1>2, <1>3, <1>4, <1>5

\* A second invoice of a period is captured only if the first one lapsed: it is
\* not open, as this one is, and nobody else works on the subscription.
LEMMA SecondCapture ==
    ASSUME TypeOK, AllReady, Solo, SoloInv, CapturedExist,
           NEW w \in Billers \cup Retriers, Charge(w),
           NEW i \in Invoices, i = cur[w], invStatus[i] = "open",
           NEW j \in SamePeriod(i) \ {i}, Captures(j) # {}
    PROVE  Lapsed(j)
<1>1. w \in Sessions /\ pc[w] = "charge" /\ pc[w] \in Working
    BY DEF Charge, Sessions, Working, Holding
<1>2. PICK s \in Subs : s = at[w] /\ Uses(w, s) /\ SubSound(s) /\ i \in InvoicesOf(s)
    BY <1>1, ChargerHolds
<1>3. j \in Invoices /\ j \in InvoicesOf(s) /\ j.period = i.period /\ j # i
      /\ i.sub = s /\ j.sub = s
    BY <1>2 DEF SamePeriod, InvoicesOf
<1>4. invStatus[j] = "paid"
    BY <1>2, <1>3 DEF CapturedExist, SubSound, InvoiceSound
<1>5. i.period = subPeriod[s]
    BY <1>2, <1>3 DEF SubSound, InvoiceSound
<1>6. ASSUME Granting(j) PROVE FALSE
  <2>1. PICK v \in Sessions :
          pc[v] \in {"advance", "clear", "recover"} /\ cur[v] = j
      BY <1>6 DEF Granting
  <2>2. Uses(v, s)
      BY <1>3, <2>1, GranterAlone DEF InvoicesOf
  <2>3. v = w
      BY <1>1, <1>2, <2>2 DEF SoloInv, Exclusive
  <2> QED BY <1>1, <2>1, <2>3
<1> QED BY <1>3, <1>4, <1>5, <1>6 DEF Lapsed

\* An invoice comes to be paid in the hands of a session that goes on to grant
\* its period.
LEMMA PaidInHand ==
    ASSUME RenewalAssumption, TypeOK, AllReady, Solo, SoloInv, [Next]_vars,
           NEW i \in Invoices, invStatus[i] # "paid", invStatus'[i] = "paid"
    PROVE  Granting(i)'
<1>1. ASSUME NEW w \in Sessions,
             \/ Charge(w) \/ ChargeRaises(w) \/ RecordAttempt(w) \/ Dunning(w)
             \/ BillSelect(w) \/ BillCreate(w) \/ AdvancePeriod(w)
             \/ \E s \in Subs : BillLookup(w, s)
             \/ RetrySelect(w) \/ ClearDunning(w) \/ Recover(w)
             \/ \E j \in Invoices : RetryLoad(w, j)
             \/ Grace(w) \/ AbortJob(w)
      PROVE  FALSE
    BY <1>1 DEF Charge, ChargeRaises, RecordAttempt, Dunning, SkipDunning,
       OpenCycle, AdvanceCycle, ScheduleRetry, Settle, Revoke, BillSelect,
       BillCreate, AdvancePeriod, BillLookup, RetrySelect, ClearDunning, Recover,
       RetryLoad, Grace, GraceSelect, GraceCancel, AbortJob, database,
       invoiceRows, TypeOK, InvoicesOK
<1>2. ASSUME \/ Time \/ UNCHANGED vars
             \/ \E s \in Subs : AddCard(s) \/ LoseCard(s)
      PROVE  FALSE
    BY <1>2, SessionsKept
<1>3. \A w \in Billers \cup Retriers \cup Graces : w \in Sessions
    BY DEF Sessions
<1>4. PICK w \in Sessions : PayInvoice(w)
    BY <1>1, <1>2, <1>3 DEF Next, Biller, Retrier, Charging, Solo
<1>5. i = cur[w] /\ cur' = cur /\ pc'[w] \in {"clear", "advance"}
    BY <1>4 DEF PayInvoice, Goto, TypeOK, InvoicesOK, SessionsOK
<1> QED BY <1>5 DEF Granting

\* An invoice lapses only when the session that was to grant its period is cut
\* short: otherwise the session is still there, or the period has moved on.
LEMMA LapseIsCut ==
    ASSUME RenewalAssumption, TypeOK, AllReady, Solo, SoloInv, [Next]_vars,
           NEW i \in Invoices, ~Lapsed(i), Lapsed(i)'
    PROVE  \E w \in Sessions : AbortJob(w) /\ cur[w] = i
<1>1. PICK s \in Subs : s = i.sub /\ SubSound(s)
    BY DEF Invoices, SoloInv
<1>2. /\ invStatus[i] = "paid" /\ invStatus'[i] = "paid" /\ i.period \in Nat
      /\ i.period = subPeriod'[s] /\ ~Granting(i)'
    BY <1>1, PaidInHand DEF Lapsed, Invoices
<1>3. i.period <= subPeriod[s]
    BY <1>1, <1>2 DEF SubSound, InvoiceSound, InvoicesOf
<1>4. \A t \in Subs : subPeriod[t] \in Nat
    BY DEF TypeOK, SubscriptionsOK
<1>5. subPeriod'[s] # subPeriod[s] + 1
    BY <1>1, <1>2, <1>3, <1>4
<1>6. subPeriod'[s] = subPeriod[s]
  <2>1. CASE UNCHANGED subPeriod
      BY <2>1
  <2>2. ASSUME NEW t \in Subs,
               subPeriod' = [subPeriod EXCEPT ![t] = subPeriod[t] + 1]
        PROVE  subPeriod'[s] = subPeriod[s]
      BY <1>5, <2>2 DEF TypeOK, SubscriptionsOK
  <2> QED BY <2>1, <2>2, PeriodSteps
<1>7. PICK v \in Sessions :
        pc[v] \in {"advance", "clear", "recover"} /\ cur[v] = i
    BY <1>1, <1>2, <1>6 DEF Lapsed, Granting
<1>8. /\ s = at[v]
      /\ \/ v \in Billers /\ pc[v] = "advance" /\ BillerSound(v)
         \/ v \in Retriers /\ pc[v] # "advance" /\ RetrierSound(v)
    BY <1>1, <1>7, GranterAlone DEF InvoicesOf
<1>9. ~SameSession(v)
    BY <1>2, <1>7 DEF SameSession, Granting
<1>10. ~ClearDunning(v)
    BY <1>2, <1>7 DEF ClearDunning, Goto, Granting, TypeOK, SessionsOK
<1>11. ASSUME AdvancePeriod(v) \/ Recover(v) PROVE FALSE
  <2>1. seenPeriod[v][s] = subPeriod[s]
      BY <1>8, <1>11 DEF AdvancePeriod, Recover, BillerSound, Fresh, RetrierSound
  <2>2. subPeriod'[s] = subPeriod[s] + 1
      BY <1>8, <1>11, <2>1 DEF AdvancePeriod, Recover, TypeOK, SubscriptionsOK
  <2> QED BY <1>5, <2>2
<1>12. AbortJob(v)
    BY <1>7, <1>9, <1>10, <1>11, Leaving
<1> QED BY <1>7, <1>12

\* A period is collected through a second invoice only after the first one
\* lapsed, and that takes a job cut short after the payment.
THEOREM PeriodsAreCollectedOnce ==
    ASSUME Solo
    PROVE  Spec => PeriodCollectedOnce
<1> DEFINE Action ==
             \A i \in Invoices :
               /\ Captures(i) = {} /\ Captures(i)' # {} =>
                     \A j \in SamePeriod(i) \ {i} : Captures(j) # {} => Lapsed(j)
               /\ ~Lapsed(i) /\ Lapsed(i)' =>
                     \E w \in Sessions : AbortJob(w) /\ cur[w] = i
<1>1. Init => CapturedExist
    BY DEF Init, CapturedExist, Captures, NoOutcome
<1>2. TypeOK /\ AllReady /\ SoloInv /\ CapturedExist /\ [Next]_vars
        => CapturedExist' /\ [Action]_vars
  <2> SUFFICES ASSUME TypeOK, AllReady, SoloInv, CapturedExist, [Next]_vars
               PROVE  CapturedExist' /\ Action
      OBVIOUS
  <2>1. \A i \in Invoices : invStatus[i] # "none" => invStatus'[i] # "none"
      BY StepKeepsRows DEF RowsStay
  <2>2. \A i \in Invoices : ~Lapsed(i) /\ Lapsed(i)' =>
          \E w \in Sessions : AbortJob(w) /\ cur[w] = i
      BY RenewalAssumption, LapseIsCut
  <2>3. CASE UNCHANGED ledger
      BY <2>1, <2>2, <2>3 DEF CapturedExist, Captures
  <2>4. ASSUME NEW w \in Billers \cup Retriers, Charge(w)
        PROVE  CapturedExist' /\ Action
    <3>1. PICK i \in Invoices :
            /\ i = cur[w] /\ invStatus[i] = "open"
            /\ \A j \in Invoices : j # i => Captures(j)' = Captures(j)
        BY <2>4, ChargeTakes
    <3>2. CapturedExist'
        BY <2>1, <3>1 DEF CapturedExist
    <3>3. \A j \in SamePeriod(i) \ {i} : Captures(j) # {} => Lapsed(j)
        BY <2>4, <3>1, SecondCapture
    <3> QED BY <2>2, <3>1, <3>2, <3>3
  <2> QED BY <2>3, <2>4, LedgerMoves
<1> QED BY <1>1, <1>2, SoloIsInvariant, PTL DEF Spec, PeriodCollectedOnce
--------------------------------------------------------------------------
\* Retries.

\* No answer asks for step-up authentication, and a failed retry reaches the
\* cycle.  (Either leaves the date of a retry in place after the retry was
\* counted: it is made once more.)
RetryIsCounted == "requires_action" \notin Declines /\ {"pay", "fail"} \cap AbortAt = {}

\* A retry is counted and its outcome under way.
Retrying(i) == \E r \in Retriers : pc[r] \in {"pay", "fail"} /\ cur[r] = i

\* An open invoice's retries stay within the schedule of its cycle's reason,
\* and below its length while there is a date for the next.
CycleSound(i) ==
    invStatus[i] = "open" =>
      /\ anchor[i] # "none" => retries[i] <= Len(RetrySchedule(anchor[i]))
      /\ nextRetry[i] # "none" =>
           /\ anchor[i] # "none"
           /\ retries[i] < Len(RetrySchedule(anchor[i])) \/ Retrying(i)

NoStepUp(w) == pc[w] \in {"record", "fail"} => answer[w] # "requires_action"

RetriesSound ==
    /\ \A i \in Invoices : CycleSound(i)
    /\ \A w \in Sessions : NoStepUp(w)

\* A schedule has a length.
LEMMA ScheduleLength ==
    ASSUME NEW reason \in FailureReason
    PROVE  Len(RetrySchedule(reason)) \in Nat
<1>1. RetrySchedule(reason) \in {<<1, 3, 7>>, <<3, 7>>, <<1>>, <<>>}
    BY DEF RetrySchedule, RetrySchedules, FailureReason
<1> QED BY <1>1

\* The step's effect on an invoice's cycle is none, but that a date may go.
CycleStays(i) ==
    invStatus'[i] = "open" =>
      /\ invStatus[i] = "open"
      /\ retries'[i] = retries[i] /\ anchor'[i] = anchor[i]
      /\ nextRetry'[i] # "none" => nextRetry[i] # "none"

\* A step on one invoice's cycle, by the session that holds it.
LEMMA RetriesStep ==
    ASSUME RetriesSound, NEW w \in Sessions, \A v \in Sessions \ {w} : SameSession(v),
           NEW x, pc[w] \in {"pay", "fail"} => cur[w] = x,
           \A i \in Invoices : i # x => CycleStays(i),
           x \in Invoices => CycleSound(x)',
           NoStepUp(w)'
    PROVE  RetriesSound'
<1>1. ASSUME NEW i \in Invoices, i # x PROVE CycleSound(i)'
  <2>1. Retrying(i) => Retrying(i)'
      BY <1>1 DEF Retrying, SameSession, Sessions
  <2> QED BY <1>1, <2>1 DEF RetriesSound, CycleSound, CycleStays
<1>2. \A v \in Sessions : v # w => NoStepUp(v)'
    BY DEF RetriesSound, NoStepUp, SameSession
<1> QED BY <1>1, <1>2 DEF RetriesSound

\* A step on none.
LEMMA RetriesQuiet ==
    ASSUME RetriesSound, NEW w \in Sessions, \A v \in Sessions \ {w} : SameSession(v),
           pc[w] \notin {"pay", "fail"}, \A i \in Invoices : CycleStays(i),
           NoStepUp(w)'
    PROVE  RetriesSound'
<1>1. ASSUME NEW i \in Invoices PROVE CycleSound(i)'
  <2>1. Retrying(i) => Retrying(i)'
      BY DEF Retrying, SameSession, Sessions
  <2> QED BY <2>1 DEF RetriesSound, CycleSound, CycleStays
<1>2. \A v \in Sessions : v # w => NoStepUp(v)'
    BY DEF RetriesSound, NoStepUp, SameSession
<1> QED BY <1>1, <1>2 DEF RetriesSound

\* A retry is counted: there was an entry left for it.
LEMMA RetriesRecord ==
    ASSUME RenewalAssumption, TypeOK, AllReady, Solo, SoloInv, RetriesSound,
           NEW w \in Billers \cup Retriers, RecordAttempt(w)
    PROVE  RetriesSound'
<1> w \in Sessions BY DEF Sessions
<1>1. pc[w] = "record"
    BY DEF RecordAttempt
<1>2. PICK s \in Subs, i \in Invoices :
        /\ s = at[w] /\ i = cur[w] /\ i \in InvoicesOf(s)
        /\ invStatus[i] = "open" /\ InvoiceSound(i)
        /\ w \in Billers => BillerSound(w) /\ Fresh(w, s)
        /\ w \in Retriers => RetrierSound(w) /\ subStatus[s] = "past_due"
    BY <1>1, ChargerHolds
<1>3. /\ UNCHANGED <<invStatus, nextRetry, anchor, cur, answer>>
      /\ \A j \in Invoices : j # i => retries'[j] = retries[j]
      /\ retries'[i] = IF w \in Retriers THEN retries[i] + 1 ELSE retries[i]
      /\ retries[i] \in Nat
      /\ pc'[w] \in {"pay", "fail"}
    BY <1>2 DEF RecordAttempt, AfterAttempt, Goto, TypeOK, InvoicesOK, SessionsOK
<1>4. CycleSound(i)'
  <2>1. CycleSound(i)
      BY DEF RetriesSound
  <2>2. CASE w \notin Retriers
    <3>1. subStatus[s] = "active" /\ i.sub = s
        BY <1>2, <2>2 DEF Fresh, InvoicesOf
    <3>2. nextRetry[i] = "none"
        BY <1>2, <3>1 DEF InvoiceSound
    <3> QED BY <1>3, <2>1, <2>2, <3>2 DEF CycleSound
  <2>3. CASE w \in Retriers
    <3>1. nextRetry[i] = "due"
        BY <1>1, <1>2, <2>3 DEF RetrierSound
    <3>2. ~Retrying(i)
        BY <1>1, <1>2, <2>3, HoldersAlone DEF Retrying, Holding, Sessions
    <3>3. anchor[i] # "none" /\ retries[i] < Len(RetrySchedule(anchor[i]))
        BY <1>2, <2>1, <3>1, <3>2 DEF CycleSound
    <3>4. anchor[i] \in FailureReason
        BY <3>3 DEF TypeOK, InvoicesOK, Anchors
    <3>5. retries'[i] <= Len(RetrySchedule(anchor'[i]))
        BY <1>3, <2>3, <3>3, <3>4, ScheduleLength
    <3>6. Retrying(i)'
        BY <1>2, <1>3, <2>3 DEF Retrying
    <3> QED BY <1>3, <3>3, <3>5, <3>6 DEF CycleSound
  <2> QED BY <2>2, <2>3
<1>5. \A j \in Invoices : j # i => CycleStays(j)
    BY <1>3 DEF CycleStays
<1>6. NoStepUp(w)'
    BY <1>1, <1>3 DEF NoStepUp, RetriesSound
<1>7. \A v \in Sessions \ {w} : SameSession(v)
    BY OthersSame DEF Biller, Retrier, Charging
<1> QED BY <1>1, <1>4, <1>5, <1>6, <1>7, RetriesStep

\* The cycle moves on to a next date only while its schedule has entries left.
LEMMA RetriesAdvance ==
    ASSUME RenewalAssumption, TypeOK, AllReady, Solo, SoloInv, RetriesSound,
           NEW w \in Billers \cup Retriers, AdvanceCycle(w)
    PROVE  RetriesSound'
<1> w \in Sessions BY DEF Sessions
<1>1. pc[w] = "fail"
    BY DEF AdvanceCycle
<1>2. PICK s \in Subs, i \in Invoices :
        /\ s = at[w] /\ i = cur[w] /\ invStatus[i] = "open" /\ CopiesSound(w)
        /\ InvoiceSound(i)
        /\ w \in Billers => Fresh(w, s)
        /\ w \in Retriers => RetrierSound(w)
    BY <1>1, ChargerHolds
<1>3. w \in Retriers /\ RetrierSound(w)
    BY <1>2 DEF AdvanceCycle, Fresh
<1>4. nextRetry[i] = "due" /\ seenAnchor[w] = anchor[i]
    BY <1>1, <1>2, <1>3 DEF RetrierSound, CopiesSound
<1>5. CycleSound(i) /\ anchor[i] # "none"
    BY <1>2, <1>4 DEF RetriesSound, CycleSound
<1>6. Reason(w) = anchor[i] /\ anchor[i] \in FailureReason /\ retries[i] \in Nat
    BY <1>4, <1>5 DEF Reason, TypeOK, InvoicesOK, Anchors
<1> DEFINE decision == Decision(anchor[i], retries[i])
<1>7. /\ UNCHANGED <<invStatus, retries, anchor>>
      /\ nextRetry' = [nextRetry EXCEPT
            ![i] = IF decision = "schedule" THEN "waiting" ELSE "none"]
      /\ Goto(w, "revoke") \/ EndItem(w, todo[w])
    BY <1>2, <1>4, <1>5, <1>6 DEF AdvanceCycle, Settle
<1>8. decision = "schedule" => retries[i] < Len(RetrySchedule(anchor[i]))
    BY <1>6, DecisionMeans
<1> HIDE DEF decision
<1>9. nextRetry'[i] = (IF decision = "schedule" THEN "waiting" ELSE "none")
      /\ \A j \in Invoices : j # i => nextRetry'[j] = nextRetry[j]
    BY <1>7 DEF TypeOK, InvoicesOK
<1>10. CycleSound(i)'
    BY <1>2, <1>5, <1>7, <1>8, <1>9 DEF CycleSound
<1>11. \A j \in Invoices : j # i => CycleStays(j)
    BY <1>7, <1>9 DEF CycleStays
<1>12. NoStepUp(w)'
    BY <1>7 DEF NoStepUp, Goto, EndItem, Close, TypeOK, SessionsOK
<1>13. \A v \in Sessions \ {w} : SameSession(v)
    BY OthersSame DEF Biller, Retrier, Charging, Dunning
<1> QED BY <1>2, <1>10, <1>11, <1>12, <1>13, RetriesStep

\* The billing job's steps on the cycle it opens.
LEMMA RetriesOpen ==
    ASSUME RenewalAssumption, TypeOK, AllReady, Solo, SoloInv, RetriesSound,
           NEW w \in Billers \cup Retriers, OpenCycle(w) \/ ScheduleRetry(w)
    PROVE  RetriesSound'
<1> w \in Sessions BY DEF Sessions
<1>1. ASSUME OpenCycle(w)
      PROVE  \E i \in Invoices :
               /\ i = cur[w] /\ \A j \in Invoices : j # i => CycleStays(j)
               /\ CycleSound(i)' /\ NoStepUp(w)'
  <2>1. pc[w] = "fail"
      BY <1>1 DEF OpenCycle
  <2>2. PICK s \in Subs, i \in Invoices :
          /\ s = at[w] /\ i = cur[w] /\ i \in InvoicesOf(s)
          /\ invStatus[i] = "open" /\ CopiesSound(w) /\ InvoiceSound(i)
          /\ w \in Billers => Fresh(w, s)
          /\ w \in Retriers => RetrierSound(w)
      BY <2>1, ChargerHolds
  <2>3. Fresh(w, s)
      BY <1>1, <2>1, <2>2 DEF OpenCycle, RetrierSound
  <2>4. nextRetry[i] = "none" /\ anchor[i] = "none" /\ retries[i] = 0
      BY <2>2, <2>3 DEF InvoiceSound, Fresh, InvoicesOf
  <2>5. /\ UNCHANGED <<invStatus, retries, nextRetry>>
        /\ anchor' = [anchor EXCEPT ![i] = answer[w]]
        /\ answer[w] \in FailureReason
      BY <1>1, <2>1, <2>2, <2>4 DEF OpenCycle, Reason, CopiesSound, AllReady, Ready
  <2>6. anchor'[i] = answer[w]
        /\ \A j \in Invoices : j # i => anchor'[j] = anchor[j]
      BY <2>5 DEF TypeOK, InvoicesOK
  <2>7. retries'[i] <= Len(RetrySchedule(anchor'[i]))
      BY <2>4, <2>5, <2>6, ScheduleLength
  <2>8. CycleSound(i)'
      BY <2>4, <2>5, <2>7 DEF CycleSound
  <2>9. NoStepUp(w)'
      BY <1>1 DEF NoStepUp, OpenCycle, Decision, Goto, TypeOK, SessionsOK
  <2> QED BY <2>2, <2>5, <2>6, <2>8, <2>9 DEF CycleStays
<1>2. ASSUME ScheduleRetry(w)
      PROVE  \E i \in Invoices :
               /\ i = cur[w] /\ \A j \in Invoices : j # i => CycleStays(j)
               /\ CycleSound(i)' /\ NoStepUp(w)'
  <2>1. pc[w] \in {"schedule", "flag", "exhaust"} /\ SessionSound(w)
      BY <1>2 DEF ScheduleRetry, SoloInv
  <2>2. w \in Billers /\ BillerSound(w) /\ pc[w] \in {"schedule", "flag"}
      BY <2>1 DEF SessionSound, BillerSound, RetrierSound
  <2>3. PICK i \in Invoices : i = cur[w]
      BY <2>1 DEF AllReady, Ready, Holding
  <2>4. /\ anchor[i] # "none"
        /\ pc[w] = "schedule" => retries[i] < Len(RetrySchedule(anchor[i]))
      BY <2>2, <2>3 DEF BillerSound
  <2>5. /\ UNCHANGED <<invStatus, retries, anchor>>
        /\ nextRetry' = [nextRetry EXCEPT
              ![i] = IF pc[w] = "schedule" THEN "waiting" ELSE "none"]
        /\ EndItem(w, todo[w])
      BY <1>2, <2>2, <2>3 DEF ScheduleRetry, Settle
  <2>6. nextRetry'[i] = (IF pc[w] = "schedule" THEN "waiting" ELSE "none")
        /\ \A j \in Invoices : j # i => nextRetry'[j] = nextRetry[j]
      BY <2>5 DEF TypeOK, InvoicesOK
  <2>7. CycleSound(i)
      BY DEF RetriesSound
  <2>8. CycleSound(i)'
      BY <2>4, <2>5, <2>6, <2>7 DEF CycleSound
  <2>9. NoStepUp(w)'
      BY <2>5 DEF NoStepUp, EndItem, Close, TypeOK, SessionsOK
  <2> QED BY <2>3, <2>5, <2>6, <2>8, <2>9 DEF CycleStays
<1>3. \A v \in Sessions \ {w} : SameSession(v)
    BY OthersSame DEF Biller, Retrier, Charging, Dunning
<1> QED BY <1>1, <1>2, <1>3, RetriesStep

\* A failure that leaves the cycle alone is the billing job's, on an invoice
\* without one; and a payment ends the cycle.
LEMMA RetriesEnd ==
    ASSUME RenewalAssumption, TypeOK, AllReady, Solo, SoloInv, RetriesSound,
           NEW w \in Billers \cup Retriers, SkipDunning(w) \/ PayInvoice(w)
    PROVE  RetriesSound'
<1> w \in Sessions BY DEF Sessions
<1>1. pc[w] \in {"pay", "fail"}
    BY DEF SkipDunning, PayInvoice
<1>2. PICK s \in Subs, i \in Invoices :
        /\ s = at[w] /\ i = cur[w] /\ i \in InvoicesOf(s)
        /\ invStatus[i] = "open" /\ CopiesSound(w) /\ InvoiceSound(i)
        /\ w \in Billers => Fresh(w, s)
        /\ w \in Retriers => RetrierSound(w)
    BY <1>1, ChargerHolds
<1>3. CASE SkipDunning(w)
  <2>1. answer[w] # "requires_action" /\ pc[w] = "fail"
      BY <1>3 DEF SkipDunning, RetriesSound, NoStepUp
  <2>2. Fresh(w, s)
      BY <1>2, <1>3, <2>1 DEF SkipDunning, RetrierSound
  <2>3. nextRetry[i] = "none"
      BY <1>2, <2>2 DEF InvoiceSound, Fresh, InvoicesOf
  <2>4. UNCHANGED <<invStatus, retries, anchor, nextRetry>> /\ EndItem(w, todo[w])
      BY <1>3 DEF SkipDunning, database, invoiceRows
  <2>5. CycleSound(i)'
      BY <2>3, <2>4 DEF RetriesSound, CycleSound
  <2>6. \A j \in Invoices : CycleStays(j)
      BY <2>4 DEF CycleStays
  <2>7. NoStepUp(w)'
      BY <2>4 DEF NoStepUp, EndItem, Close, TypeOK, SessionsOK
  <2>8. \A v \in Sessions \ {w} : SameSession(v)
      BY <1>3, OthersSame DEF Biller, Retrier, Charging, Dunning
  <2> QED BY <1>2, <2>5, <2>6, <2>7, <2>8, RetriesStep
<1>4. CASE PayInvoice(w)
  <2>1. InvoiceAllowed(seenInvoice[w], "paid")
      BY <1>2, <1>4 DEF CopiesSound, InvoiceAllowed, InvoiceTransitions, PayInvoice
  <2>2. /\ UNCHANGED <<retries, anchor, nextRetry>>
        /\ invStatus'[i] = "paid"
        /\ \A j \in Invoices : j # i => invStatus'[j] = invStatus[j]
        /\ pc'[w] \in {"clear", "advance"}
      BY <1>2, <1>4, <2>1 DEF PayInvoice, Goto, TypeOK, InvoicesOK, SessionsOK
  <2>3. CycleSound(i)' /\ NoStepUp(w)' /\ \A j \in Invoices : j # i => CycleStays(j)
      BY <2>2 DEF CycleSound, NoStepUp, CycleStays
  <2>4. \A v \in Sessions \ {w} : SameSession(v)
      BY <1>4, OthersSame DEF Biller, Retrier, Charging
  <2> QED BY <1>2, <2>3, <2>4, RetriesStep
<1> QED BY <1>3, <1>4

\* The invoice created has no cycle.
LEMMA RetriesCreate ==
    ASSUME RenewalAssumption, TypeOK, AllReady, Solo, SoloInv, RetriesSound,
           NEW w \in Billers, BillCreate(w)
    PROVE  RetriesSound'
<1> w \in Sessions BY DEF Sessions
<1>1. pc[w] = "create" /\ answer[w] \in {NoOutcome, "invalid_payment_method"}
    BY DEF BillCreate, AllReady, Ready
<1>2. PICK i \in Invoices : /\ invStatus[i] = "none"
                            /\ invStatus' = [invStatus EXCEPT ![i] = "open"]
    BY DEF BillCreate
<1>3. nextRetry[i] = "none" /\ anchor[i] = "none"
  <2>1. PICK s \in Subs : s = i.sub
      BY DEF Invoices
  <2>2. InvoiceSound(i)
      BY <2>1 DEF SoloInv, SubSound, InvoicesOf
  <2> QED BY <1>2, <2>2 DEF InvoiceSound
<1>4. UNCHANGED <<retries, nextRetry, anchor, answer>>
      /\ \A j \in Invoices : j # i => invStatus'[j] = invStatus[j]
    BY <1>2 DEF BillCreate, TypeOK, InvoicesOK
<1>5. CycleSound(i)' /\ NoStepUp(w)' /\ \A j \in Invoices : j # i => CycleStays(j)
    BY <1>1, <1>3, <1>4 DEF CycleSound, NoStepUp, CycleStays, NoOutcome
<1>6. \A v \in Sessions \ {w} : SameSession(v)
    BY OthersSame DEF Biller
<1> QED BY <1>1, <1>5, <1>6, RetriesStep

\* The steps that leave every cycle alone, or take a date away.
LEMMA RetriesOther ==
    ASSUME RenewalAssumption, RetryIsCounted, TypeOK, AllReady, Solo, SoloInv,
           RetriesSound, NEW w \in Sessions,
           \/ w \in Billers /\ \/ BillSelect(w) \/ AdvancePeriod(w)
                               \/ \E s \in Subs : BillLookup(w, s)
           \/ w \in Retriers /\ \/ RetrySelect(w) \/ ClearDunning(w) \/ Recover(w)
                                \/ \E i \in Invoices : RetryLoad(w, i)
           \/ w \in Billers \cup Retriers /\ \/ Charge(w) \/ ChargeRaises(w)
                                             \/ Revoke(w)
           \/ w \in Graces /\ Grace(w)
           \/ AbortJob(w)
    PROVE  RetriesSound'
<1>1. \A v \in Sessions \ {w} : SameSession(v)
    BY OthersSame DEF Biller, Retrier, Charging, Dunning
<1>2. pc[w] \notin {"pay", "fail"}
    BY DEF BillSelect, AdvancePeriod, BillLookup, RetrySelect, ClearDunning, Recover,
       RetryLoad, Charge, ChargeRaises, Revoke, Grace, GraceSelect, GraceCancel,
       Begin, AbortJob, RetryIsCounted
<1>3. \A remaining : EndItem(w, remaining) => NoStepUp(w)'
    BY DEF EndItem, Close, NoStepUp, TypeOK, SessionsOK
<1>4. Close(w) => NoStepUp(w)'
    BY DEF Close, NoStepUp, TypeOK, SessionsOK
<1>5. CASE \/ BillSelect(w) \/ RetrySelect(w) \/ GraceSelect(w)
  <2>1. NoStepUp(w)'
      BY <1>5 DEF BillSelect, RetrySelect, GraceSelect, Begin, Goto, NoStepUp,
         TypeOK, SessionsOK
  <2>2. \A i \in Invoices : CycleStays(i)
      BY <1>5 DEF BillSelect, RetrySelect, GraceSelect, CycleStays, database,
         invoiceRows
  <2> QED BY <1>1, <1>2, <2>1, <2>2, RetriesQuiet
<1>6. CASE \/ AdvancePeriod(w) \/ Recover(w) \/ Revoke(w) \/ ChargeRaises(w)
           \/ AbortJob(w) \/ \E s \in Subs : GraceCancel(w, s)
  <2>1. NoStepUp(w)'
      BY <1>3, <1>4, <1>6 DEF AdvancePeriod, Recover, Revoke, ChargeRaises, AbortJob,
         GraceCancel
  <2>2. \A i \in Invoices : CycleStays(i)
      BY <1>6 DEF AdvancePeriod, Recover, Revoke, ChargeRaises, AbortJob,
         GraceCancel, CycleStays, database, invoiceRows
  <2> QED BY <1>1, <1>2, <2>1, <2>2, RetriesQuiet
<1>7. ASSUME NEW s \in Subs, BillLookup(w, s) PROVE RetriesSound'
  <2>1. NoStepUp(w)'
    <3>1. Close(w) \/ answer'[w] \in {NoOutcome, "invalid_payment_method"}
        BY <1>7 DEF BillLookup, TypeOK, SessionsOK
    <3> QED BY <1>4, <3>1 DEF NoStepUp, NoOutcome
  <2>2. \A i \in Invoices : CycleStays(i)
      BY <1>7 DEF BillLookup, CycleStays, database, invoiceRows
  <2> QED BY <1>1, <1>2, <2>1, <2>2, RetriesQuiet
<1>8. ASSUME NEW j \in Invoices, RetryLoad(w, j) PROVE RetriesSound'
  <2>1. NoStepUp(w)'
      BY <1>3, <1>8 DEF RetryLoad, Goto, NoStepUp, TypeOK, SessionsOK
  <2>2. \A i \in Invoices : CycleStays(i)
      BY <1>8 DEF RetryLoad, CycleStays, TypeOK, InvoicesOK
  <2> QED BY <1>1, <1>2, <2>1, <2>2, RetriesQuiet
<1>9. CASE Charge(w)
  <2>1. answer'[w] \in {"captured"} \cup Declines
      BY <1>9 DEF Charge, TypeOK, SessionsOK
  <2>2. NoStepUp(w)'
      BY <2>1 DEF NoStepUp, RetryIsCounted
  <2>3. \A i \in Invoices : CycleStays(i)
      BY <1>9 DEF Charge, CycleStays, database, invoiceRows
  <2> QED BY <1>1, <1>2, <2>2, <2>3, RetriesQuiet
<1>10. CASE w \in Retriers /\ ClearDunning(w)
  <2>1. PICK i \in Invoices : i = cur[w] /\ invStatus[i] = "paid"
      BY <1>10, RetrierPaid DEF ClearDunning
  <2>2. /\ UNCHANGED <<invStatus, retries>> /\ pc'[w] = "recover"
        /\ \A j \in Invoices : j # i => /\ nextRetry'[j] = nextRetry[j]
                                        /\ anchor'[j] = anchor[j]
      BY <1>10, <2>1 DEF ClearDunning, Goto, TypeOK, InvoicesOK, SessionsOK
  <2>3. NoStepUp(w)' /\ \A j \in Invoices : CycleStays(j)
      BY <2>1, <2>2 DEF NoStepUp, CycleStays
  <2> QED BY <1>1, <1>2, <2>3, RetriesQuiet
<1> QED BY <1>5, <1>6, <1>7, <1>8, <1>9, <1>10 DEF Grace

\* Cards, time and the timers leave the cycles as they are, but for a date that
\* comes.
LEMMA RetriesAround ==
    ASSUME TypeOK, RetriesSound,
           \/ Time \/ UNCHANGED vars
           \/ \E s \in Subs : AddCard(s) \/ LoseCard(s)
    PROVE  RetriesSound'
<1>1. UNCHANGED <<pc, cur, answer>>
    BY SessionsKept
<1>2. \A i \in Invoices : CycleStays(i)
    BY DEF Time, PeriodEnds, RetryComesDue, GraceElapses, AddCard, LoseCard, vars,
       database, invoiceRows, CycleStays, TypeOK, InvoicesOK
<1> QED BY <1>1, <1>2 DEF RetriesSound, CycleSound, CycleStays, Retrying, NoStepUp

\* The cycles stay sound.
LEMMA RetriesSteps ==
    ASSUME RenewalAssumption, RetryIsCounted, TypeOK, AllReady, Solo, SoloInv,
           RetriesSound, [Next]_vars
    PROVE  RetriesSound'
<1>1. ASSUME NEW w \in Billers \cup Retriers, Charging(w) PROVE RetriesSound'
    BY <1>1, RetriesRecord, RetriesAdvance, RetriesOpen, RetriesEnd, RetriesOther
    DEF Charging, Dunning, Sessions
<1>2. ASSUME NEW w \in Billers, Biller(w) PROVE RetriesSound'
    BY <1>1, <1>2, RetriesCreate, RetriesOther DEF Biller, Sessions
<1>3. ASSUME NEW w \in Retriers, Retrier(w) PROVE RetriesSound'
    BY <1>1, <1>3, RetriesOther DEF Retrier, Sessions
<1>4. ASSUME NEW w \in Sessions, (w \in Graces /\ Grace(w)) \/ AbortJob(w)
      PROVE  RetriesSound'
    BY <1>4, RetriesOther
<1>5. ~\E w \in Requests : Request(w)
    BY DEF Solo
<1>6. \A w \in Graces : w \in Sessions
    BY DEF Sessions
<1> QED BY <1>2, <1>3, <1>4, <1>5, <1>6, RetriesAround DEF Next

\* A declined invoice is retried at most as often as its schedule has entries.
THEOREM RetriesStayInSchedule ==
    ASSUME Solo, RetryIsCounted
    PROVE  Spec => []RetriesWithinSchedule
<1>1. Init => RetriesSound
    BY DEF Init, RetriesSound, CycleSound, NoStepUp
<1>2. TypeOK /\ AllReady /\ SoloInv /\ RetriesSound /\ [Next]_vars => RetriesSound'
    BY RenewalAssumption, RetriesSteps
<1>3. RetriesSound => RetriesWithinSchedule
    BY DEF RetriesSound, CycleSound, RetriesWithinSchedule
<1> QED BY <1>1, <1>2, <1>3, SoloIsInvariant, PTL DEF Spec
--------------------------------------------------------------------------
\* Subscriptions left behind in dunning.

\* A session that works on no item holds no subscription.
Resting == \A w \in Sessions : pc[w] \in {"idle", "next"} => at[w] = None

\* Sessions come to rest by ending their item.
LEMMA RestingStep ==
    ASSUME RenewalAssumption, TypeOK, Solo, Resting, [Next]_vars
    PROVE  Resting'
<1> SUFFICES ASSUME NEW v \in Sessions, pc'[v] \in {"idle", "next"}
             PROVE  at'[v] = None
    BY DEF Resting
<1> USE DEF TypeOK, SessionsOK, Goto
<1>1. ASSUME SameSession(v) PROVE at'[v] = None
    BY <1>1 DEF SameSession, Resting
<1>2. Close(v) => at'[v] = None
    BY DEF Close
<1>3. \A remaining : EndItem(v, remaining) => at'[v] = None
    BY <1>2 DEF EndItem
<1>4. ASSUME BillSelect(v) \/ RetrySelect(v) \/ GraceSelect(v)
      PROVE  at'[v] = None
    BY <1>4 DEF BillSelect, RetrySelect, GraceSelect, Begin, Resting
<1>5. ASSUME \/ BillCreate(v) \/ Charge(v) \/ RecordAttempt(v) \/ OpenCycle(v)
             \/ ClearDunning(v)
      PROVE  FALSE
    BY <1>5 DEF BillCreate, Charge, RecordAttempt, AfterAttempt, OpenCycle,
       Decision, ClearDunning
<1>6. ASSUME \/ ChargeRaises(v) \/ AbortJob(v) \/ PayInvoice(v)
             \/ \E s \in Subs : BillLookup(v, s)
      PROVE  at'[v] = None
    BY <1>2, <1>6 DEF ChargeRaises, AbortJob, PayInvoice, BillLookup
<1>7. ASSUME \/ AdvancePeriod(v) \/ Recover(v) \/ Revoke(v) \/ SkipDunning(v)
             \/ \E i \in Invoices : RetryLoad(v, i)
             \/ \E s \in Subs : GraceCancel(v, s)
      PROVE  at'[v] = None
    BY <1>3, <1>7 DEF AdvancePeriod, Recover, Revoke, SkipDunning, RetryLoad,
       GraceCancel
<1>8. ASSUME AdvanceCycle(v) \/ ScheduleRetry(v) PROVE at'[v] = None
    BY <1>3, <1>8 DEF AdvanceCycle, ScheduleRetry, Settle
<1>9. ASSUME Biller(v) \/ Retrier(v) \/ Grace(v) \/ AbortJob(v)
      PROVE  at'[v] = None
    BY <1>4, <1>5, <1>6, <1>7, <1>8, <1>9
       DEF Biller, Retrier, Grace, Charging, Dunning
<1>10. ASSUME NEW w \in Sessions, w # v,
              Biller(w) \/ Retrier(w) \/ Grace(w) \/ AbortJob(w)
       PROVE  at'[v] = None
    BY <1>1, <1>10, OthersSame
<1>11. CASE \/ Time \/ UNCHANGED vars
            \/ \E s \in Subs : AddCard(s) \/ LoseCard(s)
    BY <1>1, <1>11, SessionsKept DEF SameSession
<1> QED BY <1>9, <1>10, <1>11 DEF Next, Sessions, Solo

\* The three excuses for leaving a subscription behind.
Excuse(w, s) ==
    \/ /\ at[w] = s /\ pc[w] = "flag"
       /\ RequiresPaymentMethodUpdate(anchor[cur[w]])
    \/ /\ ~card[s]
       /\ \E i \in todo[w] \cap Invoices : i.sub = s
    \/ /\ at[w] = s /\ AbortJob(w)
       /\ pc[w] \in {"schedule", "flag", "clear", "recover", "revoke"}

\* A retry of the invoice is to come.
Dated(i) == invStatus[i] = "open" /\ nextRetry[i] # "none"

\* What a job does in a step.
JobStep(w) ==
    \/ w \in Billers /\ Biller(w)
    \/ w \in Retriers /\ Retrier(w)
    \/ w \in Graces /\ Grace(w)
    \/ AbortJob(w)

\* A subscription enters dunning in the hands of a session.
LEMMA IntoDunning ==
    ASSUME TypeOK, NEW w \in Sessions, JobStep(w), NEW s \in Subs,
           subStatus[s] # "past_due", subStatus'[s] = "past_due"
    PROVE  at'[w] = s
<1> USE DEF TypeOK, SubscriptionsOK
<1>1. ASSUME \/ BillSelect(w) \/ BillCreate(w) \/ AdvancePeriod(w)
             \/ \E t \in Subs : BillLookup(w, t)
             \/ RetrySelect(w) \/ ClearDunning(w) \/ Recover(w)
             \/ \E i \in Invoices : RetryLoad(w, i)
             \/ Charge(w) \/ ChargeRaises(w) \/ RecordAttempt(w) \/ PayInvoice(w)
             \/ SkipDunning(w) \/ AdvanceCycle(w) \/ ScheduleRetry(w) \/ Revoke(w)
             \/ Grace(w) \/ AbortJob(w)
      PROVE  FALSE
    BY <1>1 DEF BillSelect, BillCreate, AdvancePeriod, BillLookup, RetrySelect,
       ClearDunning, Recover, RetryLoad, Charge, ChargeRaises, RecordAttempt,
       PayInvoice, SkipDunning, AdvanceCycle, ScheduleRetry, Settle, Revoke,
       Grace, GraceSelect, GraceCancel, AbortJob, database, subscriptionRows
<1>2. OpenCycle(w)
    BY <1>1 DEF JobStep, Biller, Retrier, Charging, Dunning
<1> QED BY <1>2 DEF OpenCycle

\* An invoice's date goes in the hands of a session that works on it, or at its
\* turn in the retry job's batch.
LEMMA DateGoes ==
    ASSUME TypeOK, AllReady, NEW w \in Sessions, JobStep(w),
           NEW i \in Invoices, Dated(i), ~Dated(i)'
    PROVE  \/ w \in Billers \cup Retriers /\ pc[w] \in Holding /\ cur[w] = i
           \/ w \in Retriers /\ RetryLoad(w, i)
<1> USE DEF TypeOK, InvoicesOK, Dated
<1>1. ASSUME \/ BillSelect(w) \/ AdvancePeriod(w)
             \/ \E t \in Subs : BillLookup(w, t)
             \/ RetrySelect(w) \/ Recover(w)
             \/ Charge(w) \/ ChargeRaises(w) \/ RecordAttempt(w)
             \/ SkipDunning(w) \/ OpenCycle(w) \/ Revoke(w)
             \/ Grace(w) \/ AbortJob(w)
      PROVE  FALSE
    BY <1>1 DEF BillSelect, AdvancePeriod, BillLookup, RetrySelect, Recover,
       Charge, ChargeRaises, RecordAttempt, SkipDunning, OpenCycle, Revoke,
       Grace, GraceSelect, GraceCancel, AbortJob, database, invoiceRows
<1>2. ASSUME BillCreate(w) PROVE FALSE
    BY <1>2 DEF BillCreate
<1>3. ASSUME \/ PayInvoice(w) \/ ClearDunning(w) \/ AdvanceCycle(w)
             \/ ScheduleRetry(w)
      PROVE  pc[w] \in Holding /\ cur[w] = i
    BY <1>3 DEF PayInvoice, ClearDunning, AdvanceCycle, ScheduleRetry, Settle,
       Holding
<1>4. ASSUME NEW j \in Invoices, RetryLoad(w, j) PROVE j = i
    BY <1>4 DEF RetryLoad
<1> QED BY <1>1, <1>2, <1>3, <1>4 DEF JobStep, Biller, Retrier, Charging, Dunning

\* The billing job leaves a subscription it has put in dunning with a date, or
\* with a cycle that waits for a card.
LEMMA BillerLeaves ==
    ASSUME RenewalAssumption, TypeOK, AllReady, Solo, SoloInv,
           NEW w \in Billers, Biller(w) \/ AbortJob(w), NEW s \in Subs, at[w] = s,
           pc[w] \in Working, subStatus[s] = "past_due", LeftBehind(s)'
    PROVE  Excuse(w, s)
<1>1. w \in Sessions
    BY DEF Sessions
<1>2. BillerSound(w)
    BY <1>1 DEF SoloInv, SessionSound
<1>3. pc[w] \in {"schedule", "flag"} /\ HoldsOpen(w)
    BY <1>2 DEF BillerSound, Fresh, Working, Holding
<1>4. CASE AbortJob(w)
    BY <1>3, <1>4 DEF Excuse
<1>5. CASE pc[w] = "flag"
    BY <1>2, <1>5 DEF BillerSound, Excuse
<1>6. CASE Biller(w) /\ pc[w] = "schedule"
  <2>1. ScheduleRetry(w)
      BY <1>6 DEF Biller, Charging, Dunning, BillSelect, BillCreate, AdvancePeriod,
         BillLookup, Begin, Charge, ChargeRaises, RecordAttempt, PayInvoice,
         SkipDunning, OpenCycle, AdvanceCycle, Revoke
  <2>2. PICK i \in Invoices : i = cur[w] /\ i.sub = s /\ invStatus[i] = "open"
      BY <1>3 DEF HoldsOpen, InvoicesOf
  <2>3. nextRetry'[i] = "waiting" /\ invStatus'[i] = "open"
      BY <1>6, <2>1, <2>2 DEF ScheduleRetry, Settle, TypeOK, InvoicesOK
  <2>4. Driven(s)'
      BY <2>2, <2>3 DEF Driven
  <2> QED BY <2>4 DEF LeftBehind
<1> QED BY <1>3, <1>4, <1>5, <1>6

\* The retry job leaves it with its date, with another one, or out of dunning.
LEMMA RetrierLeaves ==
    ASSUME RenewalAssumption, TypeOK, AllReady, Solo, SoloInv,
           NEW w \in Retriers, Retrier(w) \/ AbortJob(w), NEW s \in Subs, at[w] = s,
           pc[w] \in Working, subStatus[s] = "past_due", LeftBehind(s)'
    PROVE  Excuse(w, s)
<1>1. w \in Sessions /\ w \notin Billers
    BY DEF Sessions, Solo
<1>2. RetrierSound(w)
    BY <1>1 DEF SoloInv, SessionSound
<1>3. /\ subStatus'[s] = "past_due" /\ at'[w] # s
      /\ \A i \in Invoices : i.sub = s => ~Dated(i)'
    BY <1>1 DEF LeftBehind, Driven, Dated
<1>4. ASSUME pc[w] \in {"charge", "record", "pay", "fail"}
      PROVE  \E i \in Invoices : i = cur[w] /\ i.sub = s /\ Dated(i)
    BY <1>2, <1>4 DEF RetrierSound, HoldsOpen, InvoicesOf, Dated
<1>5. CASE AbortJob(w)
  <2>1. UNCHANGED <<invStatus, nextRetry>>
      BY <1>5 DEF AbortJob, database, invoiceRows
  <2>2. pc[w] \notin {"charge", "record", "pay", "fail"}
      BY <1>3, <1>4, <2>1 DEF Dated
  <2>3. pc[w] \in {"clear", "recover", "revoke"}
      BY <1>2, <2>2 DEF RetrierSound, Working, Holding
  <2> QED BY <1>5, <2>3 DEF Excuse
<1>6. CASE Retrier(w)
  <2>1. ~Charge(w) /\ ~RecordAttempt(w) /\ ~ClearDunning(w) /\ ~OpenCycle(w)
      BY <1>3 DEF Charge, RecordAttempt, ClearDunning, OpenCycle
  <2>2. ~ChargeRaises(w)
      BY <1>1 DEF ChargeRaises
  <2>3. ASSUME PayInvoice(w) PROVE FALSE
    <3>1. seenInvoice[w] = "open"
        BY <1>2, <2>3 DEF PayInvoice, RetrierSound, CopiesSound
    <3>2. at' = at
        BY <2>3, <3>1 DEF PayInvoice, InvoiceAllowed, InvoiceTransitions
    <3> QED BY <1>3, <3>2
  <2>4. ASSUME Recover(w) \/ Revoke(w) PROVE FALSE
      BY <1>3, <2>4 DEF Recover, Revoke, TypeOK, SubscriptionsOK
  <2>5. ASSUME SkipDunning(w) PROVE FALSE
    <3>1. pc[w] = "fail" /\ UNCHANGED <<invStatus, nextRetry>>
        BY <2>5 DEF SkipDunning, database, invoiceRows
    <3> QED BY <1>3, <1>4, <3>1 DEF Dated
  <2>6. ASSUME AdvanceCycle(w) PROVE FALSE
    <3>1. pc[w] = "fail"
        BY <2>6 DEF AdvanceCycle
    <3>2. PICK i \in Invoices : i = cur[w] /\ i.sub = s /\ Dated(i)
        BY <1>4, <3>1
    <3>3. retries[i] \in Nat /\ retries[i] > 0
        BY <1>2, <3>1, <3>2 DEF RetrierSound, TypeOK, InvoicesOK
    <3>4. Reason(w) \in FailureReason
        BY <1>1, <1>2, <3>1, <3>2 DEF RetrierSound, CopiesSound, Reason, AllReady,
           Ready, TypeOK, InvoicesOK, Anchors
    <3> DEFINE decision == Decision(Reason(w), retries[i])
    <3>5. decision \in {"schedule", "exhaust"}
        BY <3>3, <3>4, DecisionMeans
    <3>6. /\ nextRetry' = [nextRetry EXCEPT
                ![i] = IF decision = "schedule" THEN "waiting" ELSE "none"]
          /\ decision = "exhaust" => UNCHANGED at
          /\ UNCHANGED invStatus
        BY <2>6, <3>2 DEF AdvanceCycle, Settle
    <3>7. decision # "exhaust"
        BY <1>3, <3>6
    <3>8. nextRetry'[i] = "waiting"
        BY <3>5, <3>6, <3>7 DEF TypeOK, InvoicesOK
    <3> QED BY <1>3, <3>2, <3>6, <3>8 DEF Dated
  <2>7. ~ScheduleRetry(w)
      BY <1>2 DEF ScheduleRetry, RetrierSound
  <2>8. ASSUME RetrySelect(w) \/ \E i \in Invoices : RetryLoad(w, i)
        PROVE  FALSE
      BY <2>8 DEF RetrySelect, RetryLoad, Begin, Working, Holding
  <2> QED BY <1>6, <2>1, <2>2, <2>3, <2>4, <2>5, <2>6, <2>7, <2>8
          DEF Retrier, Charging, Dunning
<1> QED BY <1>5, <1>6

\* Whoever leaves a subscription behind has an excuse.
LEMMA LeavingNeedsExcuse ==
    ASSUME RenewalAssumption, TypeOK, AllReady, Solo, SoloInv, Resting,
           NEW w \in Sessions, JobStep(w),
           NEW s \in Subs, ~LeftBehind(s), LeftBehind(s)'
    PROVE  Excuse(w, s)
<1>1. \A v \in Sessions \ {w} : SameSession(v)
    BY OthersSame DEF JobStep
<1>2. /\ subStatus'[s] = "past_due"
      /\ \A v \in Sessions : at'[v] # s
      /\ \A i \in Invoices : i.sub = s => ~Dated(i)'
    BY DEF LeftBehind, Driven, Dated
<1>3. subStatus[s] = "past_due"
    BY <1>2, IntoDunning
<1>4. \A v \in Sessions \ {w} : at[v] # s
    BY <1>1, <1>2 DEF SameSession
<1>5. CASE at[w] # s
  <2>1. PICK i \in Invoices : i.sub = s /\ Dated(i)
      BY <1>3, <1>4, <1>5 DEF LeftBehind, Driven, Dated
  <2>2. ~Dated(i)'
      BY <1>2, <2>1
  <2>3. ASSUME w \in Billers \cup Retriers, pc[w] \in Holding, cur[w] = i
        PROVE  FALSE
    <3>1. SessionSound(w)
        BY DEF SoloInv
    <3>2. HoldsOpen(w) \/ HoldsPaid(w)
        BY <2>3, <3>1 DEF SessionSound, BillerSound, RetrierSound, Holding
    <3> QED BY <1>5, <2>1, <2>3, <3>2 DEF HoldsOpen, HoldsPaid, InvoicesOf
  <2>4. w \in Retriers /\ RetryLoad(w, i)
      BY <2>1, <2>2, <2>3, DateGoes
  <2>5. i \in todo[w] /\ ~card[s]
    <3>1. i \in todo[w]
        BY <2>4 DEF RetryLoad
    <3>2. ASSUME card[s] PROVE FALSE
      <4>1. UNCHANGED <<invStatus, nextRetry>>
          BY <1>3, <2>1, <2>4, <3>2 DEF RetryLoad
      <4> QED BY <2>1, <2>2, <4>1 DEF Dated
    <3> QED BY <3>1, <3>2
  <2> QED BY <2>1, <2>5 DEF Excuse
<1>6. CASE at[w] = s
  <2>1. pc[w] \notin {"idle", "next"}
      BY <1>6 DEF Resting, RenewalAssumption
  <2>2. SessionSound(w)
      BY DEF SoloInv
  <2>3. w \notin Graces
      BY <2>1, <2>2 DEF SessionSound, GraceSound
  <2>4. CASE w \in Billers
    <3>1. pc[w] \in Working /\ (Biller(w) \/ AbortJob(w))
        BY <2>1, <2>2, <2>3, <2>4 DEF SessionSound, BillerSound, Working, Holding,
           JobStep, Solo
    <3> QED BY <1>3, <1>6, <2>4, <3>1, BillerLeaves
  <2>5. CASE w \in Retriers
    <3>1. pc[w] \in Working /\ (Retrier(w) \/ AbortJob(w))
        BY <2>1, <2>2, <2>3, <2>5 DEF SessionSound, RetrierSound, Working, Holding,
           JobStep, Solo
    <3> QED BY <1>3, <1>6, <2>5, <3>1, RetrierLeaves
  <2> QED BY <2>3, <2>4, <2>5 DEF Sessions, Solo
<1> QED BY <1>5, <1>6

\* A subscription in dunning is left without a next retry in three ways only:
\* its cycle waits for another card, its retry found no card, or a job was cut
\* short between two commits.
THEOREM ArrearsAreLeftBehindOnlySo ==
    ASSUME Solo
    PROVE  Spec => LeftBehindOnlySo
<1> DEFINE Action == \A s \in Subs : ~LeftBehind(s) /\ LeftBehind(s)' =>
                       \E w \in Sessions : Excuse(w, s)
<1>1. Init => Resting
    BY DEF Init, Resting
<1>2. TypeOK /\ AllReady /\ SoloInv /\ Resting /\ [Next]_vars
        => Resting' /\ [Action]_vars
  <2> SUFFICES ASSUME TypeOK, AllReady, SoloInv, Resting, [Next]_vars
               PROVE  Resting' /\ Action
      OBVIOUS
  <2>1. Resting'
      BY RenewalAssumption, RestingStep
  <2>2. CASE \E w \in Sessions : JobStep(w)
      BY <2>1, <2>2, RenewalAssumption, LeavingNeedsExcuse
  <2>3. CASE \/ Time \/ UNCHANGED vars
             \/ \E s \in Subs : AddCard(s) \/ LoseCard(s)
    <3>1. UNCHANGED <<at, invStatus, subStatus>>
        BY <2>3, SessionsKept DEF Time, PeriodEnds, RetryComesDue, GraceElapses,
           AddCard, LoseCard, vars, database, subscriptionRows
    <3>2. \A i \in Invoices : nextRetry[i] # "none" => nextRetry'[i] # "none"
        BY <2>3 DEF Time, PeriodEnds, RetryComesDue, GraceElapses, AddCard, LoseCard,
           vars, database, invoiceRows, TypeOK, InvoicesOK
    <3>3. Action
        BY <3>1, <3>2 DEF LeftBehind, Driven
    <3> QED BY <2>1, <3>3
  <2> QED BY <2>2, <2>3 DEF Next, JobStep, Sessions, Solo
<1>3. [Action]_vars => [\A s \in Subs : ~LeftBehind(s) /\ LeftBehind(s)' =>
        \E w \in Sessions :
            \/ /\ at[w] = s /\ pc[w] = "flag"
               /\ RequiresPaymentMethodUpdate(anchor[cur[w]])
            \/ /\ ~card[s]
               /\ \E i \in todo[w] \cap Invoices : i.sub = s
            \/ /\ at[w] = s /\ AbortJob(w)
               /\ pc[w] \in {"schedule", "flag", "clear", "recover", "revoke"}]_vars
    BY DEF Excuse
<1> QED BY <1>1, <1>2, <1>3, SoloIsInvariant, PTL DEF Spec, LeftBehindOnlySo
==========================================================================
