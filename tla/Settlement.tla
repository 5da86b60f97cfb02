---------------------------- MODULE Settlement ----------------------------
(***************************************************************************)
(* The daily reconciliation job over the shared Nomba adapter: the job's   *)
(* coroutine pages through Nomba's transactions while other coroutines of  *)
(* the process charge, verify and refresh the token.                       *)
(***************************************************************************)
EXTENDS NombaAdapter, Reconciliation

CONSTANTS
    Listings,  \* the transactions Nomba may hold, as sequences, of the day the
               \* job reconciles ("yesterday") and of the day it runs ("today"):
               \* dates 00:00:00 to 23:59:59 of the next day are asked for
    Ledgers,   \* the attempts the engine may hold, as sequences
    PageSize,  \* 100
    MaxTxns    \* max_transactions, 1000

IsSequence(l) == l \in Seq(ToSet(l))

ASSUME SettlementAssumption ==
    /\ PageSize \in Nat \ {0} /\ MaxTxns \in Nat
    /\ \A l \in Listings \cup Ledgers : IsSequence(l)

VARIABLES
    theirs, attempts,
    stage,   \* of the job: waiting, paging, comparing, done
    got,     \* all_txns
    cursor,  \* the number of transactions up to the page's last
    clean,   \* no page was lost or listed twice on the way
    report   \* the discrepancies it reports

jobVars == <<stage, got, cursor, clean, report>>
vars == <<adapterVars, theirs, attempts, jobVars>>

Init ==
    /\ AdapterInit
    /\ theirs \in Listings /\ attempts \in Ledgers
    /\ stage = "waiting"
    /\ got = <<>> /\ cursor = 0 /\ clean = TRUE
    /\ report = {}
---------------------------------------------------------------------------
\* process_reconciliation: the cron, or /internal/cron, starts a run.
StartRun ==
    /\ stage \in {"waiting", "done"}
    /\ stage' = "paging"
    /\ got' = <<>> /\ cursor' = 0 /\ clean' = TRUE
    /\ report' = {}
    /\ UNCHANGED <<adapterVars, theirs, attempts>>

\* The loop asks for a page, or has enough.
AskPage ==
    /\ stage = "paging" /\ reply[Lister].status = "none" /\ Len(got) < MaxTxns
    /\ Begin(Lister, "fetch_transactions")
    /\ UNCHANGED <<theirs, attempts, jobVars>>

Enough ==
    /\ stage = "paging" /\ at[Lister] = "idle" /\ reply[Lister].status = "none"
    /\ Len(got) >= MaxTxns
    /\ stage' = "comparing"
    /\ UNCHANGED <<adapterVars, theirs, attempts, got, cursor, clean, report>>

\* Nomba's answer: the transactions after the cursor.
AnswerPage ==
    /\ Answer(Lister, Ended("page"))
    /\ UNCHANGED <<theirs, attempts, jobVars>>

\* The transactions after the first `start`.
Page(start) == SubSeq(theirs, start + 1, Min({start + PageSize, Len(theirs)}))

\* The coroutine forgets the call it has consumed.
Consume ==
    /\ reply' = [reply EXCEPT ![Lister] = Ended("none")]
    /\ UNCHANGED <<tokenVars, revoked, at, method, using, again, processed, ages, failures>>

\* mutant: the cursor skips a transaction between two pages.
TakePageSkipping ==
    /\ stage = "paging" /\ reply[Lister].status = "page"
    /\ Consume
    /\ \E start \in {cursor, 0} :
          /\ got' = got \o Page(start)
          /\ cursor' = start + Len(Page(start)) + 1
          /\ clean' = (clean /\ start = cursor)
          /\ stage' = IF Len(Page(start)) < PageSize THEN "comparing" ELSE "paging"
    /\ UNCHANGED <<theirs, attempts, report>>

\* A full page is followed by another one.  The loop sends the id of the page's last
\* transaction where Nomba expects the cursor of its response: Nomba continues
\* after that transaction, or ignores it and begins the list again.
TakePage ==
    /\ stage = "paging" /\ reply[Lister].status = "page"
    /\ Consume
    /\ \E start \in {cursor, 0} :
          /\ got' = got \o Page(start)
          /\ cursor' = start + Len(Page(start))
          /\ clean' = (clean /\ start = cursor)
          /\ stage' = IF Len(Page(start)) < PageSize THEN "comparing" ELSE "paging"
    /\ UNCHANGED <<theirs, attempts, report>>

\* A refused page looks like the end of the list; an exception throws away what
\* was listed before.
LosePage ==
    /\ stage = "paging" /\ at[Lister] = "idle"
    /\ reply[Lister].status \in {"empty", "error", "down", "auth"}
    /\ Consume
    /\ got' = IF reply[Lister].status = "empty" THEN got ELSE <<>>
    /\ clean' = FALSE
    /\ stage' = "comparing"
    /\ UNCHANGED <<theirs, attempts, cursor, report>>

\* The worker's session closes without a commit: the summary is all that is left.
Finish ==
    /\ stage = "comparing"
    /\ report' = Compare(SubSeq(got, 1, Min({MaxTxns, Len(got)})), attempts)
    /\ stage' = "done"
    /\ UNCHANGED <<adapterVars, theirs, attempts, got, cursor, clean>>
---------------------------------------------------------------------------
ListerTransport == Transport(Lister) \/ UnauthorizedPage \/ RefusedPage

Job ==
    \/ StartRun \/ AskPage \/ Enough \/ AnswerPage \/ TakePage \/ LosePage \/ Finish
    \/ ListerTransport /\ UNCHANGED <<theirs, attempts, jobVars>>

Others ==
    /\ \/ \E c \in Callers : Call(c) \/ Transport(c)
       \/ Revoke
       \/ Age
    /\ UNCHANGED <<theirs, attempts, jobVars>>

Next == Job \/ Others

Spec == Init /\ [][Next]_vars

Resume(c) == Transport(c) /\ UNCHANGED <<theirs, attempts, jobVars>>

\* Every coroutine that awaits goes on, the lock is handed on in order (asyncio.Lock),
\* and a run that was started is carried on; nobody must start a run or a call.
FairSpec ==
    /\ Spec
    /\ \A c \in Coroutines : SF_vars(Resume(c))
    /\ WF_vars(AskPage \/ Enough \/ AnswerPage \/ TakePage \/ LosePage \/ Finish)
    /\ WF_vars(ListerTransport /\ UNCHANGED <<theirs, attempts, jobVars>>)
---------------------------------------------------------------------------
(* Properties. *)

Statuses == {"none", "read", "created", "success", "pending", "requires_action",
             "failed", "refunded", "error", "auth", "down", "page", "empty"}

\* Every variable stays in its domain, and the lock is held by the coroutine
\* that fetches a token and by nobody else (self._token_lock).
SettlementTypeOK ==
    /\ cached \in {NoToken} \cup 1 .. issued
    /\ fresh \in BOOLEAN /\ issued \in Nat /\ revoked \subseteq 1 .. issued
    /\ at \in [Coroutines -> {"idle", "start", "locking", "fetching", "sending"}]
    /\ \A c \in Coroutines : lock = c <=> at[c] = "fetching"
    /\ lock \in {Nobody} \cup Coroutines
    /\ using \in [Coroutines -> {NoToken} \cup 1 .. issued]
    /\ again \in [Coroutines -> BOOLEAN]
    /\ processed \in [Coroutines -> Nat]
    /\ \A c \in Coroutines : reply[c].status \in Statuses
    /\ stage \in {"waiting", "paging", "comparing", "done"}
    /\ clean \in BOOLEAN

\* What a clerk with both ledgers before him would report of the day, without
\* pages, cursors or lookups.
Books ==
    LET named == {t \in ToSet(theirs) : t.day = "yesterday" /\ t.ref # NoRef}
        mine == {attempts[i] : i \in Ours(attempts)}
        agree(t, a) == AmountsMatch(t, a) /\ StatusesMatch(t, a)
    IN  {Discrepancy("missing_in_ours", t.ref) :
            t \in {t \in named : \A a \in mine : a.ref # t.ref}}
        \cup {Discrepancy("missing_in_nomba", a.ref) :
            a \in {a \in mine : a.ref # NoRef /\ \A t \in named : t.ref # a.ref}}
        \cup UNION {{Discrepancy(IF AmountsMatch(t, a) THEN "status_mismatch"
                                 ELSE "amount_mismatch", t.ref) :
                        t \in {t \in named : t.ref = a.ref /\ ~agree(t, a)}} :
                    a \in mine}

\* The run lost no page and met no limit.
Complete == stage = "done" /\ clean /\ Len(theirs) <= MaxTxns

\* No transaction of the day the job runs bears the reference.
OfTheDay(ref) == \A t \in ToSet(theirs) : t.ref = ref => t.day = "yesterday"

\* At most one attempt of the day bears it.
OneAttempt(ref) ==
    \A i, j \in Ours(attempts) : attempts[i].ref = ref /\ attempts[j].ref = ref => i = j

\* Of the references of the day a complete run invents no discrepancy and misses
\* none, however the list falls into pages and whatever the other coroutines do
\* to the token; of the attempts that share a reference only one is compared
\* (run_reconciliation, ours_by_ref).
DayIsReported ==
    Complete =>
        /\ \A d \in report : OfTheDay(d.ref) => d \in Books
        /\ \A d \in Books :
              OfTheDay(d.ref) /\ (d.kind = "missing_in_nomba" \/ OneAttempt(d.ref))
                  => d \in report

\* A complete run reports the discrepancies of the day and no others ("Reconciles
\* the previous UTC day's transactions", process_reconciliation).
ReportIsExact == Complete => report = Books

\* A run that is started comes to an end: pages advance, and no failure keeps
\* the token's lock (_fetch_all_nomba_transactions, _ensure_token).
RunEnds == stage = "paging" ~> stage = "done"
===========================================================================
