-------------------------- MODULE Reconciliation --------------------------
(***************************************************************************)
(* app/reconciliation/service.py as functions: how the two ledgers of a    *)
(* day are compared.  Nomba's is a sequence of transactions, the engine's  *)
(* a sequence of payment attempts.                                         *)
(***************************************************************************)
EXTENDS Naturals, SequencesExt

CONSTANTS
    NoRef,     \* a model value: no reference
    NoAmount   \* a model value: no amount

\* What the status of a transaction asks of the attempt; others ask nothing.
StatusMap ==
    [SUCCESS |-> "success", REFUND |-> "refunded", PAYMENT_FAILED |-> "failed",
     FAILED |-> "failed", PENDING_BILLING |-> "pending", CANCELLED |-> "pending",
     REVERSED_BY_VENDOR |-> "pending"]

StatusesMatch(txn, attempt) ==
    txn.status \in DOMAIN StatusMap => StatusMap[txn.status] = attempt.status

AmountsMatch(txn, attempt) ==
    NoAmount \in {txn.amount, attempt.amount} \/ txn.amount = attempt.amount

\* The attempts of the reconciled day, by their place in the engine's list.
Ours(attempts) == {i \in DOMAIN attempts : attempts[i].day = "yesterday"}

\* ours_by_ref: of two attempts with one reference the later one stays.
OursByRef(attempts, ref) ==
    attempts[Max({i \in Ours(attempts) : attempts[i].ref = ref})]

HasRef(attempts, ref) == \E i \in Ours(attempts) : attempts[i].ref = ref

\* Nomba's transactions without a reference are passed over.
Known(txns) == {t \in ToSet(txns) : t.ref # NoRef}

Discrepancy(kind, ref) == [kind |-> kind, ref |-> ref]

\* The forward pass, for one transaction that has a reference.
Judge(txn, attempts) ==
    IF ~HasRef(attempts, txn.ref) THEN {Discrepancy("missing_in_ours", txn.ref)}
    ELSE LET attempt == OursByRef(attempts, txn.ref)
         IN  IF ~AmountsMatch(txn, attempt) THEN {Discrepancy("amount_mismatch", txn.ref)}
             ELSE IF ~StatusesMatch(txn, attempt)
             THEN {Discrepancy("status_mismatch", txn.ref)}
             ELSE {}

Forward(txns, attempts) == UNION {Judge(t, attempts) : t \in Known(txns)}

\* matched_refs: what the forward pass found.
Matched(txns, attempts) ==
    {ref \in {t.ref : t \in Known(txns)} : HasRef(attempts, ref)}

\* The reverse check, over the attempts the first has not matched.
Unmatched(txns, attempts) ==
    {i \in Ours(attempts) :
        attempts[i].ref # NoRef /\ attempts[i].ref \notin Matched(txns, attempts)}

Backward(txns, attempts) ==
    {Discrepancy("missing_in_nomba", attempts[i].ref) : i \in Unmatched(txns, attempts)}

\* mutant: only the attempts that succeeded are looked for at Nomba.
CompareSuccesses(txns, attempts) ==
    Forward(txns, attempts)
    \cup {Discrepancy("missing_in_nomba", attempts[i].ref) :
             i \in {j \in Unmatched(txns, attempts) : attempts[j].status = "success"}}

\* run_reconciliation, steps 4 to 6.
Compare(txns, attempts) == Forward(txns, attempts) \cup Backward(txns, attempts)
===========================================================================
