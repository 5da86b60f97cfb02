--------------------------- MODULE MCSettlement ---------------------------
(***************************************************************************)
(* Instances of Settlement for TLC: lists that fill a page and a half, or  *)
(* two pages exactly; a ledger that agrees with them here and there.         *)
(***************************************************************************)
EXTENDS Settlement

CONSTANTS A, B, C, D   \* references

Txn(ref, status, amount, day) ==
    [ref |-> ref, status |-> status, amount |-> amount, day |-> day]
Attempt(ref, status, amount, day) ==
    [ref |-> ref, status |-> status, amount |-> amount, day |-> day]

SomeListings ==
    { <<Txn(B, "PAYMENT_FAILED", 2, "yesterday"), Txn(NoRef, "SUCCESS", 1, "yesterday"),
        Txn(B, "SUCCESS", 2, "yesterday")>>,
      <<Txn(A, "NEW", 2, "yesterday"), Txn(B, "CANCELLED", NoAmount, "yesterday"),
        Txn(D, "FAILED", 1, "yesterday"), Txn(C, "REFUND", 1, "today")>> }

\* Two attempts share a reference; one is of the day the job runs.
SomeLedgers ==
    { <<Attempt(B, "failed", 2, "yesterday"), Attempt(B, "success", 2, "yesterday"),
        Attempt(A, "success", 1, "yesterday"), Attempt(NoRef, "failed", 1, "yesterday"),
        Attempt(D, "failed", 1, "yesterday"), Attempt(C, "success", 1, "today")>> }

\* A charge of each day, and both ledgers agree.
AgreeingListings ==
    { <<Txn(A, "SUCCESS", 1, "yesterday"), Txn(C, "SUCCESS", 1, "today")>> }
AgreeingLedgers ==
    { <<Attempt(A, "success", 1, "yesterday"), Attempt(C, "success", 1, "today")>> }

SomeBodies ==
    { [code |-> TRUE, flag |-> TRUE, status |-> "SUCCESS", words |-> {}],
      [code |-> FALSE, flag |-> FALSE, status |-> "PROCESSING", words |-> {"otp", "declin"}] }
===========================================================================
