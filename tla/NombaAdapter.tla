--------------------------- MODULE NombaAdapter ---------------------------
(***************************************************************************)
(* app/providers/nomba.py: one adapter object shared by every coroutine of *)
(* a process.  It caches one bearer token, fetches a new one under a lock, *)
(* and answers a 401 by dropping the token and trying once more.  Only     *)
(* fetch_transactions sends its request without that second try.           *)
(* Between two awaits a coroutine runs alone: an action is such a stretch. *)
(***************************************************************************)
EXTENDS Naturals, FiniteSets, SequencesExt

CONSTANTS
    Callers,         \* coroutines that call the adapter's other methods
    Lister,          \* the coroutine that calls fetch_transactions
    Methods,         \* the methods the callers call
    Bodies,          \* the response bodies Nomba may send
    MaxRevocations,  \* tokens Nomba revokes before they expire
    MaxAges,         \* tokens that come, or get, too near their expiry
    MaxFailures,     \* requests that time out, fail, or are refused without a 401
    NoToken,         \* a model value
    Nobody           \* a model value

Coroutines == Callers \cup {Lister}

\* _map_failure_reason: the words it looks for, in the order it looks.
KeywordReasons ==
    << [word |-> "insufficient", reason |-> "insufficient_funds"],
       [word |-> "expire",       reason |-> "expired_card"],
       [word |-> "do not honor", reason |-> "do_not_honor"],
       [word |-> "otp",          reason |-> "requires_action"],
       [word |-> "invalid card", reason |-> "invalid_payment_method"],
       [word |-> "declin",       reason |-> "card_declined"] >>

Keywords == {k.word : k \in ToSet(KeywordReasons)}

AllMethods == {"charge_tokenized_card", "transfer", "verify_transaction",
               "verify_checkout_transaction", "debit_mandate", "initiate_checkout",
               "create_direct_debit_mandate", "get_mandate_status",
               "list_tokenized_cards"}

ASSUME AdapterAssumption ==
    /\ Lister \notin Callers /\ Nobody \notin Coroutines /\ NoToken \notin Nat
    /\ Methods \subseteq AllMethods
    /\ \A b \in Bodies : /\ b.code \in BOOLEAN /\ b.flag \in BOOLEAN
                         /\ b.words \in SUBSET Keywords
    /\ MaxRevocations \in Nat /\ MaxAges \in Nat /\ MaxFailures \in Nat

VARIABLES
    cached,    \* self._token
    fresh,     \* the cached token is not within the leeway of its expiry
    issued,    \* tokens issued so far; they are numbered
    revoked,   \* those that Nomba no longer accepts
    lock,      \* who holds self._token_lock
    at,        \* where a coroutine awaits: idle, start, locking, fetching, sending
    method,    \* the method it is in
    using,     \* the token of its request
    again,     \* it is in the second try after a 401
    processed, \* how often Nomba has carried out the request of its call
    reply,     \* how its last call ended
    ages, failures

callVars == <<at, method, using, again, processed, reply>>
tokenVars == <<cached, fresh, issued, lock>>
adapterVars == <<tokenVars, revoked, callVars, ages, failures>>

Ended(status) == [status |-> status, reason |-> "none"]

AdapterInit ==
    /\ cached = NoToken /\ fresh = FALSE
    /\ issued = 0 /\ revoked = {}
    /\ lock = Nobody
    /\ at = [c \in Coroutines |-> "idle"]
    /\ method = [c \in Coroutines |-> "none"]
    /\ using = [c \in Coroutines |-> NoToken]
    /\ again = [c \in Coroutines |-> FALSE]
    /\ processed = [c \in Coroutines |-> 0]
    /\ reply = [c \in Coroutines |-> Ended("none")]
    /\ ages = 0 /\ failures = 0
---------------------------------------------------------------------------
(* What a body means to the method that asked: a result, or ProviderError. *)

MapFailureReason(words) ==
    LET hits == SelectSeq(KeywordReasons, LAMBDA k : k.word \in words)
    IN  IF hits = <<>> THEN "generic_decline" ELSE Head(hits).reason

ChargeResult(body) ==
    IF body.code /\ body.flag THEN Ended("success")
    ELSE LET reason == MapFailureReason(body.words)
         IN  [status |-> IF reason = "requires_action" THEN reason ELSE "failed",
              reason |-> reason]

TransferResult(body) ==
    CASE body.status = "SUCCESS" -> Ended("success")
      [] body.status \in {"PENDING_BILLING", "PROCESSING"} -> Ended("pending")
      [] body.status = "INSUFFICIENT_BALANCE" ->
            [status |-> "failed", reason |-> "insufficient_funds"]
      [] OTHER -> [status |-> "failed", reason |-> "processing_error"]

VerifyResult(body) ==
    CASE body.status = "SUCCESS" -> Ended("success")
      [] body.status = "REFUND" -> [status |-> "refunded", reason |-> "generic_decline"]
      [] body.status = "PAYMENT_FAILED" -> [status |-> "failed", reason |-> "generic_decline"]
      [] OTHER -> Ended("pending")

VerifyCheckoutResult(body) ==
    IF body.flag THEN Ended("success")
    ELSE [status |-> "failed", reason |-> "generic_decline"]

DebitResult(body) == Ended(IF body.code /\ body.flag THEN "success" ELSE "failed")

\* A refusal of the two creations is an exception; a checkout needs its link.
CheckoutResult(body) == Ended(IF body.code /\ body.flag THEN "created" ELSE "error")
MandateResult(body) == Ended(IF body.code THEN "created" ELSE "error")

\* The two reads take what the body holds, code or no code.
ReadResult == Ended("read")

Result(m, body) ==
    CASE m = "charge_tokenized_card" -> ChargeResult(body)
      [] m = "transfer" -> TransferResult(body)
      [] m = "verify_transaction" -> VerifyResult(body)
      [] m = "verify_checkout_transaction" -> VerifyCheckoutResult(body)
      [] m = "debit_mandate" -> DebitResult(body)
      [] m = "initiate_checkout" -> CheckoutResult(body)
      [] m = "create_direct_debit_mandate" -> MandateResult(body)
      [] OTHER -> ReadResult
---------------------------------------------------------------------------
(* Tokens. *)

TokenIsFresh == cached # NoToken /\ fresh

Begin(c, m) ==
    /\ at[c] = "idle"
    /\ at' = [at EXCEPT ![c] = "start"]
    /\ method' = [method EXCEPT ![c] = m]
    /\ processed' = [processed EXCEPT ![c] = 0]
    /\ reply' = [reply EXCEPT ![c] = Ended("none")]
    /\ UNCHANGED <<tokenVars, revoked, using, again, ages, failures>>

\* With a token in hand the request is sent before the next await.
Proceed(c, token) ==
    /\ at' = [at EXCEPT ![c] = "sending"]
    /\ using' = [using EXCEPT ![c] = token]

\* _ensure_token before the lock.
Ensure(c) ==
    /\ at[c] = "start"
    /\ IF TokenIsFresh THEN Proceed(c, cached)
       ELSE at' = [at EXCEPT ![c] = "locking"] /\ UNCHANGED using
    /\ UNCHANGED <<tokenVars, revoked, method, again, processed, reply, ages, failures>>

\* ... and inside it, where another coroutine may have refreshed the token.
Acquire(c) ==
    /\ at[c] = "locking" /\ lock = Nobody
    /\ IF TokenIsFresh
       THEN Proceed(c, cached) /\ UNCHANGED lock
       ELSE /\ at' = [at EXCEPT ![c] = "fetching"] /\ lock' = c
            /\ UNCHANGED using
    /\ UNCHANGED <<cached, fresh, issued, revoked, method, again, processed, reply,
                   ages, failures>>

\* _fetch_token: its lifetime may be shorter than the leeway.
Issue(c, tooShort) ==
    /\ at[c] = "fetching"
    /\ tooShort => ages < MaxAges
    /\ ages' = IF tooShort THEN ages + 1 ELSE ages
    /\ issued' = issued + 1
    /\ cached' = issued + 1 /\ fresh' = ~tooShort
    /\ lock' = Nobody
    /\ Proceed(c, issued + 1)
    /\ UNCHANGED <<revoked, method, again, processed, reply, failures>>

\* A call's local variables go with it.
End(c, result) ==
    /\ at' = [at EXCEPT ![c] = "idle"]
    /\ using' = [using EXCEPT ![c] = NoToken]
    /\ again' = [again EXCEPT ![c] = FALSE]
    /\ reply' = [reply EXCEPT ![c] = result]

\* mutant: the lock is taken and let go by hand, and an exception skips it.
FetchFailsHolding(c, error) ==
    /\ at[c] = "fetching" /\ failures < MaxFailures
    /\ error \in {"auth", "down"}
    /\ failures' = failures + 1
    /\ End(c, Ended(error))
    /\ UNCHANGED <<tokenVars, revoked, method, processed, ages>>

\* The token request fails, or is answered without a token.
FetchFails(c, error) ==
    /\ at[c] = "fetching" /\ failures < MaxFailures
    /\ error \in {"auth", "down"}
    /\ failures' = failures + 1
    /\ lock' = Nobody
    /\ End(c, Ended(error))
    /\ UNCHANGED <<cached, fresh, issued, revoked, method, processed, ages>>
---------------------------------------------------------------------------
(* Requests. *)

Accepted(c) == at[c] = "sending" /\ using[c] \notin revoked
Refused(c) == at[c] = "sending" /\ using[c] \in revoked

\* Nomba carries the request out and its answer arrives.
Answer(c, result) ==
    /\ Accepted(c)
    /\ processed' = [processed EXCEPT ![c] = @ + 1]
    /\ End(c, result)
    /\ UNCHANGED <<tokenVars, revoked, method, ages, failures>>

\* mutant: every ProviderError is tried again, and not the 401 alone.
FailAgain(c, carriedOut) ==
    /\ Accepted(c) /\ failures < MaxFailures
    /\ failures' = failures + 1
    /\ processed' = [processed EXCEPT ![c] = IF carriedOut THEN @ + 1 ELSE @]
    /\ cached' = IF again[c] THEN cached ELSE NoToken
    /\ IF again[c] THEN End(c, Ended("down"))
       ELSE /\ again' = [again EXCEPT ![c] = TRUE]
            /\ at' = [at EXCEPT ![c] = "start"]
            /\ UNCHANGED <<using, reply>>
    /\ UNCHANGED <<fresh, issued, lock, revoked, method, ages>>

\* A timeout, a broken connection, a 5xx: carried out or not, nobody knows.
Fail(c, carriedOut) ==
    /\ Accepted(c) /\ failures < MaxFailures
    /\ failures' = failures + 1
    /\ processed' = [processed EXCEPT ![c] = IF carriedOut THEN @ + 1 ELSE @]
    /\ End(c, Ended("down"))
    /\ UNCHANGED <<tokenVars, revoked, method, ages>>

\* mutant: the second try sends whatever token is still cached.
UnauthorizedKeeps(c) ==
    /\ Refused(c)
    /\ IF again[c] THEN End(c, Ended("auth"))
       ELSE /\ again' = [again EXCEPT ![c] = TRUE]
            /\ at' = [at EXCEPT ![c] = "start"]
            /\ UNCHANGED <<using, reply>>
    /\ UNCHANGED <<tokenVars, revoked, method, processed, ages, failures>>

\* A 401: _authed_request drops whatever token is cached by now, once.
Unauthorized(c) ==
    /\ Refused(c)
    /\ IF again[c] THEN End(c, Ended("auth")) /\ UNCHANGED cached
       ELSE /\ cached' = NoToken
            /\ again' = [again EXCEPT ![c] = TRUE]
            /\ at' = [at EXCEPT ![c] = "start"]
            /\ UNCHANGED <<using, reply>>
    /\ UNCHANGED <<fresh, issued, lock, revoked, method, processed, ages, failures>>

\* fetch_transactions looks for a 5xx and for nothing else: a body without
\* results is an empty page, and a body that is not JSON an error.  So with a 401,
UnauthorizedPage ==
    /\ Refused(Lister)
    /\ \E status \in {"empty", "error"} : End(Lister, Ended(status))
    /\ UNCHANGED <<tokenVars, revoked, method, processed, ages, failures>>

\* ... and with any other 4xx: a request, or a cursor, that Nomba does not take.
RefusedPage ==
    /\ Accepted(Lister) /\ failures < MaxFailures
    /\ failures' = failures + 1
    /\ \E status \in {"empty", "error"} : End(Lister, Ended(status))
    /\ UNCHANGED <<tokenVars, revoked, method, processed, ages>>

Call(c) ==
    \/ \E m \in Methods : Begin(c, m)
    \/ \E body \in Bodies : Answer(c, Result(method[c], body))
    \/ Unauthorized(c)

Transport(c) ==
    \/ Ensure(c)
    \/ Acquire(c)
    \/ \E tooShort \in BOOLEAN : Issue(c, tooShort)
    \/ \E error \in {"auth", "down"} : FetchFails(c, error)
    \/ \E carriedOut \in BOOLEAN : Fail(c, carriedOut)

\* Nomba revokes a token; time brings the cached one near its expiry.
Revoke ==
    /\ Cardinality(revoked) < MaxRevocations
    /\ \E t \in (1 .. issued) \ revoked : revoked' = revoked \cup {t}
    /\ UNCHANGED <<tokenVars, callVars, ages, failures>>

Age ==
    /\ TokenIsFresh /\ ages < MaxAges
    /\ fresh' = FALSE
    /\ ages' = ages + 1
    /\ UNCHANGED <<cached, issued, lock, revoked, callVars, failures>>
---------------------------------------------------------------------------
(* Properties. *)

\* While no request fails, the token request among them, a call ends in an
\* authentication error only if two tokens were revoked: a single revocation is survived whatever
\* the other coroutines drop and refresh meanwhile (_authed_request).
SurvivesRevocation ==
    \A c \in Callers :
        reply[c].status = "auth" /\ failures = 0 => \E s, t \in revoked : s # t

\* Whatever token it ends up with, a call is carried out at most once; a call
\* that got a result was carried out, one that ended in an authentication error
\* was not ("a retried call cannot double-charge", base.py).
CarriedOutOnce ==
    \A c \in Callers :
        /\ processed[c] <= 1
        /\ reply[c].status = "auth" => processed[c] = 0
        /\ reply[c].status \notin {"none", "auth", "down"} => processed[c] = 1
===========================================================================
