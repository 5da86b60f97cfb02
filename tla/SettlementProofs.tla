-------------------------- MODULE SettlementProofs --------------------------
(***************************************************************************)
(* Theorems about the adapter's token and requests, as Settlement uses     *)
(* them, for every number of coroutines, revocations, failures and runs,   *)
(* and about the report of the reconciliation.                             *)
(***************************************************************************)
EXTENDS Settlement, SequenceTheorems, WellFoundedInduction, TLAPS

Reached == {"read", "created", "success", "pending", "requires_action", "failed",
            "refunded", "error", "page", "empty"}

\* What is the coroutines' together.
SharedOK ==
    /\ cached \in {NoToken} \cup 1 .. issued
    /\ fresh \in BOOLEAN /\ issued \in Nat /\ revoked \subseteq 1 .. issued
    /\ lock \in {Nobody} \cup Coroutines
    /\ at \in [Coroutines -> {"idle", "start", "locking", "fetching", "sending"}]
    /\ using \in [Coroutines -> {NoToken} \cup 1 .. issued]
    /\ again \in [Coroutines -> BOOLEAN]
    /\ processed \in [Coroutines -> Nat]
    /\ reply = [c \in Coroutines |-> reply[c]]
    /\ failures \in Nat

\* In its second try a coroutine has seen a token revoked, and will send, or
\* sends, a later one.
SecondTry(c) ==
    again[c] => \E t \in revoked :
        /\ at[c] \in {"start", "locking", "fetching"} => cached = NoToken \/ cached > t
        /\ at[c] = "sending" => using[c] > t

TwoRevoked == \E s, t \in revoked : s # t

CoroutineOK(c) ==
    /\ lock = c <=> at[c] = "fetching"
    /\ reply[c].status \in Statuses
    /\ at[c] = "idle" => ~again[c]
    /\ at[c] = "sending" => using[c] \in 1 .. issued
    /\ SecondTry(c)
    /\ reply[c].status = "auth" /\ failures = 0 => TwoRevoked

\* A call that is under way was not carried out; one that ended was, if it got
\* a result, and was not, if it was refused.
CallOK(c) ==
    /\ processed[c] <= 1
    /\ at[c] # "idle" => processed[c] = 0 /\ reply[c].status = "none"
    /\ reply[c].status = "auth" => processed[c] = 0
    /\ reply[c].status \in Reached => processed[c] = 1

AdapterInv ==
    /\ SharedOK
    /\ \A c \in Coroutines : CoroutineOK(c)
    /\ \A c \in Callers : CallOK(c)
-----------------------------------------------------------------------------

\* Whatever a body says, it is neither an authentication error nor a failed
\* transport.
LEMMA ResultReached ==
    ASSUME NEW m, NEW body
    PROVE  Result(m, body).status \in Reached
<1>1. ChargeResult(body).status \in Reached
    BY DEF ChargeResult, Ended, Reached
<1>2. TransferResult(body).status \in Reached
    BY DEF TransferResult, Ended, Reached
<1>3. VerifyResult(body).status \in Reached
    BY DEF VerifyResult, Ended, Reached
<1>4. /\ VerifyCheckoutResult(body).status \in Reached
      /\ DebitResult(body).status \in Reached
      /\ CheckoutResult(body).status \in Reached
      /\ MandateResult(body).status \in Reached
      /\ ReadResult.status \in Reached
    BY DEF VerifyCheckoutResult, DebitResult, CheckoutResult, MandateResult, ReadResult,
           Ended, Reached
<1> QED BY <1>1, <1>2, <1>3, <1>4 DEF Result

\* What one coroutine does to the token does not undo what another has seen.
LEMMA OthersKept ==
    ASSUME AdapterAssumption, SharedOK, SharedOK', NEW q \in Coroutines, CoroutineOK(q),
           q \in Callers => CallOK(q),
           UNCHANGED <<at[q], using[q], again[q], processed[q], reply[q]>>,
           cached' \in {cached, NoToken, issued + 1}, revoked \subseteq revoked',
           issued <= issued', failures <= failures', lock' = q <=> lock = q
    PROVE  CoroutineOK(q)' /\ (q \in Callers => CallOK(q)')
<1>1. SecondTry(q)'
  <2>1. SUFFICES ASSUME again[q]
                 PROVE  \E t \in revoked' :
                          /\ at[q] \in {"start", "locking", "fetching"} =>
                                cached' = NoToken \/ cached' > t
                          /\ at[q] = "sending" => using[q] > t
      BY DEF SecondTry
  <2>2. PICK t \in revoked : /\ at[q] \in {"start", "locking", "fetching"} =>
                                   cached = NoToken \/ cached > t
                             /\ at[q] = "sending" => using[q] > t
      BY <2>1 DEF CoroutineOK, SecondTry
  <2>3. t \in Nat /\ t <= issued /\ issued \in Nat
      BY DEF SharedOK
  <2> QED BY <2>2, <2>3
<1>2. TwoRevoked => TwoRevoked'
    BY DEF TwoRevoked
<1>3. failures' = 0 => failures = 0
    BY DEF SharedOK
<1>4. at[q] = "sending" => using[q] \in 1 .. issued'
    BY DEF CoroutineOK, SharedOK
<1> QED BY <1>1, <1>2, <1>3, <1>4 DEF CoroutineOK, CallOK

\* A step of one coroutine keeps the invariant if its own part of it does.
LEMMA CoroutineStep ==
    ASSUME AdapterAssumption, AdapterInv, SharedOK', NEW c \in Coroutines, CoroutineOK(c)',
           c \in Callers => CallOK(c)',
           \A q \in Coroutines \ {c} :
              /\ UNCHANGED <<at[q], using[q], again[q], processed[q], reply[q]>>
              /\ lock' = q <=> lock = q,
           cached' \in {cached, NoToken, issued + 1}, revoked \subseteq revoked',
           issued <= issued', failures <= failures'
    PROVE  AdapterInv'
<1>1. ASSUME NEW q \in Coroutines
      PROVE  CoroutineOK(q)' /\ (q \in Callers => CallOK(q)')
  <2>1. CASE q = c
      BY <2>1
  <2>2. CASE q # c
      BY <2>2, OthersKept DEF AdapterInv
  <2> QED BY <2>1, <2>2
<1> QED BY <1>1 DEF AdapterInv, Coroutines

LEMMA BeginOK ==
    ASSUME AdapterAssumption, AdapterInv, NEW c \in Coroutines, NEW m, Begin(c, m)
    PROVE  AdapterInv'
<1> USE DEF Begin, tokenVars
<1>1. /\ at[c] = "idle" /\ at' = [at EXCEPT ![c] = "start"]
      /\ reply' = [reply EXCEPT ![c] = Ended("none")]
      /\ processed' = [processed EXCEPT ![c] = 0]
      /\ UNCHANGED <<cached, fresh, issued, lock, revoked, using, again, failures>>
    OBVIOUS
<1>2. SharedOK'
    BY <1>1 DEF AdapterInv, SharedOK
<1>3. CoroutineOK(c)' /\ CallOK(c)'
    BY <1>1 DEF AdapterInv, SharedOK, CoroutineOK, CallOK, SecondTry, Ended, Statuses, Reached
<1> QED BY <1>1, <1>2, <1>3, CoroutineStep DEF AdapterInv, SharedOK

\* A coroutine goes on with the cached token.
LEMMA ProceedOK ==
    ASSUME AdapterAssumption, AdapterInv, NEW c \in Coroutines, at[c] \in {"start", "locking"},
           TokenIsFresh, Proceed(c, cached),
           UNCHANGED <<tokenVars, revoked, again, processed, reply, failures>>
    PROVE  AdapterInv'
<1>1. /\ at' = [at EXCEPT ![c] = "sending"]
      /\ using' = [using EXCEPT ![c] = cached]
      /\ cached # NoToken
      /\ UNCHANGED <<cached, fresh, issued, lock, revoked, again, processed, reply, failures>>
    BY DEF Proceed, TokenIsFresh, tokenVars
<1>2. SharedOK'
    BY <1>1 DEF AdapterInv, SharedOK
<1>3. CoroutineOK(c)'
  <2>1. SecondTry(c)'
      BY <1>1 DEF AdapterInv, SharedOK, CoroutineOK, SecondTry
  <2> QED BY <1>1, <2>1 DEF AdapterInv, SharedOK, CoroutineOK, TwoRevoked
<1>4. c \in Callers => CallOK(c)'
    BY <1>1 DEF AdapterInv, SharedOK, CallOK
<1> QED BY <1>1, <1>2, <1>3, <1>4, CoroutineStep DEF AdapterInv, SharedOK

\* A coroutine waits for the lock, or takes it to fetch a token.
LEMMA WaitOK ==
    ASSUME AdapterAssumption, AdapterInv, NEW c \in Coroutines,
           \/ at[c] = "start" /\ at' = [at EXCEPT ![c] = "locking"] /\ UNCHANGED lock
           \/ /\ at[c] = "locking" /\ lock = Nobody
              /\ at' = [at EXCEPT ![c] = "fetching"] /\ lock' = c,
           UNCHANGED <<cached, fresh, issued, revoked, using, again, processed, reply, failures>>
    PROVE  AdapterInv'
<1>1. Nobody \notin Coroutines
    BY DEF AdapterAssumption
<1>2. SharedOK'
    BY DEF AdapterInv, SharedOK
<1>3. CoroutineOK(c)'
  <2>1. at'[c] \in {"locking", "fetching"} /\ (lock' = c <=> at'[c] = "fetching")
      BY <1>1 DEF AdapterInv, SharedOK, CoroutineOK
  <2>2. SecondTry(c)'
      BY <2>1 DEF AdapterInv, SharedOK, CoroutineOK, SecondTry
  <2> QED BY <2>1, <2>2 DEF AdapterInv, SharedOK, CoroutineOK, TwoRevoked
<1>4. c \in Callers => CallOK(c)'
    BY DEF AdapterInv, SharedOK, CallOK
<1> QED BY <1>1, <1>2, <1>3, <1>4, CoroutineStep DEF AdapterInv, SharedOK

\* A new token is later than any that was revoked before.
LEMMA IssueOK ==
    ASSUME AdapterAssumption, AdapterInv, NEW c \in Coroutines, NEW tooShort \in BOOLEAN,
           Issue(c, tooShort)
    PROVE  AdapterInv'
<1>1. /\ at[c] = "fetching" /\ issued' = issued + 1 /\ cached' = issued + 1
      /\ fresh' = ~tooShort /\ lock' = Nobody
      /\ at' = [at EXCEPT ![c] = "sending"] /\ using' = [using EXCEPT ![c] = issued + 1]
      /\ UNCHANGED <<revoked, again, processed, reply, failures>>
    BY DEF Issue, Proceed
<1>2. issued \in Nat /\ issued' \in Nat /\ 1 .. issued \subseteq 1 .. issued'
      /\ issued + 1 \in 1 .. issued'
    BY <1>1 DEF AdapterInv, SharedOK
<1>3. SharedOK'
    BY <1>1, <1>2 DEF AdapterInv, SharedOK
<1>4. Nobody \notin Coroutines /\ lock = c
    BY <1>1 DEF AdapterAssumption, AdapterInv, CoroutineOK
<1>5. CoroutineOK(c)'
  <2>1. at'[c] = "sending" /\ using'[c] = issued + 1
      BY <1>1 DEF AdapterInv, SharedOK
  <2>2. SecondTry(c)'
      BY <1>1, <2>1 DEF AdapterInv, SharedOK, CoroutineOK, SecondTry
  <2> QED BY <1>1, <1>2, <1>4, <2>1, <2>2 DEF AdapterInv, SharedOK, CoroutineOK, TwoRevoked
<1>6. c \in Callers => CallOK(c)'
    BY <1>1 DEF AdapterInv, SharedOK, CallOK
<1> QED BY <1>1, <1>2, <1>3, <1>4, <1>5, <1>6, CoroutineStep DEF AdapterInv, SharedOK

\* A call ends, and with it what its coroutine holds.
LEMMA EndOK ==
    ASSUME AdapterAssumption, AdapterInv, NEW c \in Coroutines, NEW result, End(c, result),
           at[c] # "idle", result.status \in Statuses,
           result.status = "auth" /\ failures' = 0 => TwoRevoked,
           processed' = processed \/ processed' = [processed EXCEPT ![c] = @ + 1],
           result.status = "auth" => processed' = processed,
           c \in Callers /\ result.status \in Reached
              => processed' = [processed EXCEPT ![c] = @ + 1],
           lock' = IF lock = c THEN Nobody ELSE lock,
           failures' \in {failures, failures + 1},
           UNCHANGED <<cached, fresh, issued, revoked>>
    PROVE  AdapterInv'
<1>1. /\ at' = [at EXCEPT ![c] = "idle"] /\ using' = [using EXCEPT ![c] = NoToken]
      /\ again' = [again EXCEPT ![c] = FALSE] /\ reply' = [reply EXCEPT ![c] = result]
    BY DEF End
<1>2. failures \in Nat /\ failures' \in Nat /\ failures <= failures'
    BY DEF AdapterInv, SharedOK
<1>3. SharedOK'
  <2>1. processed' \in [Coroutines -> Nat]
      BY DEF AdapterInv, SharedOK
  <2>2. reply' = [q \in Coroutines |-> reply'[q]]
      BY <1>1 DEF AdapterInv, SharedOK
  <2> QED BY <1>1, <1>2, <2>1, <2>2 DEF AdapterInv, SharedOK
<1>4. /\ at'[c] = "idle" /\ ~again'[c] /\ reply'[c] = result
      /\ processed'[c] \in {processed[c], processed[c] + 1} /\ processed[c] \in Nat
      /\ processed' = [processed EXCEPT ![c] = @ + 1] => processed'[c] = processed[c] + 1
    BY <1>1 DEF AdapterInv, SharedOK
<1>5. Nobody \notin Coroutines
    BY DEF AdapterAssumption
<1>6. CoroutineOK(c)'
    BY <1>4, <1>5 DEF AdapterInv, SharedOK, CoroutineOK, SecondTry, TwoRevoked
<1>7. ASSUME c \in Callers PROVE CallOK(c)'
  <2>1. processed[c] = 0
      BY <1>7 DEF AdapterInv, CallOK
  <2> QED BY <1>4, <1>7, <2>1 DEF CallOK
<1>8. \A q \in Coroutines \ {c} :
         /\ UNCHANGED <<at[q], using[q], again[q], processed[q], reply[q]>>
         /\ lock' = q <=> lock = q
    BY <1>1, <1>5 DEF AdapterInv, SharedOK
<1>9. issued <= issued'
    BY DEF AdapterInv, SharedOK
<1> QED BY <1>2, <1>3, <1>6, <1>7, <1>8, <1>9, CoroutineStep

LEMMA FetchFailsOK ==
    ASSUME AdapterAssumption, AdapterInv, NEW c \in Coroutines, NEW error, FetchFails(c, error)
    PROVE  AdapterInv'
<1>1. /\ at[c] = "fetching" /\ error \in {"auth", "down"} /\ End(c, Ended(error))
      /\ failures' = failures + 1 /\ lock' = Nobody
      /\ UNCHANGED <<cached, fresh, issued, revoked, processed>>
    BY DEF FetchFails
<1>2. lock = c /\ failures' # 0
    BY <1>1 DEF AdapterInv, CoroutineOK, SharedOK
<1>3. Ended(error).status = error
    BY DEF Ended
<1> QED BY <1>1, <1>2, <1>3, EndOK DEF Statuses, Reached

LEMMA AnswerOK ==
    ASSUME AdapterAssumption, AdapterInv, NEW c \in Coroutines, NEW result,
           result.status \in Reached, Answer(c, result)
    PROVE  AdapterInv'
<1>1. /\ at[c] = "sending" /\ End(c, result)
      /\ processed' = [processed EXCEPT ![c] = @ + 1]
      /\ UNCHANGED <<cached, fresh, issued, revoked, lock, failures>>
    BY DEF Answer, Accepted, tokenVars
<1>2. lock # c
    BY <1>1 DEF AdapterInv, CoroutineOK
<1> QED BY <1>1, <1>2, EndOK DEF Statuses, Reached

LEMMA FailOK ==
    ASSUME AdapterAssumption, AdapterInv, NEW c \in Coroutines, NEW carriedOut \in BOOLEAN,
           Fail(c, carriedOut)
    PROVE  AdapterInv'
<1>1. /\ at[c] = "sending" /\ End(c, Ended("down")) /\ failures' = failures + 1
      /\ UNCHANGED <<cached, fresh, issued, revoked, lock>>
    BY DEF Fail, Accepted, tokenVars
<1>2. processed' = processed \/ processed' = [processed EXCEPT ![c] = @ + 1]
  <2>1. CASE carriedOut
      BY <2>1 DEF Fail
  <2>2. CASE ~carriedOut
      BY <2>2 DEF Fail, AdapterInv, SharedOK
  <2> QED BY <2>1, <2>2
<1>3. lock # c
    BY <1>1 DEF AdapterInv, CoroutineOK
<1>4. Ended("down").status = "down"
    BY DEF Ended
<1> QED BY <1>1, <1>2, <1>3, <1>4, EndOK DEF Statuses, Reached

\* The second 401 of a call is about a second token.
LEMMA UnauthorizedOK ==
    ASSUME AdapterAssumption, AdapterInv, NEW c \in Coroutines, Unauthorized(c)
    PROVE  AdapterInv'
<1>1. /\ at[c] = "sending" /\ using[c] \in revoked /\ lock # c
      /\ UNCHANGED <<fresh, issued, revoked, lock, processed, failures>>
    BY DEF Unauthorized, Refused, AdapterInv, CoroutineOK
<1>2. using[c] \in 1 .. issued /\ issued \in Nat
    BY <1>1 DEF AdapterInv, CoroutineOK, SharedOK
<1>3. CASE again[c]
  <2>1. End(c, Ended("auth")) /\ UNCHANGED cached
      BY <1>3 DEF Unauthorized
  <2>2. TwoRevoked
    <3>1. PICK t \in revoked : using[c] > t
        BY <1>1, <1>3 DEF AdapterInv, CoroutineOK, SecondTry
    <3>2. using[c] # t
        BY <1>2, <3>1 DEF AdapterInv, SharedOK
    <3> QED BY <1>1, <3>2 DEF TwoRevoked
  <2>3. Ended("auth").status = "auth"
      BY DEF Ended
  <2> QED BY <1>1, <2>1, <2>2, <2>3, EndOK DEF Statuses, Reached
<1>4. CASE ~again[c]
  <2>1. /\ cached' = NoToken /\ again' = [again EXCEPT ![c] = TRUE]
        /\ at' = [at EXCEPT ![c] = "start"] /\ UNCHANGED <<using, reply>>
      BY <1>4 DEF Unauthorized
  <2>2. SharedOK'
      BY <1>1, <2>1 DEF AdapterInv, SharedOK
  <2>3. CoroutineOK(c)'
    <3>1. at'[c] = "start"
        BY <2>1 DEF AdapterInv, SharedOK
    <3>2. SecondTry(c)'
        BY <1>1, <2>1, <3>1 DEF SecondTry
    <3> QED BY <1>1, <2>1, <3>1, <3>2 DEF AdapterInv, SharedOK, CoroutineOK, TwoRevoked
  <2>4. c \in Callers => CallOK(c)'
      BY <1>1, <2>1 DEF AdapterInv, SharedOK, CallOK
  <2>5. \A q \in Coroutines \ {c} :
           /\ UNCHANGED <<at[q], using[q], again[q], processed[q], reply[q]>>
           /\ lock' = q <=> lock = q
      BY <1>1, <2>1 DEF AdapterInv, SharedOK
  <2>6. issued <= issued' /\ failures <= failures'
      BY <1>1 DEF AdapterInv, SharedOK
  <2> QED BY <1>1, <2>1, <2>2, <2>3, <2>4, <2>5, <2>6, CoroutineStep
<1> QED BY <1>3, <1>4

LEMMA UnauthorizedPageOK ==
    ASSUME AdapterAssumption, AdapterInv, UnauthorizedPage
    PROVE  AdapterInv'
<1>1. PICK status \in {"empty", "error"} : End(Lister, Ended(status))
    BY DEF UnauthorizedPage
<1>2. /\ at[Lister] = "sending" /\ Lister \in Coroutines /\ Lister \notin Callers
      /\ UNCHANGED <<cached, fresh, issued, revoked, lock, processed, failures>>
    BY DEF UnauthorizedPage, Refused, tokenVars, Coroutines, AdapterAssumption
<1>3. lock # Lister
    BY <1>2 DEF AdapterInv, CoroutineOK
<1>4. Ended(status).status = status
    BY DEF Ended
<1> QED BY <1>1, <1>2, <1>3, <1>4, EndOK DEF Statuses, Reached

LEMMA RefusedPageOK ==
    ASSUME AdapterAssumption, AdapterInv, RefusedPage
    PROVE  AdapterInv'
<1>1. PICK status \in {"empty", "error"} : End(Lister, Ended(status))
    BY DEF RefusedPage
<1>2. /\ at[Lister] = "sending" /\ Lister \in Coroutines /\ Lister \notin Callers
      /\ failures' = failures + 1
      /\ UNCHANGED <<cached, fresh, issued, revoked, lock, processed>>
    BY DEF RefusedPage, Accepted, tokenVars, Coroutines, AdapterAssumption
<1>3. lock # Lister
    BY <1>2 DEF AdapterInv, CoroutineOK
<1>4. Ended(status).status = status
    BY DEF Ended
<1> QED BY <1>1, <1>2, <1>3, <1>4, EndOK DEF Statuses, Reached

\* The job consumes the reply to its coroutine.
LEMMA ConsumeOK ==
    ASSUME AdapterAssumption, AdapterInv, Consume
    PROVE  AdapterInv'
<1>1. Lister \in Coroutines /\ Lister \notin Callers
    BY DEF Coroutines, AdapterAssumption
<1>2. /\ reply' = [reply EXCEPT ![Lister] = Ended("none")]
      /\ UNCHANGED <<cached, fresh, issued, revoked, lock, at, using, again, processed, failures>>
    BY DEF Consume, tokenVars
<1>3. SharedOK'
    BY <1>1, <1>2 DEF AdapterInv, SharedOK
<1>4. CoroutineOK(Lister)'
  <2>1. reply'[Lister].status = "none"
      BY <1>1, <1>2 DEF AdapterInv, SharedOK, Ended
  <2> QED BY <1>1, <1>2, <2>1 DEF AdapterInv, CoroutineOK, SecondTry, Statuses
<1> QED BY <1>1, <1>2, <1>3, <1>4, CoroutineStep DEF AdapterInv, SharedOK

\* Nomba and time change what is outside the coroutines.
LEMMA WorldOK ==
    ASSUME AdapterAssumption, AdapterInv, UNCHANGED <<cached, issued, lock, callVars, failures>>,
           fresh' \in BOOLEAN, revoked' \subseteq 1 .. issued, revoked \subseteq revoked'
    PROVE  AdapterInv'
<1>1. SharedOK'
    BY DEF AdapterInv, SharedOK, callVars
<1>2. ASSUME NEW q \in Coroutines
      PROVE  CoroutineOK(q)' /\ (q \in Callers => CallOK(q)')
    BY <1>1, OthersKept DEF AdapterInv, SharedOK, callVars
<1> QED BY <1>1, <1>2 DEF AdapterInv, Coroutines

LEMMA TransportOK ==
    ASSUME AdapterAssumption, AdapterInv, NEW c \in Coroutines, Transport(c)
    PROVE  AdapterInv'
<1>1. CASE Ensure(c)
  <2>1. CASE TokenIsFresh
      BY <1>1, <2>1, ProceedOK DEF Ensure
  <2>2. CASE ~TokenIsFresh
      BY <1>1, <2>2, WaitOK DEF Ensure, tokenVars
  <2> QED BY <2>1, <2>2
<1>2. CASE Acquire(c)
  <2>1. CASE TokenIsFresh
      BY <1>2, <2>1, ProceedOK DEF Acquire, tokenVars
  <2>2. CASE ~TokenIsFresh
      BY <1>2, <2>2, WaitOK DEF Acquire
  <2> QED BY <2>1, <2>2
<1>3. CASE \E tooShort \in BOOLEAN : Issue(c, tooShort)
    BY <1>3, IssueOK
<1>4. CASE \E error \in {"auth", "down"} : FetchFails(c, error)
    BY <1>4, FetchFailsOK
<1>5. CASE \E carriedOut \in BOOLEAN : Fail(c, carriedOut)
    BY <1>5, FailOK
<1> QED BY <1>1, <1>2, <1>3, <1>4, <1>5 DEF Transport

LEMMA CallStepOK ==
    ASSUME AdapterAssumption, AdapterInv, NEW c \in Callers, Call(c)
    PROVE  AdapterInv'
<1>1. c \in Coroutines
    BY DEF Coroutines
<1>2. CASE \E m \in Methods : Begin(c, m)
    BY <1>1, <1>2, BeginOK
<1>3. CASE \E body \in Bodies : Answer(c, Result(method[c], body))
    BY <1>1, <1>3, AnswerOK, ResultReached
<1>4. CASE Unauthorized(c)
    BY <1>1, <1>4, UnauthorizedOK
<1> QED BY <1>2, <1>3, <1>4 DEF Call

StageOK == stage \in {"waiting", "paging", "comparing", "done"} /\ clean \in BOOLEAN

LEMMA SettlementInit == ASSUME AdapterAssumption, Init PROVE AdapterInv /\ StageOK
<1>1. SharedOK
    BY DEF Init, AdapterInit, SharedOK
<1>2. ASSUME NEW c \in Coroutines PROVE CoroutineOK(c) /\ CallOK(c)
    BY DEF Init, AdapterInit, CoroutineOK, CallOK, SecondTry, Statuses, Reached, Ended,
           AdapterAssumption
<1> QED BY <1>1, <1>2 DEF AdapterInv, StageOK, Init, Coroutines

LEMMA SettlementStep ==
    ASSUME AdapterAssumption, AdapterInv, StageOK, [Next]_vars
    PROVE  AdapterInv' /\ StageOK'
<1>1. Lister \in Coroutines /\ \A c \in Callers : c \in Coroutines
    BY DEF Coroutines
<1>2. ASSUME UNCHANGED adapterVars PROVE AdapterInv'
    BY <1>2 DEF adapterVars, tokenVars, callVars, AdapterInv, SharedOK, CoroutineOK, CallOK,
                SecondTry, TwoRevoked
<1>3. CASE StartRun \/ Enough \/ Finish
    BY <1>2, <1>3 DEF StartRun, Enough, Finish, StageOK
<1>4. CASE AskPage
    BY <1>1, <1>4, BeginOK DEF AskPage, jobVars, StageOK
<1>5. CASE AnswerPage
  <2>1. Ended("page").status \in Reached
      BY DEF Ended, Reached
  <2> QED BY <1>1, <1>5, <2>1, AnswerOK DEF AnswerPage, jobVars, StageOK
<1>6. CASE TakePage \/ LosePage
    BY <1>6, ConsumeOK DEF TakePage, LosePage, StageOK
<1>7. CASE ListerTransport /\ UNCHANGED <<theirs, attempts, jobVars>>
    BY <1>1, <1>7, TransportOK, UnauthorizedPageOK, RefusedPageOK DEF ListerTransport, jobVars, StageOK
<1>8. CASE Others
  <2>1. CASE \E c \in Callers : Call(c) \/ Transport(c)
      BY <1>1, <1>8, <2>1, CallStepOK, TransportOK DEF Others, jobVars, StageOK
  <2>2. CASE Revoke
      BY <1>8, <2>2, WorldOK DEF Revoke, tokenVars, AdapterInv, SharedOK, Others, jobVars, StageOK
  <2>3. CASE Age
      BY <1>8, <2>3, WorldOK DEF Age, AdapterInv, SharedOK, Others, jobVars, StageOK
  <2> QED BY <1>8, <2>1, <2>2, <2>3 DEF Others
<1>9. CASE UNCHANGED vars
    BY <1>2, <1>9 DEF vars, jobVars, StageOK
<1> QED BY <1>3, <1>4, <1>5, <1>6, <1>7, <1>8, <1>9 DEF Next, Job
-----------------------------------------------------------------------------

\* SettlementTypeOK for every instance: in particular the token's lock is held by
\* the one coroutine that fetches a token, and by nobody after a failed fetch.
THEOREM SettlementTypeCorrect == Spec => []SettlementTypeOK
<1> USE AdapterAssumption
<1>1. AdapterInv /\ StageOK => SettlementTypeOK
    BY DEF AdapterInv, SharedOK, CoroutineOK, StageOK, SettlementTypeOK
<1> QED BY <1>1, SettlementInit, SettlementStep, PTL DEF Spec

\* SurvivesRevocation for every instance: however many coroutines drop and
\* refresh the token, a call fails for authentication only when two tokens were
\* revoked or some request failed.
THEOREM RevocationIsSurvived == Spec => []SurvivesRevocation
<1> USE AdapterAssumption
<1>1. AdapterInv /\ StageOK => SurvivesRevocation
    BY DEF AdapterInv, CoroutineOK, TwoRevoked, SurvivesRevocation, Coroutines
<1> QED BY <1>1, SettlementInit, SettlementStep, PTL DEF Spec

\* CarriedOutOnce for every instance: the second try after a 401 never repeats
\* a request that was carried out.
THEOREM CallsAreCarriedOutOnce == Spec => []CarriedOutOnce
<1> USE AdapterAssumption
<1>1. AdapterInv /\ StageOK => CarriedOutOnce
    BY DEF AdapterInv, CoroutineOK, CallOK, CarriedOutOnce, Coroutines, Statuses, Reached
<1> QED BY <1>1, SettlementInit, SettlementStep, PTL DEF Spec
-----------------------------------------------------------------------------
(* The report: what the job has listed is the beginning of Nomba's list, and *)
(* comparing by reference finds what a clerk would.                          *)

\* All of a listing that fits the limit was listed when the job compares.
WholeList == clean /\ Len(theirs) <= MaxTxns

PagesOK ==
    /\ theirs \in Listings /\ attempts \in Ledgers
    /\ cursor \in 0 .. Len(theirs)
    /\ clean => got = SubSeq(theirs, 1, cursor)
    /\ stage = "comparing" /\ WholeList => cursor = Len(theirs)
    /\ stage = "done" /\ WholeList => report = Compare(theirs, attempts)

LEMMA MinOfTwo ==
    ASSUME NEW a \in Int, NEW b \in Int
    PROVE  Min({a, b}) = IF a <= b THEN a ELSE b
<1> DEFINE m == IF a <= b THEN a ELSE b
<1>1. m \in {a, b} /\ \A y \in {a, b} : m <= y
    OBVIOUS
<1>2. \A x \in {a, b} : (\A y \in {a, b} : x <= y) => x = m
    OBVIOUS
<1> QED BY <1>1, <1>2 DEF Min

\* Of some of the numbers up to n one is the highest.
LEMMA HighestExists ==
    ASSUME NEW n \in Nat, NEW S \in SUBSET (1 .. n), S # {}
    PROVE  \E x \in S : \A y \in S : x >= y
<1> DEFINE R == OpToRel(<, Nat)
           T == {n - i : i \in S}
<1>1. T \subseteq Nat /\ T # {}
    OBVIOUS
<1>2. IsWellFoundedOn(R, Nat)
    BY NatLessThanWellFounded
<1>3. \A x, y \in Nat : <<x, y>> \in R <=> x < y
    BY DEF OpToRel
<1> HIDE DEF R, T
<1>4. PICK m \in T : \A k \in T : <<k, m>> \notin R
    BY <1>1, <1>2, WFMin
<1>5. ASSUME NEW k \in T PROVE m <= k
  <2>1. k \in Nat /\ m \in Nat
      BY <1>1
  <2>2. ~(k < m)
      BY <1>3, <1>4, <2>1, Zenon
  <2> QED BY <2>1, <2>2
<1>6. PICK x \in S : m = n - x
    BY DEF T
<1>7. \A y \in S : x >= y
  <2>1. ASSUME NEW y \in S PROVE x >= y
    <3>1. n - y \in T
        BY DEF T
    <3> QED BY <1>5, <1>6, <3>1
  <2> QED BY <2>1
<1> QED BY <1>7

\* A listing is a sequence, whatever it lists.
LEMMA ListingIsSequence ==
    ASSUME PagesOK
    PROVE  theirs \in Seq(ToSet(theirs)) /\ Len(theirs) \in Nat
BY SettlementAssumption DEF SettlementAssumption, IsSequence, PagesOK

\* A page continues the list where the cursor stands, and only the last one is
\* short.
LEMMA PageContinues ==
    ASSUME PagesOK
    PROVE  /\ cursor + Len(Page(cursor)) \in 0 .. Len(theirs)
           /\ SubSeq(theirs, 1, cursor) \o Page(cursor) = SubSeq(theirs, 1, cursor + Len(Page(cursor)))
           /\ Len(Page(cursor)) < PageSize => cursor + Len(Page(cursor)) = Len(theirs)
<1> DEFINE n == Min({cursor + PageSize, Len(theirs)})
<1>1. theirs \in Seq(ToSet(theirs)) /\ Len(theirs) \in Nat /\ cursor \in 0 .. Len(theirs)
      /\ PageSize \in Nat \ {0}
    BY ListingIsSequence, SettlementAssumption DEF SettlementAssumption, PagesOK
<1>2. n = IF cursor + PageSize <= Len(theirs) THEN cursor + PageSize ELSE Len(theirs)
    BY <1>1, MinOfTwo
<1>3. Page(cursor) = SubSeq(theirs, cursor + 1, n)
    BY DEF Page
<1> HIDE DEF n
<1>4. n \in cursor .. Len(theirs)
    BY <1>1, <1>2
<1>5. \A i \in cursor + 1 .. n : theirs[i] \in ToSet(theirs)
    BY <1>1, <1>4
<1>6. Len(Page(cursor)) = IF cursor + 1 <= n THEN n - (cursor + 1) + 1 ELSE 0
    BY <1>1, <1>3, <1>4, <1>5, SubSeqProperties
<1>7. Len(Page(cursor)) = n - cursor
    BY <1>1, <1>4, <1>6
<1>8. SubSeq(theirs, 1, cursor) \o SubSeq(theirs, cursor + 1, n) = SubSeq(theirs, 1, n)
    BY <1>1, <1>4, ConcatAdjacentSubSeq
<1>9. cursor + Len(Page(cursor)) = n
    BY <1>1, <1>4, <1>7
<1>10. Len(Page(cursor)) < PageSize => n = Len(theirs)
    BY <1>1, <1>2, <1>4, <1>7
<1>11. cursor + Len(Page(cursor)) \in 0 .. Len(theirs)
    BY <1>1, <1>4, <1>9
<1>12. SubSeq(theirs, 1, cursor) \o Page(cursor) = SubSeq(theirs, 1, cursor + Len(Page(cursor)))
    BY <1>3, <1>8, <1>9, Zenon
<1> QED BY <1>9, <1>10, <1>11, <1>12

\* The list's first page is no longer than the list.
LEMMA FirstPageFits ==
    ASSUME PagesOK
    PROVE  0 + Len(Page(0)) \in 0 .. Len(theirs)
<1> DEFINE n == Min({0 + PageSize, Len(theirs)})
<1>1. theirs \in Seq(ToSet(theirs)) /\ Len(theirs) \in Nat /\ PageSize \in Nat \ {0}
    BY ListingIsSequence, SettlementAssumption DEF SettlementAssumption
<1>2. n = IF 0 + PageSize <= Len(theirs) THEN 0 + PageSize ELSE Len(theirs)
    BY <1>1, MinOfTwo
<1>3. Page(0) = SubSeq(theirs, 1, n)
    BY DEF Page
<1> HIDE DEF n
<1>4. n \in 0 .. Len(theirs)
    BY <1>1, <1>2
<1>5. \A i \in 1 .. n : theirs[i] \in ToSet(theirs)
    BY <1>1, <1>4
<1> QED BY <1>1, <1>3, <1>4, <1>5, SubSeqProperties

LEMMA PagesInit == ASSUME Init PROVE PagesOK
<1>1. theirs \in Listings /\ attempts \in Ledgers /\ stage = "waiting"
      /\ got = <<>> /\ cursor = 0 /\ clean = TRUE
    BY DEF Init
<1>2. theirs \in Seq(ToSet(theirs)) /\ Len(theirs) \in Nat
    BY <1>1, SettlementAssumption DEF SettlementAssumption, IsSequence
<1>3. SubSeq(theirs, 1, 0) = <<>>
    BY SubSeqEmpty
<1> QED BY <1>1, <1>2, <1>3 DEF PagesOK

LEMMA PagesStep ==
    ASSUME PagesOK, [Next]_vars
    PROVE  PagesOK'
<1>1. ASSUME UNCHANGED <<theirs, attempts, jobVars>> PROVE PagesOK'
    BY <1>1 DEF PagesOK, WholeList, jobVars
<1>2. theirs \in Seq(ToSet(theirs)) /\ Len(theirs) \in Nat /\ cursor \in 0 .. Len(theirs)
      /\ MaxTxns \in Nat
    BY ListingIsSequence, SettlementAssumption DEF SettlementAssumption, PagesOK
<1>3. CASE StartRun
  <2>1. SubSeq(theirs, 1, 0) = <<>>
      BY SubSeqEmpty
  <2> QED BY <1>2, <1>3, <2>1 DEF StartRun, PagesOK
<1>4. CASE Enough
  <2>1. /\ stage' = "comparing" /\ UNCHANGED <<theirs, attempts, got, cursor, clean, report>>
        /\ stage = "paging" /\ Len(got) >= MaxTxns
      BY <1>4 DEF Enough
  <2>2. ASSUME WholeList PROVE cursor = Len(theirs)
    <3>1. got = SubSeq(theirs, 1, cursor)
        BY <2>2 DEF PagesOK, WholeList
    <3>2. \A i \in 1 .. cursor : theirs[i] \in ToSet(theirs)
        BY <1>2
    <3>3. Len(got) = IF 1 <= cursor THEN cursor - 1 + 1 ELSE 0
        BY <1>2, <3>1, <3>2, SubSeqProperties
    <3> QED BY <1>2, <2>1, <2>2, <3>3 DEF WholeList
  <2> QED BY <2>1, <2>2 DEF PagesOK, WholeList
<1>5. CASE TakePage
  <2>1. PICK start \in {cursor, 0} :
          /\ got' = got \o Page(start) /\ cursor' = start + Len(Page(start))
          /\ clean' = (clean /\ start = cursor)
          /\ stage' = IF Len(Page(start)) < PageSize THEN "comparing" ELSE "paging"
      BY <1>5 DEF TakePage
  <2>2. stage = "paging" /\ UNCHANGED <<theirs, attempts, report>>
      BY <1>5 DEF TakePage
  <2>3. CASE start = cursor
      BY <2>1, <2>2, <2>3, PageContinues DEF PagesOK, WholeList
  <2>4. CASE start # cursor
    <3>1. start = 0 /\ ~clean'
        BY <2>1, <2>4
    <3>2. cursor' \in 0 .. Len(theirs)
        BY <2>1, <3>1, FirstPageFits
    <3> QED BY <2>1, <2>2, <3>1, <3>2 DEF PagesOK, WholeList
  <2> QED BY <2>3, <2>4
<1>6. CASE LosePage
    BY <1>6 DEF LosePage, PagesOK, WholeList
<1>7. CASE Finish
  <2>1. /\ report' = Compare(SubSeq(got, 1, Min({MaxTxns, Len(got)})), attempts)
        /\ stage = "comparing" /\ stage' = "done"
        /\ UNCHANGED <<theirs, attempts, got, cursor, clean>>
      BY <1>7 DEF Finish
  <2>2. ASSUME WholeList PROVE SubSeq(got, 1, Min({MaxTxns, Len(got)})) = theirs
    <3>1. got = SubSeq(theirs, 1, Len(theirs))
        BY <2>1, <2>2 DEF PagesOK, WholeList
    <3>2. got = theirs
        BY <1>2, <3>1, SubSeqFull
    <3>3. Min({MaxTxns, Len(got)}) = Len(theirs)
        BY <1>2, <2>2, <3>2, MinOfTwo DEF WholeList
    <3> QED BY <1>2, <3>2, <3>3, SubSeqFull
  <2> QED BY <2>1, <2>2 DEF PagesOK, WholeList
<1>8. CASE AskPage \/ AnswerPage \/ Others
            \/ (ListerTransport /\ UNCHANGED <<theirs, attempts, jobVars>>)
    BY <1>1, <1>8 DEF AskPage, AnswerPage, Others
<1>9. CASE UNCHANGED vars
    BY <1>1, <1>9 DEF vars
<1> QED BY <1>3, <1>4, <1>5, <1>6, <1>7, <1>8, <1>9 DEF Next, Job

\* The lookup by reference finds an attempt of the day that has it.
LEMMA LookupFinds ==
    ASSUME NEW l \in Ledgers, NEW ref, HasRef(l, ref)
    PROVE  \E i \in Ours(l) : l[i].ref = ref /\ OursByRef(l, ref) = l[i]
<1> DEFINE S == {i \in Ours(l) : l[i].ref = ref}
<1>1. l \in Seq(ToSet(l)) /\ Len(l) \in Nat /\ DOMAIN l = 1 .. Len(l)
    BY SettlementAssumption DEF SettlementAssumption, IsSequence
<1>2. S \subseteq 1 .. Len(l) /\ S # {}
    BY <1>1 DEF Ours, HasRef
<1>3. PICK i \in S : \A j \in S : i >= j
    BY <1>1, <1>2, HighestExists
<1>4. Max(S) \in S
    BY <1>3 DEF Max
<1> QED BY <1>4 DEF OursByRef

\* A transaction of the day is judged by an attempt that has its reference.
LEMMA JudgedByOne ==
    ASSUME NEW l \in Ledgers, NEW t, HasRef(l, t.ref)
    PROVE  \E i \in Ours(l) :
             /\ l[i].ref = t.ref
             /\ Judge(t, l) = IF AmountsMatch(t, l[i]) /\ StatusesMatch(t, l[i]) THEN {}
                 ELSE {Discrepancy(IF AmountsMatch(t, l[i]) THEN "status_mismatch"
                                   ELSE "amount_mismatch", t.ref)}
<1>1. PICK i \in Ours(l) : l[i].ref = t.ref /\ OursByRef(l, t.ref) = l[i]
    BY LookupFinds
<1>2. Judge(t, l) =
        IF ~AmountsMatch(t, l[i]) THEN {Discrepancy("amount_mismatch", t.ref)}
        ELSE IF ~StatusesMatch(t, l[i]) THEN {Discrepancy("status_mismatch", t.ref)}
        ELSE {}
    BY <1>1 DEF Judge
<1> QED BY <1>1, <1>2

Named == {t \in ToSet(theirs) : t.day = "yesterday" /\ t.ref # NoRef}
Mine == {attempts[i] : i \in Ours(attempts)}
Agree(t, a) == AmountsMatch(t, a) /\ StatusesMatch(t, a)
Mismatch(t, a) ==
    Discrepancy(IF AmountsMatch(t, a) THEN "status_mismatch" ELSE "amount_mismatch", t.ref)

\* The entries of the clerk's report, one by one.
LEMMA BooksEntry ==
    ASSUME NEW d
    PROVE  d \in Books <=>
             \/ \E t \in Named : /\ \A a \in Mine : a.ref # t.ref
                                 /\ d = Discrepancy("missing_in_ours", t.ref)
             \/ \E a \in Mine : /\ a.ref # NoRef /\ \A t \in Named : t.ref # a.ref
                                /\ d = Discrepancy("missing_in_nomba", a.ref)
             \/ \E a \in Mine, t \in Named :
                    t.ref = a.ref /\ ~Agree(t, a) /\ d = Mismatch(t, a)
BY DEF Books, Named, Mine, Agree, Mismatch

\* The entries of the job's report.
LEMMA CompareEntry ==
    ASSUME NEW d
    PROVE  d \in Compare(theirs, attempts) <=>
             \/ \E t \in Known(theirs) : d \in Judge(t, attempts)
             \/ \E a \in Mine : /\ a.ref # NoRef /\ \A t \in Known(theirs) : t.ref # a.ref
                                /\ d = Discrepancy("missing_in_nomba", a.ref)
<1>1. d \in Forward(theirs, attempts) <=> \E t \in Known(theirs) : d \in Judge(t, attempts)
    BY DEF Forward
<1>2. Unmatched(theirs, attempts) =
        {i \in Ours(attempts) :
            attempts[i].ref # NoRef /\ \A t \in Known(theirs) : t.ref # attempts[i].ref}
    BY DEF Unmatched, Matched, HasRef
<1>3. d \in Backward(theirs, attempts) <=>
        \E a \in Mine : /\ a.ref # NoRef /\ \A t \in Known(theirs) : t.ref # a.ref
                        /\ d = Discrepancy("missing_in_nomba", a.ref)
    BY <1>2 DEF Backward, Mine
<1> QED BY <1>1, <1>3 DEF Compare

\* Of a reference of the day, both know the same transactions.
LEMMA SameTransactions ==
    ASSUME NEW ref, OfTheDay(ref), NEW t, t.ref = ref
    PROVE  t \in Known(theirs) <=> t \in Named
BY DEF OfTheDay, Known, Named

LEMMA NothingInvented ==
    ASSUME attempts \in Ledgers, NEW d \in Compare(theirs, attempts), OfTheDay(d.ref)
    PROVE  d \in Books
<1>1. CASE \E t \in Known(theirs) : d \in Judge(t, attempts)
  <2>1. PICK t \in Known(theirs) : d \in Judge(t, attempts)
      BY <1>1
  <2>2. HasRef(attempts, t.ref) <=> \E a \in Mine : a.ref = t.ref
      BY DEF HasRef, Mine
  <2>3. CASE ~HasRef(attempts, t.ref)
    <3>1. d = Discrepancy("missing_in_ours", t.ref)
        BY <2>1, <2>3 DEF Judge
    <3>2. t \in Named
        BY <2>1, <3>1, SameTransactions DEF Discrepancy
    <3> QED BY <2>2, <2>3, <3>1, <3>2, BooksEntry
  <2>4. CASE HasRef(attempts, t.ref)
    <3>1. PICK i \in Ours(attempts) :
            /\ attempts[i].ref = t.ref
            /\ ~Agree(t, attempts[i]) /\ d = Mismatch(t, attempts[i])
        BY <2>1, <2>4, JudgedByOne DEF Agree, Mismatch
    <3>2. d.ref = t.ref
        BY <3>1 DEF Mismatch, Discrepancy
    <3>3. t \in Named /\ attempts[i] \in Mine
        BY <2>1, <3>1, <3>2, SameTransactions DEF Mine
    <3> QED BY <3>1, <3>3, BooksEntry
  <2> QED BY <2>3, <2>4
<1>2. ASSUME NEW a \in Mine, a.ref # NoRef, \A t \in Known(theirs) : t.ref # a.ref,
             d = Discrepancy("missing_in_nomba", a.ref)
      PROVE  d \in Books
  <2>1. \A t \in Named : t.ref # a.ref
      BY <1>2 DEF Named, Known
  <2> QED BY <1>2, <2>1, BooksEntry
<1> QED BY <1>1, <1>2, CompareEntry

LEMMA NothingMissed ==
    ASSUME attempts \in Ledgers, NEW d \in Books, OfTheDay(d.ref),
           d.kind = "missing_in_nomba" \/ OneAttempt(d.ref)
    PROVE  d \in Compare(theirs, attempts)
<1>1. ASSUME NEW t \in Named, \A a \in Mine : a.ref # t.ref,
             d = Discrepancy("missing_in_ours", t.ref)
      PROVE  d \in Compare(theirs, attempts)
  <2>1. ~HasRef(attempts, t.ref)
      BY <1>1 DEF HasRef, Mine
  <2>2. d \in Judge(t, attempts) /\ t \in Known(theirs)
      BY <1>1, <2>1 DEF Judge, Named, Known
  <2> QED BY <2>2, CompareEntry
<1>2. ASSUME NEW a \in Mine, a.ref # NoRef, \A t \in Named : t.ref # a.ref,
             d = Discrepancy("missing_in_nomba", a.ref)
      PROVE  d \in Compare(theirs, attempts)
  <2>1. d.ref = a.ref
      BY <1>2 DEF Discrepancy
  <2>2. \A t \in Known(theirs) : t.ref # a.ref
      BY <1>2, <2>1, SameTransactions
  <2> QED BY <1>2, <2>2, CompareEntry
<1>3. ASSUME NEW a \in Mine, NEW t \in Named, t.ref = a.ref, ~Agree(t, a), d = Mismatch(t, a)
      PROVE  d \in Compare(theirs, attempts)
  <2>1. d.ref = a.ref /\ d.kind # "missing_in_nomba"
      BY <1>3 DEF Mismatch, Discrepancy
  <2>2. PICK j \in Ours(attempts) : a = attempts[j]
      BY DEF Mine
  <2>3. HasRef(attempts, t.ref) /\ t \in Known(theirs)
      BY <1>3, <2>2 DEF HasRef, Named, Known
  <2>4. PICK i \in Ours(attempts) :
          /\ attempts[i].ref = t.ref
          /\ Judge(t, attempts) = IF Agree(t, attempts[i]) THEN {}
                                  ELSE {Mismatch(t, attempts[i])}
      BY <2>3, JudgedByOne DEF Agree, Mismatch
  <2>5. i = j
      BY <1>3, <2>1, <2>2, <2>4 DEF OneAttempt
  <2> QED BY <1>3, <2>2, <2>3, <2>4, <2>5, CompareEntry
<1> QED BY <1>1, <1>2, <1>3, BooksEntry

\* DayIsReported for every pair of ledgers, every page size and every
\* interleaving with the other coroutines: no reference need be unique.
THEOREM DaysAreReported == Spec => []DayIsReported
<1>1. PagesOK => DayIsReported
  <2>1. ASSUME PagesOK, Complete PROVE attempts \in Ledgers /\ report = Compare(theirs, attempts)
      BY <2>1 DEF PagesOK, WholeList, Complete
  <2> QED BY <2>1, NothingInvented, NothingMissed DEF DayIsReported
<1> QED BY <1>1, PagesInit, PagesStep, PTL DEF Spec
==========================================================================
