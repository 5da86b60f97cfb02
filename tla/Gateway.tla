------------------------------ MODULE Gateway ------------------------------
(***************************************************************************)
(* The path of an API request through the middleware of app/main.py:       *)
(* TenantAuthMiddleware, RateLimitMiddleware, IdempotencyMiddleware, and   *)
(* the endpoint.  Requests of one tenant run side by side and share Redis; *)
(* an action is what happens between two awaits.                           *)
(***************************************************************************)
EXTENDS ApiKeys, FiniteSets

CONSTANTS
    Requests,
    Ops,           \* Idempotency-Key values; a client uses one for one operation
    NoOp,          \* a request without the header, or a GET
    Jwt,           \* what a dashboard request presents instead of a key
    Limits,        \* requests a minute the tenant's plan may allow
    DefaultLimit,  \* RATE_LIMIT_DEFAULT_PER_MINUTE
    NoLimit,       \* a model value: nothing cached
    NoReply,       \* a model value
    MaxMinute,     \* minutes modelled
    MaxChanges     \* plan changes, expiries of the cached limit, and lost requests

\* An answer, and the request the endpoint gave it to.
Reply(status, by) == [status |-> status, by |-> by]
Replies == [status : {"ok", "refused", "error", "unauthorized", "too_many"},
            by : Requests]

ASSUME GatewayAssumption ==
    /\ NoOp \notin Ops /\ Jwt \notin Nat /\ NoReply \notin Replies
    /\ Limits \subseteq Nat /\ DefaultLimit \in Nat /\ NoLimit \notin Nat
    /\ MaxMinute \in Nat /\ MaxChanges \in Nat

VARIABLES
    at,          \* where a request awaits; done when it is answered or lost
    key, op,     \* what it presents
    late,        \* its key was retired before it arrived
    knew,        \* the answers its operation had got before it arrived
    limit,       \* the limit it is held to
    bucket,      \* the minute it is counted in
    admitted,    \* it passed the limiter
    ran,         \* the endpoint ran for it
    reply,
    answers,     \* of an operation: the endpoint's answers below 500 so far
    planLimit,   \* api_rate_limit_per_minute of the tenant's plan
    limitCache,  \* Redis: rate_limit_cfg
    counter,     \* Redis: rate_limit, per minute
    store,       \* Redis: idempotency, per operation
    minute, changes

redisVars == <<limitCache, counter, store>>
worldVars == <<planLimit, minute, changes>>
vars == <<keyVars, at, key, op, late, knew, limit, bucket, admitted, ran, reply,
          answers, redisVars, worldVars>>

Init ==
    /\ KeysInit
    /\ at = [r \in Requests |-> "new"]
    /\ key = [r \in Requests |-> NoKey]
    /\ op = [r \in Requests |-> NoOp]
    /\ late = [r \in Requests |-> FALSE]
    /\ knew = [r \in Requests |-> {}]
    /\ limit = [r \in Requests |-> 0]
    /\ bucket = [r \in Requests |-> 0]
    /\ admitted = [r \in Requests |-> FALSE]
    /\ ran = [r \in Requests |-> FALSE]
    /\ reply = [r \in Requests |-> NoReply]
    /\ answers = [o \in Ops |-> {}]
    /\ planLimit \in Limits
    /\ limitCache = NoLimit
    /\ counter = [b \in 0 .. MaxMinute |-> 0]
    /\ store = [o \in Ops |-> NoReply]
    /\ minute = 0 /\ changes = 0

Goto(r, place) == at' = [at EXCEPT ![r] = place]

Respond(r, answer) ==
    /\ Goto(r, "done")
    /\ reply' = [reply EXCEPT ![r] = answer]
----------------------------------------------------------------------------
(* Authentication. *)

\* A dashboard request passes the three middlewares as it is.
Arrive(r, k, o) ==
    /\ at[r] = "new"
    /\ key' = [key EXCEPT ![r] = k]
    /\ op' = [op EXCEPT ![r] = o]
    /\ late' = [late EXCEPT ![r] = k \in retired]
    /\ knew' = [knew EXCEPT ![r] = IF o = NoOp THEN {} ELSE answers[o]]
    /\ Goto(r, IF k = Jwt THEN "endpoint" ELSE "tenant")
    /\ UNCHANGED <<keyVars, limit, bucket, admitted, ran, reply, answers, redisVars,
                   worldVars>>

authUnchanged == <<keyVars, key, op, late, knew, limit, bucket, admitted, ran, answers,
                   redisVars, worldVars>>

TenantLookup(r) ==
    /\ at[r] = "tenant"
    /\ Goto(r, IF Opens(key[r], TenantSlots) THEN "limit" ELSE "project")
    /\ UNCHANGED <<authUnchanged, reply>>

ProjectLookup(r) ==
    /\ at[r] = "project"
    /\ IF Opens(key[r], ProjectSlots)
       THEN Goto(r, "limit") /\ UNCHANGED reply
       ELSE Respond(r, Reply("unauthorized", r))
    /\ UNCHANGED authUnchanged
----------------------------------------------------------------------------
(* Rate limit. *)

limitUnchanged == <<keyVars, key, op, late, knew, ran, answers, store, worldVars>>

\* mutant: the clock is rounded up.
HoldToNext(r, n) ==
    /\ limit' = [limit EXCEPT ![r] = n]
    /\ bucket' = [bucket EXCEPT ![r] = minute + 1]
    /\ Goto(r, "counter")

\* Once the limit is known the minute is read off the clock.
HoldTo(r, n) ==
    /\ limit' = [limit EXCEPT ![r] = n]
    /\ bucket' = [bucket EXCEPT ![r] = minute]
    /\ Goto(r, "counter")

ResolveLimit(r) ==
    /\ at[r] = "limit"
    /\ IF limitCache # NoLimit THEN HoldTo(r, limitCache)
       ELSE Goto(r, "plan") /\ UNCHANGED <<limit, bucket>>
    /\ UNCHANGED <<limitUnchanged, admitted, reply, limitCache, counter>>

\* The plan of an active subscription of the tenant; without one, or when the
\* query fails, the default.
FetchPlanLimit(r, n) ==
    /\ at[r] = "plan" /\ n \in {planLimit, DefaultLimit}
    /\ limit' = [limit EXCEPT ![r] = n]
    /\ Goto(r, "cache")
    /\ UNCHANGED <<limitUnchanged, bucket, admitted, reply, limitCache, counter>>

CacheLimit(r) ==
    /\ at[r] = "cache"
    /\ limitCache' = limit[r]
    /\ HoldTo(r, limit[r])
    /\ UNCHANGED <<limitUnchanged, admitted, reply, counter>>

Admit(r) ==
    /\ admitted' = [admitted EXCEPT ![r] = TRUE]
    /\ Goto(r, IF op[r] = NoOp THEN "endpoint" ELSE "store")
    /\ UNCHANGED reply

\* mutant: the request that reaches the limit's successor still passes.
CountLoosely(r) ==
    /\ at[r] = "counter"
    /\ counter' = [counter EXCEPT ![bucket[r]] = @ + 1]
    /\ IF counter[bucket[r]] > limit[r]
       THEN Respond(r, Reply("too_many", r)) /\ UNCHANGED admitted
       ELSE Admit(r)
    /\ UNCHANGED <<limitUnchanged, limit, bucket, limitCache>>

Count(r) ==
    /\ at[r] = "counter"
    /\ counter' = [counter EXCEPT ![bucket[r]] = @ + 1]
    /\ IF counter[bucket[r]] + 1 > limit[r]
       THEN Respond(r, Reply("too_many", r)) /\ UNCHANGED admitted
       ELSE Admit(r)
    /\ UNCHANGED <<limitUnchanged, limit, bucket, limitCache>>
----------------------------------------------------------------------------
(* Idempotency and the endpoint. *)

endUnchanged == <<keyVars, key, op, late, knew, limit, bucket, admitted, limitCache,
                  counter, worldVars>>

LookUp(r) ==
    /\ at[r] = "store"
    /\ IF store[op[r]] # NoReply THEN Respond(r, store[op[r]])
       ELSE Goto(r, "endpoint") /\ UNCHANGED reply
    /\ UNCHANGED <<endUnchanged, ran, answers, store>>

Remembers(r) == key[r] # Jwt /\ op[r] # NoOp

\* mutant: only successes are remembered, a refusal is not.
RunForgetful(r, status) ==
    /\ at[r] = "endpoint"
    /\ ran' = [ran EXCEPT ![r] = TRUE]
    /\ reply' = [reply EXCEPT ![r] = Reply(status, r)]
    /\ IF Remembers(r) /\ status = "ok"
       THEN Goto(r, "storing") /\ UNCHANGED answers
       ELSE /\ Goto(r, "done")
            /\ answers' = IF Remembers(r) /\ status = "refused"
                          THEN [answers EXCEPT ![op[r]] = @ \cup {Reply(status, r)}]
                          ELSE answers
    /\ UNCHANGED <<endUnchanged, store>>

\* The endpoint commits and answers; a 5xx, raised or returned, is not remembered.
Run(r, status) ==
    /\ at[r] = "endpoint"
    /\ ran' = [ran EXCEPT ![r] = TRUE]
    /\ reply' = [reply EXCEPT ![r] = Reply(status, r)]
    /\ Goto(r, IF Remembers(r) /\ status # "error" THEN "storing" ELSE "done")
    /\ UNCHANGED <<endUnchanged, answers, store>>

\* The answer leaves after Redis has taken it.
Store(r) ==
    /\ at[r] = "storing"
    /\ store' = [store EXCEPT ![op[r]] = reply[r]]
    /\ answers' = [answers EXCEPT ![op[r]] = @ \cup {reply[r]}]
    /\ Goto(r, "done")
    /\ UNCHANGED <<endUnchanged, ran, reply>>

\* The process dies, or Redis does not answer: the client hears of no result.
Lose(r) ==
    /\ at[r] \notin {"new", "done"} /\ changes < MaxChanges
    /\ changes' = changes + 1
    /\ Respond(r, NoReply)
    /\ UNCHANGED <<keyVars, key, op, late, knew, limit, bucket, admitted, ran, answers,
                   redisVars, planLimit, minute>>
----------------------------------------------------------------------------
(* Time, and the tenant's own subscription. *)

requestVars == <<at, key, op, late, knew, limit, bucket, admitted, ran, reply, answers>>

Tick ==
    /\ minute < MaxMinute
    /\ minute' = minute + 1
    /\ UNCHANGED <<keyVars, requestVars, redisVars, planLimit, changes>>

ExpireLimit ==
    /\ limitCache # NoLimit /\ changes < MaxChanges
    /\ limitCache' = NoLimit
    /\ changes' = changes + 1
    /\ UNCHANGED <<keyVars, requestVars, counter, store, planLimit, minute>>

ChangePlan(n) ==
    /\ n # planLimit /\ changes < MaxChanges
    /\ planLimit' = n
    /\ changes' = changes + 1
    /\ UNCHANGED <<keyVars, requestVars, redisVars, minute>>

Step(r) ==
    \/ \E k \in (1 .. issued) \cup {Jwt}, o \in Ops \cup {NoOp} : Arrive(r, k, o)
    \/ TenantLookup(r)
    \/ ProjectLookup(r)
    \/ ResolveLimit(r)
    \/ \E n \in Limits \cup {DefaultLimit} : FetchPlanLimit(r, n)
    \/ CacheLimit(r)
    \/ Count(r)
    \/ LookUp(r)
    \/ \E status \in {"ok", "refused", "error"} : Run(r, status)
    \/ Store(r)
    \/ Lose(r)

Next ==
    \/ \E r \in Requests : Step(r)
    \/ \E m \in Managers : Manage(m) /\ UNCHANGED <<requestVars, redisVars, worldVars>>
    \/ Tick
    \/ ExpireLimit
    \/ \E n \in Limits : ChangePlan(n)

Spec == Init /\ [][Next]_vars
----------------------------------------------------------------------------
(* Properties. *)

\* Every variable stays in its domain; no request is counted in a minute to
\* come, and no key is retired that was never issued.
GatewayTypeOK ==
    /\ value \in [Slots -> 0 .. issued]
    /\ active \in [Slots -> BOOLEAN]
    /\ issued \in Nat /\ begun \in 0 .. MaxTasks
    /\ task \in [Managers -> Tasks \cup {NoTask}]
    /\ retired \subseteq 1 .. issued
    /\ at \in [Requests -> {"new", "tenant", "project", "limit", "plan", "cache",
                            "counter", "store", "endpoint", "storing", "done"}]
    /\ key \in [Requests -> (0 .. issued) \cup {Jwt}]
    /\ op \in [Requests -> Ops \cup {NoOp}]
    /\ late \in [Requests -> BOOLEAN]
    /\ knew \in [Requests -> SUBSET Replies]
    /\ reply \in [Requests -> Replies \cup {NoReply}]
    /\ answers \in [Ops -> SUBSET Replies]
    /\ store \in [Ops -> Replies \cup {NoReply}]
    /\ limit \in [Requests -> Nat]
    /\ bucket \in [Requests -> 0 .. minute]
    /\ admitted \in [Requests -> BOOLEAN]
    /\ ran \in [Requests -> BOOLEAN]
    /\ planLimit \in Limits
    /\ limitCache \in Limits \cup {DefaultLimit, NoLimit}
    /\ counter \in [0 .. MaxMinute -> Nat]
    /\ minute \in 0 .. MaxMinute /\ changes \in 0 .. MaxChanges

\* "The old key stops working immediately" (tenants/router.py): a request that
\* arrives after its key was regenerated or revoked is refused, whatever other
\* dashboard requests of stale reads commit in between.
RetiredKeyRefused ==
    \A r \in Requests : late[r] => ~admitted[r] /\ ~ran[r]

\* In one minute no more requests pass than the largest limit that one of them
\* was held to, however they overtake each other (RateLimitMiddleware).
WithinLimit ==
    \A b \in 0 .. minute :
        LET passed == {r \in Requests : admitted[r] /\ bucket[r] = b}
        IN  passed # {} =>
                \E r \in passed : Cardinality(passed) <= limit[r]

\* A request repeated after its first answer below 500 does not run again and
\* gets an answer given for that key; repeats may overlap, and processes die
\* (IdempotencyMiddleware).
ReplayIsFaithful ==
    \A r \in Requests :
        knew[r] # {} /\ key[r] # Jwt =>
            /\ ~ran[r]
            /\ reply[r] # NoReply =>
                  \/ reply[r].status \in {"unauthorized", "too_many"}
                  \/ reply[r] \in answers[op[r]]
============================================================================
