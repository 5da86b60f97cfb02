------------------------------ MODULE Outbox ------------------------------
(***************************************************************************)
(* Outbound webhooks: a database session of the engine commits a state     *)
(* change and then adds the event row and queues the delivery job, both    *)
(* before any commit of that row; the worker takes the job, posts the      *)
(* event to the tenant's endpoints and retries or settles it.  A session   *)
(* may close without another commit, Redis may refuse a job, and a worker  *)
(* may die in the middle of a try.                                         *)
(***************************************************************************)
EXTENDS Naturals, FiniteSets

CONSTANTS
    Events,
    Endpoints,      \* the tenant's endpoints of the events' mode, live or test
    Sessions,       \* the database sessions that change state and tell of it
    LastTry,        \* the try after which a refused event has failed (4)
    MaxTry,         \* arq's max_tries (5)
    MaxChanges,     \* state changes one session commits
    MaxCrashes,     \* tries cut short by the death of a worker
    MaxRefusals     \* jobs Redis refuses to queue

ASSUME OutboxAssumption ==
    /\ LastTry \in Nat /\ MaxTry \in Nat /\ 0 < LastTry /\ LastTry < MaxTry
    /\ MaxChanges \in Nat /\ MaxCrashes \in Nat /\ MaxRefusals \in Nat

VARIABLES
    commitsAtEnd, \* the sessions whose code commits once more after its last event
    at,        \* where a session stands: idle, changed (committed, nothing told), told, closed
    changes,   \* state changes it has committed
    held,      \* event rows it has flushed and not committed
    status,    \* of an event row: unborn, held, dropped, or OutboundEventStatus
    endpoint,  \* of a WebhookEndpoint row: absent, active, removed
    job,       \* of the delivery job: none, queued, running, finished, gone
    jobTry,    \* ctx["job_try"] of the latest try
    audience,  \* during a try: the endpoints read at its start
    left,      \* ... those not posted to yet
    refused,   \* ... those that did not answer 2xx
    crashes, refusals

sessionVars == <<commitsAtEnd, at, changes, held, refusals>>
tryVars == <<audience, left, refused>>
vars == <<commitsAtEnd, at, changes, held, status, endpoint, job, jobTry,
          audience, left, refused, crashes, refusals>>

OutboundEventStatus == {"pending", "successful", "failed"}
Settled == {"successful", "failed"}

Init ==
    /\ commitsAtEnd \in SUBSET Sessions
    /\ at = [s \in Sessions |-> "idle"]
    /\ changes = [s \in Sessions |-> 0]
    /\ held = [s \in Sessions |-> {}]
    /\ status = [e \in Events |-> "unborn"]
    /\ endpoint \in [Endpoints -> {"absent", "active"}]
    /\ job = [e \in Events |-> "none"]
    /\ jobTry = [e \in Events |-> 0]
    /\ audience = [e \in Events |-> {}]
    /\ left = [e \in Events |-> {}]
    /\ refused = [e \in Events |-> {}]
    /\ crashes = 0
    /\ refusals = 0
----------------------------------------------------------------------------
(* The sessions of the engine. *)

Commit(s) == [e \in Events |-> IF e \in held[s] THEN "pending" ELSE status[e]]
Rollback(s) == [e \in Events |-> IF e \in held[s] THEN "dropped" ELSE status[e]]

\* A transition, a charge result or a retry date is committed, and with it
\* every event row the session still held.
Change(s) ==
    /\ at[s] \in {"idle", "told"} /\ changes[s] < MaxChanges
    /\ at' = [at EXCEPT ![s] = "changed"]
    /\ changes' = [changes EXCEPT ![s] = @ + 1]
    /\ status' = Commit(s)
    /\ held' = [held EXCEPT ![s] = {}]
    /\ UNCHANGED <<commitsAtEnd, endpoint, job, jobTry, tryVars, crashes,
                   refusals>>

\* enqueue_webhook_event: the row is flushed and the job queued, uncommitted.
Tell(s, e) ==
    /\ at[s] \in {"changed", "told"} /\ status[e] = "unborn"
    /\ at' = [at EXCEPT ![s] = "told"]
    /\ held' = [held EXCEPT ![s] = @ \cup {e}]
    /\ status' = [status EXCEPT ![e] = "held"]
    /\ job' = [job EXCEPT ![e] = "queued"]
    /\ UNCHANGED <<commitsAtEnd, changes, endpoint, jobTry, tryVars, crashes, refusals>>

\* Redis does not take the job: the exception rolls the session back.
TellFails(s, e) ==
    /\ at[s] \in {"changed", "told"} /\ status[e] = "unborn"
    /\ refusals < MaxRefusals
    /\ refusals' = refusals + 1
    /\ at' = [at EXCEPT ![s] = "closed"]
    /\ status' = [Rollback(s) EXCEPT ![e] = "dropped"]
    /\ held' = [held EXCEPT ![s] = {}]
    /\ UNCHANGED <<commitsAtEnd, changes, endpoint, job, jobTry, tryVars, crashes>>

Close(s) ==
    /\ at[s] \in {"changed", "told"}
    /\ at' = [at EXCEPT ![s] = "closed"]
    /\ status' = IF s \in commitsAtEnd THEN Commit(s) ELSE Rollback(s)
    /\ held' = [held EXCEPT ![s] = {}]
    /\ UNCHANGED <<commitsAtEnd, changes, endpoint, job, jobTry, tryVars, crashes, refusals>>
----------------------------------------------------------------------------
(* The tenant's endpoints. *)

Register(x) ==
    /\ endpoint[x] = "absent"
    /\ endpoint' = [endpoint EXCEPT ![x] = "active"]
    /\ UNCHANGED <<sessionVars, status, job, jobTry, tryVars, crashes>>

Remove(x) ==
    /\ endpoint[x] = "active"
    /\ endpoint' = [endpoint EXCEPT ![x] = "removed"]
    /\ UNCHANGED <<sessionVars, status, job, jobTry, tryVars, crashes>>
----------------------------------------------------------------------------
(* deliver_webhook_job *)

Active == {x \in Endpoints : endpoint[x] = "active"}

\* The row is not there, or not committed yet: the job ends for good.
FindNothing(e) ==
    /\ job[e] = "queued" /\ jobTry[e] < MaxTry
    /\ status[e] \in {"held", "dropped"}
    /\ job' = [job EXCEPT ![e] = "gone"]
    /\ UNCHANGED <<sessionVars, status, endpoint, jobTry, tryVars, crashes>>

\* mutant: a job that has used up its tries is run once more.
BeginAlways(e) ==
    /\ job[e] = "queued"
    /\ status[e] \in OutboundEventStatus
    /\ job' = [job EXCEPT ![e] = "running"]
    /\ jobTry' = [jobTry EXCEPT ![e] = @ + 1]
    /\ audience' = [audience EXCEPT ![e] = Active]
    /\ left' = [left EXCEPT ![e] = Active]
    /\ refused' = [refused EXCEPT ![e] = {}]
    /\ UNCHANGED <<sessionVars, status, endpoint, crashes>>

\* An empty audience leaves nothing to post: the try ends as a success.
Begin(e) ==
    /\ job[e] = "queued" /\ jobTry[e] < MaxTry
    /\ status[e] \in OutboundEventStatus
    /\ job' = [job EXCEPT ![e] = "running"]
    /\ jobTry' = [jobTry EXCEPT ![e] = @ + 1]
    /\ audience' = [audience EXCEPT ![e] = Active]
    /\ left' = [left EXCEPT ![e] = Active]
    /\ refused' = [refused EXCEPT ![e] = {}]
    /\ UNCHANGED <<sessionVars, status, endpoint, crashes>>

\* mutant: a later endpoint that accepts clears the failure of an earlier one.
PostForgets(e, x, accepted) ==
    /\ job[e] = "running" /\ x \in left[e]
    /\ left' = [left EXCEPT ![e] = @ \ {x}]
    /\ refused' = [refused EXCEPT ![e] = IF accepted THEN {} ELSE @ \cup {x}]
    /\ UNCHANGED <<sessionVars, status, endpoint, job, jobTry, audience, crashes>>

\* One POST; a timeout counts as a refusal.
Post(e, x, accepted) ==
    /\ job[e] = "running" /\ x \in left[e]
    /\ left' = [left EXCEPT ![e] = @ \ {x}]
    /\ refused' = [refused EXCEPT ![e] = IF accepted THEN @ ELSE @ \cup {x}]
    /\ UNCHANGED <<sessionVars, status, endpoint, job, jobTry, audience, crashes>>

\* What a try holds in memory goes when it ends, however it ends.
Forget(e) ==
    /\ audience' = [audience EXCEPT ![e] = {}]
    /\ left' = [left EXCEPT ![e] = {}]
    /\ refused' = [refused EXCEPT ![e] = {}]

\* mutant: the last try leaves the event as it is.
EndTrySilently(e) ==
    /\ job[e] = "running" /\ left[e] = {}
    /\ Forget(e)
    /\ job' = [job EXCEPT ![e] =
                  IF refused[e] # {} /\ jobTry[e] < LastTry THEN "queued" ELSE "finished"]
    /\ status' = [status EXCEPT ![e] = IF refused[e] = {} THEN "successful" ELSE @]
    /\ UNCHANGED <<sessionVars, endpoint, jobTry, crashes>>

\* The end of the try: settle the event, or raise Retry.
EndTry(e) ==
    /\ job[e] = "running" /\ left[e] = {}
    /\ Forget(e)
    /\ IF refused[e] # {} /\ jobTry[e] < LastTry
       THEN /\ job' = [job EXCEPT ![e] = "queued"]
            /\ UNCHANGED status
       ELSE /\ job' = [job EXCEPT ![e] = "finished"]
            /\ status' = [status EXCEPT ![e] =
                             IF refused[e] = {} THEN "successful" ELSE "failed"]
    /\ UNCHANGED <<sessionVars, endpoint, jobTry, crashes>>

\* arq records the job's result, after which it will not run again.
Acknowledge(e) ==
    /\ job[e] = "finished"
    /\ job' = [job EXCEPT ![e] = "gone"]
    /\ UNCHANGED <<sessionVars, status, endpoint, jobTry, tryVars, crashes>>

\* The worker dies, during the try or before arq knows that it ended: arq
\* runs the job again.
Crash(e) ==
    /\ job[e] \in {"running", "finished"} /\ crashes < MaxCrashes
    /\ job' = [job EXCEPT ![e] = "queued"]
    /\ crashes' = crashes + 1
    /\ Forget(e)
    /\ UNCHANGED <<sessionVars, status, endpoint, jobTry>>

\* arq drops a job that has used up its tries.
Expire(e) ==
    /\ job[e] = "queued" /\ jobTry[e] = MaxTry
    /\ job' = [job EXCEPT ![e] = "gone"]
    /\ UNCHANGED <<sessionVars, status, endpoint, jobTry, tryVars, crashes>>
----------------------------------------------------------------------------
Worker(e) ==
    \/ FindNothing(e)
    \/ Begin(e)
    \/ \E x \in Endpoints, accepted \in BOOLEAN : Post(e, x, accepted)
    \/ EndTry(e)
    \/ Acknowledge(e)
    \/ Expire(e)

Engine(s) ==
    \/ Change(s)
    \/ \E e \in Events : Tell(s, e) \/ TellFails(s, e)
    \/ Close(s)

Next ==
    \/ \E s \in Sessions : Engine(s)
    \/ \E x \in Endpoints : Register(x) \/ Remove(x)
    \/ \E e \in Events : Worker(e) \/ Crash(e)

Spec == Init /\ [][Next]_vars

\* Sessions close, and the worker serves every job; nobody must register or
\* remove an endpoint, change a subscription, or crash.
FairSpec ==
    /\ Spec
    /\ \A s \in Sessions : WF_vars(Close(s))
    /\ \A e \in Events : WF_vars(Worker(e))
----------------------------------------------------------------------------
(* Properties. *)

OutboxDomains ==
    /\ commitsAtEnd \subseteq Sessions
    /\ at \in [Sessions -> {"idle", "changed", "told", "closed"}]
    /\ changes \in [Sessions -> 0 .. MaxChanges]
    /\ held \in [Sessions -> SUBSET Events]
    /\ status \in [Events -> {"unborn", "held", "dropped"} \cup OutboundEventStatus]
    /\ endpoint \in [Endpoints -> {"absent", "active", "removed"}]
    /\ job \in [Events -> {"none", "queued", "running", "finished", "gone"}]
    /\ jobTry \in [Events -> 0 .. MaxTry]
    /\ audience \in [Events -> SUBSET Endpoints]
    /\ left \in [Events -> SUBSET Endpoints]
    /\ refused \in [Events -> SUBSET Endpoints]
    /\ crashes \in 0 .. MaxCrashes
    /\ refusals \in 0 .. MaxRefusals

\* An event a session holds was flushed and not committed, and no other session
\* holds it.
HeldOK ==
    /\ \A s \in Sessions : \A e \in held[s] : status[e] = "held"
    /\ \A s, u \in Sessions : s # u => held[s] \cap held[u] = {}

\* A running try is one of a recorded event, and has split its audience into
\* those that took the event, those that refused it and those left.
TryOK ==
    \A e \in Events :
        /\ left[e] \subseteq audience[e] /\ refused[e] \subseteq audience[e]
        /\ left[e] \cap refused[e] = {}
        /\ job[e] # "running" => audience[e] = {}
        /\ job[e] = "running" => jobTry[e] > 0 /\ status[e] \in OutboundEventStatus

\* Every variable stays in its domain; an event row is flushed by at most one
\* session, and is uncommitted while it is; only a running try of a recorded event
\* has endpoints left to post to, and none that has refused is among them
\* (enqueue_webhook_event, deliver_webhook_job).
OutboxTypeOK == OutboxDomains /\ HeldOK /\ TryOK

Recorded == [e \in Events |->
               IF status[e] \in OutboundEventStatus THEN status[e] ELSE "unborn"]
Taken == [e \in Events |-> audience[e] \ (left[e] \cup refused[e])]

Promise == INSTANCE Delivery WITH
    state <- Recorded, owed <- audience, took <- Taken, tries <- jobTry

\* The pipeline keeps the promise of Delivery: whatever the order of commits,
\* pickups, retries, crashes and endpoint changes, a recorded event turns
\* successful only when every endpoint of one try took it, and failed only in
\* the last try or later (deliver_webhook_job).
KeepsPromise == Promise!DeliverySpec

\* A recorded event whose job is still queued is settled in the end, though
\* endpoints refuse, come and go, unless workers die in it more often than arq
\* has tries to spare (Retry, arq's re-run).
EventSettles ==
    \A e \in Events :
        (status[e] = "pending" /\ job[e] # "gone")
            ~> (status[e] \in Settled \/ crashes > MaxTry - LastTry)

\* "An outbound webhook event is enqueued at every stage transition"
\* (dunning/service.py); "Fired when a trial period ends" (outbound_router.py):
\* with Redis taking every job, no event told of a committed change vanishes.
NoEventLost == \A e \in Events : status[e] # "dropped"
=============================================================================
