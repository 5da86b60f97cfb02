---------------------------- MODULE OutboxProofs ----------------------------
(***************************************************************************)
(* Theorems about Outbox for every number of events, endpoints and         *)
(* sessions, and any number of crashes: the rows and the jobs keep the     *)
(* promise of Delivery.                                                    *)
(***************************************************************************)
EXTENDS Outbox, TLAPS

OutboxInv == OutboxDomains /\ HeldOK /\ TryOK

LEMMA OutboxInit == ASSUME OutboxAssumption, Init PROVE OutboxInv
<1>1. OutboxDomains
    BY DEF Init, OutboxDomains, OutboxAssumption, OutboundEventStatus
<1>2. HeldOK /\ TryOK
    BY DEF Init, HeldOK, TryOK
<1> QED BY <1>1, <1>2 DEF OutboxInv

\* Steps of a session leave the tries alone; what they do to the rows is to
\* flush, to commit or to roll back.
LEMMA EngineOK ==
    ASSUME OutboxAssumption, OutboxInv, NEW s \in Sessions, Engine(s)
    PROVE  OutboxInv'
<1> USE DEF OutboxInv, OutboxDomains, OutboundEventStatus
<1>1. ASSUME Change(s) \/ Close(s)
      PROVE  OutboxInv'
  <2>1. /\ held' = [held EXCEPT ![s] = {}]
        /\ status' = Commit(s) \/ status' = Rollback(s)
        /\ at' \in [Sessions -> {"idle", "changed", "told", "closed"}]
        /\ UNCHANGED <<commitsAtEnd, endpoint, job, jobTry, audience, left, refused, crashes,
                       refusals>>
      BY <1>1 DEF Change, Close, tryVars
  <2>2. changes' \in [Sessions -> 0 .. MaxChanges]
      BY <1>1 DEF Change, Close, OutboxAssumption
  <2>3. \A e \in Events : /\ e \notin held[s] => status'[e] = status[e]
                          /\ e \in held[s] => status'[e] \in {"pending", "dropped"}
      BY <2>1 DEF Commit, Rollback
  <2>4. status' \in [Events -> {"unborn", "held", "dropped"} \cup OutboundEventStatus]
      BY <2>1 DEF Commit, Rollback
  <2>5. \A e \in held[s] : e \in Events /\ status[e] = "held"
      BY DEF HeldOK
  <2>6. HeldOK'
    <3>1. \A u \in Sessions : u # s => held'[u] = held[u] /\ held[u] \cap held[s] = {}
        BY <2>1 DEF HeldOK
    <3>2. held'[s] = {}
        BY <2>1
    <3>3. \A u \in Sessions : \A e \in held'[u] : e \in Events /\ status'[e] = "held"
        BY <3>1, <3>2, <2>3 DEF HeldOK
    <3>4. \A u, v \in Sessions : u # v => held'[u] \cap held'[v] = {}
        BY <3>1, <3>2 DEF HeldOK
    <3> QED BY <3>3, <3>4 DEF HeldOK
  <2>7. TryOK'
      BY <2>1, <2>3, <2>5 DEF TryOK
  <2> QED BY <2>1, <2>2, <2>4, <2>6, <2>7
<1>2. ASSUME NEW e \in Events, Tell(s, e)
      PROVE  OutboxInv'
  <2>1. /\ status[e] = "unborn" /\ status' = [status EXCEPT ![e] = "held"]
        /\ held' = [held EXCEPT ![s] = @ \cup {e}] /\ job' = [job EXCEPT ![e] = "queued"]
        /\ at' = [at EXCEPT ![s] = "told"]
        /\ UNCHANGED <<commitsAtEnd, changes, endpoint, jobTry, audience, left, refused, crashes,
                       refusals>>
      BY <1>2 DEF Tell, tryVars
  <2>2. OutboxDomains'
      BY <2>1
  <2>3. HeldOK'
      BY <2>1 DEF HeldOK
  <2>4. job[e] # "running"
      BY <2>1 DEF TryOK
  <2>5. TryOK'
      BY <2>1, <2>4 DEF TryOK
  <2> QED BY <2>2, <2>3, <2>5
<1>3. ASSUME NEW e \in Events, TellFails(s, e)
      PROVE  OutboxInv'
  <2>1. /\ status[e] = "unborn" /\ status' = [Rollback(s) EXCEPT ![e] = "dropped"]
        /\ held' = [held EXCEPT ![s] = {}] /\ at' = [at EXCEPT ![s] = "closed"]
        /\ refusals' \in 0 .. MaxRefusals
        /\ UNCHANGED <<commitsAtEnd, changes, endpoint, job, jobTry, audience, left, refused,
                       crashes>>
      BY <1>3 DEF TellFails, tryVars, OutboxAssumption
  <2>2. \A f \in Events : status'[f] = IF f \in held[s] \/ f = e THEN "dropped" ELSE status[f]
      BY <2>1 DEF Rollback
  <2>3. status' \in [Events -> {"unborn", "held", "dropped"} \cup OutboundEventStatus]
      BY <2>1 DEF Rollback
  <2>4. \A f \in held[s] : f \in Events /\ status[f] = "held"
      BY DEF HeldOK
  <2>5. HeldOK'
    <3>1. \A u \in Sessions : u # s => held'[u] = held[u] /\ held[u] \cap held[s] = {}
        BY <2>1 DEF HeldOK
    <3>2. held'[s] = {}
        BY <2>1
    <3>3. \A u \in Sessions : \A f \in held'[u] : status'[f] = "held"
      <4>1. \A u \in Sessions : \A f \in held[u] : f \in Events /\ f # e
          BY <2>1 DEF HeldOK
      <4> QED BY <3>1, <3>2, <4>1, <2>2 DEF HeldOK
    <3>4. \A u, v \in Sessions : u # v => held'[u] \cap held'[v] = {}
        BY <3>1, <3>2 DEF HeldOK
    <3> QED BY <3>3, <3>4 DEF HeldOK
  <2>6. TryOK'
      BY <2>1, <2>2, <2>4 DEF TryOK
  <2> QED BY <2>1, <2>3, <2>5, <2>6
<1> QED BY <1>1, <1>2, <1>3 DEF Engine

\* Endpoints come and go; a running try keeps the audience it read.
LEMMA EndpointOK ==
    ASSUME OutboxInv, NEW x \in Endpoints, Register(x) \/ Remove(x)
    PROVE  OutboxInv'
<1>1. /\ endpoint' \in [Endpoints -> {"absent", "active", "removed"}]
      /\ UNCHANGED <<commitsAtEnd, at, changes, held, status, job, jobTry, audience, left,
                     refused, crashes, refusals>>
    BY DEF OutboxInv, OutboxDomains, Register, Remove, sessionVars, tryVars
<1>2. OutboxDomains'
    BY <1>1 DEF OutboxInv, OutboxDomains
<1>3. HeldOK' /\ TryOK'
    BY <1>1 DEF OutboxInv, HeldOK, TryOK
<1> QED BY <1>2, <1>3 DEF OutboxInv

\* Steps of the worker, its death among them, do not touch a row that is not
\* committed, and they keep the books of a try.
LEMMA WorkerOK ==
    ASSUME OutboxAssumption, OutboxInv, NEW e \in Events, Worker(e) \/ Crash(e)
    PROVE  OutboxInv'
<1> USE DEF OutboxInv, OutboxDomains, OutboundEventStatus
<1>1. ASSUME FindNothing(e) \/ Acknowledge(e) \/ Expire(e)
      PROVE  OutboxInv'
  <2>1. /\ job' = [job EXCEPT ![e] = "gone"] /\ job[e] # "running"
        /\ UNCHANGED <<commitsAtEnd, at, changes, held, status, endpoint, jobTry, audience,
                       left, refused, crashes, refusals>>
      BY <1>1 DEF FindNothing, Acknowledge, Expire, sessionVars, tryVars
  <2>2. OutboxDomains'
      BY <2>1
  <2>3. HeldOK' /\ TryOK'
      BY <2>1 DEF HeldOK, TryOK
  <2> QED BY <2>2, <2>3
<1>2. CASE Begin(e)
  <2>1. /\ jobTry[e] < MaxTry /\ status[e] \in OutboundEventStatus
        /\ job' = [job EXCEPT ![e] = "running"] /\ jobTry' = [jobTry EXCEPT ![e] = @ + 1]
        /\ audience' = [audience EXCEPT ![e] = Active] /\ left' = [left EXCEPT ![e] = Active]
        /\ refused' = [refused EXCEPT ![e] = {}]
        /\ UNCHANGED <<commitsAtEnd, at, changes, held, status, endpoint, crashes, refusals>>
      BY <1>2 DEF Begin, sessionVars
  <2>2. Active \subseteq Endpoints
      BY DEF Active
  <2>3. jobTry[e] + 1 \in 0 .. MaxTry
      BY <2>1 DEF OutboxAssumption
  <2>4. OutboxDomains'
      BY <2>1, <2>2, <2>3
  <2>5. jobTry'[e] > 0
      BY <2>1
  <2>6. HeldOK' /\ TryOK'
      BY <2>1, <2>5 DEF HeldOK, TryOK
  <2> QED BY <2>4, <2>6
<1>3. ASSUME NEW x \in Endpoints, NEW accepted \in BOOLEAN, Post(e, x, accepted)
      PROVE  OutboxInv'
  <2>1. /\ job[e] = "running" /\ x \in left[e]
        /\ left' = [left EXCEPT ![e] = @ \ {x}]
        /\ refused' = [refused EXCEPT ![e] = IF accepted THEN @ ELSE @ \cup {x}]
        /\ UNCHANGED <<commitsAtEnd, at, changes, held, status, endpoint, job, jobTry, audience,
                       crashes, refusals>>
      BY <1>3 DEF Post, sessionVars
  <2>2. OutboxDomains'
      BY <2>1
  <2>3. HeldOK'
      BY <2>1 DEF HeldOK
  <2>4. left'[e] = left[e] \ {x} /\ refused'[e] \subseteq refused[e] \cup {x}
      BY <2>1
  <2>5. TryOK'
      BY <2>1, <2>4 DEF TryOK
  <2> QED BY <2>2, <2>3, <2>5
<1>4. CASE EndTry(e)
  <2>1. /\ job[e] = "running"
        /\ audience' = [audience EXCEPT ![e] = {}] /\ left' = [left EXCEPT ![e] = {}]
        /\ refused' = [refused EXCEPT ![e] = {}]
        /\ \/ job' = [job EXCEPT ![e] = "queued"] /\ status' = status
           \/ /\ job' = [job EXCEPT ![e] = "finished"]
              /\ status' = [status EXCEPT ![e] = IF refused[e] = {} THEN "successful" ELSE "failed"]
        /\ UNCHANGED <<commitsAtEnd, at, changes, held, endpoint, jobTry, crashes, refusals>>
      BY <1>4 DEF EndTry, Forget, sessionVars
  <2>2. OutboxDomains'
      BY <2>1
  <2>3. status[e] \in OutboundEventStatus
      BY <2>1 DEF TryOK
  <2>4. HeldOK'
    <3>1. \A s \in Sessions : e \notin held[s]
        BY <2>3 DEF HeldOK
    <3> QED BY <2>1, <3>1 DEF HeldOK
  <2>5. TryOK'
      BY <2>1, <2>3 DEF TryOK
  <2> QED BY <2>2, <2>4, <2>5
<1>5. CASE Crash(e)
  <2>1. /\ crashes < MaxCrashes /\ crashes' = crashes + 1
        /\ job' = [job EXCEPT ![e] = "queued"]
        /\ audience' = [audience EXCEPT ![e] = {}] /\ left' = [left EXCEPT ![e] = {}]
        /\ refused' = [refused EXCEPT ![e] = {}]
        /\ UNCHANGED <<commitsAtEnd, at, changes, held, status, endpoint, jobTry, refusals>>
      BY <1>5 DEF Crash, Forget, sessionVars
  <2>2. crashes' \in 0 .. MaxCrashes
      BY <2>1 DEF OutboxAssumption
  <2>3. OutboxDomains'
      BY <2>1, <2>2
  <2>4. HeldOK' /\ TryOK'
      BY <2>1 DEF HeldOK, TryOK
  <2> QED BY <2>3, <2>4
<1> QED BY <1>1, <1>2, <1>3, <1>4, <1>5 DEF Worker

LEMMA OutboxStep ==
    ASSUME OutboxAssumption, OutboxInv, [Next]_vars
    PROVE  OutboxInv'
<1>1. CASE UNCHANGED vars
    BY <1>1 DEF OutboxInv, OutboxDomains, HeldOK, TryOK, vars, sessionVars, tryVars
<1>2. CASE Next
    BY <1>2, EngineOK, EndpointOK, WorkerOK DEF Next
<1> QED BY <1>1, <1>2

LEMMA OutboxInvariant == Spec => []OutboxInv
<1>1. Init => OutboxInv
    BY OutboxInit, OutboxAssumption
<1>2. OutboxInv /\ [Next]_vars => OutboxInv'
    BY OutboxStep, OutboxAssumption
<1> QED BY <1>1, <1>2, PTL DEF Spec

\* Every variable of the outbox stays in its domain: tries never pass arq's
\* bound, and no row leaves the statuses of OutboundEventStatus once it is
\* committed to them (deliver_webhook_job, the sessions of the engine).
THEOREM OutboxTypeCorrect == Spec => []OutboxTypeOK
<1>1. OutboxInv => OutboxTypeOK
    BY DEF OutboxInv, OutboxTypeOK
<1> QED BY <1>1, OutboxInvariant, PTL
----------------------------------------------------------------------------
(* The refinement. *)

\* What of a step the promise can see: the recorded rows and the try.
Unseen == UNCHANGED <<Recorded, audience, Taken, jobTry>>

LEMMA RecordedValue ==
    \A e \in Events : Recorded[e] = IF status[e] \in OutboundEventStatus THEN status[e]
                                    ELSE "unborn"
BY DEF Recorded

LEMMA TakenValue == \A e \in Events : Taken[e] = audience[e] \ (left[e] \cup refused[e])
BY DEF Taken

LEMMA EngineKeeps ==
    ASSUME OutboxInv, NEW s \in Sessions, Engine(s)
    PROVE  Promise!DeliveryNext \/ Unseen
<1> USE DEF OutboundEventStatus
<1>1. \A e \in held[s] : e \in Events /\ status[e] = "held"
    BY DEF OutboxInv, OutboxDomains, HeldOK
<1>2. UNCHANGED <<audience, jobTry, left, refused>>
    BY DEF Engine, Change, Close, Tell, TellFails, tryVars
<1>3. Taken' = Taken
    BY <1>2 DEF Taken
<1>4. CASE status' = Commit(s)
  <2>1. \A e \in held[s] : Recorded[e] = "unborn"
      BY <1>1 DEF Recorded
  <2>2. Recorded' = [e \in Events |-> IF e \in held[s] THEN "pending" ELSE Recorded[e]]
      BY <1>4 DEF Recorded, Commit
  <2>3. Promise!Record(held[s])
      BY <2>1, <2>2, <1>2, <1>3 DEF Promise!Record
  <2>4. held[s] \in SUBSET Events
      BY <1>1
  <2> QED BY <2>3, <2>4 DEF Promise!DeliveryNext
<1>5. CASE \A e \in Events : \/ status'[e] = status[e]
                            \/ /\ status[e] \notin OutboundEventStatus
                               /\ status'[e] \notin OutboundEventStatus
  <2>1. Recorded' = Recorded
      BY <1>5 DEF Recorded
  <2> QED BY <2>1, <1>2, <1>3 DEF Unseen
<1>6. ASSUME status' = Rollback(s)
      PROVE  \A e \in Events : \/ status'[e] = status[e]
                              \/ /\ status[e] \notin OutboundEventStatus
                                 /\ status'[e] \notin OutboundEventStatus
    BY <1>6, <1>1 DEF Rollback
<1>7. ASSUME NEW e \in Events, Tell(s, e) \/ TellFails(s, e)
      PROVE  \A f \in Events : \/ status'[f] = status[f]
                              \/ /\ status[f] \notin OutboundEventStatus
                                 /\ status'[f] \notin OutboundEventStatus
  <2>1. status[e] = "unborn" /\ status \in [Events -> {"unborn", "held", "dropped"} \cup OutboundEventStatus]
      BY <1>7 DEF Tell, TellFails, OutboxInv, OutboxDomains
  <2>2. CASE Tell(s, e)
      BY <2>1, <2>2 DEF Tell
  <2>3. CASE TellFails(s, e)
    <3>1. status' = [Rollback(s) EXCEPT ![e] = "dropped"]
        BY <2>3 DEF TellFails
    <3> QED BY <3>1, <2>1, <1>1 DEF Rollback
  <2> QED BY <1>7, <2>2, <2>3
<1>8. CASE Change(s) \/ Close(s)
    BY <1>8, <1>4, <1>5, <1>6 DEF Change, Close
<1> QED BY <1>5, <1>7, <1>8 DEF Engine

LEMMA WorkerKeeps ==
    ASSUME OutboxInv, NEW e \in Events, Worker(e) \/ Crash(e)
    PROVE  Promise!DeliveryNext \/ Unseen
<1> USE DEF OutboxInv, OutboxDomains, OutboundEventStatus
<1>1. ASSUME FindNothing(e) \/ Acknowledge(e) \/ Expire(e)
      PROVE  Unseen
    BY <1>1 DEF FindNothing, Acknowledge, Expire, tryVars, Recorded, Taken, Unseen
<1>2. CASE Begin(e)
  <2>1. /\ status[e] \in OutboundEventStatus /\ status' = status
        /\ jobTry' = [jobTry EXCEPT ![e] = @ + 1]
        /\ audience' = [audience EXCEPT ![e] = Active]
        /\ left' = [left EXCEPT ![e] = Active]
        /\ refused' = [refused EXCEPT ![e] = {}]
      BY <1>2 DEF Begin
  <2>2. Taken' = [Taken EXCEPT ![e] = {}]
      BY <2>1 DEF Taken
  <2>3. Recorded[e] # "unborn" /\ Recorded' = Recorded
      BY <2>1 DEF Recorded
  <2>4. Promise!Try(e, Active)
      BY <2>1, <2>2, <2>3 DEF Promise!Try
  <2>5. Active \in SUBSET Endpoints
      BY DEF Active
  <2> QED BY <2>4, <2>5 DEF Promise!DeliveryNext
<1>3. ASSUME NEW x \in Endpoints, NEW accepted \in BOOLEAN, Post(e, x, accepted)
      PROVE  Promise!DeliveryNext \/ Unseen
  <2>1. /\ x \in left[e] /\ left' = [left EXCEPT ![e] = @ \ {x}]
        /\ refused' = [refused EXCEPT ![e] = IF accepted THEN @ ELSE @ \cup {x}]
        /\ UNCHANGED <<status, audience, jobTry>>
      BY <1>3 DEF Post
  <2>2. Recorded' = Recorded
      BY <2>1 DEF Recorded
  <2>3. x \in audience[e] /\ x \notin refused[e]
      BY <2>1 DEF TryOK
  <2>4. CASE accepted
    <3>1. Taken' = [Taken EXCEPT ![e] = @ \cup {x}]
      <4>1. \A f \in Events : Taken'[f] = IF f = e THEN Taken[e] \cup {x} ELSE Taken[f]
          BY <2>1, <2>3, <2>4 DEF Taken
      <4>2. Taken' = [f \in Events |-> Taken'[f]] /\ Taken = [f \in Events |-> Taken[f]]
          BY DEF Taken
      <4> QED BY <4>1, <4>2
    <3>2. Promise!Accept(e, x)
        BY <3>1, <2>1, <2>2, <2>3 DEF Promise!Accept
    <3> QED BY <3>2 DEF Promise!DeliveryNext
  <2>5. CASE ~ accepted
    <3>1. Taken' = Taken
      <4>1. \A f \in Events : left'[f] \cup refused'[f] = left[f] \cup refused[f]
          BY <2>1, <2>5
      <4> QED BY <4>1, <2>1 DEF Taken
    <3> QED BY <3>1, <2>1, <2>2 DEF Unseen
  <2> QED BY <2>4, <2>5
<1>4. CASE EndTry(e)
  <2>1. /\ job[e] = "running" /\ left[e] = {} /\ jobTry' = jobTry
        /\ audience' = [audience EXCEPT ![e] = {}] /\ left' = [left EXCEPT ![e] = {}]
        /\ refused' = [refused EXCEPT ![e] = {}]
      BY <1>4 DEF EndTry, Forget
  <2>2. Taken' = [Taken EXCEPT ![e] = {}]
      BY <2>1 DEF Taken
  <2>3. status[e] \in OutboundEventStatus /\ jobTry[e] > 0 /\ refused[e] \subseteq audience[e]
      BY <2>1 DEF TryOK
  <2>4. Recorded[e] # "unborn" /\ Taken[e] = audience[e] \ refused[e]
      BY <2>1, <2>3 DEF Recorded, Taken
  <2>5. CASE status' = status
    <3>1. Recorded' = Recorded
        BY <2>5 DEF Recorded
    <3>2. Promise!Break(e)
        BY <3>1, <2>1, <2>2 DEF Promise!Break, Promise!EndOfTry
    <3> QED BY <3>2 DEF Promise!DeliveryNext
  <2>6. CASE /\ refused[e] = {} /\ status' = [status EXCEPT ![e] = "successful"]
    <3>1. Recorded' = [Recorded EXCEPT ![e] = "successful"]
        BY <2>6 DEF Recorded
    <3>2. Promise!Succeed(e)
        BY <3>1, <2>1, <2>2, <2>3, <2>4, <2>6 DEF Promise!Succeed, Promise!EndOfTry
    <3> QED BY <3>2 DEF Promise!DeliveryNext
  <2>7. CASE /\ refused[e] # {} /\ ~ jobTry[e] < LastTry
             /\ status' = [status EXCEPT ![e] = "failed"]
    <3>1. Recorded' = [Recorded EXCEPT ![e] = "failed"]
        BY <2>7 DEF Recorded
    <3>2. jobTry[e] >= LastTry
        BY <2>7, OutboxAssumption DEF OutboxAssumption
    <3>3. Promise!GiveUp(e)
        BY <3>1, <3>2, <2>1, <2>2, <2>3, <2>4, <2>7 DEF Promise!GiveUp, Promise!EndOfTry
    <3> QED BY <3>3 DEF Promise!DeliveryNext
  <2> QED BY <1>4, <2>5, <2>6, <2>7 DEF EndTry
<1>5. CASE Crash(e)
  <2>1. /\ UNCHANGED <<status, jobTry>>
        /\ audience' = [audience EXCEPT ![e] = {}] /\ left' = [left EXCEPT ![e] = {}]
        /\ refused' = [refused EXCEPT ![e] = {}]
      BY <1>5 DEF Crash, Forget
  <2>2. Taken' = [Taken EXCEPT ![e] = {}] /\ Recorded' = Recorded
      BY <2>1 DEF Taken, Recorded
  <2>3. Promise!Break(e)
      BY <2>1, <2>2 DEF Promise!Break, Promise!EndOfTry
  <2> QED BY <2>3 DEF Promise!DeliveryNext
<1> QED BY <1>1, <1>2, <1>3, <1>4, <1>5 DEF Worker

LEMMA StepKeeps ==
    ASSUME OutboxInv, [Next]_vars
    PROVE  [Promise!DeliveryNext]_(Promise!dvars)
<1>1. ASSUME Unseen PROVE UNCHANGED Promise!dvars
    BY <1>1 DEF Unseen, Promise!dvars
<1>2. CASE UNCHANGED vars
    BY <1>1, <1>2 DEF vars, Unseen, Recorded, Taken
<1>3. ASSUME NEW x \in Endpoints, Register(x) \/ Remove(x)
      PROVE  Unseen
    BY <1>3 DEF Register, Remove, tryVars, Unseen, Recorded, Taken
<1> QED BY <1>1, <1>2, <1>3, EngineKeeps, WorkerKeeps DEF Next

LEMMA InitKeeps == Init => Promise!DeliveryInit
BY DEF Init, Promise!DeliveryInit, Recorded, Taken, OutboundEventStatus

\* The outbox implements the promise to the tenant: for any number of events,
\* endpoints, sessions and crashes, a recorded event turns successful only when
\* every endpoint of one try took it, and failed only in the last try or later
\* (deliver_webhook_job).
THEOREM PromiseIsKept == Spec => KeepsPromise
<1>1. Init => Promise!DeliveryInit
    BY InitKeeps
<1>2. OutboxInv /\ [Next]_vars => [Promise!DeliveryNext]_(Promise!dvars)
    BY StepKeeps
<1> QED BY <1>1, <1>2, OutboxInvariant, PTL DEF Spec, KeepsPromise, Promise!DeliverySpec
=============================================================================
