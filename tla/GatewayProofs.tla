--------------------------- MODULE GatewayProofs ---------------------------
(***************************************************************************)
(* Theorems about Gateway for every number of requests, dashboard requests *)
(* and slots, every plan limit and every length of run.                    *)
(***************************************************************************)
EXTENDS Gateway, FiniteSetTheorems, TLAPS

KeysTypeOK ==
    /\ value \in [Slots -> 0 .. issued]
    /\ active \in [Slots -> BOOLEAN]
    /\ issued \in Nat /\ begun \in 0 .. MaxTasks
    /\ task \in [Managers -> Tasks \cup {NoTask}]
    /\ retired \subseteq 1 .. issued

\* The three writes keep the key columns typed.
LEMMA WriteType ==
    ASSUME KeysTypeOK, NEW t \in Tasks, CreateKey(t) \/ RegenerateKey(t) \/ RevokeKey(t)
    PROVE  /\ value' \in [Slots -> 0 .. issued'] /\ active' \in [Slots -> BOOLEAN]
           /\ issued' \in Nat /\ issued <= issued' /\ retired' \subseteq 1 .. issued'
<1>1. /\ t.slot \in Slots /\ t.value \in 0 .. issued /\ t.active \in BOOLEAN
      /\ issued \in Nat
    BY DEF Tasks, KeysTypeOK
<1>2. ASSUME NEW to \in BOOLEAN, SetActive(t, to)
      PROVE  active' \in [Slots -> BOOLEAN]
    BY <1>1, <1>2 DEF SetActive, KeysTypeOK
<1>3. ASSUME Generate(t.slot)
      PROVE  issued' = issued + 1 /\ value' \in [Slots -> 0 .. issued']
    BY <1>1, <1>3 DEF Generate, KeysTypeOK
<1>4. ASSUME Retire(t)
      PROVE  retired' \subseteq 1 .. issued
  <2>1. {t.value} \ {0} \subseteq 1 .. issued
      BY <1>1
  <2> QED BY <1>4, <2>1 DEF Retire, KeysTypeOK, NoKey
<1>5. CASE CreateKey(t)
  <2>1. CASE UNCHANGED <<value, active, issued>>
      BY <1>5, <2>1 DEF CreateKey, KeysTypeOK
  <2>2. CASE /\ Generate(t.slot)
             /\ SetActive(t, TRUE) \/ active' = [active EXCEPT ![t.slot] = TRUE]
    <3>1. active' \in [Slots -> BOOLEAN]
        BY <1>1, <1>2, <2>2 DEF KeysTypeOK
    <3>2. issued' = issued + 1 /\ value' \in [Slots -> 0 .. issued']
        BY <1>3, <2>2
    <3>3. retired' = retired
        BY <1>5 DEF CreateKey
    <3> QED BY <1>1, <3>1, <3>2, <3>3 DEF KeysTypeOK
  <2> QED BY <1>5, <2>1, <2>2 DEF CreateKey
<1>6. CASE RegenerateKey(t)
  <2>1. CASE UNCHANGED <<value, active, issued, retired>>
      BY <1>6, <2>1 DEF KeysTypeOK
  <2>2. CASE Generate(t.slot) /\ SetActive(t, TRUE) /\ Retire(t)
    <3>1. active' \in [Slots -> BOOLEAN]
        BY <1>2, <2>2
    <3>2. issued' = issued + 1 /\ value' \in [Slots -> 0 .. issued']
        BY <1>3, <2>2
    <3>3. retired' \subseteq 1 .. issued
        BY <1>4, <2>2
    <3> QED BY <1>1, <3>1, <3>2, <3>3
  <2> QED BY <1>6, <2>1, <2>2 DEF RegenerateKey
<1>7. CASE RevokeKey(t)
  <2>1. retired' \subseteq 1 .. issued /\ active' \in [Slots -> BOOLEAN]
      BY <1>2, <1>4, <1>7 DEF RevokeKey, KeysTypeOK
  <2> QED BY <1>1, <1>7, <2>1 DEF RevokeKey, KeysTypeOK
<1> QED BY <1>5, <1>6, <1>7

\* A step of a dashboard request keeps the key columns typed.
LEMMA ManageType ==
    ASSUME KeysAssumption, KeysTypeOK, NEW m \in Managers, Manage(m)
    PROVE  KeysTypeOK' /\ issued <= issued'
<1>1. ASSUME NEW what \in {"create", "regenerate", "revoke"}, NEW s \in Slots,
             Read(m, what, s)
      PROVE  KeysTypeOK' /\ issued <= issued'
  <2>1. value[s] \in 0 .. issued /\ active[s] \in BOOLEAN
      BY DEF KeysTypeOK
  <2>2. [what |-> what, slot |-> s, value |-> value[s], active |-> active[s]] \in Tasks
      BY <2>1 DEF Tasks
  <2>3. task' \in [Managers -> Tasks \cup {NoTask}]
      BY <1>1, <2>2 DEF Read, KeysTypeOK
  <2>4. begun' \in 0 .. MaxTasks
      BY <1>1 DEF Read, KeysTypeOK, KeysAssumption
  <2> QED BY <1>1, <2>3, <2>4 DEF Read, KeysTypeOK, Tasks
<1>2. CASE Write(m)
  <2>1. task[m] \in Tasks
      BY <1>2 DEF Write, KeysTypeOK
  <2>2. /\ value' \in [Slots -> 0 .. issued'] /\ active' \in [Slots -> BOOLEAN]
        /\ issued' \in Nat /\ issued <= issued' /\ retired' \subseteq 1 .. issued'
      BY <1>2, <2>1, WriteType DEF Write
  <2>3. Tasks \subseteq Tasks'
      BY <2>2 DEF Tasks, KeysTypeOK
  <2>4. task' \in [Managers -> Tasks' \cup {NoTask}] /\ begun' \in 0 .. MaxTasks
      BY <1>2, <2>3 DEF Write, KeysTypeOK
  <2> QED BY <2>2, <2>4 DEF KeysTypeOK
<1> QED BY <1>1, <1>2 DEF Manage
-----------------------------------------------------------------------------

RequestsTypeOK ==
    /\ at \in [Requests -> {"new", "tenant", "project", "limit", "plan", "cache",
                            "counter", "store", "endpoint", "storing", "done"}]
    /\ key \in [Requests -> (0 .. issued) \cup {Jwt}]
    /\ op \in [Requests -> Ops \cup {NoOp}]
    /\ late \in [Requests -> BOOLEAN]
    /\ knew \in [Requests -> SUBSET Replies]
    /\ reply \in [Requests -> Replies \cup {NoReply}]
    /\ answers \in [Ops -> SUBSET Replies]
    /\ store \in [Ops -> Replies \cup {NoReply}]
    /\ admitted \in [Requests -> BOOLEAN]
    /\ ran \in [Requests -> BOOLEAN]

CountersTypeOK ==
    /\ limit \in [Requests -> Nat]
    /\ bucket \in [Requests -> 0 .. minute]
    /\ planLimit \in Limits
    /\ limitCache \in Limits \cup {DefaultLimit, NoLimit}
    /\ counter \in [0 .. MaxMinute -> Nat]
    /\ minute \in 0 .. MaxMinute /\ changes \in 0 .. MaxChanges

LEMMA TypeParts == GatewayTypeOK <=> KeysTypeOK /\ RequestsTypeOK /\ CountersTypeOK
BY DEF GatewayTypeOK, KeysTypeOK, RequestsTypeOK, CountersTypeOK

\* A request that awaits the store of answers presents an operation, and has
\* an answer by the time it stores one; a limit is cached as it was found.
PlaceOK(r) ==
    /\ at[r] = "cache" => limit[r] \in Limits \cup {DefaultLimit}
    /\ at[r] \in {"store", "storing"} => op[r] \in Ops
    /\ at[r] = "storing" => key[r] # Jwt /\ reply[r] \in Replies

\* Every step of a request keeps the requests and what is stored for them typed.
LEMMA StepRequestsType ==
    ASSUME KeysTypeOK, RequestsTypeOK, NEW r \in Requests, PlaceOK(r), Step(r)
    PROVE  RequestsTypeOK'
<1> USE DEF RequestsTypeOK, Goto
<1>1. ASSUME NEW status \in {"ok", "refused", "error", "unauthorized", "too_many"}
      PROVE  Reply(status, r) \in Replies
    BY DEF Reply, Replies
<1>2. ASSUME NEW k \in (1 .. issued) \cup {Jwt}, NEW o \in Ops \cup {NoOp}, Arrive(r, k, o)
      PROVE  RequestsTypeOK'
  <2>1. knew' \in [Requests -> SUBSET Replies]
      BY <1>2 DEF Arrive
  <2>2. key' \in [Requests -> (0 .. issued) \cup {Jwt}] /\ op' \in [Requests -> Ops \cup {NoOp}]
      BY <1>2 DEF Arrive, KeysTypeOK
  <2>3. late' \in [Requests -> BOOLEAN]
      BY <1>2 DEF Arrive
  <2> QED BY <1>2, <2>1, <2>2, <2>3 DEF Arrive, keyVars, redisVars
<1>3. CASE TenantLookup(r)
    BY <1>3 DEF TenantLookup, authUnchanged, keyVars, redisVars
<1>4. CASE ProjectLookup(r)
    BY <1>1, <1>4 DEF ProjectLookup, Respond, authUnchanged, keyVars, redisVars
<1>5. CASE ResolveLimit(r)
    BY <1>5 DEF ResolveLimit, HoldTo, limitUnchanged, keyVars
<1>6. ASSUME NEW n \in Limits \cup {DefaultLimit}, FetchPlanLimit(r, n)
      PROVE  RequestsTypeOK'
    BY <1>6 DEF FetchPlanLimit, limitUnchanged, keyVars
<1>7. CASE CacheLimit(r)
    BY <1>7 DEF CacheLimit, HoldTo, limitUnchanged, keyVars
<1>8. CASE Count(r)
  <2>1. CASE Respond(r, Reply("too_many", r)) /\ UNCHANGED admitted
      BY <1>1, <1>8, <2>1 DEF Count, Respond, limitUnchanged, keyVars
  <2>2. CASE Admit(r)
      BY <1>8, <2>2 DEF Count, Admit, limitUnchanged, keyVars
  <2> QED BY <1>8, <2>1, <2>2 DEF Count
<1>9. CASE LookUp(r)
  <2>1. store[op[r]] \in Replies \cup {NoReply}
      BY <1>9 DEF LookUp, PlaceOK
  <2> QED BY <1>9, <2>1 DEF LookUp, Respond, endUnchanged, keyVars
<1>10. ASSUME NEW status \in {"ok", "refused", "error"}, Run(r, status)
       PROVE  RequestsTypeOK'
    BY <1>1, <1>10 DEF Run, endUnchanged, keyVars
<1>11. CASE Store(r)
  <2>1. op[r] \in Ops /\ reply[r] \in Replies
      BY <1>11 DEF Store, PlaceOK
  <2> QED BY <1>11, <2>1 DEF Store, endUnchanged, keyVars
<1>12. CASE Lose(r)
    BY <1>12 DEF Lose, Respond, keyVars, redisVars
<1> QED BY <1>2, <1>3, <1>4, <1>5, <1>6, <1>7, <1>8, <1>9, <1>10, <1>11, <1>12 DEF Step

\* Every step of a request keeps its limit and the counters typed.
LEMMA StepCountersType ==
    ASSUME GatewayAssumption, CountersTypeOK, NEW r \in Requests, PlaceOK(r), Step(r)
    PROVE  CountersTypeOK'
<1> USE DEF CountersTypeOK
<1>1. ASSUME UNCHANGED <<limit, bucket, planLimit, limitCache, counter, minute, changes>>
      PROVE  CountersTypeOK'
    BY <1>1
<1>2. ASSUME NEW k \in (1 .. issued) \cup {Jwt}, NEW o \in Ops \cup {NoOp}, Arrive(r, k, o)
      PROVE  CountersTypeOK'
    BY <1>1, <1>2 DEF Arrive, redisVars, worldVars
<1>3. CASE TenantLookup(r) \/ ProjectLookup(r)
    BY <1>1, <1>3 DEF TenantLookup, ProjectLookup, authUnchanged, redisVars, worldVars
<1>4. CASE ResolveLimit(r)
  <2>1. limitCache # NoLimit => limitCache \in Nat
      BY DEF GatewayAssumption
  <2>2. CASE limitCache # NoLimit
    <3>1. limit' \in [Requests -> Nat]
        BY <1>4, <2>1, <2>2 DEF ResolveLimit, HoldTo
    <3>2. minute' = minute /\ bucket' = [bucket EXCEPT ![r] = minute]
        BY <1>4, <2>2 DEF ResolveLimit, HoldTo, limitUnchanged, worldVars
    <3>3. minute \in 0 .. minute
        BY DEF GatewayAssumption
    <3>4. bucket' \in [Requests -> 0 .. minute']
        BY <3>2, <3>3
    <3> QED BY <1>4, <3>1, <3>2, <3>4 DEF ResolveLimit, HoldTo, limitUnchanged, worldVars
  <2>3. CASE limitCache = NoLimit
      BY <1>1, <1>4, <2>3 DEF ResolveLimit, limitUnchanged, worldVars
  <2> QED BY <2>2, <2>3
<1>5. ASSUME NEW n \in Limits \cup {DefaultLimit}, FetchPlanLimit(r, n)
      PROVE  CountersTypeOK'
  <2>1. n \in Nat
      BY DEF GatewayAssumption
  <2> QED BY <1>5, <2>1 DEF FetchPlanLimit, limitUnchanged, worldVars
<1>6. CASE CacheLimit(r)
  <2>1. limit[r] \in Limits \cup {DefaultLimit} /\ limit[r] \in Nat
      BY <1>6 DEF CacheLimit, PlaceOK
  <2> QED BY <1>6, <2>1 DEF CacheLimit, HoldTo, limitUnchanged, worldVars
<1>7. CASE Count(r)
  <2>1. bucket[r] \in 0 .. MaxMinute
      BY DEF GatewayAssumption
  <2>2. counter' \in [0 .. MaxMinute -> Nat]
      BY <1>7, <2>1 DEF Count
  <2> QED BY <1>7, <2>2 DEF Count, limitUnchanged, worldVars
<1>8. CASE LookUp(r) \/ Store(r)
    BY <1>1, <1>8 DEF LookUp, Store, endUnchanged, worldVars
<1>9. ASSUME NEW status \in {"ok", "refused", "error"}, Run(r, status)
      PROVE  CountersTypeOK'
    BY <1>1, <1>9 DEF Run, endUnchanged, worldVars
<1>10. CASE Lose(r)
    BY <1>10 DEF Lose, redisVars, GatewayAssumption
<1> QED BY <1>2, <1>3, <1>4, <1>5, <1>6, <1>7, <1>8, <1>9, <1>10 DEF Step

PlacesOK == \A r \in Requests : PlaceOK(r)

\* A step of one request leaves the others where they are.
LEMMA OthersInPlace ==
    ASSUME NEW r \in Requests, Step(r), NEW q \in Requests \ {r},
           RequestsTypeOK, CountersTypeOK
    PROVE  UNCHANGED <<at[q], key[q], op[q], late[q], knew[q], limit[q], bucket[q],
                       admitted[q], ran[q], reply[q]>>
<1> USE DEF RequestsTypeOK, CountersTypeOK, Goto, Respond
<1>1. ASSUME NEW k \in (1 .. issued) \cup {Jwt}, NEW o \in Ops \cup {NoOp}, Arrive(r, k, o)
      PROVE  UNCHANGED <<at[q], key[q], op[q], late[q], knew[q]>>
    BY <1>1 DEF Arrive
<1>2. ASSUME NEW k \in (1 .. issued) \cup {Jwt}, NEW o \in Ops \cup {NoOp}, Arrive(r, k, o)
      PROVE  UNCHANGED <<limit[q], bucket[q], admitted[q], ran[q], reply[q]>>
    BY <1>2 DEF Arrive
<1>3. CASE TenantLookup(r) \/ ProjectLookup(r)
    BY <1>3 DEF TenantLookup, ProjectLookup, authUnchanged
<1>4. CASE ResolveLimit(r) \/ CacheLimit(r)
    BY <1>4 DEF ResolveLimit, CacheLimit, HoldTo, limitUnchanged
<1>5. ASSUME NEW n \in Limits \cup {DefaultLimit}, FetchPlanLimit(r, n)
      PROVE  UNCHANGED <<at[q], key[q], op[q], late[q], knew[q], limit[q], bucket[q],
                         admitted[q], ran[q], reply[q]>>
    BY <1>5 DEF FetchPlanLimit, limitUnchanged
<1>6. CASE Count(r)
    BY <1>6 DEF Count, Admit, limitUnchanged
<1>7. CASE LookUp(r)
    BY <1>7 DEF LookUp, endUnchanged
<1>8. ASSUME NEW status \in {"ok", "refused", "error"}, Run(r, status)
      PROVE  UNCHANGED <<at[q], key[q], op[q], late[q], knew[q], limit[q], bucket[q],
                         admitted[q], ran[q], reply[q]>>
    BY <1>8 DEF Run, endUnchanged
<1>9. CASE Store(r)
    BY <1>9 DEF Store, endUnchanged
<1>10. CASE Lose(r)
    BY <1>10 DEF Lose
<1> QED BY <1>1, <1>2, <1>3, <1>4, <1>5, <1>6, <1>7, <1>8, <1>9, <1>10 DEF Step

\* ... and the one that steps is where its next step expects it to be.
LEMMA StepPlaces ==
    ASSUME GatewayAssumption, RequestsTypeOK, CountersTypeOK, PlacesOK,
           NEW r \in Requests, Step(r)
    PROVE  PlacesOK'
<1> USE DEF RequestsTypeOK, CountersTypeOK, Goto, Respond
<1>1. ASSUME NEW q \in Requests \ {r} PROVE PlaceOK(q)'
    BY <1>1, OthersInPlace DEF PlacesOK, PlaceOK
<1>2. PlaceOK(r)'
  <2>1. ASSUME NEW k \in (1 .. issued) \cup {Jwt}, NEW o \in Ops \cup {NoOp}, Arrive(r, k, o)
        PROVE  at'[r] \notin {"cache", "store", "storing"}
      BY <2>1 DEF Arrive
  <2>2. CASE TenantLookup(r) \/ ProjectLookup(r) \/ ResolveLimit(r) \/ CacheLimit(r)
      BY <2>2 DEF TenantLookup, ProjectLookup, ResolveLimit, CacheLimit, HoldTo, PlaceOK
  <2>3. ASSUME NEW n \in Limits \cup {DefaultLimit}, FetchPlanLimit(r, n)
        PROVE  at'[r] = "cache" /\ limit'[r] \in Limits \cup {DefaultLimit}
      BY <2>3 DEF FetchPlanLimit
  <2>4. CASE Count(r)
      BY <2>4 DEF Count, Admit, limitUnchanged, PlaceOK
  <2>5. CASE LookUp(r) \/ Store(r)
      BY <2>5 DEF LookUp, Store, PlaceOK
  <2>6. ASSUME NEW status \in {"ok", "refused", "error"}, Run(r, status)
        PROVE  at'[r] = "storing" =>
                  op'[r] \in Ops /\ key'[r] # Jwt /\ reply'[r] \in Replies
    <3>1. Reply(status, r) \in Replies
        BY DEF Reply, Replies
    <3> QED BY <2>6, <3>1 DEF Run, Remembers, endUnchanged
  <2>7. ASSUME NEW status \in {"ok", "refused", "error"}, Run(r, status)
        PROVE  at'[r] \notin {"cache", "store"}
      BY <2>7 DEF Run
  <2>8. CASE Lose(r)
      BY <2>8 DEF Lose, PlaceOK
  <2> QED BY <2>1, <2>2, <2>3, <2>4, <2>5, <2>6, <2>7, <2>8 DEF Step, PlaceOK
<1> QED BY <1>1, <1>2 DEF PlacesOK

TypeInv == KeysTypeOK /\ RequestsTypeOK /\ CountersTypeOK /\ PlacesOK

LEMMA TypeInit ==
    ASSUME KeysAssumption, GatewayAssumption, Init
    PROVE  TypeInv
<1>1. KeysTypeOK
    BY DEF Init, KeysInit, KeysTypeOK, KeysAssumption
<1>2. RequestsTypeOK
    BY DEF Init, RequestsTypeOK, KeysInit, KeysAssumption, NoKey
<1>3. CountersTypeOK
    BY DEF Init, CountersTypeOK, GatewayAssumption
<1>4. PlacesOK
    BY DEF Init, PlacesOK, PlaceOK
<1> QED BY <1>1, <1>2, <1>3, <1>4 DEF TypeInv

\* What is not a step of a request leaves the requests as they are.
LEMMA OtherSteps ==
    ASSUME KeysAssumption, GatewayAssumption, TypeInv,
           \/ \E m \in Managers : Manage(m) /\ UNCHANGED <<requestVars, redisVars, worldVars>>
           \/ Tick
           \/ ExpireLimit
           \/ \E n \in Limits : ChangePlan(n)
           \/ UNCHANGED vars
    PROVE  /\ TypeInv'
           /\ UNCHANGED <<requestVars, store, counter>>
<1> USE DEF TypeInv, requestVars, redisVars, worldVars
<1>1. CASE \E m \in Managers : Manage(m) /\ UNCHANGED <<requestVars, redisVars, worldVars>>
  <2>1. KeysTypeOK' /\ issued <= issued'
      BY <1>1, ManageType
  <2>2. 0 .. issued \subseteq 0 .. issued'
      BY <2>1 DEF KeysTypeOK
  <2>3. key' \in [Requests -> (0 .. issued') \cup {Jwt}]
      BY <1>1, <2>2 DEF RequestsTypeOK
  <2>4. RequestsTypeOK'
      BY <1>1, <2>3 DEF RequestsTypeOK
  <2>5. CountersTypeOK' /\ PlacesOK'
      BY <1>1 DEF CountersTypeOK, PlacesOK, PlaceOK
  <2> QED BY <1>1, <2>1, <2>4, <2>5
<1>2. CASE Tick
  <2>1. bucket' \in [Requests -> 0 .. minute'] /\ minute' \in 0 .. MaxMinute
      BY <1>2 DEF Tick, CountersTypeOK, GatewayAssumption
  <2>2. CountersTypeOK'
      BY <1>2, <2>1 DEF Tick, CountersTypeOK
  <2> QED BY <1>2, <2>2 DEF Tick, keyVars, KeysTypeOK, Tasks, RequestsTypeOK, PlacesOK, PlaceOK
<1>3. CASE ExpireLimit \/ \E n \in Limits : ChangePlan(n)
  <2>1. CountersTypeOK'
      BY <1>3 DEF ExpireLimit, ChangePlan, CountersTypeOK, GatewayAssumption
  <2> QED BY <1>3, <2>1 DEF ExpireLimit, ChangePlan, keyVars, KeysTypeOK, Tasks,
                            RequestsTypeOK, PlacesOK, PlaceOK
<1>4. CASE UNCHANGED vars
    BY <1>4 DEF vars, keyVars, KeysTypeOK, Tasks, RequestsTypeOK, CountersTypeOK,
                PlacesOK, PlaceOK
<1> QED BY <1>1, <1>2, <1>3, <1>4

\* A step of a request leaves the keys alone.
LEMMA StepKeepsKeys ==
    ASSUME NEW r \in Requests, Step(r)
    PROVE  UNCHANGED keyVars
BY DEF Step, Arrive, TenantLookup, ProjectLookup, ResolveLimit, FetchPlanLimit, CacheLimit,
       Count, LookUp, Run, Store, Lose, authUnchanged, limitUnchanged, endUnchanged

LEMMA TypeStep ==
    ASSUME KeysAssumption, GatewayAssumption, TypeInv, [Next]_vars
    PROVE  TypeInv'
<1>1. ASSUME NEW r \in Requests, Step(r)
      PROVE  TypeInv'
  <2>1. KeysTypeOK' /\ PlaceOK(r)
      BY <1>1, StepKeepsKeys DEF TypeInv, PlacesOK, keyVars, KeysTypeOK, Tasks
  <2>2. RequestsTypeOK' /\ CountersTypeOK' /\ PlacesOK'
      BY <1>1, <2>1, StepRequestsType, StepCountersType, StepPlaces DEF TypeInv
  <2> QED BY <2>1, <2>2 DEF TypeInv
<1> QED BY <1>1, OtherSteps DEF Next

\* GatewayTypeOK for every instance: the middleware and the dashboard keep every
\* row, every Redis entry and every request in its domain.
THEOREM GatewayTypeCorrect == Spec => []GatewayTypeOK
<1>1. Init => TypeInv
    BY TypeInit, KeysAssumption, GatewayAssumption
<1>2. TypeInv /\ [Next]_vars => TypeInv'
    BY TypeStep, KeysAssumption, GatewayAssumption
<1>3. TypeInv => GatewayTypeOK
    BY TypeParts DEF TypeInv
<1> QED BY <1>1, <1>2, <1>3, PTL DEF Spec
-----------------------------------------------------------------------------
(* A retired key opens nothing. *)

\* A key is in one slot at most, and a dashboard request knows it by that slot;
\* a key that opens its slot was not retired; and a slot that a dashboard request
\* saw switched off is off for as long as it holds the key it held then.
KeysSound ==
    /\ \A s, u \in Slots : value[s] = value[u] /\ value[s] # NoKey => s = u
    /\ \A s \in Slots : active[s] => value[s] \notin retired
    /\ \A m \in Managers : task[m] # NoTask =>
          /\ \A s \in Slots :
                value[s] = task[m].value /\ value[s] # NoKey => s = task[m].slot
          /\ ~task[m].active /\ value[task[m].slot] = task[m].value
                => ~active[task[m].slot]

\* A request whose key was retired before it came gets no further than the
\* two lookups.
LateSound ==
    \A r \in Requests :
        /\ at[r] = "new" => ~admitted[r] /\ ~ran[r]
        /\ late[r] => /\ key[r] \in retired
                      /\ at[r] \in {"tenant", "project", "done"}
                      /\ ~admitted[r] /\ ~ran[r]

\* What the three writes do to the slots: a new key is put into the slot, or the
\* slot is switched off, or left.
LEMMA WriteEffect ==
    ASSUME KeysTypeOK, NEW t \in Tasks, CreateKey(t) \/ RegenerateKey(t) \/ RevokeKey(t)
    PROVE  /\ \/ /\ value' = [value EXCEPT ![t.slot] = issued + 1]
                 /\ \A s \in Slots \ {t.slot} : active'[s] = active[s]
              \/ /\ value' = value
                 /\ \A s \in Slots : active'[s] => active[s]
                 /\ retired' = retired
              \/ /\ value' = value
                 /\ \A s \in Slots : active'[s] => active[s]
                 /\ active'[t.slot] => ~t.active
           /\ retired' \subseteq retired \cup ({t.value} \ {NoKey})
<1>1. t.slot \in Slots /\ t.active \in BOOLEAN /\ active \in [Slots -> BOOLEAN]
    BY DEF Tasks, KeysTypeOK
<1>2. CASE CreateKey(t)
    BY <1>1, <1>2 DEF CreateKey, Generate, SetActive
<1>3. CASE RegenerateKey(t)
    BY <1>1, <1>3 DEF RegenerateKey, Generate, SetActive, Retire
<1>4. CASE RevokeKey(t)
    BY <1>1, <1>4 DEF RevokeKey, SetActive, Retire
<1> QED BY <1>2, <1>3, <1>4

LEMMA KeysStep ==
    ASSUME KeysAssumption, KeysTypeOK, KeysSound, NEW m \in Managers, Manage(m)
    PROVE  KeysSound' /\ retired \subseteq retired'
<1>1. ASSUME NEW what \in {"create", "regenerate", "revoke"}, NEW s \in Slots,
             Read(m, what, s)
      PROVE  KeysSound' /\ retired \subseteq retired'
  <2>1. task' = [task EXCEPT ![m] = [what |-> what, slot |-> s,
                                    value |-> value[s], active |-> active[s]]]
      BY <1>1 DEF Read
  <2>2. ASSUME NEW n \in Managers, task'[n] # NoTask
        PROVE  /\ \A u \in Slots :
                     value[u] = task'[n].value /\ value[u] # NoKey => u = task'[n].slot
               /\ ~task'[n].active /\ value[task'[n].slot] = task'[n].value
                     => ~active[task'[n].slot]
    <3>1. CASE n = m
        BY <2>1, <3>1 DEF KeysTypeOK, KeysSound
    <3>2. CASE n # m
        BY <2>1, <2>2, <3>2 DEF KeysTypeOK, KeysSound
    <3> QED BY <3>1, <3>2
  <2> QED BY <1>1, <2>2 DEF Read, KeysSound
<1>2. CASE Write(m)
  <2> DEFINE t == task[m]
  <2>1. /\ t # NoTask /\ t \in Tasks /\ (CreateKey(t) \/ RegenerateKey(t) \/ RevokeKey(t))
        /\ task' = [task EXCEPT ![m] = NoTask]
      BY <1>2 DEF Write, KeysTypeOK
  <2>2. t.slot \in Slots /\ t.value \in 0 .. issued /\ issued \in Nat
      BY <2>1 DEF Tasks, KeysTypeOK
  <2>3. \A s \in Slots : value[s] = t.value /\ value[s] # NoKey => s = t.slot
      BY <2>1 DEF KeysSound
  <2>4. \A s \in Slots : value[s] <= issued /\ value[s] \in Nat
      BY DEF KeysTypeOK
  <2>5. \A n \in Managers : task'[n] # NoTask => task'[n] = task[n] /\ task[n] \in Tasks
      BY <2>1 DEF KeysTypeOK
  <2>6. \A n \in Managers : task'[n] # NoTask =>
            task[n].value \in Nat /\ task[n].value <= issued /\ task[n].slot \in Slots
      BY <2>5, <2>2 DEF Tasks
  <2>7. retired \subseteq retired'
      BY <2>1 DEF CreateKey, RegenerateKey, RevokeKey, Retire
  <2>8. retired' \subseteq retired \cup ({t.value} \ {NoKey})
      BY <2>1, WriteEffect DEF KeysTypeOK
  <2> HIDE DEF t
  <2>9. CASE /\ value' = [value EXCEPT ![t.slot] = issued + 1]
             /\ \A s \in Slots \ {t.slot} : active'[s] = active[s]
    <3>1. \A s \in Slots : value'[s] = IF s = t.slot THEN issued + 1 ELSE value[s]
        BY <2>2, <2>9 DEF KeysTypeOK
    <3>2. \A s, u \in Slots : value'[s] = value'[u] /\ value'[s] # NoKey => s = u
        BY <2>2, <2>4, <3>1 DEF KeysSound
    <3>3. ASSUME NEW s \in Slots, active'[s]
          PROVE  value'[s] \notin retired'
      <4>1. CASE s = t.slot
          BY <2>2, <2>8, <3>1, <4>1 DEF KeysTypeOK
      <4>2. CASE s # t.slot
          BY <2>3, <2>8, <2>9, <3>1, <3>3, <4>2 DEF KeysSound
      <4> QED BY <4>1, <4>2
    <3>4. ASSUME NEW n \in Managers, task'[n] # NoTask
          PROVE  /\ \A s \in Slots : value'[s] = task'[n].value /\ value'[s] # NoKey
                                        => s = task'[n].slot
                 /\ ~task'[n].active /\ value'[task'[n].slot] = task'[n].value
                       => ~active'[task'[n].slot]
      <4>1. task[n] # NoTask /\ task'[n] = task[n] /\ task[n].value <= issued
            /\ task[n].value \in Nat /\ task[n].slot \in Slots
          BY <2>5, <2>6, <3>4
      <4> QED BY <2>2, <2>9, <3>1, <4>1 DEF KeysSound
    <3> QED BY <2>7, <3>2, <3>3, <3>4 DEF KeysSound
  <2>10. CASE /\ value' = value
              /\ \A s \in Slots : active'[s] => active[s]
              /\ retired' = retired \/ (active'[t.slot] => ~t.active)
    <3>1. ASSUME NEW s \in Slots, active'[s]
          PROVE  value[s] \notin retired'
      <4>1. active[s] /\ value[s] \notin retired
          BY <2>10, <3>1 DEF KeysSound
      <4>2. ASSUME value[s] = t.value, value[s] # NoKey, retired' # retired
            PROVE  FALSE
        <5>1. s = t.slot
            BY <2>3, <4>2
        <5>2. ~t.active
            BY <2>10, <3>1, <4>2, <5>1
        <5> QED BY <2>1, <4>1, <4>2, <5>1, <5>2 DEF KeysSound, t
      <4> QED BY <2>8, <4>1, <4>2
    <3>2. ASSUME NEW n \in Managers, task'[n] # NoTask
          PROVE  /\ \A s \in Slots : value'[s] = task'[n].value /\ value'[s] # NoKey
                                        => s = task'[n].slot
                 /\ ~task'[n].active /\ value'[task'[n].slot] = task'[n].value
                       => ~active'[task'[n].slot]
      <4>1. task[n] # NoTask /\ task'[n] = task[n] /\ task[n].slot \in Slots
          BY <2>5, <2>6, <3>2
      <4> QED BY <2>10, <4>1 DEF KeysSound
    <3> QED BY <2>7, <2>10, <3>1, <3>2 DEF KeysSound
  <2> QED BY <2>1, <2>9, <2>10, WriteEffect
<1> QED BY <1>1, <1>2 DEF Manage

\* A request comes once.
LEMMA NeverNew ==
    ASSUME RequestsTypeOK, NEW r \in Requests, Step(r)
    PROVE  at'[r] # "new"
<1> USE DEF RequestsTypeOK, Goto, Respond
<1>1. CASE \E k \in (1 .. issued) \cup {Jwt}, o \in Ops \cup {NoOp} : Arrive(r, k, o)
    BY <1>1 DEF Arrive
<1>2. CASE TenantLookup(r) \/ ProjectLookup(r)
    BY <1>2 DEF TenantLookup, ProjectLookup
<1>3. CASE ResolveLimit(r) \/ CacheLimit(r) \/ Count(r)
    BY <1>3 DEF ResolveLimit, CacheLimit, Count, HoldTo, Admit
<1>4. CASE \E n \in Limits \cup {DefaultLimit} : FetchPlanLimit(r, n)
    BY <1>4 DEF FetchPlanLimit
<1>5. CASE LookUp(r) \/ Store(r) \/ Lose(r)
    BY <1>5 DEF LookUp, Store, Lose
<1>6. CASE \E status \in {"ok", "refused", "error"} : Run(r, status)
    BY <1>6 DEF Run
<1> QED BY <1>1, <1>2, <1>3, <1>4, <1>5, <1>6 DEF Step

LEMMA LateStep ==
    ASSUME KeysAssumption, GatewayAssumption, TypeInv, KeysSound, LateSound, NEW r \in Requests, Step(r)
    PROVE  LateSound'
<1> USE DEF TypeInv, RequestsTypeOK, Goto, Respond
<1>1. retired' = retired
    BY StepKeepsKeys DEF keyVars
<1>2. ASSUME NEW q \in Requests \ {r}
      PROVE  /\ at'[q] = "new" => ~admitted'[q] /\ ~ran'[q]
             /\ late'[q] => /\ key'[q] \in retired
                            /\ at'[q] \in {"tenant", "project", "done"}
                            /\ ~admitted'[q] /\ ~ran'[q]
    BY OthersInPlace DEF LateSound
<1>3. at'[r] # "new"
    BY NeverNew
<1>4. ASSUME late'[r]
      PROVE  /\ key'[r] \in retired
             /\ at'[r] \in {"tenant", "project", "done"}
             /\ ~admitted'[r] /\ ~ran'[r]
  <2>1. ASSUME NEW k \in (1 .. issued) \cup {Jwt}, NEW o \in Ops \cup {NoOp}, Arrive(r, k, o)
        PROVE  /\ key'[r] \in retired
               /\ at'[r] \in {"tenant", "project", "done"}
               /\ ~admitted'[r] /\ ~ran'[r]
    <3>1. at[r] = "new" /\ ~admitted[r] /\ ~ran[r]
        BY <2>1 DEF Arrive, LateSound
    <3>2. k \in retired /\ key'[r] = k
        BY <1>4, <2>1 DEF Arrive
    <3>3. k # Jwt
        BY <3>2 DEF GatewayAssumption, KeysTypeOK
    <3> QED BY <2>1, <3>1, <3>2, <3>3 DEF Arrive
  <2>2. ASSUME \A k \in (1 .. issued) \cup {Jwt}, o \in Ops \cup {NoOp} : ~Arrive(r, k, o)
        PROVE  late'[r] = late[r]
      BY <2>2 DEF Step, TenantLookup, ProjectLookup, ResolveLimit, FetchPlanLimit, CacheLimit,
                  Count, LookUp, Run, Store, Lose, authUnchanged, limitUnchanged, endUnchanged
  <2>3. ASSUME late[r]
        PROVE  /\ key[r] \in retired /\ at[r] \in {"tenant", "project", "done"}
               /\ ~admitted[r] /\ ~ran[r]
      BY <2>3 DEF LateSound
  <2>4. ASSUME late[r], NEW slots \in SUBSET Slots
        PROVE  ~Opens(key[r], slots)
      BY <2>3, <2>4 DEF Opens, KeysSound
  <2>5. CASE late[r] /\ TenantLookup(r)
      BY <2>3, <2>4, <2>5 DEF TenantLookup, authUnchanged, Slots
  <2>6. CASE late[r] /\ ProjectLookup(r)
      BY <2>3, <2>4, <2>6 DEF ProjectLookup, authUnchanged, Slots
  <2>7. CASE late[r] /\ Lose(r)
      BY <2>3, <2>7 DEF Lose
  <2>8. ASSUME late[r]
        PROVE  /\ ~ResolveLimit(r) /\ ~CacheLimit(r) /\ ~Count(r) /\ ~LookUp(r) /\ ~Store(r)
               /\ \A n \in Limits \cup {DefaultLimit} : ~FetchPlanLimit(r, n)
               /\ \A status \in {"ok", "refused", "error"} : ~Run(r, status)
      BY <2>3, <2>8 DEF ResolveLimit, CacheLimit, Count, LookUp, Store, FetchPlanLimit, Run
  <2> QED BY <1>4, <2>1, <2>2, <2>5, <2>6, <2>7, <2>8 DEF Step
<1> QED BY <1>1, <1>2, <1>3, <1>4 DEF LateSound

\* RetiredKeyRefused for every instance: no order of stale reads and commits of
\* any number of dashboard requests lets a key through that was regenerated or
\* revoked before its request came.
THEOREM RetiredKeysAreRefused == Spec => []RetiredKeyRefused
<1> DEFINE Inv == TypeInv /\ KeysSound /\ LateSound
<1> USE KeysAssumption, GatewayAssumption
<1>1. Init => Inv
  <2> SUFFICES ASSUME Init PROVE KeysSound /\ LateSound
      BY TypeInit
  <2>1. KeysSound
      BY DEF Init, KeysInit, KeysSound, KeysAssumption, NoKey
  <2>2. LateSound
      BY DEF Init, LateSound
  <2> QED BY <2>1, <2>2
<1>2. Inv /\ [Next]_vars => Inv'
  <2> SUFFICES ASSUME Inv, [Next]_vars PROVE KeysSound' /\ LateSound'
      BY TypeStep
  <2>1. ASSUME NEW r \in Requests, Step(r)
        PROVE  KeysSound' /\ LateSound'
      BY <2>1, LateStep, StepKeepsKeys DEF keyVars, KeysSound
  <2>2. ASSUME NEW m \in Managers, Manage(m), UNCHANGED <<requestVars, redisVars, worldVars>>
        PROVE  KeysSound' /\ LateSound'
    <3>1. KeysSound' /\ retired \subseteq retired'
        BY <2>2, KeysStep DEF TypeInv
    <3> QED BY <2>2, <3>1 DEF requestVars, LateSound
  <2>3. CASE Tick \/ ExpireLimit \/ (\E n \in Limits : ChangePlan(n)) \/ UNCHANGED vars
    <3>1. UNCHANGED <<keyVars, requestVars>>
        BY <2>3 DEF Tick, ExpireLimit, ChangePlan, vars, requestVars
    <3> QED BY <3>1 DEF keyVars, requestVars, KeysSound, LateSound
  <2> QED BY <2>1, <2>2, <2>3 DEF Next
<1>3. Inv => RetiredKeyRefused
    BY DEF LateSound, RetiredKeyRefused
<1> QED BY <1>1, <1>2, <1>3, PTL DEF Spec
-----------------------------------------------------------------------------
(* A repeated request gets an answer that was given before. *)

\* What Redis has stored for an operation was answered, and what was answered
\* is stored.
StoreSound ==
    \A o \in Ops : /\ store[o] # NoReply => store[o] \in answers[o]
                   /\ answers[o] # {} => store[o] # NoReply

\* A request that came when its operation had been answered never gets to the
\* endpoint, and what it is told is one of the answers.
RepeatSound(r) ==
    knew[r] # {} /\ key[r] # Jwt =>
        /\ op[r] \in Ops /\ knew[r] \subseteq answers[op[r]]
        /\ at[r] \notin {"endpoint", "storing"} /\ ~ran[r]
        /\ reply[r] # NoReply =>
              \/ reply[r].status \in {"unauthorized", "too_many"}
              \/ reply[r] \in answers[op[r]]

NewSound(r) == at[r] = "new" => ~ran[r] /\ reply[r] = NoReply

ReplaySound == StoreSound /\ \A r \in Requests : RepeatSound(r) /\ NewSound(r)

\* Only Store touches what is stored and answered, and both at once.
LEMMA StoreStep ==
    ASSUME TypeInv, StoreSound, NEW r \in Requests, Step(r)
    PROVE  StoreSound' /\ \A o \in Ops : answers[o] \subseteq answers'[o]
<1>1. CASE Store(r)
  <2>1. op[r] \in Ops /\ reply[r] \in Replies
      BY <1>1 DEF Store, TypeInv, PlacesOK, PlaceOK
  <2>2. reply[r] # NoReply
      BY <2>1, GatewayAssumption DEF GatewayAssumption
  <2>3. /\ store' = [store EXCEPT ![op[r]] = reply[r]]
        /\ answers' = [answers EXCEPT ![op[r]] = @ \cup {reply[r]}]
      BY <1>1 DEF Store
  <2> QED BY <2>1, <2>2, <2>3 DEF StoreSound, TypeInv, RequestsTypeOK
<1>2. ASSUME ~Store(r) PROVE UNCHANGED <<store, answers>>
    BY <1>2 DEF Step, Arrive, TenantLookup, ProjectLookup, ResolveLimit, FetchPlanLimit,
                CacheLimit, Count, LookUp, Run, Lose, authUnchanged, limitUnchanged,
                endUnchanged, redisVars
<1> QED BY <1>1, <1>2 DEF StoreSound

\* A step of a repeated request, once it has come.
LEMMA RepeatStep ==
    ASSUME TypeInv, ReplaySound, NEW r \in Requests, Step(r), StoreSound',
           \A o \in Ops : answers[o] \subseteq answers'[o],
           UNCHANGED <<key[r], op[r], knew[r]>>
    PROVE  RepeatSound(r)'
<1> USE DEF TypeInv, RequestsTypeOK, Goto, Respond
<1> SUFFICES ASSUME knew[r] # {}, key[r] # Jwt
             PROVE  /\ op[r] \in Ops /\ knew[r] \subseteq answers'[op[r]]
                    /\ at'[r] \notin {"endpoint", "storing"} /\ ~ran'[r]
                    /\ reply'[r] # NoReply =>
                          \/ reply'[r].status \in {"unauthorized", "too_many"}
                          \/ reply'[r] \in answers'[op[r]]
    BY DEF RepeatSound
<1>1. /\ op[r] \in Ops /\ knew[r] \subseteq answers[op[r]]
      /\ at[r] \notin {"endpoint", "storing"} /\ ~ran[r]
      /\ reply[r] # NoReply =>
            reply[r].status \in {"unauthorized", "too_many"} \/ reply[r] \in answers[op[r]]
    BY DEF ReplaySound, RepeatSound
<1>2. op[r] # NoOp /\ store[op[r]] # NoReply /\ store[op[r]] \in answers[op[r]]
    BY <1>1, GatewayAssumption DEF ReplaySound, StoreSound, GatewayAssumption
<1>3. ASSUME NEW k \in (1 .. issued) \cup {Jwt}, NEW o \in Ops \cup {NoOp}, Arrive(r, k, o)
      PROVE  at'[r] = "tenant" /\ ran'[r] = ran[r] /\ reply'[r] = reply[r]
    BY <1>3 DEF Arrive
<1>4. CASE TenantLookup(r) \/ ProjectLookup(r)
    BY <1>1, <1>4 DEF TenantLookup, ProjectLookup, authUnchanged, Reply
<1>5. CASE ResolveLimit(r) \/ CacheLimit(r) \/ Count(r)
    BY <1>1, <1>2, <1>5 DEF ResolveLimit, CacheLimit, Count, HoldTo, Admit, limitUnchanged, Reply
<1>6. ASSUME NEW n \in Limits \cup {DefaultLimit}, FetchPlanLimit(r, n)
      PROVE  at'[r] = "cache" /\ ran'[r] = ran[r] /\ reply'[r] = reply[r]
    BY <1>6 DEF FetchPlanLimit, limitUnchanged
<1>7. CASE LookUp(r)
    BY <1>1, <1>2, <1>7 DEF LookUp, endUnchanged
<1>8. ~Store(r) /\ \A status \in {"ok", "refused", "error"} : ~Run(r, status)
    BY <1>1 DEF Store, Run
<1>9. CASE Lose(r)
    BY <1>1, <1>9 DEF Lose
<1> QED BY <1>1, <1>3, <1>4, <1>5, <1>6, <1>7, <1>8, <1>9 DEF Step

LEMMA ReplayStep ==
    ASSUME TypeInv, ReplaySound, NEW r \in Requests, Step(r)
    PROVE  ReplaySound'
<1> USE DEF TypeInv, RequestsTypeOK
<1>1. StoreSound' /\ \A o \in Ops : answers[o] \subseteq answers'[o]
    BY StoreStep DEF ReplaySound
<1>2. ASSUME NEW q \in Requests \ {r} PROVE RepeatSound(q)' /\ NewSound(q)'
    BY <1>1, OthersInPlace DEF ReplaySound, RepeatSound, NewSound
<1>3. CASE \E k \in (1 .. issued) \cup {Jwt}, o \in Ops \cup {NoOp} : Arrive(r, k, o)
  <2> PICK k \in (1 .. issued) \cup {Jwt}, o \in Ops \cup {NoOp} : Arrive(r, k, o)
      BY <1>3
  <2>1. /\ key'[r] = k /\ op'[r] = o /\ knew'[r] = IF o = NoOp THEN {} ELSE answers[o]
        /\ at'[r] = IF k = Jwt THEN "endpoint" ELSE "tenant"
        /\ ran'[r] = ran[r] /\ reply'[r] = reply[r]
      BY DEF Arrive, Goto
  <2>2. ~ran[r] /\ reply[r] = NoReply
      BY DEF Arrive, ReplaySound, NewSound
  <2>3. RepeatSound(r)' /\ NewSound(r)'
      BY <1>1, <2>1, <2>2 DEF RepeatSound, NewSound
  <2> QED BY <1>1, <1>2, <2>3 DEF ReplaySound
<1>4. ASSUME \A k \in (1 .. issued) \cup {Jwt}, o \in Ops \cup {NoOp} : ~Arrive(r, k, o)
      PROVE  ReplaySound'
  <2>1. UNCHANGED <<key, op, knew>>
      BY <1>4 DEF Step, TenantLookup, ProjectLookup, ResolveLimit, FetchPlanLimit, CacheLimit,
                  Count, LookUp, Run, Store, Lose, authUnchanged, limitUnchanged, endUnchanged
  <2>2. RepeatSound(r)'
      BY <1>1, <2>1, RepeatStep
  <2>3. at'[r] # "new"
      BY NeverNew
  <2> QED BY <1>1, <1>2, <2>2, <2>3 DEF ReplaySound, NewSound
<1> QED BY <1>3, <1>4

\* ReplayIsFaithful for every instance: however repeats overlap and wherever a
\* process dies, a request that comes after an answer was given does not run
\* again, and is told an answer that was given.
THEOREM ReplaysAreFaithful == Spec => []ReplayIsFaithful
<1> DEFINE Inv == TypeInv /\ ReplaySound
<1> USE KeysAssumption, GatewayAssumption
<1>1. Init => Inv
    BY TypeInit DEF Init, ReplaySound, StoreSound, RepeatSound, NewSound
<1>2. Inv /\ [Next]_vars => Inv'
  <2> SUFFICES ASSUME Inv, [Next]_vars PROVE ReplaySound'
      BY TypeStep
  <2>1. ASSUME NEW r \in Requests, Step(r)
        PROVE  ReplaySound'
      BY <2>1, ReplayStep
  <2>2. ASSUME UNCHANGED <<requestVars, store>>
        PROVE  ReplaySound'
      BY <2>2 DEF requestVars, ReplaySound, StoreSound, RepeatSound, NewSound
  <2> QED BY <2>1, <2>2, OtherSteps DEF Next
<1>3. Inv => ReplayIsFaithful
    BY DEF ReplaySound, RepeatSound, ReplayIsFaithful
<1> QED BY <1>1, <1>2, <1>3, PTL DEF Spec
-----------------------------------------------------------------------------
(* The rate limit. *)

Passed(b) == {r \in Requests : admitted[r] /\ bucket[r] = b}

\* The counter of a minute counts at least the requests that passed in it, and
\* the last of them to pass was held to a limit not below their number.
CountSound ==
    /\ \A r \in Requests : admitted[r] => at[r] \in {"store", "endpoint", "storing", "done"}
    /\ \A b \in 0 .. MaxMinute :
          /\ IsFiniteSet(Passed(b)) /\ Cardinality(Passed(b)) <= counter[b]
          /\ Passed(b) # {} => \E r \in Passed(b) : Cardinality(Passed(b)) <= limit[r]

\* A step that admits nobody and counts nobody out keeps the count.
LEMMA CountKept ==
    ASSUME TypeInv, TypeInv', CountSound, UNCHANGED admitted,
           \A b \in 0 .. MaxMinute : counter[b] <= counter'[b],
           \A r \in Requests : admitted[r] =>
              /\ bucket'[r] = bucket[r] /\ limit'[r] = limit[r]
              /\ at'[r] \in {"store", "endpoint", "storing", "done"}
    PROVE  CountSound'
<1>1. ASSUME NEW b \in 0 .. MaxMinute PROVE Passed(b)' = Passed(b)
    BY DEF Passed
<1>2. ASSUME NEW b \in 0 .. MaxMinute
      PROVE  /\ IsFiniteSet(Passed(b))' /\ (Cardinality(Passed(b)) <= counter[b])'
             /\ (Passed(b) # {})' => (\E r \in Passed(b) : Cardinality(Passed(b)) <= limit[r])'
  <2>1. IsFiniteSet(Passed(b)) /\ Cardinality(Passed(b)) <= counter[b]
      BY DEF CountSound
  <2>2. Cardinality(Passed(b)) \in Nat /\ counter[b] \in Nat /\ counter'[b] \in Nat
      BY <2>1, FS_CardinalityType DEF TypeInv, CountersTypeOK
  <2>3. Cardinality(Passed(b)) <= counter'[b]
      BY <2>1, <2>2
  <2>4. Passed(b) # {} => \E r \in Passed(b) : Cardinality(Passed(b)) <= limit'[r]
      BY DEF CountSound, Passed
  <2> QED BY <1>1, <2>1, <2>3, <2>4
<1> QED BY <1>2 DEF CountSound

\* The request that passes is the witness: the counter was below its limit.
LEMMA CountAdmits ==
    ASSUME TypeInv, TypeInv', CountSound, NEW r \in Requests, Count(r), Admit(r)
    PROVE  CountSound'
<1> USE DEF TypeInv, RequestsTypeOK, CountersTypeOK
<1>1. /\ at[r] = "counter" /\ ~admitted[r]
      /\ admitted' = [admitted EXCEPT ![r] = TRUE]
      /\ at' = [at EXCEPT ![r] = IF op[r] = NoOp THEN "endpoint" ELSE "store"]
      /\ counter' = [counter EXCEPT ![bucket[r]] = @ + 1]
      /\ UNCHANGED <<limit, bucket>>
    BY DEF Count, Admit, Goto, CountSound
<1>2. counter[bucket[r]] + 1 <= limit[r] /\ bucket[r] \in 0 .. MaxMinute
  <2>1. at'[r] # "done"
      BY <1>1
  <2>2. ~Respond(r, Reply("too_many", r))
      BY <2>1 DEF Respond, Goto
  <2>3. ~(counter[bucket[r]] + 1 > limit[r])
      BY <2>2 DEF Count
  <2>4. bucket[r] \in 0 .. MaxMinute
      BY GatewayAssumption DEF GatewayAssumption
  <2> QED BY <2>3, <2>4
<1>3. ASSUME NEW b \in 0 .. MaxMinute
      PROVE  /\ IsFiniteSet(Passed(b))' /\ (Cardinality(Passed(b)) <= counter[b])'
             /\ (Passed(b) # {})' => (\E q \in Passed(b) : Cardinality(Passed(b)) <= limit[q])'
  <2>1. IsFiniteSet(Passed(b)) /\ Cardinality(Passed(b)) <= counter[b] /\ counter[b] \in Nat
      BY DEF CountSound
  <2>2. CASE b # bucket[r]
    <3>1. Passed(b)' = Passed(b) /\ counter'[b] = counter[b]
        BY <1>1, <2>2 DEF Passed
    <3>2. Passed(b) # {} => \E q \in Passed(b) : Cardinality(Passed(b)) <= limit[q]
        BY DEF CountSound
    <3> QED BY <1>1, <2>1, <3>1, <3>2
  <2>3. CASE b = bucket[r]
    <3>1. Passed(b)' = Passed(b) \cup {r} /\ r \notin Passed(b)
        BY <1>1, <2>3 DEF Passed
    <3>2. /\ IsFiniteSet(Passed(b) \cup {r})
          /\ Cardinality(Passed(b) \cup {r}) = Cardinality(Passed(b)) + 1
        BY <2>1, <3>1, FS_AddElement
    <3>3. Cardinality(Passed(b)) \in Nat
        BY <2>1, FS_CardinalityType
    <3>4. counter'[b] = counter[b] + 1 /\ limit[r] \in Nat
        BY <1>1, <1>2, <2>3
    <3>5. Cardinality(Passed(b)) + 1 <= counter'[b] /\ Cardinality(Passed(b)) + 1 <= limit'[r]
        BY <1>1, <1>2, <2>1, <2>3, <3>3, <3>4
    <3>6. Passed(b)' # {} /\ Cardinality(Passed(b)') <= limit'[r] /\ r \in Passed(b)'
        BY <3>1, <3>2, <3>5
    <3>7. IsFiniteSet(Passed(b)') /\ Cardinality(Passed(b)') <= counter'[b]
        BY <3>1, <3>2, <3>5
    <3> QED BY <3>6, <3>7
  <2> QED BY <2>2, <2>3
<1>4. \A q \in Requests : admitted'[q] => at'[q] \in {"store", "endpoint", "storing", "done"}
    BY <1>1 DEF CountSound
<1> QED BY <1>3, <1>4 DEF CountSound

LEMMA CountStep ==
    ASSUME TypeInv, TypeInv', CountSound, NEW r \in Requests, Step(r)
    PROVE  CountSound'
<1> USE DEF TypeInv, RequestsTypeOK, CountersTypeOK, Goto, Respond
<1>1. CASE Count(r) /\ Admit(r)
    BY <1>1, CountAdmits
<1>2. CASE Count(r) /\ ~Admit(r)
  <2>1. /\ UNCHANGED <<admitted, limit, bucket>>
        /\ at' = [at EXCEPT ![r] = "done"]
        /\ counter' = [counter EXCEPT ![bucket[r]] = @ + 1]
      BY <1>2 DEF Count
  <2>2. \A b \in 0 .. MaxMinute : counter[b] <= counter'[b]
      BY <2>1
  <2>3. ~admitted[r]
      BY <1>2 DEF Count, CountSound
  <2>4. \A q \in Requests : admitted[q] =>
            /\ bucket'[q] = bucket[q] /\ limit'[q] = limit[q]
            /\ at'[q] \in {"store", "endpoint", "storing", "done"}
      BY <2>1, <2>3 DEF CountSound
  <2> QED BY <2>1, <2>2, <2>4, CountKept
<1>3. CASE ~Count(r)
  <2>1. UNCHANGED <<admitted, counter>>
      BY <1>3 DEF Step, Arrive, TenantLookup, ProjectLookup, ResolveLimit, FetchPlanLimit,
                  CacheLimit, LookUp, Run, Store, Lose, authUnchanged, limitUnchanged,
                  endUnchanged, redisVars
  <2>2. ASSUME admitted[r]
        PROVE  /\ bucket'[r] = bucket[r] /\ limit'[r] = limit[r]
               /\ at'[r] \in {"store", "endpoint", "storing", "done"}
    <3>1. at[r] \in {"store", "endpoint", "storing", "done"}
        BY <2>2 DEF CountSound
    <3>2. CASE LookUp(r) \/ Store(r) \/ Lose(r)
        BY <3>2 DEF LookUp, Store, Lose, endUnchanged
    <3>3. CASE \E status \in {"ok", "refused", "error"} : Run(r, status)
        BY <3>3 DEF Run, endUnchanged
    <3>4. /\ ~TenantLookup(r) /\ ~ProjectLookup(r) /\ ~ResolveLimit(r) /\ ~CacheLimit(r)
          /\ \A n \in Limits \cup {DefaultLimit} : ~FetchPlanLimit(r, n)
          /\ \A k \in (1 .. issued) \cup {Jwt}, o \in Ops \cup {NoOp} : ~Arrive(r, k, o)
        BY <3>1 DEF TenantLookup, ProjectLookup, ResolveLimit, CacheLimit, FetchPlanLimit, Arrive
    <3> QED BY <1>3, <3>2, <3>3, <3>4 DEF Step
  <2>3. ASSUME NEW q \in Requests \ {r}, admitted[q]
        PROVE  /\ bucket'[q] = bucket[q] /\ limit'[q] = limit[q]
               /\ at'[q] \in {"store", "endpoint", "storing", "done"}
      BY <2>3, OthersInPlace DEF CountSound
  <2>4. \A b \in 0 .. MaxMinute : counter[b] <= counter'[b]
    <3>1. \A b \in 0 .. MaxMinute : counter[b] \in Nat
        OBVIOUS
    <3> QED BY <2>1, <3>1
  <2> QED BY <2>1, <2>2, <2>3, <2>4, CountKept
<1> QED BY <1>1, <1>2, <1>3

\* WithinLimit for every instance: any number of requests may overtake each other
\* between the limit's lookup and the counter, over any number of plan changes.
THEOREM LimitIsKept == Spec => []WithinLimit
<1> DEFINE Inv == TypeInv /\ CountSound
<1> USE KeysAssumption, GatewayAssumption
<1>1. Init => Inv
  <2> SUFFICES ASSUME Init PROVE CountSound
      BY TypeInit
  <2>1. \A b \in 0 .. MaxMinute : Passed(b) = {} /\ counter[b] = 0
      BY DEF Init, Passed
  <2>2. \A r \in Requests : ~admitted[r]
      BY DEF Init
  <2> QED BY <2>1, <2>2, FS_EmptySet DEF CountSound
<1>2. Inv /\ [Next]_vars => Inv'
  <2> SUFFICES ASSUME Inv, [Next]_vars PROVE CountSound'
      BY TypeStep
  <2>1. TypeInv'
      BY TypeStep
  <2>2. ASSUME NEW r \in Requests, Step(r)
        PROVE  CountSound'
      BY <2>1, <2>2, CountStep
  <2>3. ASSUME UNCHANGED <<requestVars, counter>>
        PROVE  CountSound'
      BY <2>3 DEF requestVars, CountSound, Passed
  <2> QED BY <2>2, <2>3, OtherSteps DEF Next
<1>3. Inv => WithinLimit
  <2> SUFFICES ASSUME Inv, NEW b \in 0 .. minute, Passed(b) # {}
               PROVE  \E r \in Passed(b) : Cardinality(Passed(b)) <= limit[r]
      BY DEF WithinLimit, Passed
  <2>1. b \in 0 .. MaxMinute
      BY DEF TypeInv, CountersTypeOK, GatewayAssumption
  <2> QED BY <2>1 DEF CountSound
<1> QED BY <1>1, <1>2, <1>3, PTL DEF Spec
=============================================================================
