------------------------------ MODULE ApiKeys ------------------------------
(***************************************************************************)
(* API keys: the four key columns of a tenant (app/tenants/service.py) and *)
(* the key rows of its projects (app/projects/keys_service.py).  A request *)
(* of the dashboard reads the row, decides, and commits; the ORM writes    *)
(* only the columns whose value differs from the one it has read.          *)
(***************************************************************************)
EXTENDS Naturals

CONSTANTS
    Managers,      \* dashboard requests that manage keys (a valid JWT and CSRF token)
    TenantSlots,   \* key columns of the tenant
    ProjectSlots,  \* (project, key type) pairs of its projects
    FirstKeys,     \* the key each slot holds at first
    FirstIssued,   \* ... of how many
    MaxTasks,      \* tasks they begin
    NoTask         \* a model value

Slots == TenantSlots \cup ProjectSlots
NoKey == 0

ASSUME KeysAssumption ==
    /\ TenantSlots \cap ProjectSlots = {}
    /\ FirstIssued \in Nat
    /\ FirstKeys \in [Slots -> 0 .. FirstIssued]
    /\ \A s, t \in Slots : FirstKeys[s] = FirstKeys[t] /\ FirstKeys[s] # NoKey => s = t
    /\ MaxTasks \in Nat

VARIABLES
    value,    \* the key in a slot; keys are numbered as they are generated
    active,   \* its active flag
    issued,   \* keys generated so far
    task,     \* what a manager is about to write, and the row as it was read
    begun,
    retired   \* keys whose regeneration or revocation was answered

keyVars == <<value, active, issued, task, begun, retired>>

KeysInit ==
    /\ value = FirstKeys
    /\ active = [s \in Slots |-> TRUE]
    /\ issued = FirstIssued
    /\ task = [m \in Managers |-> NoTask]
    /\ begun = 0
    /\ retired = {}

Tasks == [what : {"create", "regenerate", "revoke"}, slot : Slots,
          value : 0 .. issued, active : BOOLEAN]

\* _require_jwt and _get_by_id (a tenant), get_key (a project).
Read(m, what, s) ==
    /\ task[m] = NoTask /\ begun < MaxTasks
    /\ begun' = begun + 1
    /\ task' = [task EXCEPT ![m] = [what |-> what, slot |-> s,
                                   value |-> value[s], active |-> active[s]]]
    /\ UNCHANGED <<value, active, issued, retired>>

\* A column is part of the UPDATE only if it changes what was read.
SetActive(t, to) ==
    active' = IF t.active = to THEN active ELSE [active EXCEPT ![t.slot] = to]

Generate(s) ==
    /\ issued' = issued + 1
    /\ value' = [value EXCEPT ![s] = issued + 1]

Retire(t) == retired' = retired \cup ({t.value} \ {NoKey})

\* 409 for a slot that was seen taken, an IntegrityError for a project's slot
\* that was taken since; a tenant's column is simply overwritten.
CreateKey(t) ==
    /\ t.what = "create"
    /\ UNCHANGED retired
    /\ IF \/ t.value # NoKey
          \/ t.slot \in ProjectSlots /\ value[t.slot] # NoKey
       THEN UNCHANGED <<value, active, issued>>
       ELSE /\ Generate(t.slot)
            /\ IF t.slot \in ProjectSlots THEN active' = [active EXCEPT ![t.slot] = TRUE]
               ELSE SetActive(t, TRUE)

\* mutant: the slot is switched on before the new key is in it.
RegenerateInPlace(t) ==
    /\ t.what = "regenerate"
    /\ UNCHANGED <<value, issued>>
    /\ SetActive(t, TRUE)
    /\ Retire(t)

\* A project's slot must have a key, a tenant's need not.
RegenerateKey(t) ==
    /\ t.what = "regenerate"
    /\ IF t.slot \in ProjectSlots /\ t.value = NoKey
       THEN UNCHANGED <<value, active, issued, retired>>
       ELSE Generate(t.slot) /\ SetActive(t, TRUE) /\ Retire(t)

RevokeKey(t) ==
    /\ t.what = "revoke"
    /\ UNCHANGED <<value, issued>>
    /\ IF t.slot \in ProjectSlots /\ t.value = NoKey
       THEN UNCHANGED <<active, retired>>
       ELSE SetActive(t, FALSE) /\ Retire(t)

\* The commit of what the manager has decided, and its answer.
Write(m) ==
    /\ task[m] # NoTask
    /\ CreateKey(task[m]) \/ RegenerateKey(task[m]) \/ RevokeKey(task[m])
    /\ task' = [task EXCEPT ![m] = NoTask]
    /\ UNCHANGED begun

Manage(m) ==
    \/ \E what \in {"create", "regenerate", "revoke"}, s \in Slots : Read(m, what, s)
    \/ Write(m)

\* Whether a key opens one of the slots: the queries of TenantAuthMiddleware.
Opens(key, slots) == \E s \in slots : value[s] = key /\ active[s]
============================================================================
