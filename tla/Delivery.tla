----------------------------- MODULE Delivery -----------------------------
(***************************************************************************)
(* What the webhook pipeline promises a tenant about one recorded event:   *)
(* it is tried against every endpoint of its audience, it is successful    *)
(* only if all of them took it in the same try, and it fails only when the *)
(* tries are used up.  How tries are scheduled, and who dies in between,   *)
(* is the business of Outbox.                                              *)
(***************************************************************************)
EXTENDS Naturals

CONSTANTS
    Events,     \* the events of one tenant
    Endpoints,  \* the tenant's endpoints
    LastTry     \* the try after which a refused event is given up

VARIABLES
    state,  \* "unborn", then OutboundEventStatus
    owed,   \* the endpoints the running try must reach
    took,   \* those of them that took the event
    tries   \* tries begun

dvars == <<state, owed, took, tries>>

DeliveryInit ==
    /\ state = [e \in Events |-> "unborn"]
    /\ owed = [e \in Events |-> {}]
    /\ took = [e \in Events |-> {}]
    /\ tries = [e \in Events |-> 0]

Record(new) ==
    /\ \A e \in new : state[e] = "unborn"
    /\ state' = [e \in Events |-> IF e \in new THEN "pending" ELSE state[e]]
    /\ UNCHANGED <<owed, took, tries>>

Try(e, audience) ==
    /\ state[e] # "unborn"
    /\ tries' = [tries EXCEPT ![e] = @ + 1]
    /\ owed' = [owed EXCEPT ![e] = audience]
    /\ took' = [took EXCEPT ![e] = {}]
    /\ UNCHANGED state

Accept(e, x) ==
    /\ x \in owed[e]
    /\ took' = [took EXCEPT ![e] = @ \cup {x}]
    /\ UNCHANGED <<state, owed, tries>>

EndOfTry(e) ==
    /\ owed' = [owed EXCEPT ![e] = {}]
    /\ took' = [took EXCEPT ![e] = {}]
    /\ UNCHANGED tries

\* A try ends without a verdict: it will be retried, or its worker died.
Break(e) == EndOfTry(e) /\ UNCHANGED state

Succeed(e) ==
    /\ state[e] # "unborn" /\ tries[e] > 0
    /\ took[e] = owed[e]
    /\ state' = [state EXCEPT ![e] = "successful"]
    /\ EndOfTry(e)

GiveUp(e) ==
    /\ state[e] # "unborn" /\ tries[e] >= LastTry
    /\ took[e] # owed[e]
    /\ state' = [state EXCEPT ![e] = "failed"]
    /\ EndOfTry(e)

DeliveryNext ==
    \/ \E new \in SUBSET Events : Record(new)
    \/ \E e \in Events :
          \/ \E audience \in SUBSET Endpoints : Try(e, audience)
          \/ \E x \in Endpoints : Accept(e, x)
          \/ Break(e)
          \/ Succeed(e)
          \/ GiveUp(e)

DeliverySpec == DeliveryInit /\ [][DeliveryNext]_dvars
===========================================================================
