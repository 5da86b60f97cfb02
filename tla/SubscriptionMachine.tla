----------------------- MODULE SubscriptionMachine -----------------------
(***************************************************************************)
(* What app/subscriptions/state_machine.py promises of the whole engine:   *)
(* a subscription's status only ever moves along the table.                *)
(***************************************************************************)
EXTENDS Lifecycle

CONSTANT Subs

VARIABLE subStatus

MachineInit == subStatus \in [Subs -> SubscriptionStatus]

TransitionSubscription(s, new) ==
    /\ SubscriptionAllowed(subStatus[s], new)
    /\ subStatus' = [subStatus EXCEPT ![s] = new]

MachineNext ==
    \E s \in Subs, new \in SubscriptionStatus : TransitionSubscription(s, new)

MachineSpec == MachineInit /\ [][MachineNext]_subStatus
==========================================================================
