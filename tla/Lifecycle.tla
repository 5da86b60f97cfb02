---------------------------- MODULE Lifecycle ----------------------------
(***************************************************************************)
(* The two status machines every other part of the engine goes through:    *)
(* app/subscriptions/state_machine.py and app/invoices/state_machine.py.   *)
(* Both are tables checked against the status held by the calling session. *)
(***************************************************************************)

SubscriptionStatus ==
    {"incomplete", "trialing", "active", "past_due", "unpaid", "paused",
     "incomplete_expired", "canceled", "completed", "defaulted"}

InvoiceStatus == {"draft", "open", "paid", "void", "uncollectible"}

SubscriptionTransitions ==
    [incomplete         |-> {"active", "incomplete_expired", "canceled"},
     trialing           |-> {"active", "paused", "canceled"},
     active             |-> {"past_due", "paused", "completed", "canceled"},
     past_due           |-> {"active", "unpaid", "canceled"},
     unpaid             |-> {"active", "canceled"},
     paused             |-> {"active", "canceled"},
     incomplete_expired |-> {},
     canceled           |-> {},
     completed          |-> {},
     defaulted          |-> {}]

SubscriptionAllowed(old, new) == new \in SubscriptionTransitions[old]

InvoiceTransitions ==
    [draft         |-> {"open"},
     open          |-> {"paid", "void", "uncollectible"},
     paid          |-> {},
     void          |-> {},
     uncollectible |-> {}]

InvoiceAllowed(old, new) == new \in InvoiceTransitions[old]

==========================================================================
