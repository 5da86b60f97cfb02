---------------------------- MODULE MCCheckout ----------------------------
(***************************************************************************)
(* Instances of Checkout for TLC: one customer owns every subscription.    *)
(***************************************************************************)
EXTENDS Checkout

TheCustomer == CHOOSE c \in Customers : TRUE
OneOwner == [s \in Subs |-> TheCustomer]

\* Every point at which a webhook delivery stands between two commits.
InDelivery == {"pay", "clear", "activate", "save", "past_due", "schedule", "record"}

\* And every point at which the creating request stands.
InDeliveryOrCreation == InDelivery \cup {"created", "invoiced", "linked"}
==========================================================================
