-------------------------- MODULE MCPlanBilling --------------------------
(***************************************************************************)
(* Instances of PlanBilling for TLC.                                       *)
(***************************************************************************)
EXTENDS PlanBilling, TLC

CONSTANTS Basic, Plus

\* Prices and days for which the credit and the charge round differently.
TwoPrices == Basic :> 100 @@ Plus :> 205

\* Days left of the cycle's days: within it, and of a cycle that was never set.
SomeCycles == {[days |-> 7, total |-> 30], [days |-> 0, total |-> 0]}

\* Between the change's two commits, between the charge and each of the
\* commits that follow it, and between the two commits of dunning.
BetweenCommits == {"swap", "record", "pay", "remaining", "complete", "schedule"}
==========================================================================
