---------------------------- MODULE MCRenewal ----------------------------
(***************************************************************************)
(* Instances of Renewal for TLC: named sets of decline reasons and control *)
(* points for the configurations, and the symmetry of overlapping sessions. *)
(***************************************************************************)
EXTENDS Renewal, TLC

\* One reason per schedule: a day's retry, two retries, none (card update).
OneOfEachSchedule == {"do_not_honor", "card_declined", "expired_card"}

\* The shortest schedule, and the answer that asks for step-up authentication.
RetriedOrStepUp == {"do_not_honor", "requires_action"}

\* Anywhere a job stands between two commits but between a recorded attempt and
\* what follows it.
PastTheAttempt == ControlPoints \ {"idle", "pay", "fail", "cancel", "pause", "resume"}

\* Two runs of the billing job differ in nothing but their names.
BillerSymmetry == Permutations(Billers)
==========================================================================
