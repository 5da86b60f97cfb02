----------------------------- MODULE MCGateway -----------------------------
(***************************************************************************)
(* Instances of Gateway for TLC.  Requests are interchangeable, and so are *)
(* the dashboard's.                                                        *)
(***************************************************************************)
EXTENDS Gateway, TLC

CONSTANTS ts, ps   \* a key column of the tenant, a key row of its project

OneColumn == {ts}
OneRow == {ps}
OneKey == [s \in {ts, ps} |-> IF s = ps THEN 1 ELSE NoKey]

Symmetry == Permutations(Requests) \cup Permutations(Managers)
============================================================================
