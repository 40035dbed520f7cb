------------------------------- MODULE MCDeploy -------------------------------
(* Values for the constants of Deploy. *)
EXTENDS Deploy, TLC

CONSTANTS a, b, a1, a2, b1

\* Two releases of one repository, the second of which repairs the first, and a
\* release of another repository.
TwoRepos == a1 :> a @@ a2 :> a @@ b1 :> b
Repair == a1 :> NoRepair @@ a2 :> <<"failed", a1>> @@ b1 :> NoRepair

\* The first repository alone.
OneRepo == a1 :> a @@ a2 :> a
RepairOfOne == a1 :> NoRepair @@ a2 :> <<"failed", a1>>
=============================================================================
