------------------------- MODULE MCExclusiveOwnership -------------------------
(* Instances of ExclusiveOwnership for TLC.                                  *)
EXTENDS ExclusiveOwnership, TLC

CONSTANTS a, b, c, d, p, q, r

\* c and d have the same pid: two calls of one process, or two processes in turn.
SharedPid == a :> p @@ b :> q @@ c :> r @@ d :> r
=============================================================================
