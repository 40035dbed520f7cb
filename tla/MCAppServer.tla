----------------------------- MODULE MCAppServer -----------------------------
(* Instances of AppServer for TLC.                                           *)
EXTENDS AppServer, TLC

CONSTANTS d1, d2, d3, t1, t2, t8, t9

\* Two rows on one thread and one for a new thread.
OneThread == d1 :> t1 @@ d2 :> t1

\* The rows of the thread are alike.
Alike == Permutations({d1, d2})
=============================================================================
