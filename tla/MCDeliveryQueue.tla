--------------------------- MODULE MCDeliveryQueue ---------------------------
(* Values for the constants of DeliveryQueue. *)
EXTENDS DeliveryQueue, TLC

CONSTANTS r1, r2, e1, e2, thread, own

\* Two routes that target one thread.
SharedThread == r1 :> thread @@ r2 :> thread
\* A route that targets a thread and one that starts threads of its own.
TwoKeys == r1 :> thread @@ r2 :> own

LimitOne == [r \in Routes |-> 1]

Template == {<<r2, e2>>}
=============================================================================
