--------------------------- MODULE DeliveryContract ---------------------------
(***************************************************************************)
(* What the delivery queue promises, without saying how: a delivery waits, *)
(* is sent while nothing else is being sent on its thread key, and ends in *)
(* one final phase that it never leaves; waiting deliveries of one route   *)
(* may be merged into the newest of them; a restart puts what was being    *)
(* sent back among the waiting; removing a route removes its deliveries    *)
(* and no identity is used again.                                          *)
(***************************************************************************)
EXTENDS Integers

CONSTANTS Routes, Keys, ThreadKey, MaxRows

VARIABLES phase,   \* the phase of each delivery
          home,    \* its route
          next     \* the identity of the next delivery

contractVars == <<phase, home, next>>

Deliveries == 1..MaxRows
Phases == {"none", "waiting", "sending", "delivered", "failed", "skipped", "merged"}
Nowhere == CHOOSE r \in Routes : TRUE

Init == /\ phase = [i \in Deliveries |-> "none"]
        /\ home = [i \in Deliveries |-> Nowhere]
        /\ next = 1

Move(i, from, to) ==
  /\ phase[i] = from
  /\ phase' = [phase EXCEPT ![i] = to]
  /\ UNCHANGED <<home, next>>

Accept(r) ==
  /\ next \in Deliveries
  /\ \E first \in {"waiting", "skipped"} : phase' = [phase EXCEPT ![next] = first]
  /\ home' = [home EXCEPT ![next] = r]
  /\ next' = next + 1

Send(i) ==
  /\ \A j \in Deliveries : phase[j] = "sending" => ThreadKey[home[j]] # ThreadKey[home[i]]
  /\ Move(i, "waiting", "sending")

Finish(i) == \E to \in {"delivered", "failed", "waiting"} : Move(i, "sending", to)

Refuse(i) == Move(i, "waiting", "failed")

Fold(parts, carrier) ==
  /\ parts # {}
  /\ \A i \in parts : i < carrier /\ home[i] = home[carrier]
  /\ \A i \in parts \cup {carrier} : phase[i] = "waiting"
  /\ phase' = [i \in Deliveries |-> IF i \in parts THEN "merged" ELSE phase[i]]
  /\ UNCHANGED <<home, next>>

Recover ==
  /\ phase' = [i \in Deliveries |-> IF phase[i] = "sending" THEN "waiting" ELSE phase[i]]
  /\ UNCHANGED <<home, next>>

Drop(r) ==
  /\ phase' = [i \in Deliveries |-> IF home[i] = r THEN "none" ELSE phase[i]]
  /\ home' = [i \in Deliveries |-> IF home[i] = r THEN Nowhere ELSE home[i]]
  /\ UNCHANGED next

Next ==
  \/ \E r \in Routes : Accept(r) \/ Drop(r)
  \/ \E i \in Deliveries : Send(i) \/ Finish(i) \/ Refuse(i)
  \/ \E carrier \in Deliveries : \E parts \in SUBSET Deliveries : Fold(parts, carrier)
  \/ Recover

Spec == Init /\ [][Next]_contractVars
=============================================================================
