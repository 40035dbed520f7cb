------------------------------ MODULE MCSources ------------------------------
(* Instances of Sources for TLC.                                             *)
EXTENDS Sources, TLC

CONSTANTS r1, r2, c1, c2, i1, i2, f1, f2, w1, w2

\* An event is named after a message: of two routes, both match the first of a mailbox.
MCEvents == (1..2) \X (1..2)
MCMatching == [e \in MCEvents |-> IF e[2] = 1 THEN {r1, r2} ELSE {r1}]
MCPushed == {<<1, 1>>, <<1, 2>>}
MCIgnored == {<<1, 2>>}

Symmetry == Permutations({c1, c2}) \cup Permutations({i1, i2}) \cup Permutations({f1, f2}) \cup Permutations({w1, w2})
=============================================================================
