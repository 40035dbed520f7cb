------------------------------ MODULE MCDesktop ------------------------------
(* Instances of DesktopSink for TLC.                                         *)
EXTENDS DesktopSink, TLC

CONSTANTS p1, c1, c2, d1, x1, x2

\* Two calls share a client.
OneOwner == c1 :> p1 @@ c2 :> p1
Alike == Permutations({c1, c2}) \cup Permutations({x1, x2})
=============================================================================
