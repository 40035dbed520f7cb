------------------------------ MODULE MCRelease ------------------------------
(* Instances of Release for TLC.                                             *)
EXTENDS Release, TLC

CONSTANTS l1, r1, t1, t2, p1, m1, m2, h1, h2, b1, q1, q2

Id(h) == [head |-> h, base |-> b1, tree |-> <<h, b1>>]

\* A registry that isolates, and one in which both roles share a thread.
TwoRegistries == {l1 :> [repo |-> r1, thread |-> [author |-> t1, reviewer |-> t]] : t \in {t1, t2}}

Ask(q, role, h) == [request |-> q, lane |-> l1, role |-> role, pr |-> p1, id |-> Id(h)]

\* The reviewer's request may be bound to either head.
ReviewAsks == {Ask(q1, "author", h1), Ask(q2, "reviewer", h1), Ask(q2, "reviewer", h2)}
FirstRepo == p1 :> r1
SamePR == m1 :> p1 @@ m2 :> p1
EventBounds == p1 :> 2

Came(h, tree) ==
  [pull |-> TRUE, operator |-> TRUE, id |-> [head |-> h, base |-> b1, tree |-> <<tree, b1>>]]

\* m1 has the tested tree or another; m2 brought the genesis adapter.
TwoFacts == m1 :> {Came(h1, h1), Came(h1, h2)}
         @@ m2 :> {Came(h1, h1)}

SomeEvents == {[type |-> "checks", checks |-> c] : c \in {"success", "failed"}}
=============================================================================
