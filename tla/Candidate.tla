------------------------------ MODULE Candidate ------------------------------
(***************************************************************************)
(* A release candidate (src/deploy/candidate.ts): what each event makes of *)
(* it, and when it may be merged.  Pure: ReviewHost keeps the candidates.  *)
(***************************************************************************)
CONSTANTS
  Heads,    \* revisions of a pull request's branch
  Bases,    \* revisions of the branch it is to be merged into
  NoTree    \* the empty tree hash: nothing tested

\* The tree a candidate is tested with is that of its head on its base.
Trees == Heads \X Bases

ASSUME NoTreeAssumption == NoTree \notin Trees

Roles == {"author", "reviewer"}
Decisions == {"approve", "reject"}
Identity == [head: Heads, base: Bases, tree: Trees \cup {NoTree}]

States == {"triage", "challenging", "merge-ready", "blocked", "not-worth-merging", "invalidated"}
CheckStates == {"success", "pending", "failed"}

Verdict == [role: Roles, decision: Decisions, id: Identity]
CandidateRecord == [id: Identity, draft: BOOLEAN, state: States, verdicts: SUBSET Verdict,
                    findings: BOOLEAN, checks: CheckStates]

blankCandidate(id, draft) ==
  [id |-> id, draft |-> draft, state |-> "triage", verdicts |-> {}, findings |-> FALSE,
   checks |-> "pending"]

Approved(c, role) ==
  \E v \in c.verdicts : v.role = role /\ v.decision = "approve" /\ v.id = c.id

\* Mutant: an approval of any revision counts.
canReadyStale(c) ==
  /\ c.id.tree # NoTree
  /\ ~c.draft /\ ~c.findings /\ c.checks = "success"
  /\ \A role \in Roles : \E v \in c.verdicts : v.role = role /\ v.decision = "approve"

canReady(c) ==
  /\ c.id.tree # NoTree
  /\ ~c.draft /\ ~c.findings /\ c.checks = "success"
  /\ \A role \in Roles : Approved(c, role)

promote(c) ==
  IF canReady(c) THEN [c EXCEPT !.state = "merge-ready"]
  ELSE IF c.state \in {"triage", "invalidated", "merge-ready"}
       THEN [c EXCEPT !.state = "challenging"]
       ELSE c

block(c) == [c EXCEPT !.state = "blocked"]

\* A new head or base: nothing said of the old one counts, and nothing is tested.
invalidate(c, head, base) ==
  [c EXCEPT !.id = [head |-> head, base |-> base, tree |-> NoTree], !.state = "invalidated",
            !.verdicts = {}, !.checks = "pending", !.findings = FALSE]

\* Blocked and not-worth-merging end with the next head or base.
Stuck(c, type) ==
  \/ c.state = "not-worth-merging"
  \/ c.state = "blocked" /\ type # "not-worth-merging"

\* advanceCandidate for the events that leave the head and the base.
Advance(c, e) ==
  IF Stuck(c, e.type) THEN c ELSE
  CASE e.type = "evidence" -> [c EXCEPT !.state = "challenging"]
    [] e.type = "checks" /\ e.checks = "failed" -> block([c EXCEPT !.checks = e.checks])
    [] e.type = "checks" /\ e.checks # "failed" -> promote([c EXCEPT !.checks = e.checks])
    [] e.type = "findings" /\ e.open -> block([c EXCEPT !.findings = TRUE])
    [] e.type = "findings" /\ ~e.open -> promote([c EXCEPT !.findings = FALSE])
    [] e.type = "blocked" -> block(c)
    [] e.type = "not-worth-merging" -> [c EXCEPT !.state = "not-worth-merging"]
    [] e.type = "verdict" ->
         promote([c EXCEPT !.verdicts =
           {v \in @ : v.role # e.verdict.role} \cup {e.verdict}])

\* The events without an identity of their own; timeout and unknown block too.
AllPlainEvents ==
  {[type |-> "evidence"], [type |-> "blocked"], [type |-> "not-worth-merging"]}
  \cup {[type |-> "checks", checks |-> s] : s \in CheckStates}
  \cup {[type |-> "findings", open |-> b] : b \in BOOLEAN}
=============================================================================
