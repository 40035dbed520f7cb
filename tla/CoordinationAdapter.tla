------------------------- MODULE CoordinationAdapter -------------------------
(***************************************************************************)
(* The coordination sink (src/coordination/adapter.ts): a GitHub event     *)
(* makes it take a snapshot and hand a decision of the policy to the sink  *)
(* below it, under an identity made of everything the prompt depends on.   *)
(* That sink delivers an identity once (the module DesktopSink), may be    *)
(* busy or fail; the queue then presents the event again.  Nothing is kept *)
(* between two attempts.                                                   *)
(***************************************************************************)
EXTENDS PullSnapshot

CONSTANT Adapter   \* the reader that is the sink

VARIABLES
  event,      \* the event at work
  delivered,  \* the identities the sink below has delivered
  agreed      \* history: heads on which the agents have agreed

adapterVars == <<event, delivered, agreed>>

None == [kind |-> "none"]
Events == [kind: {"pull"}] \cup [kind: {"status"}, sha: Heads]
Finding == event.kind = "status" /\ reading[Adapter].step = "idle"

\* latestEvidence
EvidenceOf(s) == {Latest(VotesOf(s, a)) : a \in {b \in Agents : VotesOf(s, b) # {}}}

OwnerOf(s) ==
  IF ~s.pull.open \/ Plain("blocked") \in s.pull.labels \/ s.pull.fork \/ s.pull.handoff = "invalid"
  THEN "none" ELSE s.pull.handoff

Context(s) == [action |-> Action(s, Local), head |-> s.pull.head, owner |-> OwnerOf(s),
               evidence |-> EvidenceOf(s)]
CandidateContext(q) == [action |-> "prepush", candidate |-> q]

\* Mutant: a decision to wait without a candidate is not kept quiet.
WakesOnWait(s) ==
  IF Action(s, Local) = "wait" /\ Selected(s) # {} THEN {CandidateContext(q) : q \in Selected(s)}
  ELSE IF Action(s, Local) = "ignore" THEN {}
  ELSE {Context(s)}

\* What a snapshot makes the adapter deliver: one context or none.
Wakes(s) ==
  IF Action(s, Local) = "wait" THEN {CandidateContext(q) : q \in Selected(s)}
  ELSE IF Action(s, Local) = "ignore" THEN {}
  ELSE {Context(s)}

\* A status of a commit that is not, or no longer, the head of the open pull request.
Stale(s) == /\ event.kind = "status"
            /\ s.pull.head # event.sha \/ ~s.pull.open \/ s.pull.fork

\* Heads that the pull request shows, open and not blocked, when both agents have
\* approved them.
Approved(h, a) ==
  \E w \in written : /\ w.by \in Trusted[a]
                     /\ w.content.review.kind = "review"
                     /\ w.content.review.agent = a /\ w.content.review.decision = "approve"
                     /\ w.content.review.head = h
Agreement ==
  {h \in Heads : /\ pull.head = h /\ pull.open /\ Plain("blocked") \notin pull.labels
                 /\ \A a \in Agents : Approved(h, a)}

-----------------------------------------------------------------------------
\* deliverToThread
Deliver(e) ==
  /\ event = None /\ e \in Events
  /\ event' = e
  /\ reading' = IF e.kind = "pull" THEN Begins(Adapter) ELSE reading
  /\ UNCHANGED <<githubVars, delivered, agreed>>

\* findPullRequestsForCommit, of which the second read of the pull request decides.
Find ==
  /\ Finding
  /\ IF pull.open /\ pull.head = event.sha /\ ~pull.fork
     THEN reading' = Begins(Adapter) /\ UNCHANGED event
     ELSE event' = None /\ UNCHANGED reading
  /\ UNCHANGED <<githubVars, delivered, agreed>>

\* deliverPullRequest, once its snapshot is there; the sink below takes the wake or is busy.
Decide ==
  /\ event # None /\ reading[Adapter].step = "done"
  /\ LET s == SnapshotOf(reading[Adapter]) IN
     delivered' \in {delivered, delivered \cup IF Stale(s) THEN {} ELSE Wakes(s)}
  /\ event' = None /\ reading' = Ends(Adapter)
  /\ UNCHANGED <<githubVars, agreed>>

\* An error, or the daemon stops: the queue has the row.
AdapterFails ==
  /\ Finding \/ Reading(Adapter)
  /\ event' = None /\ reading' = Ends(Adapter)
  /\ UNCHANGED <<githubVars, delivered, agreed>>

AdapterInit == event = None /\ delivered = {} /\ agreed = Agreement

AdapterNext ==
  \/ \E e \in Events : Deliver(e)
  \/ Find \/ Decide \/ AdapterFails
  \/ Reads(Adapter) /\ UNCHANGED adapterVars

AdapterTypeOK ==
  /\ event \in Events \cup {None}
  /\ \A d \in delivered : d.action \in {"fix", "review", "verify", "ready", "blocked", "prepush"}
  /\ agreed \subseteq Heads

\* Readiness is announced only of a head on which the agents have agreed: at some
\* moment the pull request showed it, open and not blocked, and for each agent an
\* account trusted for that agent had approved that very head in its name.  A review of
\* an earlier head, one by an account that may not speak for the agent, and approvals
\* that came when the pull request had been blocked or closed meanwhile do not count;
\* one account that is trusted for both agents may have cast both votes (policy.ts
\* lines 62 to 66 and 139 to 187, github.ts lines 217 to 221).
ReadyIsApproved == \A d \in delivered : d.action = "ready" => d.head \in agreed
=============================================================================
