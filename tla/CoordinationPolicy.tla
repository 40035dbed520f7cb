-------------------------- MODULE CoordinationPolicy --------------------------
(***************************************************************************)
(* Who works next on a pull request (src/coordination/policy.ts) and which *)
(* candidate may be verified and pushed (src/coordination/prepush.ts), as  *)
(* functions of a snapshot of the pull request.  A body is the handoff it  *)
(* declares, a comment the review and the request it declares, whose       *)
(* grammar is left out.  Times and identities are those that the snapshot  *)
(* client lets through: valid ones, each identity once.                    *)
(***************************************************************************)
EXTENDS Naturals, FiniteSets

CONSTANTS
  Accounts,        \* GitHub accounts
  Trusted,         \* trustedAuthorIds: the accounts that speak for an agent
  Heads,           \* commits
  Branches,        \* branch names that safeBranch admits
  OtherBranch,     \* any other branch name
  Bundles,         \* digests of exported bundles
  PrepushEnabled   \* the configuration admits candidates

Agents == {"codex", "hermes"}
Local == "codex"

ASSUME PolicyAssumption ==
  /\ Trusted \in [Agents -> SUBSET Accounts]
  /\ PrepushEnabled \in BOOLEAN
  /\ OtherBranch \notin Branches

Peer(a) == IF a = "codex" THEN "hermes" ELSE "codex"
AnyTrusted == UNION {Trusted[a] : a \in Agents}

-----------------------------------------------------------------------------
(* Snapshots. *)

Tag(kind, a) == <<kind, a>>
Plain(kind) == <<kind, "none">>

\* "owner" is a legacy label, "unknown" an unknown one of a coordination kind.
Labels == ({"agent", "review", "changes", "approved"} \X Agents)
          \cup {Plain(kind) : kind \in {"blocked", "waiting", "owner", "unknown"}}

\* handoff: the owner a valid envelope names.
Pull == [open: BOOLEAN, fork: BOOLEAN, head: Heads, branch: Branches \cup {OtherBranch},
         handoff: Agents \cup {"invalid"}, labels: SUBSET Labels]

Review == [kind: {"absent", "invalid"}]
          \cup [kind: {"review"}, agent: Agents, decision: {"approve", "revise", "reject"}, head: Heads]

Candidate == [branch: Branches, from: Heads, to: Heads, bundle: Bundles]
Submission == [kind: {"absent", "invalid"}] \cup [kind: {"request"}, candidate: Candidate]

Content == [review: Review, submission: Submission]
Comment == [id: Nat, by: Accounts, time: Nat, content: Content]

Checks == {"success", "pending", "failure"}
Snapshot == [pull: Pull, comments: SUBSET Comment, checks: Checks]

-----------------------------------------------------------------------------
(* The order of evidence. *)

Later(c, d) == c.time > d.time \/ (c.time = d.time /\ c.id > d.id)

Latest(C) == CHOOSE c \in C : \A d \in C \ {c} : Later(c, d)

\* An account may be trusted for both agents and speak for each.
SpeaksFor(c, a) == c.by \in Trusted[a]

VotesOf(s, a) ==
  {c \in s.comments : LET r == c.content.review IN
     r.kind = "review" /\ r.agent = a /\ r.head = s.pull.head /\ SpeaksFor(c, a)}

Vote(s, a) == IF VotesOf(s, a) = {} THEN "none" ELSE Latest(VotesOf(s, a)).content.review.decision

-----------------------------------------------------------------------------
(* evaluateCoordination *)

Contradictory(s) ==
  LET p == s.pull
      o == p.handoff
      Among(kinds) == {l \in p.labels : l[1] \in kinds}
  IN  \/ Among({"owner", "unknown"}) # {}
      \/ Among({"agent"}) # {Tag("agent", o)}
      \/ Cardinality(Among({"review", "changes", "waiting"})) > 1
      \/ Cardinality(Among({"approved"})) > 1
      \/ Tag("review", o) \in p.labels
      \/ Tag("changes", Peer(o)) \in p.labels

MalformedReview(s) ==
  \E c \in s.comments : c.by \in AnyTrusted /\ c.content.review.kind = "invalid"

EvidenceBlocks(s) ==
  LET o == s.pull.handoff IN
  \/ \E a \in Agents : Vote(s, a) = "reject"
  \/ \E a \in Agents : Tag("approved", a) \in s.pull.labels /\ Vote(s, a) # "approve"
  \/ Tag("changes", o) \in s.pull.labels /\ Vote(s, Peer(o)) = "approve"

Blocked(s) ==
  \/ Plain("blocked") \in s.pull.labels
  \/ s.pull.fork
  \/ s.pull.handoff = "invalid"
  \/ Contradictory(s)
  \/ MalformedReview(s)
  \/ EvidenceBlocks(s)

Action(s, local) ==
  LET p == s.pull
      o == p.handoff
  IN  IF ~p.open THEN "ignore"
      ELSE IF Blocked(s) THEN "blocked"
      ELSE IF Vote(s, Peer(o)) = "revise" /\ local = o /\ Tag("changes", o) \in p.labels THEN "fix"
      ELSE IF (\A a \in Agents : Vote(s, a) = "approve") /\ s.checks = "success" THEN "ready"
      ELSE IF local # o /\ Tag("review", local) \in p.labels THEN "review"
      ELSE IF local = o /\ Vote(s, Peer(o)) = "approve" /\ Vote(s, o) # "approve" THEN "verify"
      ELSE "wait"

-----------------------------------------------------------------------------
(* selectPrepushRequest *)

\* A requested change that the owner is to fix may be submitted as a candidate.
Correction(s) == Tag("changes", "hermes") \in s.pull.labels /\ Action(s, "hermes") = "fix"

Receptive(s) ==
  /\ PrepushEnabled
  /\ Action(s, Local) = "wait" /\ s.pull.handoff = "hermes"
  /\ s.pull.branch \in Branches
  /\ \A l \in s.pull.labels :
       l[1] \in {"review", "changes", "approved", "blocked", "waiting", "unknown"} =>
         Correction(s) /\ l = Tag("changes", "hermes")

Submissions(s) == {c \in s.comments : SpeaksFor(c, "hermes") /\ c.content.submission.kind # "absent"}

\* A review by a trusted account, well-formed or not, after a submission.
ReviewedSince(s, c) ==
  \E d \in s.comments : /\ d.content.review.kind # "absent" /\ d.by \in AnyTrusted
                        /\ d.time > c.time \/ (d.time = c.time /\ d.id >= c.id)

\* The candidate a snapshot authorizes: one or none.
Selected(s) ==
  {q \in {c.content.submission.candidate :
            c \in {d \in Submissions(s) : /\ d.content.submission.kind = "request"
                                          /\ d = Latest(Submissions(s))
                                          /\ ~(Correction(s) /\ ReviewedSince(s, d))}} :
     /\ Receptive(s)
     /\ \A c \in Submissions(s) : c.content.submission.kind # "invalid"
     /\ q.from = s.pull.head /\ q.branch = s.pull.branch /\ q.to # q.from}

=============================================================================
