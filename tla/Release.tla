------------------------------- MODULE Release -------------------------------
(***************************************************************************)
(* From a reviewed candidate to a release (src/deploy/reconcile.ts, the    *)
(* scan of service.ts, the dispositions of journal.ts), over the review    *)
(* host that produced the candidate.  The operator merges on GitHub; a     *)
(* tick decides every merge GitHub shows by then and writes an intent or a *)
(* refusal into the journal.  What becomes of an intent is the module      *)
(* Deploy.  Receipts of events and the cursor over them decide nothing.    *)
(***************************************************************************)
EXTENDS ReviewHost

CONSTANTS
  Merges,      \* merge events
  PROf,        \* the pull request of a merge
  FactsOf,     \* how a merge may come about: [pull, operator, id]
  Consumed,    \* merges that brought a genesis adapter: bootstrap-consumed
  Nothing      \* no merge, no pause

Fact == [pull: BOOLEAN, operator: BOOLEAN, id: [head: Heads, base: Bases, tree: Trees]]

ASSUME MergeAssumption ==
  /\ PROf \in [Merges -> PRs]
  /\ Consumed \subseteq Merges
  /\ FactsOf \in [Merges -> SUBSET Fact]
  /\ Nothing \notin Merges

VARIABLES
  merged,       \* GitHub: how a merge came about
  disposition,  \* deploy_dispositions
  intent,       \* deploy_intents: the phase of a merge's intent
  pause,        \* deploy_pauses: the merge whose repair a repository waits for
  at,           \* where a repository's process is
  todo          \* the decisions of its tick

releaseVars == <<merged, disposition, intent, pause, at, todo>>
vars == <<hostVars, releaseVars>>

Repo(m) == RepoOf[PROf[m]]
Of(r) == {m \in Merges : Repo(m) = r}

-----------------------------------------------------------------------------
(* GitHub. *)

\* A merge may be a direct push or another's, of anything, reviewed or not; the tree
\* that results may be another than the tested one.
Merge(m, fact) ==
  /\ merged[m] = Nothing
  /\ merged' = [merged EXCEPT ![m] = fact]
  /\ UNCHANGED <<hostVars, disposition, intent, pause, at, todo>>

-----------------------------------------------------------------------------
(* tick *)

\* Mutant: the tree of the merge is not compared with the one that was tested.
DecideAnyTree(m, newer) ==
  LET fact == merged[m]
      c == cand[PROf[m]]
  IN  IF /\ fact.pull /\ fact.operator
         /\ fact.id.head = c.id.head /\ fact.id.base = c.id.base
         /\ ~newer
         /\ \A role \in Roles : Approved(c, role)
         /\ c.checks = "success"
      THEN "intent" ELSE "refuse"

\* decide, over the facts GitHub and the candidate give at the scan.
Decide(m, newer) ==
  LET fact == merged[m]
      c == cand[PROf[m]]
  IN  IF /\ fact.pull /\ fact.operator
         /\ fact.id = c.id
         /\ ~newer
         /\ \A role \in Roles : Approved(c, role)
         /\ c.checks = "success"
      THEN "intent" ELSE "refuse"

\* superseded: merges with a newer release of their repository activated.
BeginTick(r, superseded) ==
  /\ at[r] = "idle"
  /\ todo' = [todo EXCEPT ![r] =
       {[merge |-> m, kind |-> Decide(m, m \in superseded)] :
          m \in {n \in Of(r) : merged[n] # Nothing}}]
  /\ at' = [at EXCEPT ![r] = "scan"]
  /\ UNCHANGED <<hostVars, merged, disposition, intent, pause>>

\* The loop passes over a decision without a write.
Skips(r, d) ==
  \/ disposition[d.merge] = "bootstrap-consumed"
  \/ d.kind = "intent" /\ intent[d.merge] = "settled"
  \/ d.kind = "refuse" /\ pause[r] = d.merge

Skip(r, d) ==
  /\ at[r] = "scan" /\ d \in todo[r]
  /\ Skips(r, d)
  /\ todo' = [todo EXCEPT ![r] = @ \ {d}]
  /\ UNCHANGED <<hostVars, merged, disposition, intent, pause, at>>

\* Mutant: the kind of a decision is written as it is.
WrittenKind(kind) == kind

Written(kind) == IF kind = "intent" THEN "intent" ELSE "refused"

\* applyDecision, in one transaction; an intent that is open is only run again.
Apply(r, d) ==
  /\ at[r] = "scan" /\ d \in todo[r]
  /\ ~Skips(r, d)
  /\ todo' = [todo EXCEPT ![r] = @ \ {d}]
  /\ \/ /\ d.kind = "intent" /\ intent[d.merge] = "open"
        /\ UNCHANGED <<disposition, intent, pause>>
     \/ /\ d.kind = "intent" /\ intent[d.merge] = "none"
        /\ disposition' = [disposition EXCEPT ![d.merge] = Written(d.kind)]
        /\ intent' = [intent EXCEPT ![d.merge] = "open"]
        /\ UNCHANGED pause
     \/ /\ d.kind = "refuse"
        /\ disposition' = [disposition EXCEPT ![d.merge] = Written(d.kind)]
        /\ pause' = [pause EXCEPT ![r] = d.merge]
        /\ UNCHANGED intent
  /\ UNCHANGED <<hostVars, merged, at>>

EndTick(r) ==
  /\ at[r] = "scan" /\ todo[r] = {}
  /\ at' = [at EXCEPT ![r] = "idle"]
  /\ UNCHANGED <<hostVars, merged, disposition, intent, pause, todo>>

\* The process dies, or an exception ends the tick.
Abort(r) ==
  /\ at[r] # "idle"
  /\ at' = [at EXCEPT ![r] = "idle"]
  /\ todo' = [todo EXCEPT ![r] = {}]
  /\ UNCHANGED <<hostVars, merged, disposition, intent, pause>>

\* Deploy's part: an open intent comes to an end; a repair that was deployed ends the
\* pause it is linked to.
Settle(m) ==
  /\ intent[m] = "open"
  /\ intent' = [intent EXCEPT ![m] = "settled"]
  /\ pause' \in {pause, [pause EXCEPT ![Repo(m)] = IF @ = m THEN @ ELSE Nothing]}
  /\ UNCHANGED <<hostVars, merged, disposition, at, todo>>

-----------------------------------------------------------------------------
Init ==
  /\ HostInit
  /\ merged = [m \in Merges |-> Nothing]
  /\ disposition = [m \in Merges |-> IF m \in Consumed THEN "bootstrap-consumed" ELSE "none"]
  /\ intent = [m \in Merges |-> "none"]
  /\ pause = [r \in Repos |-> Nothing]
  /\ at = [r \in Repos |-> "idle"]
  /\ todo = [r \in Repos |-> {}]

Next ==
  \/ HostNext /\ UNCHANGED releaseVars
  \/ \E m \in Merges : Settle(m) \/ \E fact \in FactsOf[m] : Merge(m, fact)
  \/ \E r \in Repos :
       \/ \E superseded \in SUBSET {m \in Of(r) : merged[m] # Nothing} : BeginTick(r, superseded)
       \/ \E d \in todo[r] : Skip(r, d) \/ Apply(r, d)
       \/ EndTick(r) \/ Abort(r)

Spec == Init /\ [][Next]_vars

-----------------------------------------------------------------------------
(* Properties. *)

\* The variables keep their types.
TypeOK ==
  /\ HostTypeOK
  /\ merged \in [Merges -> Fact \cup {Nothing}]
  /\ disposition \in [Merges -> {"none", "intent", "refused", "bootstrap-consumed"}]
  /\ intent \in [Merges -> {"none", "open", "settled"}]
  /\ pause \in [Repos -> Merges \cup {Nothing}]
  /\ at \in [Repos -> {"idle", "scan"}]
  /\ todo \in [Repos -> SUBSET [merge: Merges, kind: {"intent", "refuse"}]]

\* Only what both roles approved is ever released: an intent's merge is the operator's,
\* of exactly the revision and with exactly the tree of which the author and the
\* reviewer, each woken for it, signed an approval (reconcile.ts lines 43 to 64,
\* candidate.ts, t3.ts).
OnlyReviewedIsReleased ==
  \A m \in Merges : intent[m] # "none" =>
    /\ merged[m].pull /\ merged[m].operator
    /\ m \notin Consumed
    /\ Reviewed(PROf[m], merged[m].id)
=============================================================================
