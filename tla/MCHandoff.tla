------------------------------ MODULE MCHandoff ------------------------------
(* Instances of Handoff for TLC.                                             *)
EXTENDS Handoff, TLC

CONSTANTS ac, ah, h0, h1, h2, b1, u1, u2, n1, n2, ad

\* One account is trusted for both agents, the other for hermes alone.
TwoAgents == "codex" :> {ac} @@ "hermes" :> {ac, ah}
Histories == h0 :> {h0} @@ h1 :> {h0, h1} @@ h2 :> {h0, h2}

\* The same commits in two bundles.
Q(bundle) == [branch |-> b1, from |-> h0, to |-> h1, bundle |-> bundle]
SomeCandidates == {Q(bundle) : bundle \in Bundles}

NoReview == [kind |-> "absent"]
Reviews(a, d, h) ==
  [review |-> [kind |-> "review", agent |-> a, decision |-> d, head |-> h],
   submission |-> [kind |-> "absent"]]
Submits(q) == [review |-> NoReview, submission |-> [kind |-> "request", candidate |-> q]]

By(a, content) == [by |-> a, content |-> content]
At(id, time, w) == [id |-> id, by |-> w.by, time |-> time, content |-> w.content]

\* Either account may write in the name of either agent.
SomeWritings ==
  {By(ac, Reviews("codex", d, h0)) : d \in {"approve", "revise"}}
  \cup {By(ac, Reviews("hermes", "approve", h0)), By(ah, Reviews("codex", "approve", h0))}
  \cup {By(ah, Submits(q)) : q \in SomeCandidates} \cup {By(ah, Reviews("hermes", "reject", h0))}

Owned(owner, labels) == [open |-> TRUE, fork |-> FALSE, head |-> h0, branch |-> b1,
                         handoff |-> owner, labels |-> {Tag("agent", owner)} \cup labels]
Form(open, labels) == [open |-> open, handoff |-> "hermes", labels |-> {Tag("agent", "hermes")} \cup labels]
SomeForms == {Form(TRUE, {}), Form(TRUE, {Tag("changes", "hermes")}), Form(TRUE, {Plain("blocked")})}

Green == [state |-> "success", parts |-> {"success"}]

SomeStatus == {Green}
SomeRuns == {{"failure"}}

Twins == Permutations({n1, n2}) \cup Permutations({u1, u2})

Opening(owner, labels, said, made) ==
  [pull |-> Owned(owner, labels), comments |-> said, edits |-> made,
   status |-> [h \in Heads |-> Green], runs |-> [h \in Heads |-> {}]]

\* Codex approves what is its own; a candidate of hermes is submitted; a correction was
\* asked for and is submitted.
Approving == Opening("codex", {}, {At(1, 1, By(ac, Reviews("codex", "approve", h0)))}, 0)
Submitted(bundle) == Opening("hermes", {}, {At(1, 1, By(ah, Submits(Q(bundle))))}, 1)
Corrected(bundle) ==
  Opening("hermes", {Tag("changes", "hermes")},
          {At(1, 1, By(ac, Reviews("codex", "revise", h0))), At(2, 2, By(ah, Submits(Q(bundle))))}, 1)
SomeScenes ==
  {Approving} \cup {Submitted(bundle) : bundle \in Bundles} \cup {Corrected(bundle) : bundle \in Bundles}
=============================================================================
