----------------------------- MODULE PullSnapshot -----------------------------
(***************************************************************************)
(* The snapshot client of src/coordination/github.ts over a pull request   *)
(* that people edit while it is read.  GitHub has no read of everything at *)
(* once: the client reads the pull request, the comments, the statuses and *)
(* the check runs of its head, and the pull request again, and fails when  *)
(* the latter differs from the former.  The repository's branch is a       *)
(* variable of its own: the head GitHub shows on the pull request follows  *)
(* it later.  The lists fit one page.                                      *)
(***************************************************************************)
EXTENDS CoordinationPolicy

CONSTANTS
  Readers,      \* processes that take snapshots
  Scenes,       \* the states of GitHub a run starts from
  PullForms,    \* how an edit leaves what people write: [open, handoff, labels]
  Writings,     \* what may be commented: [by, content]
  StatusForms,  \* the statuses a commit may get
  RunForms,     \* the check runs a commit may get
  MaxEdits,     \* bound: edits of people and systems
  Gone          \* the branch is deleted

\* A combined status: its states, and the one GitHub derives.
States == {"success", "failure", "error", "pending", "unknown"}
Status == [state: States, parts: SUBSET States]
\* A check run: its conclusion, or that it has none.
Conclusions == {"success", "failure", "cancelled", "timed_out", "action_required", "stale",
                "startup_failure", "neutral", "skipped", "unknown", "running"}
Runs == SUBSET Conclusions

ASSUME SnapshotAssumption == Gone \notin Heads /\ Scenes # {} /\ MaxEdits \in Nat

ASSUME PeopleAssumption ==
  /\ PullForms \subseteq [open: BOOLEAN, handoff: Agents \cup {"invalid"}, labels: SUBSET Labels]
  /\ Writings \subseteq [by: Accounts, content: Content]
  /\ StatusForms \subseteq Status /\ RunForms \subseteq Runs

\* The comments of a scene are finitely many and numbered.
Numbered(C) == IsFiniteSet(C) /\ \A c, d \in C : c.id = d.id => c = d

ASSUME SceneAssumption ==
  /\ Scenes \subseteq [pull: Pull, comments: SUBSET Comment, edits: 0 .. MaxEdits,
                      status: [Heads -> Status], runs: [Heads -> Runs]]
  /\ \A s \in Scenes : /\ Numbered(s.comments)
                       /\ \A c \in s.comments : c.id \in 1 .. Cardinality(s.comments)

VARIABLES
  pull,      \* GitHub: the pull request
  ref,       \* GitHub: the branch
  comments,  \* GitHub: the comments
  status,    \* GitHub: the combined status of each commit
  runs,      \* GitHub: the check runs of each commit
  now,       \* the second in which the last comment was written
  edits,     \* edits so far
  written,   \* history: everything ever commented
  reading    \* what a process has of its snapshot

peopleVars == <<pull, comments, status, runs, now, edits, written>>
githubVars == <<peopleVars, ref>>
pullVars == <<githubVars, reading>>

Partial == [step: {"idle", "pull", "comments", "status", "runs", "again", "done"},
            pull: Pull, comments: SUBSET Comment, status: Status, runs: Runs]

-----------------------------------------------------------------------------
(* Edits. *)

Edit == edits < MaxEdits /\ edits' = edits + 1

\* Labels, body and state; the body's envelope or a label may be wrong for a while.
EditPull(form) ==
  /\ Edit
  /\ pull' = [pull EXCEPT !.open = form.open, !.handoff = form.handoff, !.labels = form.labels]
  /\ pull' # pull
  /\ UNCHANGED <<ref, comments, status, runs, now, written, reading>>

\* Times have the resolution of a second.
Post(w, pause) ==
  /\ Edit
  /\ now' = now + pause
  /\ comments' = comments \cup {[id |-> Cardinality(comments) + 1, by |-> w.by,
                                 time |-> now', content |-> w.content]}
  /\ written' = written \cup {w}
  /\ UNCHANGED <<pull, ref, status, runs, reading>>

Rewrite(c, w) ==
  /\ Edit
  /\ c.by = w.by /\ c.content # w.content
  /\ now' = now + 1
  /\ comments' = (comments \ {c}) \cup {[c EXCEPT !.time = now', !.content = w.content]}
  /\ written' = written \cup {w}
  /\ UNCHANGED <<pull, ref, status, runs, reading>>

Report(h, s, u) ==
  /\ Edit
  /\ status' = [status EXCEPT ![h] = s] /\ runs' = [runs EXCEPT ![h] = u]
  /\ <<status, runs>>' # <<status, runs>>
  /\ UNCHANGED <<pull, ref, comments, now, written, reading>>

\* A person pushes, forces or deletes the branch.
Push(h) ==
  /\ Edit
  /\ h # ref /\ ref' = h
  /\ UNCHANGED <<pull, comments, status, runs, now, written, reading>>

HeadFollows ==
  /\ ref # Gone /\ pull.head # ref
  /\ pull' = [pull EXCEPT !.head = ref]
  /\ UNCHANGED <<ref, comments, status, runs, now, edits, written, reading>>

-----------------------------------------------------------------------------
(* read *)

NotReading ==
  LET scene == CHOOSE s \in Scenes : TRUE IN
  [step |-> "idle", pull |-> scene.pull, comments |-> {},
   status |-> [state |-> "pending", parts |-> {}], runs |-> {}]

ReadPull(r) ==
  /\ reading[r].step = "pull"
  /\ reading' = [reading EXCEPT ![r].step = "comments", ![r].pull = pull]
  /\ UNCHANGED githubVars

ReadComments(r) ==
  /\ reading[r].step = "comments"
  /\ reading' = [reading EXCEPT ![r].step = "status", ![r].comments = comments]
  /\ UNCHANGED githubVars

ReadStatus(r) ==
  /\ reading[r].step = "status"
  /\ reading' = [reading EXCEPT ![r].step = "runs", ![r].status = status[reading[r].pull.head]]
  /\ UNCHANGED githubVars

ReadRuns(r) ==
  /\ reading[r].step = "runs"
  /\ reading' = [reading EXCEPT ![r].step = "again", ![r].runs = runs[reading[r].pull.head]]
  /\ UNCHANGED githubVars

StateOf(s) == IF s = "success" THEN "success"
              ELSE IF s \in {"failure", "error"} THEN "failure" ELSE "pending"

ConclusionOf(u) ==
  IF u = "success" THEN "success"
  ELSE IF u \in {"failure", "cancelled", "timed_out", "action_required", "stale", "startup_failure"}
       THEN "failure" ELSE "pending"

\* An empty combined status is pending and has no say.
Evidence(x) ==
  {StateOf(s) : s \in x.status.parts}
  \cup (IF x.status.parts # {} \/ x.status.state \notin {"pending", "success"}
        THEN {StateOf(x.status.state)} ELSE {})
  \cup {ConclusionOf(u) : u \in x.runs}

Aggregate(x) ==
  IF "failure" \in Evidence(x) THEN "failure"
  ELSE IF Evidence(x) = {"success"} THEN "success" ELSE "pending"

SnapshotOf(x) == [pull |-> x.pull, comments |-> x.comments, checks |-> Aggregate(x)]

\* Mutant: only the head is compared with what the read began with.
UnchangedHead(r) == reading[r].step = "again" /\ pull.head = reading[r].pull.head

\* The last request of a read.
Unchanged(r) == reading[r].step = "again" /\ pull = reading[r].pull

ReadAgain(r) ==
  /\ Unchanged(r)
  /\ reading' = [reading EXCEPT ![r].step = "done"]
  /\ UNCHANGED githubVars

\* A request fails, an answer does not fit, or the pull request changed meanwhile:
\* whoever reads deals with the error.
Reading(r) == reading[r].step \notin {"idle", "done"}
Begins(r) == [reading EXCEPT ![r] = [NotReading EXCEPT !.step = "pull"]]
Ends(r) == [reading EXCEPT ![r] = NotReading]

Reads(r) == ReadPull(r) \/ ReadComments(r) \/ ReadStatus(r) \/ ReadRuns(r) \/ ReadAgain(r)

-----------------------------------------------------------------------------
PullInit ==
  \E scene \in Scenes :
    /\ pull = scene.pull /\ ref = scene.pull.head /\ comments = scene.comments
    /\ status = scene.status /\ runs = scene.runs
    /\ now = 2 /\ edits = scene.edits
    /\ written = {[by |-> c.by, content |-> c.content] : c \in scene.comments}
    /\ reading = [r \in Readers |-> NotReading]

People ==
  \/ \E form \in PullForms : EditPull(form)
  \/ \E w \in Writings :
       \/ \E pause \in {0, 1} : Post(w, pause)
       \/ \E c \in comments : Rewrite(c, w)
  \/ \E h \in Heads, s \in StatusForms, u \in RunForms : Report(h, s, u)
  \/ \E h \in Heads \cup {Gone} : Push(h)
  \/ HeadFollows

PullTypeOK ==
  /\ pull \in Pull /\ ref \in Heads \cup {Gone} /\ comments \subseteq Comment
  /\ status \in [Heads -> Status] /\ runs \in [Heads -> Runs]
  /\ now \in Nat /\ edits \in 0 .. MaxEdits
  /\ written \subseteq [by: Accounts, content: Content]
  /\ reading \in [Readers -> Partial]
=============================================================================
