---------------------------- MODULE PrepushRunner ----------------------------
(***************************************************************************)
(* The pre-push runner (src/prepush/): for the candidate a snapshot        *)
(* authorizes it claims a directory, fetches, validates and verifies the   *)
(* candidate, asks for the authorization again and pushes, with a journal  *)
(* of where it is.  Runners may run at once, die, fail anywhere and be     *)
(* started again; the power may fail, after which a directory entry or a   *)
(* journal that was not synced may be the old one.  A push whose client    *)
(* gave up may still arrive.                                               *)
(***************************************************************************)
EXTENDS PullSnapshot

CONSTANTS
  Runners,     \* readers that run the command
  Candidates,  \* the candidates that may be submitted
  Ancestors,   \* the history of each commit, itself included
  Intact       \* commits with the scripts, guard and plain tree of their base

ASSUME RunnerAssumption ==
  /\ Candidates \subseteq Candidate
  /\ Ancestors \in [Heads -> SUBSET Heads]

Requests(content) == content.submission.kind = "request" => content.submission.candidate \in Candidates

ASSUME CandidateAssumption ==
  /\ \A w \in Writings : Requests(w.content)
  /\ \A s \in Scenes : \A c \in s.comments : Requests(c.content)

VARIABLES
  at,        \* where a runner is
  task,      \* its candidate
  dir,       \* the candidates' directories
  flying,    \* pushes GitHub has not decided
  attempts,  \* history: pushes started for a candidate
  tested,    \* history: candidates that passed all stages of a verification
  admitted,  \* history: those for which the pull request stood after that
  held       \* history: what the branch has been

runnerVars == <<at, task, dir, flying, attempts, tested, admitted, held>>

\* exists, and its entry is synced; the journal, and the last journal that is synced.
Entry == {"none", "fetching", "verified", "pushing", "pushed", "uncertain", "failed"}
Directory == [exists: BOOLEAN, kept: BOOLEAN, journal: Entry, durable: Entry]
NoDirectory == [exists |-> FALSE, kept |-> FALSE, journal |-> "none", durable |-> "none"]
NoTask == [branch |-> "none"]

\* Candidates that are tested and submitted when the pull request shows their branch
\* and the head they start from, open, not blocked and in the hands of hermes.
Standing(q) ==
  /\ q \in tested
  /\ pull.open /\ ~pull.fork /\ Plain("blocked") \notin pull.labels /\ pull.handoff = "hermes"
  /\ pull.head = q.from /\ pull.branch = q.branch
  /\ \E w \in written : /\ w.by \in Trusted["hermes"]
                        /\ w.content.submission.kind = "request"
                        /\ w.content.submission.candidate = q
Admission == {q \in Candidates : Standing(q)}

Goes(n, place) == at' = [at EXCEPT ![n] = place]
Stops(n) == Goes(n, "idle") /\ task' = [task EXCEPT ![n] = NoTask]

\* journal: written aside, renamed; the sync of the directory is over when the runner
\* goes on.
Writes(q, entry) == dir' = [dir EXCEPT ![q].journal = entry]
SyncedAndWrites(q, entry) ==
  dir' = [dir EXCEPT ![q].durable = dir[q].journal, ![q].journal = entry]
Synced(q) == dir' = [dir EXCEPT ![q].durable = dir[q].journal]

-----------------------------------------------------------------------------
(* runPrepush *)

Start(n) ==
  /\ at[n] = "idle"
  /\ Goes(n, "select") /\ reading' = Begins(n)
  /\ UNCHANGED <<githubVars, task, dir, flying, attempts, tested, admitted, held>>

Select(n) ==
  /\ at[n] = "select" /\ reading[n].step = "done"
  /\ reading' = Ends(n)
  /\ IF Selected(SnapshotOf(reading[n])) = {} THEN Stops(n)
     ELSE \E q \in Selected(SnapshotOf(reading[n])) :
            Goes(n, "claim") /\ task' = [task EXCEPT ![n] = q]
  /\ UNCHANGED <<githubVars, dir, flying, attempts, tested, admitted, held>>

Claimable(q) == ~dir[q].exists

\* createCandidateDirectory: mkdir fails for a directory that is there.
Claim(n) ==
  /\ at[n] = "claim"
  /\ IF Claimable(task[n])
     THEN /\ dir' = [dir EXCEPT ![task[n]].exists = TRUE]
          /\ Goes(n, "claimed") /\ UNCHANGED task
     ELSE Stops(n) /\ UNCHANGED dir
  /\ UNCHANGED <<githubVars, reading, flying, attempts, tested, admitted, held>>

\* The directory and the root are synced.
OpenJournal(n) ==
  /\ at[n] = "claimed"
  /\ dir' = [dir EXCEPT ![task[n]].kept = TRUE, ![task[n]].journal = "fetching"]
  /\ Goes(n, "fetch")
  /\ UNCHANGED <<githubVars, reading, task, flying, attempts, tested, admitted, held>>

\* validateCandidate; a bundle that is not what its name says fails (Fail).
Valid(q) == q.from \in Ancestors[q.to] /\ q.to \in Intact

Fetch(n) ==
  /\ at[n] = "fetch"
  /\ ref = task[n].from /\ Valid(task[n])
  /\ Synced(task[n]) /\ Goes(n, "verify")
  /\ UNCHANGED <<githubVars, reading, task, flying, attempts, tested, admitted, held>>

\* verifyInDocker: the stages that are good; an error of any other kind is Fail.
Stages == {"install", "verification", "integrity"}

\* tests, build, guard and integrity, and the exit code.
Failed == [codes |-> <<"null", "null", "null", "null">>, exit |-> "other"]
Passed(integrity) == [codes |-> <<"0", "0", "0", integrity>>, exit |-> "0"]

Outcome(good) ==
  IF {"install", "verification"} \subseteq good
  THEN Passed(IF "integrity" \in good THEN "0" ELSE "other")
  ELSE Failed

Accepted(o) == (\A i \in 1 .. 4 : o.codes[i] = "0") /\ o.exit = "0"

Verify(n) ==
  /\ at[n] = "verify"
  /\ \E good \in SUBSET Stages :
       /\ Accepted(Outcome(good))
       /\ tested' = IF good = Stages THEN tested \cup {task[n]} ELSE tested
  /\ Writes(task[n], "verified")
  /\ Goes(n, "again") /\ reading' = Begins(n)
  /\ UNCHANGED <<githubVars, task, flying, attempts, held>>
  /\ admitted' = admitted \cup Admission'

\* Mutant: the authorization is not asked for again.
SelectOnce(n) ==
  /\ at[n] = "again" /\ reading[n].step = "done"
  /\ Synced(task[n]) /\ Goes(n, "check") /\ reading' = Ends(n)
  /\ UNCHANGED <<githubVars, task, flying, attempts, tested, admitted, held>>

\* A fresh snapshot authorizes the same candidate.
SelectAgain(n) ==
  /\ at[n] = "again" /\ reading[n].step = "done"
  /\ task[n] \in Selected(SnapshotOf(reading[n]))
  /\ Synced(task[n]) /\ Goes(n, "check") /\ reading' = Ends(n)
  /\ UNCHANGED <<githubVars, task, flying, attempts, tested, admitted, held>>

\* Mutant: the push is not written down before it starts.
CheckHeadUnwritten(n) ==
  /\ at[n] = "check"
  /\ ref = task[n].from
  /\ Goes(n, "push")
  /\ UNCHANGED <<githubVars, reading, task, dir, flying, attempts, tested, admitted, held>>

CheckHead(n) ==
  /\ at[n] = "check"
  /\ ref = task[n].from
  /\ Writes(task[n], "pushing") /\ Goes(n, "push")
  /\ UNCHANGED <<githubVars, reading, task, flying, attempts, tested, admitted, held>>

StartPush(n) ==
  /\ at[n] = "push"
  /\ Synced(task[n]) /\ Goes(n, "readback")
  /\ flying' = flying \cup {task[n]}
  /\ attempts' = [attempts EXCEPT ![task[n]] = @ + 1]
  /\ UNCHANGED <<githubVars, reading, task, tested, admitted, held>>

\* Mutant: a push without the lease.
LeasedNot(q) == TRUE

\* --force-with-lease names the old head.
Leased(q) == ref = q.from

\* GitHub decides a push.
Lands(q) ==
  /\ q \in flying
  /\ flying' = flying \ {q}
  /\ IF Leased(q) THEN ref' = q.to /\ held' = held \cup {q.to} ELSE UNCHANGED <<ref, held>>
  /\ UNCHANGED <<peopleVars, reading, at, task, dir, attempts, tested, admitted>>

\* The push was answered or given up; the remote head is read, or cannot be.
Readback(n) ==
  /\ at[n] = "readback"
  /\ \E entry \in {"uncertain"} \cup IF ref = task[n].to THEN {"pushed"} ELSE {} :
       Writes(task[n], entry)
  /\ Goes(n, "end")
  /\ UNCHANGED <<githubVars, reading, task, flying, attempts, tested, admitted, held>>

End(n) ==
  /\ at[n] = "end"
  /\ Synced(task[n]) /\ Stops(n)
  /\ UNCHANGED <<githubVars, reading, flying, attempts, tested, admitted, held>>

\* The last journal of a push fails: the handler writes "uncertain".
EndFails(n) ==
  /\ at[n] = "end" /\ attempts[task[n]] > 0
  /\ Writes(task[n], "uncertain") /\ Stops(n)
  /\ UNCHANGED <<githubVars, reading, flying, attempts, tested, admitted, held>>

\* An error: before the journal it ends the command, after it the handler writes
\* "failed", if it can.
Fail(n) ==
  /\ at[n] \in {"select", "claim", "claimed", "fetch", "verify", "again", "check", "push"}
  /\ reading' = Ends(n)
  /\ IF at[n] \in {"select", "claim", "claimed"} THEN Stops(n) /\ UNCHANGED dir
     ELSE \/ SyncedAndWrites(task[n], "failed") /\ Goes(n, "end") /\ UNCHANGED task
          \/ Stops(n) /\ UNCHANGED dir
  /\ UNCHANGED <<githubVars, flying, attempts, tested, admitted, held>>

\* The process dies.
Die(n) ==
  /\ at[n] # "idle"
  /\ Stops(n) /\ reading' = Ends(n)
  /\ UNCHANGED <<githubVars, dir, flying, attempts, tested, admitted, held>>

AfterPowerLoss(d) == IF d.kept THEN [d EXCEPT !.journal = d.durable] ELSE NoDirectory
Survives(d) == [d EXCEPT !.kept = d.exists, !.durable = d.journal]

PowerFails ==
  /\ \E lost \in SUBSET {q \in Candidates : dir[q].exists} :
       dir' = [q \in Candidates |-> IF q \in lost THEN AfterPowerLoss(dir[q]) ELSE Survives(dir[q])]
  /\ at' = [n \in Runners |-> "idle"] /\ task' = [n \in Runners |-> NoTask]
  /\ reading' = [r \in Readers |-> IF r \in Runners THEN NotReading ELSE reading[r]]
  /\ UNCHANGED <<githubVars, flying, attempts, tested, admitted, held>>

-----------------------------------------------------------------------------
RunnerInit ==
  /\ at = [n \in Runners |-> "idle"] /\ task = [n \in Runners |-> NoTask]
  /\ dir = [q \in Candidates |-> NoDirectory]
  /\ flying = {} /\ attempts = [q \in Candidates |-> 0]
  /\ tested = {} /\ admitted = {} /\ held = {ref}

RunnerNext ==
  \/ \E n \in Runners :
       \/ Start(n) \/ Select(n) \/ Claim(n) \/ OpenJournal(n) \/ Fetch(n) \/ Verify(n)
       \/ SelectAgain(n) \/ CheckHead(n) \/ StartPush(n) \/ Readback(n) \/ End(n)
       \/ EndFails(n) \/ Fail(n) \/ Die(n)
       \/ Reads(n) /\ UNCHANGED runnerVars
  \/ \E q \in Candidates : Lands(q)
  \/ PowerFails

RunnerTypeOK ==
  /\ at \in [Runners -> {"idle", "select", "claim", "claimed", "fetch", "verify", "again",
                         "check", "push", "readback", "end"}]
  /\ \A n \in Runners : task[n] \in Candidates \/ (task[n] = NoTask /\ at[n] \in {"idle", "select"})
  /\ dir \in [Candidates -> Directory]
  /\ flying \subseteq Candidates /\ attempts \in [Candidates -> Nat]
  /\ tested \subseteq Candidates /\ admitted \subseteq Candidates /\ held \subseteq Heads \cup {Gone}

\* A candidate - a branch, two commits and the bundle they come in - is pushed at most
\* once, however often the command is run, dies or loses its power, and by however many
\* runners; and a push is on record: from the moment it starts, what a power failure
\* leaves of the directory says "pushing", "pushed" or "uncertain", and "pushed" only of
\* a commit the branch has held.  The same commits submitted in another bundle are
\* another candidate: they may be pushed again, even while the first push is uncertain
\* (runner.ts lines 30 to 43, 112 and 181 to 202, state.ts).
PushOnce ==
  \A q \in Candidates :
    /\ attempts[q] <= 1
    /\ attempts[q] > 0 => /\ dir[q].kept
                          /\ {dir[q].journal, dir[q].durable}
                               \subseteq {"pushing", "pushed", "uncertain"}
    /\ "pushed" \in {dir[q].journal, dir[q].durable} => q.to \in held

\* Only a candidate that passed every stage of a verification is pushed, and only if it
\* was still wanted afterwards: at some moment after its verification an account trusted
\* for hermes had submitted it and the pull request showed its branch and its old head,
\* open, not blocked and in the hands of hermes.  What was blocked, closed, handed over
\* or moved on while the candidate was verified, and not restored, is not pushed
\* (prepush.ts lines 70 to 144, runner.ts lines 152 to 177, github.ts lines 217 to 221).
PushedIsTested == \A q \in Candidates : attempts[q] > 0 => q \in admitted

\* A runner's push takes nothing from the branch: what was on it, by whomever and until
\* the last moment, is in the history of what it puts there (git.ts lines 73 to 86,
\* runner.ts lines 178 to 186).
NothingIsLost ==
  [][flying' # flying /\ ref' # ref => ref \in Ancestors[ref']]_<<pullVars, runnerVars>>
=============================================================================
