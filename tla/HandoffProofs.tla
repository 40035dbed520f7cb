---------------------------- MODULE HandoffProofs ----------------------------
(***************************************************************************)
(* Theorems about the two programs that act on a handoff, for all people,  *)
(* candidates and runners: what is announced as ready had the agreement of *)
(* both agents, and a candidate is pushed once, tested and wanted still,   *)
(* and takes nothing from the branch.                                      *)
(***************************************************************************)
EXTENDS Handoff, FiniteSetTheorems, TLAPS

-----------------------------------------------------------------------------
(* GitHub's part of the strengthening. *)

Known(c) == [by |-> c.by, content |-> c.content] \in written

CommentsNumbered ==
  /\ Numbered(comments)
  /\ \A c \in comments : c.id \in 1 .. Cardinality(comments)

CommentsKnown == \A c \in comments : Known(c)

\* A snapshot has comments that somebody wrote, each number once.
Kept(C) == Numbered(C) /\ \A c \in C : Known(c)

ReadingsKept == \A r \in Readers : Kept(reading[r].comments)

WrittenRequests == \A w \in written : Requests(w.content)

PullInv == PullTypeOK /\ CommentsNumbered /\ CommentsKnown /\ ReadingsKept /\ WrittenRequests

-----------------------------------------------------------------------------
(* The runners' part. *)

\* From its claim on, a runner is the only one in its candidate's directory.
Owning == {"claimed", "fetch", "verify", "again", "check", "push", "readback", "end"}

OneOwner ==
  \A n, m \in Runners : at[n] \in Owning /\ at[m] \in Owning /\ task[n] = task[m] => n = m

Submitted(q) ==
  \E w \in written : /\ w.by \in Trusted["hermes"]
                     /\ w.content.submission.kind = "request"
                     /\ w.content.submission.candidate = q

\* What is known of a runner where it is.
Progress(n) ==
  /\ at[n] \notin {"idle", "select"} => task[n] \in Candidates /\ Submitted(task[n])
  /\ at[n] \in Owning => dir[task[n]].exists
  /\ at[n] \in Owning \ {"claimed"} => dir[task[n]].kept
  /\ at[n] \in Owning \ {"readback", "end"} => attempts[task[n]] = 0
  /\ at[n] \in {"verify", "again", "check", "push"} => Valid(task[n])
  /\ at[n] \in {"again", "check", "push"} => task[n] \in tested
  /\ at[n] \in {"check", "push"} => task[n] \in admitted
  /\ at[n] = "push" => dir[task[n]].journal = "pushing"

\* What is known of a candidate: a push is on record, and was earned.
Recorded(q) ==
  /\ attempts[q] <= 1
  /\ dir[q].kept => dir[q].exists
  /\ attempts[q] > 0 => /\ dir[q].kept
                        /\ {dir[q].journal, dir[q].durable} \subseteq {"pushing", "pushed", "uncertain"}
                        /\ q \in admitted
  /\ "pushed" \in {dir[q].journal, dir[q].durable} => q.to \in held

RunnerInv ==
  /\ RunnerTypeOK
  /\ task \in [Runners -> Candidates \cup {NoTask}]
  /\ OneOwner
  /\ \A n \in Runners : Progress(n)
  /\ \A q \in Candidates : Recorded(q)
  /\ ref \in held
  /\ \A q \in flying : Valid(q)

-----------------------------------------------------------------------------
(* What the pull request has shown. *)

\* A snapshot that is complete was true of the pull request when it was completed; what
\* it lets an agent decide has been recorded then.
AgreedWhenDone ==
  reading[Adapter].step = "done" /\ Action(SnapshotOf(reading[Adapter]), Local) = "ready" =>
    reading[Adapter].pull.head \in agreed
AdmittedWhenDone ==
  \A n \in Runners :
    at[n] = "again" /\ reading[n].step = "done" /\ task[n] \in Selected(SnapshotOf(reading[n])) =>
      task[n] \in admitted

HistoryInv == Agreement \subseteq agreed /\ Admission \subseteq admitted /\ AgreedWhenDone /\ AdmittedWhenDone

CoreInv == PullInv /\ AdapterTypeOK /\ ReadyIsApproved /\ RunnerInv
HandoffInv == PullInv /\ AdapterTypeOK /\ ReadyIsApproved /\ RunnerInv /\ HistoryInv

-----------------------------------------------------------------------------
(* The latest comment.  Times and numbers order comments that are told apart by *)
(* their numbers; a finite set of them has a last one.                          *)

LEMMA LaterOrders ==
  /\ \A c, d \in Comment : c.id # d.id => Later(c, d) \/ Later(d, c)
  /\ \A c \in Comment : ~Later(c, c)
  /\ \A c, d, e \in Comment : Later(c, d) /\ Later(d, e) => Later(c, e)
  BY DEF Comment, Later

LEMMA StrictPair ==
  ASSUME NEW C, NEW A \in SUBSET C, NEW B \in SUBSET C, A \subseteq B, A # B
  PROVE  <<A, B>> \in StrictSubsetOrdering(C)
  BY DEF StrictSubsetOrdering

LEMMA LatestIsOne ==
  ASSUME NEW C, C \subseteq Comment, Numbered(C), C # {}
  PROVE  Latest(C) \in C
<1> DEFINE Above(c) == {d \in C : Later(d, c)}
           Sets == {Above(c) : c \in C}
<1>1. Sets \subseteq SUBSET C /\ Sets # {}
  OBVIOUS
<1>2. IsWellFoundedOn(StrictSubsetOrdering(C), SUBSET C)
  BY FS_StrictSubsetOrderingWellFounded, FS_FiniteSubsetsOfFinite DEF Numbered
<1>3. \E x \in Sets : \A y \in Sets : <<y, x>> \notin StrictSubsetOrdering(C)
  <2> HIDE DEF Sets
  <2> QED BY <1>1, <1>2, WFMin
<1>4. PICK c \in C : \A d \in C : <<Above(d), Above(c)>> \notin StrictSubsetOrdering(C)
  BY <1>3
<1>5. ASSUME NEW d \in C, Later(d, c)
      PROVE  FALSE
  <2>1. Above(d) \subseteq Above(c)
    BY <1>5, LaterOrders
  <2>2. d \in Above(c) /\ d \notin Above(d)
    BY <1>5, LaterOrders
  <2>3. <<Above(d), Above(c)>> \in StrictSubsetOrdering(C)
    <3>1. Above(d) \in SUBSET C /\ Above(c) \in SUBSET C /\ Above(d) # Above(c)
      BY <2>2
    <3> HIDE DEF Above
    <3> QED BY <2>1, <3>1, StrictPair
  <2> QED BY <2>3, <1>4, <1>5
<1>6. \A d \in C \ {c} : Later(c, d)
  BY <1>5, LaterOrders DEF Numbered
<1> QED BY <1>6 DEF Latest

\* A vote that approves is a comment that approves.
LEMMA VoteIsComment ==
  ASSUME NEW s, s.comments \subseteq Comment, Numbered(s.comments), NEW a, Vote(s, a) = "approve"
  PROVE  \E c \in VotesOf(s, a) : c.content.review.decision = "approve"
<1>1. VotesOf(s, a) \subseteq s.comments /\ VotesOf(s, a) # {}
  BY DEF VotesOf, Vote
<1>2. Numbered(VotesOf(s, a)) /\ VotesOf(s, a) \subseteq Comment
  BY <1>1, FS_Subset DEF Numbered
<1>3. Latest(VotesOf(s, a)) \in VotesOf(s, a)
  BY <1>1, <1>2, LatestIsOne
<1> QED BY <1>1, <1>3 DEF Vote

-----------------------------------------------------------------------------
(* Reading and editing the pull request. *)

LEMMA NotReadingType ==
  /\ NotReading \in Partial /\ NotReading.comments = {}
  /\ [NotReading EXCEPT !.step = "pull"] \in Partial
  /\ [NotReading EXCEPT !.step = "pull"].comments = {}
<1> DEFINE scene == CHOOSE s \in Scenes : TRUE
           status0 == [state |-> "pending", parts |-> {}]
<1>1. scene \in Scenes
  BY SnapshotAssumption
<1>2. scene.pull \in Pull
  BY <1>1, SceneAssumption
<1>3. status0 \in Status
  BY DEF Status, States
<1>4. NotReading = [step |-> "idle", pull |-> scene.pull, comments |-> {}, status |-> status0, runs |-> {}]
  BY DEF NotReading
<1> HIDE DEF scene, status0
<1> QED BY <1>2, <1>3, <1>4 DEF Partial, Runs

LEMMA NotReadingIdle == NotReading.step = "idle" /\ [NotReading EXCEPT !.step = "pull"].step = "pull"
<1>1. NotReading.step = "idle"
  BY DEF NotReading
<1>2. [NotReading EXCEPT !.step = "pull"].step = "pull"
  BY NotReadingType DEF Partial
<1> QED BY <1>1, <1>2

LEMMA EmptyIsKept == Kept({})
  BY FS_EmptySet DEF Kept, Numbered

\* A reader gets on, in whatever way, with comments that were written.
LEMMA ReaderMoves ==
  ASSUME PullInv, NEW r \in Readers, NEW x \in Partial, Kept(x.comments),
         reading' = [reading EXCEPT ![r] = x], UNCHANGED githubVars
  PROVE  PullInv'
<1>1. UNCHANGED <<pull, comments, status, runs, now, edits, written, ref>>
  BY DEF githubVars, peopleVars
<1>2. PullTypeOK'
  BY <1>1 DEF PullInv, PullTypeOK
<1>3. CommentsNumbered' /\ CommentsKnown' /\ WrittenRequests'
  BY <1>1 DEF PullInv, CommentsNumbered, CommentsKnown, WrittenRequests, Known
<1>4. ReadingsKept'
  BY <1>1 DEF PullInv, PullTypeOK, ReadingsKept, Kept, Known
<1> QED BY <1>2, <1>3, <1>4 DEF PullInv

LEMMA ReadingOf ==
  ASSUME PullInv, NEW r \in Readers
  PROVE  reading[r] \in Partial /\ Kept(reading[r].comments)
  BY DEF PullInv, PullTypeOK, ReadingsKept

LEMMA BeginsOrEnds ==
  ASSUME PullInv, NEW r \in Readers, reading' = Begins(r) \/ reading' = Ends(r), UNCHANGED githubVars
  PROVE  PullInv'
<1>1. CASE reading' = Begins(r)
  <2> DEFINE x == [NotReading EXCEPT !.step = "pull"]
  <2>1. x \in Partial /\ Kept(x.comments) /\ reading' = [reading EXCEPT ![r] = x]
    BY <1>1, NotReadingType, EmptyIsKept DEF Begins
  <2> HIDE DEF x
  <2> QED BY <2>1, ReaderMoves
<1>2. CASE reading' = Ends(r)
  BY <1>2, NotReadingType, EmptyIsKept, ReaderMoves DEF Ends
<1> QED BY <1>1, <1>2

\* The readings that fill a part of the snapshot.
LEMMA Fills ==
  ASSUME NEW x \in Partial
  PROVE  /\ \A p \in Pull : /\ [x EXCEPT !.step = "comments", !.pull = p] \in Partial
                            /\ [x EXCEPT !.step = "comments", !.pull = p].comments = x.comments
         /\ \A C \in SUBSET Comment : /\ [x EXCEPT !.step = "status", !.comments = C] \in Partial
                                      /\ [x EXCEPT !.step = "status", !.comments = C].comments = C
         /\ \A s \in Status : /\ [x EXCEPT !.step = "runs", !.status = s] \in Partial
                              /\ [x EXCEPT !.step = "runs", !.status = s].comments = x.comments
         /\ \A u \in Runs : /\ [x EXCEPT !.step = "again", !.runs = u] \in Partial
                            /\ [x EXCEPT !.step = "again", !.runs = u].comments = x.comments
         /\ [x EXCEPT !.step = "done"] \in Partial /\ [x EXCEPT !.step = "done"].comments = x.comments
  BY DEF Partial

LEMMA ReadsKeeps ==
  ASSUME PullInv, NEW r \in Readers, Reads(r)
  PROVE  PullInv'
<1>1. reading[r] \in Partial /\ Kept(reading[r].comments)
  BY ReadingOf
<1>2. pull \in Pull /\ comments \in SUBSET Comment /\ Kept(comments)
      /\ status[reading[r].pull.head] \in Status /\ runs[reading[r].pull.head] \in Runs
  <2>1. reading[r].pull.head \in Heads
    BY <1>1 DEF Partial, Pull
  <2> QED BY <2>1 DEF PullInv, PullTypeOK, CommentsNumbered, CommentsKnown, Kept
<1>3. CASE ReadPull(r)
  <2> DEFINE x == [reading[r] EXCEPT !.step = "comments", !.pull = pull]
  <2>1. x \in Partial /\ x.comments = reading[r].comments
    BY <1>1, <1>2, Fills
  <2>2. reading' = [reading EXCEPT ![r] = x] /\ UNCHANGED githubVars
    BY <1>1, <1>3 DEF ReadPull, PullInv, PullTypeOK
  <2> HIDE DEF x
  <2> QED BY <1>1, <2>1, <2>2, ReaderMoves
<1>4. CASE ReadComments(r)
  <2> DEFINE x == [reading[r] EXCEPT !.step = "status", !.comments = comments]
  <2>1. x \in Partial /\ x.comments = comments
    BY <1>1, <1>2, Fills
  <2>2. reading' = [reading EXCEPT ![r] = x] /\ UNCHANGED githubVars
    BY <1>1, <1>4 DEF ReadComments, PullInv, PullTypeOK
  <2> HIDE DEF x
  <2> QED BY <1>2, <2>1, <2>2, ReaderMoves
<1>5. CASE ReadStatus(r)
  <2> DEFINE st == status[reading[r].pull.head]
             x == [reading[r] EXCEPT !.step = "runs", !.status = st]
  <2>1. x \in Partial /\ x.comments = reading[r].comments
    BY <1>1, <1>2, Fills
  <2>2. reading' = [reading EXCEPT ![r] = x] /\ UNCHANGED githubVars
    BY <1>1, <1>5 DEF ReadStatus, PullInv, PullTypeOK
  <2> HIDE DEF x
  <2> QED BY <1>1, <2>1, <2>2, ReaderMoves
<1>6. CASE ReadRuns(r)
  <2> DEFINE u == runs[reading[r].pull.head]
             x == [reading[r] EXCEPT !.step = "again", !.runs = u]
  <2>1. x \in Partial /\ x.comments = reading[r].comments
    BY <1>1, <1>2, Fills
  <2>2. reading' = [reading EXCEPT ![r] = x] /\ UNCHANGED githubVars
    BY <1>1, <1>6 DEF ReadRuns, PullInv, PullTypeOK
  <2> HIDE DEF x
  <2> QED BY <1>1, <2>1, <2>2, ReaderMoves
<1>7. CASE ReadAgain(r)
  <2> DEFINE x == [reading[r] EXCEPT !.step = "done"]
  <2>1. x \in Partial /\ x.comments = reading[r].comments
    BY <1>1, Fills
  <2>2. reading' = [reading EXCEPT ![r] = x] /\ UNCHANGED githubVars
    BY <1>1, <1>7 DEF ReadAgain, PullInv, PullTypeOK
  <2> HIDE DEF x
  <2> QED BY <1>1, <2>1, <2>2, ReaderMoves
<1> QED BY <1>3, <1>4, <1>5, <1>6, <1>7 DEF Reads

\* Whatever was known stays known.
LEMMA MoreIsWritten ==
  ASSUME PullInv, written \subseteq written', UNCHANGED reading
  PROVE  ReadingsKept' /\ \A c \in comments : Known(c)'
  BY DEF PullInv, ReadingsKept, Kept, Known, CommentsKnown

LEMMA PostKeeps ==
  ASSUME PullInv, NEW w \in Writings, NEW pause \in {0, 1}, Post(w, pause)
  PROVE  PullInv'
<1> DEFINE n == Cardinality(comments) + 1
           c == [id |-> n, by |-> w.by, time |-> now', content |-> w.content]
<1>1. w \in [by: Accounts, content: Content] /\ Requests(w.content)
  BY PeopleAssumption, CandidateAssumption
<1>2. IsFiniteSet(comments) /\ Cardinality(comments) \in Nat
  BY FS_CardinalityType DEF PullInv, CommentsNumbered, Numbered
<1>3. now' \in Nat /\ edits' \in 0 .. MaxEdits
  BY SnapshotAssumption DEF Post, Edit, PullInv, PullTypeOK
<1>4. c \in Comment /\ c.id = n /\ [by |-> c.by, content |-> c.content] = [by |-> w.by, content |-> w.content]
      /\ [by |-> w.by, content |-> w.content] = w
  BY <1>1, <1>2, <1>3 DEF Comment
<1>5. comments' = comments \cup {c} /\ written' = written \cup {w} /\ UNCHANGED <<pull, ref, status, runs, reading>>
  BY DEF Post
<1> HIDE DEF c
<1>6. PullTypeOK'
  BY <1>1, <1>3, <1>4, <1>5 DEF PullInv, PullTypeOK
<1>7. CommentsNumbered'
  <2>1. c \notin comments /\ \A d \in comments : d.id # n
    BY <1>2, <1>4 DEF PullInv, CommentsNumbered
  <2>2. IsFiniteSet(comments') /\ Cardinality(comments') = n
    BY <1>2, <1>5, <2>1, FS_AddElement
  <2>3. \A d \in comments : d.id \in 1 .. Cardinality(comments)
    BY DEF PullInv, CommentsNumbered
  <2>4. \A d \in comments' : d.id \in 1 .. Cardinality(comments')
    BY <1>2, <1>4, <1>5, <2>2, <2>3
  <2>5. Numbered(comments')
    BY <1>4, <1>5, <2>1, <2>2 DEF PullInv, CommentsNumbered, Numbered
  <2> QED BY <2>4, <2>5 DEF CommentsNumbered
<1>8. ReadingsKept' /\ \A d \in comments : Known(d)'
  BY <1>5, MoreIsWritten
<1>9. CommentsKnown'
  BY <1>4, <1>5, <1>8 DEF CommentsKnown, Known
<1>10. WrittenRequests'
  BY <1>1, <1>5 DEF PullInv, WrittenRequests
<1> QED BY <1>6, <1>7, <1>8, <1>9, <1>10 DEF PullInv

LEMMA RewriteKeeps ==
  ASSUME PullInv, NEW w \in Writings, NEW c \in comments, Rewrite(c, w)
  PROVE  PullInv'
<1> DEFINE d == [c EXCEPT !.time = now', !.content = w.content]
<1>1. w \in [by: Accounts, content: Content] /\ Requests(w.content)
  BY PeopleAssumption, CandidateAssumption
<1>2. now' \in Nat /\ edits' \in 0 .. MaxEdits
  BY SnapshotAssumption DEF Rewrite, Edit, PullInv, PullTypeOK
<1>3. c \in Comment
  BY DEF PullInv, PullTypeOK
<1>4. d \in Comment /\ d.id = c.id /\ d.by = c.by /\ d.content = w.content
  BY <1>1, <1>2, <1>3 DEF Comment
<1>5. /\ comments' = (comments \ {c}) \cup {d} /\ written' = written \cup {w} /\ c.by = w.by
      /\ UNCHANGED <<pull, ref, status, runs, reading>>
  BY DEF Rewrite
<1> HIDE DEF d
<1>6. [by |-> d.by, content |-> d.content] = w
  <2>1. w = [by |-> w.by, content |-> w.content]
    BY <1>1
  <2> QED BY <1>4, <1>5, <2>1
<1>7. PullTypeOK'
  BY <1>1, <1>2, <1>4, <1>5 DEF PullInv, PullTypeOK
<1>8. CommentsNumbered'
  <2> DEFINE rest == comments \ {c}
             k == Cardinality(comments)
  <2>1. IsFiniteSet(comments) /\ k \in Nat
    BY FS_CardinalityType DEF PullInv, CommentsNumbered, Numbered
  <2>2. \A e \in rest : e.id # d.id
    BY <1>4 DEF PullInv, CommentsNumbered, Numbered
  <2>3. d \notin rest
    BY <2>2
  <2>4. IsFiniteSet(rest) /\ Cardinality(rest) = k - 1
    BY <2>1, FS_RemoveElement
  <2> HIDE DEF rest
  <2>5. IsFiniteSet(rest \cup {d}) /\ Cardinality(rest \cup {d}) = k
    <3>1. IsFiniteSet(rest \cup {d}) /\ Cardinality(rest \cup {d}) = Cardinality(rest) + 1
      BY <2>3, <2>4, FS_AddElement
    <3> QED BY <2>1, <2>4, <3>1
  <2>6. comments' = rest \cup {d}
    BY <1>5 DEF rest
  <2>7. \A e \in comments' : e.id \in 1 .. k
    BY <1>4, <2>6 DEF PullInv, CommentsNumbered, rest
  <2>8. \A e, x \in comments' : e.id = x.id => e = x
    BY <2>2, <2>6 DEF PullInv, CommentsNumbered, Numbered, rest
  <2> QED BY <2>5, <2>6, <2>7, <2>8 DEF CommentsNumbered, Numbered
<1>9. ReadingsKept' /\ \A e \in comments : Known(e)'
  BY <1>5, MoreIsWritten
<1>10. CommentsKnown'
  BY <1>5, <1>6, <1>9 DEF CommentsKnown, Known
<1>11. WrittenRequests'
  BY <1>1, <1>5 DEF PullInv, WrittenRequests
<1> QED BY <1>7, <1>8, <1>9, <1>10, <1>11 DEF PullInv

\* What else people and systems do leaves the comments alone.
LEMMA PullChanges ==
  ASSUME PullInv, pull' \in Pull, ref' \in Heads \cup {Gone}, status' \in [Heads -> Status], runs' \in [Heads -> Runs],
         edits' \in 0 .. MaxEdits, UNCHANGED <<comments, now, written, reading>>
  PROVE  PullInv'
  BY DEF PullInv, PullTypeOK, CommentsNumbered, CommentsKnown, ReadingsKept, Kept, Known, WrittenRequests

LEMMA PeopleKeep ==
  ASSUME PullInv, People
  PROVE  PullInv' /\ written \subseteq written' /\ UNCHANGED reading
<1>1. /\ pull \in Pull /\ ref \in Heads \cup {Gone} /\ status \in [Heads -> Status] /\ runs \in [Heads -> Runs]
      /\ edits \in 0 .. MaxEdits
  BY DEF PullInv, PullTypeOK
<1>2. Edit => edits' \in 0 .. MaxEdits
  BY <1>1, SnapshotAssumption DEF Edit
<1>3. ASSUME NEW form \in PullForms, EditPull(form)
      PROVE  PullInv' /\ written' = written /\ UNCHANGED reading
  <2>1. form \in [open: BOOLEAN, handoff: Agents \cup {"invalid"}, labels: SUBSET Labels]
    BY PeopleAssumption
  <2>2. pull' \in Pull
    BY <1>1, <1>3, <2>1 DEF EditPull, Pull
  <2> QED BY <1>1, <1>2, <1>3, <2>2, PullChanges DEF EditPull
<1>4. ASSUME NEW h \in Heads, NEW s \in StatusForms, NEW u \in RunForms, Report(h, s, u)
      PROVE  PullInv' /\ written' = written /\ UNCHANGED reading
  <2>1. s \in Status /\ u \in Runs
    BY PeopleAssumption
  <2>2. status' \in [Heads -> Status] /\ runs' \in [Heads -> Runs]
    BY <1>1, <1>4, <2>1 DEF Report
  <2> QED BY <1>1, <1>2, <1>4, <2>2, PullChanges DEF Report
<1>5. ASSUME NEW h \in Heads \cup {Gone}, Push(h)
      PROVE  PullInv' /\ written' = written /\ UNCHANGED reading
  BY <1>1, <1>2, <1>5, PullChanges DEF Push
<1>6. ASSUME HeadFollows
      PROVE  PullInv' /\ written' = written /\ UNCHANGED reading
  <2>1. pull' \in Pull
    BY <1>1, <1>6 DEF HeadFollows, Pull
  <2> QED BY <1>1, <1>6, <2>1, PullChanges DEF HeadFollows
<1>7. ASSUME NEW w \in Writings, NEW pause \in {0, 1}, Post(w, pause)
      PROVE  PullInv' /\ written \subseteq written' /\ UNCHANGED reading
  BY <1>7, PostKeeps DEF Post
<1>8. ASSUME NEW w \in Writings, NEW c \in comments, Rewrite(c, w)
      PROVE  PullInv' /\ written \subseteq written' /\ UNCHANGED reading
  BY <1>8, RewriteKeeps DEF Rewrite
<1> QED BY <1>3, <1>4, <1>5, <1>6, <1>7, <1>8 DEF People

-----------------------------------------------------------------------------
(* The adapter. *)

LEMMA PullStays ==
  ASSUME PullInv, UNCHANGED pullVars
  PROVE  PullInv'
  BY PullChanges DEF PullInv, PullTypeOK, pullVars, githubVars, peopleVars

\* Runners that do nothing keep what is known of them.
LEMMA RunnersStay ==
  ASSUME RunnerInv, UNCHANGED <<at, task, dir, attempts, tested>>, flying' \subseteq flying,
         written \subseteq written', admitted \subseteq admitted', admitted' \subseteq Candidates,
         held \subseteq held', held' \subseteq Heads \cup {Gone}, ref' \in held'
  PROVE  RunnerInv'
<1>1. RunnerTypeOK' /\ task' \in [Runners -> Candidates \cup {NoTask}] /\ OneOwner' /\ \A q \in flying' : Valid(q)
  BY DEF RunnerInv, RunnerTypeOK, OneOwner
<1>2. \A q : Submitted(q) => Submitted(q)'
  BY DEF Submitted
<1>3. ASSUME NEW n \in Runners
      PROVE  Progress(n)'
  BY <1>2 DEF RunnerInv, Progress
<1>4. ASSUME NEW q \in Candidates
      PROVE  Recorded(q)'
  BY <1>2 DEF RunnerInv, Recorded
<1> QED BY <1>1, <1>3, <1>4 DEF RunnerInv

LEMMA ApprovalsStay ==
  ASSUME AdapterTypeOK, ReadyIsApproved, UNCHANGED <<event, delivered>>, agreed \subseteq agreed', agreed' \subseteq Heads
  PROVE  AdapterTypeOK' /\ ReadyIsApproved'
  BY DEF AdapterTypeOK, ReadyIsApproved

LEMMA AdapterStays ==
  ASSUME AdapterTypeOK, ReadyIsApproved, UNCHANGED adapterVars
  PROVE  AdapterTypeOK' /\ ReadyIsApproved'
  BY ApprovalsStay DEF AdapterTypeOK, adapterVars

\* What the adapter leaves alone.
LEMMA AdapterFrame ==
  ASSUME HandoffInv, UNCHANGED runnerVars, UNCHANGED githubVars, PullInv'
  PROVE  RunnerInv'
<1>1. UNCHANGED <<at, task, dir, flying, attempts, tested, admitted, held>> /\ written' = written /\ ref' = ref
  BY DEF runnerVars, githubVars, peopleVars
<1> QED BY <1>1, RunnersStay DEF HandoffInv, RunnerInv, RunnerTypeOK

LEMMA AdapterReads == Adapter \in Readers
  BY ProgramAssumption

LEMMA WakesAreTrue ==
  ASSUME HandoffInv, reading[Adapter].step = "done", NEW d \in Wakes(SnapshotOf(reading[Adapter]))
  PROVE  /\ d.action \in {"fix", "review", "verify", "ready", "blocked", "prepush"}
         /\ d.action = "ready" => d.head \in agreed
<1> DEFINE s == SnapshotOf(reading[Adapter])
<1>1. s.pull = reading[Adapter].pull
  BY DEF SnapshotOf
<1>2. Action(s, Local) = "ready" => s.pull.head \in agreed
  BY <1>1 DEF HandoffInv, HistoryInv, AgreedWhenDone
<1> HIDE DEF s
<1>3. CASE Action(s, Local) = "wait"
  <2>1. PICK q \in Selected(s) : d = CandidateContext(q)
    BY <1>3 DEF Wakes, s
  <2>2. d.action = "prepush"
    BY <2>1 DEF CandidateContext
  <2> QED BY <2>2
<1>4. CASE Action(s, Local) # "wait"
  <2>1. d = Context(s) /\ Action(s, Local) # "ignore"
    BY <1>4 DEF Wakes, s
  <2>2. d.action = Action(s, Local) /\ d.head = s.pull.head
    BY <2>1 DEF Context
  <2>3. Action(s, Local) \in {"fix", "review", "verify", "ready", "blocked", "wait", "ignore"}
    BY DEF Action
  <2> QED BY <1>2, <1>4, <2>1, <2>2, <2>3
<1> QED BY <1>3, <1>4

LEMMA DecideKeeps ==
  ASSUME HandoffInv, Decide, UNCHANGED runnerVars
  PROVE  CoreInv'
<1>1. PullInv'
  BY AdapterReads, BeginsOrEnds DEF HandoffInv, Decide
<1>2. RunnerInv'
  BY <1>1, AdapterFrame DEF Decide
<1>3. agreed' = agreed /\ event' = None
  BY DEF Decide
<1>4. \A d \in delivered' : d \in delivered \/ d \in Wakes(SnapshotOf(reading[Adapter]))
  BY DEF Decide
<1>5. AdapterTypeOK'
  BY <1>3, <1>4, WakesAreTrue DEF HandoffInv, AdapterTypeOK, Decide
<1>6. ReadyIsApproved'
  BY <1>3, <1>4, WakesAreTrue DEF HandoffInv, ReadyIsApproved, Decide
<1> QED BY <1>1, <1>2, <1>5, <1>6 DEF CoreInv

LEMMA AdapterKeeps ==
  ASSUME HandoffInv, AdapterNext, UNCHANGED runnerVars
  PROVE  CoreInv'
<1>1. CASE Decide
  BY <1>1, DecideKeeps
<1>2. ASSUME UNCHANGED <<githubVars, delivered, agreed>>, event' \in Events \cup {None},
             reading' = Begins(Adapter) \/ reading' = Ends(Adapter) \/ reading' = reading
      PROVE  CoreInv'
  <2>1. PullInv'
    BY <1>2, AdapterReads, BeginsOrEnds, PullStays DEF HandoffInv, pullVars
  <2>2. RunnerInv'
    BY <1>2, <2>1, AdapterFrame
  <2>4. AdapterTypeOK' /\ ReadyIsApproved'
    BY <1>2 DEF HandoffInv, AdapterTypeOK, ReadyIsApproved
  <2> QED BY <2>1, <2>2, <2>4 DEF CoreInv
<1>3. event \in Events \cup {None}
  BY DEF HandoffInv, AdapterTypeOK
<1>4. CASE \E e \in Events : Deliver(e)
  BY <1>2, <1>4 DEF Deliver
<1>5. CASE Find
  BY <1>2, <1>3, <1>5 DEF Find
<1>6. CASE AdapterFails
  BY <1>2, <1>6 DEF AdapterFails
<1>7. CASE Reads(Adapter) /\ UNCHANGED adapterVars
  <2>1. PullInv' /\ UNCHANGED githubVars
    BY <1>7, AdapterReads, ReadsKeeps
    DEF HandoffInv, Reads, ReadPull, ReadComments, ReadStatus, ReadRuns, ReadAgain
  <2>2. RunnerInv'
    BY <2>1, AdapterFrame
  <2> QED BY <1>7, <2>1, <2>2, AdapterStays DEF HandoffInv, CoreInv
<1> QED BY <1>1, <1>4, <1>5, <1>6, <1>7 DEF AdapterNext

-----------------------------------------------------------------------------
(* A step of a runner. *)

Places == {"idle", "select", "claim", "claimed", "fetch", "verify", "again", "check", "push", "readback", "end"}

\* A runner is at a place with a task now, and the others are where they were.
At(n, place, t) ==
  /\ at' \in [Runners -> Places] /\ task' \in [Runners -> Candidates \cup {NoTask}]
  /\ \A m \in Runners \ {n} : at'[m] = at[m] /\ task'[m] = task[m]
  /\ at'[n] = place /\ task'[n] = t

LEMMA GoesAt ==
  ASSUME RunnerInv, NEW n \in Runners, NEW place \in Places, Goes(n, place), UNCHANGED task
  PROVE  At(n, place, task[n])
  BY DEF RunnerInv, RunnerTypeOK, Goes, At, Places

LEMMA StopsAt ==
  ASSUME RunnerInv, NEW n \in Runners, Stops(n)
  PROVE  At(n, "idle", NoTask)
  BY DEF RunnerInv, RunnerTypeOK, Stops, Goes, At, Places

\* The directory of one candidate changes, but not whether it is there.
DirOf(q) ==
  /\ dir' \in [Candidates -> Directory]
  /\ \A p \in Candidates \ {q} : dir'[p] = dir[p]
  /\ dir'[q].exists = dir[q].exists /\ dir'[q].kept = dir[q].kept

LEMMA DirEntries ==
  ASSUME NEW d \in Directory, NEW e \in Entry
  PROVE  /\ [d EXCEPT !.journal = e] \in Directory
         /\ [d EXCEPT !.journal = e].journal = e /\ [d EXCEPT !.journal = e].durable = d.durable
         /\ [d EXCEPT !.journal = e].exists = d.exists /\ [d EXCEPT !.journal = e].kept = d.kept
         /\ [d EXCEPT !.durable = e] \in Directory
         /\ [d EXCEPT !.durable = e].journal = d.journal /\ [d EXCEPT !.durable = e].durable = e
         /\ [d EXCEPT !.durable = e].exists = d.exists /\ [d EXCEPT !.durable = e].kept = d.kept
  BY DEF Directory

LEMMA DirHas ==
  ASSUME RunnerInv, NEW q \in Candidates
  PROVE  dir[q] \in Directory /\ dir[q].journal \in Entry /\ dir[q].durable \in Entry
  BY DEF RunnerInv, RunnerTypeOK, Directory

LEMMA WritesDir ==
  ASSUME RunnerInv, NEW q \in Candidates, NEW e \in Entry, Writes(q, e)
  PROVE  DirOf(q) /\ dir'[q].journal = e /\ dir'[q].durable = dir[q].durable
<1> DEFINE d == [dir[q] EXCEPT !.journal = e]
<1>1. d \in Directory /\ d.journal = e /\ d.durable = dir[q].durable /\ d.exists = dir[q].exists /\ d.kept = dir[q].kept
  BY DirHas, DirEntries
<1>2. dir' = [dir EXCEPT ![q] = d]
  BY DEF Writes
<1> HIDE DEF d
<1> QED BY <1>1, <1>2 DEF RunnerInv, RunnerTypeOK, DirOf

LEMMA SyncedDir ==
  ASSUME RunnerInv, NEW q \in Candidates, Synced(q)
  PROVE  DirOf(q) /\ dir'[q].journal = dir[q].journal /\ dir'[q].durable = dir[q].journal
<1> DEFINE d == [dir[q] EXCEPT !.durable = dir[q].journal]
<1>1. d \in Directory /\ d.journal = dir[q].journal /\ d.durable = dir[q].journal
      /\ d.exists = dir[q].exists /\ d.kept = dir[q].kept
  BY DirHas, DirEntries
<1>2. dir' = [dir EXCEPT ![q] = d]
  BY DEF Synced
<1> HIDE DEF d
<1> QED BY <1>1, <1>2 DEF RunnerInv, RunnerTypeOK, DirOf

LEMMA SyncedAndWritesDir ==
  ASSUME RunnerInv, NEW q \in Candidates, NEW e \in Entry, SyncedAndWrites(q, e)
  PROVE  DirOf(q) /\ dir'[q].journal = e /\ dir'[q].durable = dir[q].journal
<1> DEFINE d == [dir[q] EXCEPT !.durable = dir[q].journal, !.journal = e]
<1>1. dir[q] \in Directory /\ dir[q].journal \in Entry
  BY DirHas
<1>2. d \in Directory /\ d.journal = e /\ d.durable = dir[q].journal
      /\ d.exists = dir[q].exists /\ d.kept = dir[q].kept
  BY <1>1 DEF Directory
<1>3. dir' = [dir EXCEPT ![q] = d]
  BY DEF SyncedAndWrites, RunnerInv, RunnerTypeOK
<1> HIDE DEF d
<1> QED BY <1>2, <1>3 DEF RunnerInv, RunnerTypeOK, DirOf

\* A step of the runner that owns a directory, or comes to own it, does not disturb the
\* others: none of them has that candidate.
LEMMA RunnerFrame ==
  ASSUME RunnerInv, NEW n \in Runners, NEW q \in Candidates, NEW place \in Places,
         NEW t \in Candidates \cup {NoTask}, At(n, place, t),
         place \in Owning => t = q,
         t \in Candidates \/ place \in {"idle", "select"},
         \A m \in Runners \ {n} : at[m] \in Owning => task[m] # q,
         dir' \in [Candidates -> Directory], \A p \in Candidates \ {q} : dir'[p] = dir[p],
         attempts' \in [Candidates -> Nat], \A p \in Candidates \ {q} : attempts'[p] = attempts[p],
         flying' \subseteq Candidates, \A p \in flying' : Valid(p),
         tested \subseteq tested', tested' \subseteq Candidates, admitted \subseteq admitted', admitted' \subseteq Candidates,
         UNCHANGED <<githubVars, held>>,
         Progress(n)', Recorded(q)'
  PROVE  RunnerInv'
<1>1. written' = written /\ ref' = ref /\ held' = held
  BY DEF githubVars, peopleVars
<1>2. RunnerTypeOK' /\ task' \in [Runners -> Candidates \cup {NoTask}] /\ ref' \in held'
  BY <1>1 DEF RunnerInv, RunnerTypeOK, At, Places
<1>3. OneOwner'
  BY DEF RunnerInv, OneOwner, At
<1>4. \A p : Submitted(p) => Submitted(p)'
  BY <1>1 DEF Submitted
<1>5. ASSUME NEW m \in Runners
      PROVE  Progress(m)'
  <2>1. CASE m = n
    BY <2>1
  <2>2. CASE m # n
    <3>1. at'[m] = at[m] /\ task'[m] = task[m] /\ Progress(m)
      BY <2>2 DEF At, RunnerInv
    <3>2. at[m] \in Owning => task[m] \in Candidates \ {q}
      BY <2>2, <3>1 DEF Progress, Owning
    <3>3. at[m] \in Owning => dir'[task[m]] = dir[task[m]] /\ attempts'[task[m]] = attempts[task[m]]
      BY <3>2
    <3> QED BY <1>4, <3>1, <3>3 DEF Progress, Owning
  <2> QED BY <2>1, <2>2
<1>6. ASSUME NEW p \in Candidates
      PROVE  Recorded(p)'
  <2>1. CASE p = q
    BY <2>1
  <2>2. CASE p # q
    BY <1>1, <1>4, <2>2 DEF RunnerInv, Recorded
  <2> QED BY <2>1, <2>2
<1> QED BY <1>1, <1>2, <1>3, <1>5, <1>6 DEF RunnerInv

\* A step of a runner without a directory.
LEMMA RunnerRests ==
  ASSUME RunnerInv, NEW n \in Runners, NEW place \in {"idle", "select", "claim"},
         NEW t \in Candidates \cup {NoTask}, At(n, place, t),
         place = "claim" => t \in Candidates /\ Submitted(t),
         t \in Candidates \/ place \in {"idle", "select"},
         UNCHANGED <<dir, flying, attempts, tested, admitted, held>>, UNCHANGED githubVars
  PROVE  RunnerInv'
<1>1. written' = written /\ ref' = ref /\ held' = held
  BY DEF githubVars, peopleVars
<1>2. RunnerTypeOK' /\ task' \in [Runners -> Candidates \cup {NoTask}] /\ ref' \in held'
      /\ \A p \in flying' : Valid(p)
  BY <1>1 DEF RunnerInv, RunnerTypeOK, At, Places
<1>3. OneOwner'
  BY DEF RunnerInv, OneOwner, At, Owning
<1>4. \A p : Submitted(p) => Submitted(p)'
  BY <1>1 DEF Submitted
<1>5. ASSUME NEW m \in Runners
      PROVE  Progress(m)'
  <2>1. CASE m = n
    BY <1>4, <2>1 DEF At, Progress, Owning
  <2>2. CASE m # n
    BY <1>4, <2>2 DEF At, RunnerInv, Progress, Owning
  <2> QED BY <2>1, <2>2
<1>6. \A p \in Candidates : Recorded(p)'
  BY <1>1, <1>4 DEF RunnerInv, Recorded
<1> QED BY <1>1, <1>2, <1>3, <1>5, <1>6 DEF RunnerInv

\* A runner at work with a directory: what its next step may rely on.
LEMMA OwnerKnows ==
  ASSUME RunnerInv, NEW n \in Runners, at[n] \in Owning
  PROVE  /\ task[n] \in Candidates /\ Submitted(task[n]) /\ Progress(n) /\ Recorded(task[n])
         /\ \A m \in Runners \ {n} : at[m] \in Owning => task[m] # task[n]
<1>1. Progress(n) /\ task[n] \in Candidates /\ Submitted(task[n])
  BY DEF RunnerInv, Progress, Owning
<1> QED BY <1>1 DEF RunnerInv, OneOwner

\* A step that leaves history and pushes alone: the runner's own part is what is to show.
LEMMA OwnerSteps ==
  ASSUME RunnerInv, NEW n \in Runners, at[n] \in Owning, NEW q, q = task[n], NEW place \in Places,
         NEW t, t \in {q, NoTask}, At(n, place, t),
         t = q \/ place = "idle",
         DirOf(q), tested \subseteq tested', tested' \subseteq Candidates, admitted \subseteq admitted', admitted' \subseteq Candidates,
         UNCHANGED <<githubVars, held, flying, attempts>>,
         Progress(n)', Recorded(q)'
  PROVE  RunnerInv'
<1>1. q \in Candidates /\ \A m \in Runners \ {n} : at[m] \in Owning => task[m] # q
  BY OwnerKnows
<1>2. place \in Owning => t = q
  BY DEF Owning
<1>3. /\ dir' \in [Candidates -> Directory] /\ \A p \in Candidates \ {q} : dir'[p] = dir[p]
      /\ attempts' \in [Candidates -> Nat] /\ \A p \in Candidates \ {q} : attempts'[p] = attempts[p]
      /\ flying' \subseteq Candidates /\ \A p \in flying' : Valid(p)
  BY DEF DirOf, RunnerInv, RunnerTypeOK
<1>4. t \in Candidates \cup {NoTask} /\ (t \in Candidates \/ place \in {"idle", "select"})
  BY <1>1
<1> QED BY <1>1, <1>2, <1>3, <1>4, RunnerFrame

\* What a runner's step leaves of the pull request and of the adapter.
LEMMA RunnerPull ==
  ASSUME HandoffInv, NEW n \in Runners, UNCHANGED githubVars, UNCHANGED adapterVars,
         reading' = reading \/ reading' = Begins(n) \/ reading' = Ends(n), RunnerInv'
  PROVE  CoreInv'
<1>1. PullInv'
  BY ProgramAssumption, PullStays, BeginsOrEnds DEF HandoffInv, pullVars
<1> QED BY <1>1, AdapterStays DEF HandoffInv, CoreInv

-----------------------------------------------------------------------------
(* The steps of runPrepush. *)

LEMMA RestingKeeps ==
  ASSUME HandoffInv, NEW n \in Runners, UNCHANGED adapterVars, Start(n) \/ Die(n)
  PROVE  CoreInv'
<1>1. CASE Start(n)
  <2>1. At(n, "select", task[n]) /\ task[n] \in Candidates \cup {NoTask}
    BY <1>1, GoesAt DEF HandoffInv, RunnerInv, Start, Places
  <2>2. RunnerInv'
    BY <1>1, <2>1, RunnerRests DEF HandoffInv, Start
  <2> QED BY <1>1, <2>2, RunnerPull DEF Start
<1>2. CASE Die(n)
  <2>1. At(n, "idle", NoTask)
    BY <1>2, StopsAt DEF HandoffInv, Die
  <2>2. RunnerInv'
    BY <1>2, <2>1, RunnerRests DEF HandoffInv, Die
  <2> QED BY <1>2, <2>2, RunnerPull DEF Die
<1> QED BY <1>1, <1>2

\* What a snapshot selects was submitted by an account of the owner.
LEMMA SelectedIsSubmitted ==
  ASSUME PullInv, NEW x, Kept(x.comments), NEW q \in Selected(SnapshotOf(x))
  PROVE  q \in Candidates /\ Submitted(q)
<1> DEFINE s == SnapshotOf(x)
<1>1. Kept(s.comments)
  BY DEF SnapshotOf
<1> HIDE DEF s
<1>2. PICK c \in Submissions(s) : c.content.submission.kind = "request" /\ q = c.content.submission.candidate
  BY DEF Selected, s
<1>3. c \in s.comments /\ c.by \in Trusted["hermes"]
  BY <1>2 DEF Submissions, SpeaksFor
<1> DEFINE w == [by |-> c.by, content |-> c.content]
<1>4. w \in written /\ w.by = c.by /\ w.content = c.content
  BY <1>1, <1>3 DEF Kept, Known
<1>5. q \in Candidates
  BY <1>2, <1>4 DEF PullInv, WrittenRequests, Requests
<1>6. Submitted(q)
  BY <1>2, <1>3, <1>4 DEF Submitted
<1> QED BY <1>5, <1>6

LEMMA SelectKeeps ==
  ASSUME HandoffInv, NEW n \in Runners, UNCHANGED adapterVars, Select(n)
  PROVE  CoreInv'
<1>1. RunnerInv
  BY DEF HandoffInv
<1>2. CASE Stops(n)
  <2>1. At(n, "idle", NoTask)
    BY <1>1, <1>2, StopsAt
  <2>2. RunnerInv'
    BY <1>1, <2>1, RunnerRests DEF Select
  <2> QED BY <2>2, RunnerPull DEF Select
<1>3. CASE \E q \in Selected(SnapshotOf(reading[n])) : Goes(n, "claim") /\ task' = [task EXCEPT ![n] = q]
  <2>1. PICK q \in Selected(SnapshotOf(reading[n])) : Goes(n, "claim") /\ task' = [task EXCEPT ![n] = q]
    BY <1>3
  <2>2. q \in Candidates /\ Submitted(q)
    BY <2>1, ProgramAssumption, ReadingOf, SelectedIsSubmitted DEF HandoffInv
  <2>3. At(n, "claim", q)
    BY <1>1, <2>1, <2>2 DEF RunnerInv, RunnerTypeOK, Goes, At, Places
  <2>4. RunnerInv'
    BY <1>1, <2>2, <2>3, RunnerRests DEF Select
  <2> QED BY <2>4, RunnerPull DEF Select
<1> QED BY <1>2, <1>3 DEF Select

LEMMA ClaimKeeps ==
  ASSUME HandoffInv, NEW n \in Runners, UNCHANGED adapterVars, Claim(n)
  PROVE  CoreInv'
<1>1. RunnerInv /\ Progress(n) /\ at[n] = "claim"
  BY DEF HandoffInv, RunnerInv, Claim
<1>2. CASE ~Claimable(task[n])
  <2>1. At(n, "idle", NoTask)
    BY <1>1, <1>2, StopsAt DEF Claim
  <2>2. RunnerInv'
    BY <1>1, <1>2, <2>1, RunnerRests DEF Claim
  <2> QED BY <2>2, RunnerPull DEF Claim
<1>3. CASE Claimable(task[n])
  <2>1. PICK q \in Candidates : q = task[n]
    BY <1>1 DEF Progress
  <2>2. Submitted(q) /\ Recorded(q) /\ ~dir[q].exists
    BY <1>1, <1>3, <2>1 DEF Progress, RunnerInv, Claimable
  <2>3. At(n, "claimed", q)
    BY <1>1, <1>3, <2>1, GoesAt DEF Claim, Places
  <2>4. \A m \in Runners \ {n} : at[m] \in Owning => task[m] # q
    BY <1>1, <2>2 DEF RunnerInv, Progress
  <2> DEFINE d == [dir[q] EXCEPT !.exists = TRUE]
  <2>5. d \in Directory /\ d.exists = TRUE /\ d.kept = dir[q].kept /\ d.journal = dir[q].journal
        /\ d.durable = dir[q].durable
    BY <1>1, DirHas DEF Directory
  <2>6. dir' = [dir EXCEPT ![q] = d]
    BY <1>3, <2>1 DEF Claim
  <2> HIDE DEF d
  <2>7. dir' \in [Candidates -> Directory] /\ dir'[q] = d /\ \A p \in Candidates \ {q} : dir'[p] = dir[p]
    BY <1>1, <2>5, <2>6 DEF RunnerInv, RunnerTypeOK
  <2>8. UNCHANGED <<flying, attempts, tested, admitted, held>> /\ UNCHANGED githubVars /\ written' = written
    BY DEF Claim, githubVars, peopleVars
  <2>9. attempts[q] = 0
    BY <1>1, <2>2 DEF Recorded, RunnerInv, RunnerTypeOK
  <2>10. Progress(n)'
    BY <2>2, <2>3, <2>5, <2>7, <2>8, <2>9 DEF At, Progress, Owning, Submitted
  <2>11. Recorded(q)'
    BY <2>2, <2>5, <2>7, <2>8, <2>9 DEF Recorded
  <2>12. RunnerInv'
    BY <1>1, <2>3, <2>4, <2>7, <2>8, <2>10, <2>11, RunnerFrame DEF RunnerInv, RunnerTypeOK, Places
  <2> QED BY <2>12, RunnerPull DEF Claim
<1> QED BY <1>2, <1>3

LEMMA OpenJournalKeeps ==
  ASSUME HandoffInv, NEW n \in Runners, UNCHANGED adapterVars, OpenJournal(n)
  PROVE  CoreInv'
<1>1. RunnerInv /\ at[n] = "claimed" /\ at[n] \in Owning
  BY DEF HandoffInv, OpenJournal, Owning
<1>2. PICK q \in Candidates : q = task[n]
  BY <1>1, OwnerKnows
<1>3. /\ Submitted(q) /\ Recorded(q) /\ Progress(n) /\ dir[q].exists /\ attempts[q] = 0
      /\ \A m \in Runners \ {n} : at[m] \in Owning => task[m] # q
  BY <1>1, <1>2, OwnerKnows DEF Progress
<1>4. At(n, "fetch", q)
  BY <1>1, <1>2, GoesAt DEF OpenJournal, Places
<1> DEFINE d == [dir[q] EXCEPT !.kept = TRUE, !.journal = "fetching"]
<1>5. d \in Directory /\ d.exists = dir[q].exists /\ d.kept = TRUE /\ d.journal = "fetching"
      /\ d.durable = dir[q].durable
  BY <1>1, DirHas DEF Directory, Entry
<1>6. dir' = [dir EXCEPT ![q] = d]
  BY <1>1, <1>2 DEF OpenJournal, RunnerInv, RunnerTypeOK
<1> HIDE DEF d
<1>7. dir' \in [Candidates -> Directory] /\ dir'[q] = d /\ \A p \in Candidates \ {q} : dir'[p] = dir[p]
  BY <1>1, <1>5, <1>6 DEF RunnerInv, RunnerTypeOK
<1>8. UNCHANGED <<flying, attempts, tested, admitted, held>> /\ UNCHANGED githubVars /\ written' = written
  BY DEF OpenJournal, githubVars, peopleVars
<1>9. Progress(n)'
  BY <1>3, <1>4, <1>5, <1>7, <1>8 DEF At, Progress, Owning, Submitted
<1>10. Recorded(q)'
  <2>1. /\ dir'[q].kept = TRUE /\ dir'[q].exists = TRUE /\ dir'[q].journal = "fetching"
        /\ dir'[q].durable = dir[q].durable
    BY <1>3, <1>5, <1>7
  <2>2. attempts'[q] = 0 /\ held' = held
    BY <1>3, <1>8
  <2> QED BY <1>3, <2>1, <2>2 DEF Recorded
<1>11. RunnerInv'
  BY <1>1, <1>3, <1>4, <1>7, <1>8, <1>9, <1>10, RunnerFrame DEF RunnerInv, RunnerTypeOK, Places
<1> QED BY <1>11, RunnerPull DEF OpenJournal

LEMMA FetchKeeps ==
  ASSUME HandoffInv, NEW n \in Runners, UNCHANGED adapterVars, Fetch(n)
  PROVE  CoreInv'
<1>1. RunnerInv /\ at[n] = "fetch" /\ at[n] \in Owning
  BY DEF HandoffInv, Fetch, Owning
<1>2. PICK q \in Candidates : q = task[n]
  BY <1>1, OwnerKnows
<1>3. /\ Submitted(q) /\ Recorded(q) /\ dir[q].exists /\ dir[q].kept /\ attempts[q] = 0
  BY <1>1, <1>2, OwnerKnows DEF Progress
<1>4. At(n, "verify", q) /\ Valid(q)
  BY <1>1, <1>2, GoesAt DEF Fetch, Places
<1>5. DirOf(q)
  BY <1>1, <1>2, SyncedDir DEF Fetch
<1>6. dir'[q].journal = dir[q].journal /\ dir'[q].durable = dir[q].journal
  BY <1>1, <1>2, SyncedDir DEF Fetch
<1>7. UNCHANGED <<githubVars, held, flying, attempts>> /\ UNCHANGED <<tested, admitted>> /\ written' = written
  BY DEF Fetch, githubVars, peopleVars
<1>8. Progress(n)'
  BY <1>3, <1>4, <1>5, <1>7 DEF At, DirOf, Progress, Owning, Submitted
<1>9. Recorded(q)'
  BY <1>3, <1>5, <1>6, <1>7 DEF DirOf, Recorded
<1>10. RunnerInv'
  BY <1>1, <1>2, <1>4, <1>5, <1>7, <1>8, <1>9, OwnerSteps DEF Places, RunnerInv, RunnerTypeOK
<1> QED BY <1>10, RunnerPull DEF Fetch

\* Only a verification all stages of which are good is accepted.
LEMMA AcceptedIsGood ==
  ASSUME NEW good \in SUBSET Stages, Accepted(Outcome(good))
  PROVE  good = Stages
<1>1. "null" # "0" /\ "other" # "0"
  OBVIOUS
<1>2. Failed.codes[1] = "null" /\ Passed("other").codes[4] = "other"
  BY DEF Failed, Passed
<1>3. ~Accepted(Failed) /\ ~Accepted(Passed("other"))
  BY <1>1, <1>2 DEF Accepted
<1> QED BY <1>3 DEF Outcome, Stages

LEMMA VerifyKeeps ==
  ASSUME HandoffInv, NEW n \in Runners, UNCHANGED adapterVars, Verify(n)
  PROVE  CoreInv'
<1>1. RunnerInv /\ at[n] = "verify" /\ at[n] \in Owning
  BY DEF HandoffInv, Verify, Owning
<1>2. PICK q \in Candidates : q = task[n]
  BY <1>1, OwnerKnows
<1>3. /\ Submitted(q) /\ Recorded(q) /\ dir[q].exists /\ dir[q].kept /\ attempts[q] = 0 /\ Valid(q)
  BY <1>1, <1>2, OwnerKnows DEF Progress
<1>4. At(n, "again", q)
  BY <1>1, <1>2, GoesAt DEF Verify, Places
<1>5. DirOf(q)
  BY <1>1, <1>2, WritesDir DEF Verify, Entry
<1>6. dir'[q].journal = "verified" /\ dir'[q].durable = dir[q].durable
  BY <1>1, <1>2, WritesDir DEF Verify, Entry
<1>7. UNCHANGED <<githubVars, held, flying, attempts>> /\ written' = written
  BY DEF Verify, githubVars, peopleVars
<1>8. tested' = tested \cup {q} /\ admitted' = admitted \cup Admission'
  BY <1>2, AcceptedIsGood DEF Verify
<1>9. tested \subseteq tested' /\ tested' \subseteq Candidates /\ admitted \subseteq admitted' /\ admitted' \subseteq Candidates
  BY <1>1, <1>8 DEF RunnerInv, RunnerTypeOK, Admission
<1>10. Progress(n)'
  BY <1>3, <1>4, <1>5, <1>7, <1>8 DEF At, DirOf, Progress, Owning, Submitted
<1>11. Recorded(q)'
  BY <1>3, <1>5, <1>6, <1>7 DEF DirOf, Recorded
<1>12. RunnerInv'
  BY <1>1, <1>2, <1>4, <1>5, <1>7, <1>9, <1>10, <1>11, OwnerSteps DEF Places
<1> QED BY <1>12, RunnerPull DEF Verify

LEMMA SelectAgainKeeps ==
  ASSUME HandoffInv, NEW n \in Runners, UNCHANGED adapterVars, SelectAgain(n)
  PROVE  CoreInv'
<1>1. RunnerInv /\ at[n] = "again" /\ at[n] \in Owning
  BY DEF HandoffInv, SelectAgain, Owning
<1>2. PICK q \in Candidates : q = task[n]
  BY <1>1, OwnerKnows
<1>3. /\ Submitted(q) /\ Recorded(q) /\ dir[q].exists /\ dir[q].kept /\ attempts[q] = 0 /\ Valid(q)
      /\ q \in tested
  BY <1>1, <1>2, OwnerKnows DEF Progress
<1>a. q \in admitted
  BY <1>1, <1>2 DEF SelectAgain, HandoffInv, HistoryInv, AdmittedWhenDone
<1>4. At(n, "check", q)
  BY <1>1, <1>2, GoesAt DEF SelectAgain, Places
<1>5. DirOf(q)
  BY <1>1, <1>2, SyncedDir DEF SelectAgain
<1>6. dir'[q].journal = dir[q].journal /\ dir'[q].durable = dir[q].journal
  BY <1>1, <1>2, SyncedDir DEF SelectAgain
<1>7. UNCHANGED <<githubVars, held, flying, attempts>> /\ UNCHANGED <<tested, admitted>> /\ written' = written
  BY DEF SelectAgain, githubVars, peopleVars
<1>8. Progress(n)'
  BY <1>3, <1>a, <1>4, <1>5, <1>7 DEF At, DirOf, Progress, Owning, Submitted
<1>9. Recorded(q)'
  BY <1>3, <1>5, <1>6, <1>7 DEF DirOf, Recorded
<1>10. RunnerInv'
  BY <1>1, <1>2, <1>4, <1>5, <1>7, <1>8, <1>9, OwnerSteps DEF Places, RunnerInv, RunnerTypeOK
<1> QED BY <1>10, RunnerPull DEF SelectAgain

LEMMA CheckHeadKeeps ==
  ASSUME HandoffInv, NEW n \in Runners, UNCHANGED adapterVars, CheckHead(n)
  PROVE  CoreInv'
<1>1. RunnerInv /\ at[n] = "check" /\ at[n] \in Owning
  BY DEF HandoffInv, CheckHead, Owning
<1>2. PICK q \in Candidates : q = task[n]
  BY <1>1, OwnerKnows
<1>3. /\ Submitted(q) /\ Recorded(q) /\ dir[q].exists /\ dir[q].kept /\ attempts[q] = 0 /\ Valid(q)
      /\ q \in tested /\ q \in admitted
  BY <1>1, <1>2, OwnerKnows DEF Progress
<1>4. At(n, "push", q)
  BY <1>1, <1>2, GoesAt DEF CheckHead, Places
<1>5. DirOf(q)
  BY <1>1, <1>2, WritesDir DEF CheckHead, Entry
<1>6. dir'[q].journal = "pushing" /\ dir'[q].durable = dir[q].durable
  BY <1>1, <1>2, WritesDir DEF CheckHead, Entry
<1>7. UNCHANGED <<githubVars, held, flying, attempts>> /\ UNCHANGED <<tested, admitted>> /\ written' = written
  BY DEF CheckHead, githubVars, peopleVars
<1>8. Progress(n)'
  BY <1>3, <1>4, <1>5, <1>6, <1>7 DEF At, DirOf, Progress, Owning, Submitted
<1>9. Recorded(q)'
  BY <1>3, <1>5, <1>6, <1>7 DEF DirOf, Recorded
<1>10. RunnerInv'
  BY <1>1, <1>2, <1>4, <1>5, <1>7, <1>8, <1>9, OwnerSteps DEF Places, RunnerInv, RunnerTypeOK
<1> QED BY <1>10, RunnerPull DEF CheckHead

\* The journal of the push is durable when the push starts.
LEMMA StartPushKeeps ==
  ASSUME HandoffInv, NEW n \in Runners, UNCHANGED adapterVars, StartPush(n)
  PROVE  CoreInv'
<1>1. RunnerInv /\ at[n] = "push" /\ at[n] \in Owning
  BY DEF HandoffInv, StartPush, Owning
<1>2. PICK q \in Candidates : q = task[n]
  BY <1>1, OwnerKnows
<1>3. /\ Submitted(q) /\ Recorded(q) /\ dir[q].exists /\ dir[q].kept /\ attempts[q] = 0 /\ Valid(q)
      /\ q \in tested /\ q \in admitted /\ dir[q].journal = "pushing"
      /\ \A m \in Runners \ {n} : at[m] \in Owning => task[m] # q
  BY <1>1, <1>2, OwnerKnows DEF Progress
<1>4. At(n, "readback", q)
  BY <1>1, <1>2, GoesAt DEF StartPush, Places
<1>5. DirOf(q)
  BY <1>1, <1>2, SyncedDir DEF StartPush
<1>6. dir'[q].journal = "pushing" /\ dir'[q].durable = "pushing"
  BY <1>1, <1>2, <1>3, SyncedDir DEF StartPush
<1>7. UNCHANGED githubVars /\ held' = held /\ UNCHANGED <<tested, admitted>> /\ written' = written
      /\ flying' = flying \cup {q} /\ attempts' = [attempts EXCEPT ![q] = @ + 1]
  BY <1>2 DEF StartPush, githubVars, peopleVars
<1>8. attempts' \in [Candidates -> Nat] /\ attempts'[q] = 1 /\ \A p \in Candidates \ {q} : attempts'[p] = attempts[p]
  BY <1>1, <1>3, <1>7 DEF RunnerInv, RunnerTypeOK
<1>9. Progress(n)'
  BY <1>3, <1>4, <1>5, <1>7 DEF At, DirOf, Progress, Owning, Submitted
<1>10. Recorded(q)'
  BY <1>3, <1>5, <1>6, <1>7, <1>8 DEF DirOf, Recorded, Submitted
<1>11. flying' \subseteq Candidates /\ \A p \in flying' : Valid(p)
  BY <1>1, <1>3, <1>7 DEF RunnerInv, RunnerTypeOK
<1>12. RunnerInv'
  BY <1>1, <1>3, <1>4, <1>5, <1>7, <1>8, <1>9, <1>10, <1>11, RunnerFrame DEF Places, DirOf, RunnerInv, RunnerTypeOK
<1> QED BY <1>12, RunnerPull DEF StartPush

\* "pushed" is written of a commit that the branch is seen to be at.
LEMMA ReadbackKeeps ==
  ASSUME HandoffInv, NEW n \in Runners, UNCHANGED adapterVars, Readback(n)
  PROVE  CoreInv'
<1>1. RunnerInv /\ at[n] = "readback" /\ at[n] \in Owning
  BY DEF HandoffInv, Readback, Owning
<1>2. PICK q \in Candidates : q = task[n]
  BY <1>1, OwnerKnows
<1>3. /\ Submitted(q) /\ Recorded(q) /\ dir[q].exists /\ dir[q].kept
  BY <1>1, <1>2, OwnerKnows DEF Progress
<1>4. At(n, "end", q)
  BY <1>1, <1>2, GoesAt DEF Readback, Places
<1>5. PICK entry \in {"uncertain", "pushed"} : Writes(q, entry) /\ (entry = "pushed" => ref = q.to)
  BY <1>2 DEF Readback
<1>6. DirOf(q) /\ dir'[q].journal = entry /\ dir'[q].durable = dir[q].durable
  BY <1>1, <1>5, WritesDir DEF Entry
<1>7. UNCHANGED <<githubVars, held, flying, attempts>> /\ UNCHANGED <<tested, admitted>> /\ written' = written
  BY DEF Readback, githubVars, peopleVars
<1>8. entry = "pushed" => q.to \in held
  BY <1>1, <1>5 DEF RunnerInv
<1>9. Progress(n)'
  BY <1>3, <1>4, <1>6, <1>7 DEF At, DirOf, Progress, Owning, Submitted
<1>10. Recorded(q)'
  BY <1>3, <1>6, <1>7, <1>8 DEF DirOf, Recorded, Submitted
<1>11. RunnerInv'
  BY <1>1, <1>2, <1>4, <1>6, <1>7, <1>9, <1>10, OwnerSteps DEF Places, RunnerInv, RunnerTypeOK
<1> QED BY <1>11, RunnerPull DEF Readback

\* A runner that leaves its directory for good, whatever it writes last.
LEMMA Leaving ==
  ASSUME HandoffInv, NEW n \in Runners, UNCHANGED adapterVars, at[n] \in Owning,
         NEW q \in Candidates, q = task[n], Stops(n), DirOf(q), Recorded(q)',
         UNCHANGED <<githubVars, held, flying, attempts>>, UNCHANGED <<tested, admitted>>,
         reading' = reading \/ reading' = Begins(n) \/ reading' = Ends(n)
  PROVE  CoreInv'
<1>1. RunnerInv
  BY DEF HandoffInv
<1>2. At(n, "idle", NoTask)
  BY <1>1, StopsAt
<1>3. Progress(n)'
  BY <1>2 DEF At, Progress, Owning
<1>4. RunnerInv'
  BY <1>1, <1>2, <1>3, OwnerSteps DEF Places, RunnerInv, RunnerTypeOK
<1> QED BY <1>4, RunnerPull

LEMMA EndKeeps ==
  ASSUME HandoffInv, NEW n \in Runners, UNCHANGED adapterVars, End(n) \/ EndFails(n)
  PROVE  CoreInv'
<1>1. RunnerInv /\ at[n] = "end" /\ at[n] \in Owning
  BY DEF HandoffInv, End, EndFails, Owning
<1>2. PICK q \in Candidates : q = task[n]
  BY <1>1, OwnerKnows
<1>3. Recorded(q)
  BY <1>1, <1>2, OwnerKnows
<1>4. UNCHANGED <<githubVars, held, flying, attempts>> /\ UNCHANGED <<tested, admitted>> /\ written' = written
      /\ reading' = reading /\ Stops(n)
  BY DEF End, EndFails, githubVars, peopleVars
<1>5. CASE End(n)
  <2>1. DirOf(q) /\ dir'[q].journal = dir[q].journal /\ dir'[q].durable = dir[q].journal
    BY <1>1, <1>2, <1>5, SyncedDir DEF End
  <2>2. Recorded(q)'
    BY <1>3, <1>4, <2>1 DEF DirOf, Recorded, Submitted
  <2> QED BY <1>1, <1>2, <1>4, <2>1, <2>2, Leaving
<1>6. CASE EndFails(n)
  <2>1. DirOf(q) /\ dir'[q].journal = "uncertain" /\ dir'[q].durable = dir[q].durable
    BY <1>1, <1>2, <1>6, WritesDir DEF EndFails, Entry
  <2>2. Recorded(q)'
    BY <1>3, <1>4, <2>1 DEF DirOf, Recorded, Submitted
  <2> QED BY <1>1, <1>2, <1>4, <2>1, <2>2, Leaving
<1> QED BY <1>5, <1>6

LEMMA FailKeeps ==
  ASSUME HandoffInv, NEW n \in Runners, UNCHANGED adapterVars, Fail(n)
  PROVE  CoreInv'
<1>1. RunnerInv /\ UNCHANGED <<githubVars, held, flying, attempts>> /\ UNCHANGED <<tested, admitted>> /\ written' = written
      /\ reading' = Ends(n)
  BY DEF HandoffInv, Fail, githubVars, peopleVars
<1>2. CASE Stops(n) /\ UNCHANGED dir
  <2>1. At(n, "idle", NoTask)
    BY <1>1, <1>2, StopsAt
  <2>2. RunnerInv'
    BY <1>1, <1>2, <2>1, RunnerRests
  <2> QED BY <1>1, <2>2, RunnerPull
<1>3. CASE at[n] \in {"fetch", "verify", "again", "check", "push"}
           /\ SyncedAndWrites(task[n], "failed") /\ Goes(n, "end") /\ UNCHANGED task
  <2>1. at[n] \in Owning
    BY <1>3 DEF Owning
  <2>2. PICK q \in Candidates : q = task[n]
    BY <1>1, <2>1, OwnerKnows
  <2>3. Submitted(q) /\ Recorded(q) /\ attempts[q] = 0 /\ dir[q].exists /\ dir[q].kept
    BY <1>1, <1>3, <2>1, <2>2, OwnerKnows DEF Progress
  <2>4. At(n, "end", q)
    BY <1>1, <1>3, <2>2, GoesAt DEF Places
  <2>5. DirOf(q) /\ dir'[q].journal = "failed" /\ dir'[q].durable = dir[q].journal
    BY <1>1, <1>3, <2>2, SyncedAndWritesDir DEF Entry
  <2>6. Progress(n)'
    BY <1>1, <2>3, <2>4, <2>5 DEF At, DirOf, Progress, Owning, Submitted
  <2>7. Recorded(q)'
    BY <1>1, <2>3, <2>5 DEF DirOf, Recorded
  <2>8. RunnerInv'
    BY <1>1, <2>1, <2>2, <2>4, <2>5, <2>6, <2>7, OwnerSteps DEF Places, RunnerInv, RunnerTypeOK
  <2> QED BY <1>1, <2>8, RunnerPull
<1> QED BY <1>2, <1>3 DEF Fail

\* What a power failure leaves of a directory.
LEMMA PowerLeaves ==
  ASSUME NEW d \in Directory
  PROVE  /\ AfterPowerLoss(d) \in Directory /\ Survives(d) \in Directory
         /\ Survives(d).exists = d.exists /\ Survives(d).kept = d.exists
         /\ Survives(d).journal = d.journal /\ Survives(d).durable = d.journal
         /\ d.kept => /\ AfterPowerLoss(d).exists = d.exists /\ AfterPowerLoss(d).kept
                      /\ AfterPowerLoss(d).journal = d.durable /\ AfterPowerLoss(d).durable = d.durable
         /\ ~d.kept => AfterPowerLoss(d) = NoDirectory
<1> DEFINE kept == [d EXCEPT !.journal = d.durable]
           synced == [d EXCEPT !.kept = d.exists, !.durable = d.journal]
<1>1. d.exists \in BOOLEAN /\ d.kept \in BOOLEAN /\ d.journal \in Entry /\ d.durable \in Entry
  BY DEF Directory
<1>2. /\ kept \in Directory /\ kept.exists = d.exists /\ kept.kept = d.kept
      /\ kept.journal = d.durable /\ kept.durable = d.durable
  BY <1>1 DEF Directory
<1>3. /\ synced \in Directory /\ synced.exists = d.exists /\ synced.kept = d.exists
      /\ synced.journal = d.journal /\ synced.durable = d.journal
  BY <1>1 DEF Directory
<1>4. Survives(d) = synced
  BY DEF Survives
<1>5. (d.kept => AfterPowerLoss(d) = kept) /\ (~d.kept => AfterPowerLoss(d) = NoDirectory)
  BY DEF AfterPowerLoss
<1>6. NoDirectory \in Directory
  BY DEF NoDirectory, Directory, Entry
<1> HIDE DEF kept, synced
<1>7. CASE d.kept
  BY <1>2, <1>3, <1>4, <1>5, <1>7
<1>8. CASE ~d.kept
  BY <1>3, <1>4, <1>5, <1>6, <1>8
<1> QED BY <1>7, <1>8

\* A push that is on record stays on record when the power fails.
LEMMA RecordSurvives ==
  ASSUME RunnerInv, NEW q \in Candidates,
         dir'[q] = AfterPowerLoss(dir[q]) \/ dir'[q] = Survives(dir[q]),
         UNCHANGED <<attempts, tested, admitted, held>>, written' = written
  PROVE  Recorded(q)'
<1>1. dir[q] \in Directory /\ Recorded(q)
  BY DEF RunnerInv, RunnerTypeOK
<1>2. Submitted(q)' <=> Submitted(q)
  BY DEF Submitted
<1>3. CASE dir[q].kept /\ dir'[q] = AfterPowerLoss(dir[q])
  BY <1>1, <1>2, <1>3, PowerLeaves DEF Recorded
<1>4. CASE ~dir[q].kept /\ dir'[q] = AfterPowerLoss(dir[q])
  <2>1. dir'[q] = NoDirectory /\ attempts'[q] <= 1 /\ ~(attempts'[q] > 0)
    BY <1>1, <1>4, PowerLeaves DEF Recorded
  <2> QED BY <2>1 DEF Recorded, NoDirectory
<1>5. CASE dir'[q] = Survives(dir[q])
  BY <1>1, <1>2, <1>5, PowerLeaves DEF Recorded
<1> QED BY <1>3, <1>4, <1>5

LEMMA PowerFailsKeeps ==
  ASSUME HandoffInv, PowerFails, UNCHANGED adapterVars
  PROVE  CoreInv'
<1>1. RunnerInv /\ RunnerTypeOK /\ dir \in [Candidates -> Directory]
  BY DEF HandoffInv, RunnerInv, RunnerTypeOK
<1>2. /\ at' = [n \in Runners |-> "idle"] /\ task' = [n \in Runners |-> NoTask]
      /\ UNCHANGED githubVars /\ UNCHANGED <<flying, attempts, tested, admitted, held>> /\ written' = written /\ ref' = ref
  BY DEF PowerFails, githubVars, peopleVars
<1>3. PICK lost \in SUBSET {q \in Candidates : dir[q].exists} :
        dir' = [q \in Candidates |-> IF q \in lost THEN AfterPowerLoss(dir[q]) ELSE Survives(dir[q])]
  BY DEF PowerFails
<1>4. dir' \in [Candidates -> Directory]
  BY <1>1, <1>3, PowerLeaves
<1>5. ASSUME NEW q \in Candidates
      PROVE  Recorded(q)'
  <2>1. dir'[q] = AfterPowerLoss(dir[q]) \/ dir'[q] = Survives(dir[q])
    BY <1>3
  <2> QED BY <1>1, <1>2, <2>1, RecordSurvives
<1>6. \A n \in Runners : Progress(n)'
  BY <1>2 DEF Progress, Owning
<1>7. RunnerTypeOK' /\ task' \in [Runners -> Candidates \cup {NoTask}] /\ OneOwner'
  BY <1>1, <1>2, <1>4 DEF RunnerTypeOK, OneOwner, Owning
<1>8. RunnerInv'
  BY <1>1, <1>2, <1>5, <1>6, <1>7 DEF RunnerInv
<1>9. reading' \in [Readers -> Partial] /\ ReadingsKept'
  <2>1. reading' = [r \in Readers |-> IF r \in Runners THEN NotReading ELSE reading[r]]
    BY DEF PowerFails
  <2>2. reading \in [Readers -> Partial] /\ \A r \in Readers : Kept(reading[r].comments)
    BY DEF HandoffInv, PullInv, PullTypeOK, ReadingsKept
  <2>3. \A r \in Readers : reading'[r] = NotReading \/ reading'[r] = reading[r]
    BY <2>1
  <2>4. \A r \in Readers : Kept(reading'[r].comments)
    BY <2>2, <2>3, NotReadingType, EmptyIsKept
  <2>5. \A C : Kept(C) => Kept(C)'
    BY <1>2 DEF Kept, Known
  <2> QED BY <1>2, <2>1, <2>2, <2>4, NotReadingType DEF ReadingsKept, Kept, Known
<1>10. PullInv'
  BY <1>2, <1>9 DEF HandoffInv, PullInv, PullTypeOK, githubVars, peopleVars, CommentsNumbered, CommentsKnown, Known,
                    WrittenRequests
<1> QED BY <1>8, <1>10, AdapterStays DEF HandoffInv, CoreInv

LEMMA CandidateHeads ==
  ASSUME NEW q \in Candidates
  PROVE  q.from \in Heads /\ q.to \in Heads
  BY RunnerAssumption DEF Candidate

LEMMA LandsKeeps ==
  ASSUME HandoffInv, NEW q \in Candidates, Lands(q), UNCHANGED adapterVars
  PROVE  CoreInv'
<1>1. RunnerInv /\ PullInv /\ ref \in Heads \cup {Gone} /\ held \subseteq Heads \cup {Gone} /\ ref \in held
  BY DEF HandoffInv, PullInv, PullTypeOK, RunnerInv, RunnerTypeOK
<1>2. UNCHANGED peopleVars /\ written' = written /\ UNCHANGED reading
      /\ UNCHANGED <<at, task, dir, attempts, tested, admitted>> /\ flying' \subseteq flying
  BY DEF Lands, peopleVars
<1>3. ref' \in Heads \cup {Gone} /\ held \subseteq held' /\ held' \subseteq Heads \cup {Gone} /\ ref' \in held'
  BY <1>1, CandidateHeads DEF Lands
<1>4. RunnerInv'
  BY <1>1, <1>2, <1>3, RunnersStay DEF RunnerInv, RunnerTypeOK
<1>5. PullInv'
  BY <1>1, <1>2, <1>3, PullChanges DEF PullInv, PullTypeOK, peopleVars
<1> QED BY <1>4, <1>5, AdapterStays DEF HandoffInv, CoreInv

LEMMA RunnerReadsKeeps ==
  ASSUME HandoffInv, NEW n \in Runners, Reads(n), UNCHANGED runnerVars, UNCHANGED adapterVars
  PROVE  CoreInv'
<1>1. PullInv' /\ UNCHANGED githubVars
  BY ProgramAssumption, ReadsKeeps
  DEF HandoffInv, Reads, ReadPull, ReadComments, ReadStatus, ReadRuns, ReadAgain
<1>3. RunnerInv'
  BY <1>1, AdapterFrame
<1> QED BY <1>1, <1>3, AdapterStays DEF HandoffInv, CoreInv

LEMMA RunnerKeeps ==
  ASSUME HandoffInv, RunnerNext, UNCHANGED adapterVars
  PROVE  CoreInv'
<1>1. CASE PowerFails
  BY <1>1, PowerFailsKeeps
<1>2. CASE \E q \in Candidates : Lands(q)
  BY <1>2, LandsKeeps
<1>3. ASSUME NEW n \in Runners,
             \/ Start(n) \/ Select(n) \/ Claim(n) \/ OpenJournal(n) \/ Fetch(n) \/ Verify(n)
             \/ SelectAgain(n) \/ CheckHead(n) \/ StartPush(n) \/ Readback(n) \/ End(n)
             \/ EndFails(n) \/ Fail(n) \/ Die(n)
             \/ Reads(n) /\ UNCHANGED runnerVars
      PROVE  CoreInv'
  BY <1>3, RestingKeeps, SelectKeeps, ClaimKeeps, OpenJournalKeeps, FetchKeeps, VerifyKeeps, SelectAgainKeeps,
     CheckHeadKeeps, StartPushKeeps, ReadbackKeeps, EndKeeps, FailKeeps, RunnerReadsKeeps
<1> QED BY <1>1, <1>2, <1>3 DEF RunnerNext

-----------------------------------------------------------------------------
(* The people, and the start. *)

PeopleStep ==
  /\ People
  /\ UNCHANGED <<reading, event, delivered, at, task, dir, flying, attempts, tested>>
  /\ held' = held \cup {ref'}
  /\ agreed' = agreed \cup Agreement' /\ admitted' = admitted \cup Admission'

LEMMA HandoffPeopleKeep ==
  ASSUME HandoffInv, PeopleStep
  PROVE  CoreInv'
<1>1. PullInv' /\ written \subseteq written'
  BY PeopleKeep DEF HandoffInv, PeopleStep
<1>2. /\ ref' \in Heads \cup {Gone} /\ held \subseteq Heads \cup {Gone}
      /\ admitted \subseteq Candidates /\ agreed \subseteq Heads
  BY <1>1 DEF PullInv, PullTypeOK, HandoffInv, RunnerInv, RunnerTypeOK, AdapterTypeOK
<1>3. /\ admitted \subseteq admitted' /\ admitted' \subseteq Candidates
      /\ agreed \subseteq agreed' /\ agreed' \subseteq Heads
  BY <1>2 DEF PeopleStep, Admission, Agreement
<1>4. RunnerInv'
  BY <1>1, <1>2, <1>3, RunnersStay DEF HandoffInv, PeopleStep
<1> QED BY <1>1, <1>3, <1>4, ApprovalsStay DEF HandoffInv, CoreInv, PeopleStep

-----------------------------------------------------------------------------
(* What a complete snapshot says of the pull request. *)

\* It is complete when the pull request is read a second time and has not changed: what
\* the votes in it agree on, the pull request shows then.
LEMMA ReadyIsAgreement ==
  ASSUME PullInv, NEW x \in Partial, Kept(x.comments), x.pull = pull, Action(SnapshotOf(x), Local) = "ready"
  PROVE  pull.head \in Agreement
<1> DEFINE s == SnapshotOf(x)
<1>1. s.pull = pull /\ s.comments = x.comments
  BY DEF SnapshotOf
<1>2. s.comments \subseteq Comment /\ Numbered(s.comments)
  BY <1>1 DEF Partial, Kept
<1> HIDE DEF s
<1>3. pull.open /\ ~Blocked(s) /\ \A a \in Agents : Vote(s, a) = "approve"
  BY <1>1 DEF Action, s
<1>4. Plain("blocked") \notin pull.labels
  BY <1>1, <1>3 DEF Blocked
<1>5. ASSUME NEW a \in Agents
      PROVE  Approved(pull.head, a)
  <2>1. PICK c \in VotesOf(s, a) : c.content.review.decision = "approve"
    BY <1>2, <1>3, VoteIsComment
  <2>2. /\ c \in x.comments /\ c.by \in Trusted[a] /\ c.content.review.kind = "review"
        /\ c.content.review.agent = a /\ c.content.review.head = pull.head
    BY <1>1, <2>1 DEF VotesOf, SpeaksFor
  <2> DEFINE w == [by |-> c.by, content |-> c.content]
  <2>3. w \in written /\ w.by = c.by /\ w.content = c.content
    BY <2>2 DEF Kept, Known
  <2> QED BY <2>1, <2>2, <2>3 DEF Approved
<1>6. pull.head \in Heads
  BY DEF PullInv, PullTypeOK, Pull
<1> QED BY <1>3, <1>4, <1>5, <1>6 DEF Agreement

LEMMA SelectedIsAdmission ==
  ASSUME PullInv, NEW x \in Partial, Kept(x.comments), x.pull = pull, NEW q \in Selected(SnapshotOf(x)), q \in tested
  PROVE  q \in Admission
<1> DEFINE s == SnapshotOf(x)
<1>1. s.pull = pull
  BY DEF SnapshotOf
<1>2. q \in Candidates /\ Submitted(q)
  BY SelectedIsSubmitted
<1>3. Receptive(s) /\ q.from = s.pull.head /\ q.branch = s.pull.branch
  BY DEF Selected
<1> HIDE DEF s
<1>4. Action(s, Local) = "wait" /\ pull.handoff = "hermes"
  BY <1>1, <1>3 DEF Receptive
<1>5. pull.open /\ ~Blocked(s)
  BY <1>1, <1>4 DEF Action
<1>6. Plain("blocked") \notin pull.labels /\ ~pull.fork
  BY <1>1, <1>5 DEF Blocked
<1> QED BY <1>1, <1>2, <1>3, <1>4, <1>5, <1>6 DEF Admission, Standing, Submitted

LEMMA ReadAgainEnds ==
  ASSUME PullInv, NEW r \in Readers, ReadAgain(r)
  PROVE  reading'[r] \in Partial /\ Kept(reading'[r].comments) /\ reading'[r].pull = pull
<1> DEFINE x == [reading[r] EXCEPT !.step = "done"]
<1>1. reading[r] \in Partial /\ Kept(reading[r].comments) /\ reading[r].pull = pull
  BY ReadingOf DEF ReadAgain, Unchanged
<1>2. x \in Partial /\ x.comments = reading[r].comments /\ x.pull = reading[r].pull
  BY <1>1 DEF Partial
<1>3. reading' = [reading EXCEPT ![r] = x]
  BY DEF ReadAgain
<1> HIDE DEF x
<1>4. reading'[r] = x
  BY <1>3 DEF PullInv, PullTypeOK
<1> QED BY <1>1, <1>2, <1>4

\* A step of a program brings a reader to the end of a snapshot by its last request only.
Turned(r) == reading'[r] = reading[r] \/ reading'[r].step # "done" \/ ReadAgain(r)

LEMMA ReadsTurns ==
  ASSUME PullInv, NEW m \in Readers, Reads(m), NEW r \in Readers
  PROVE  Turned(r)
<1>1. reading \in [Readers -> Partial] /\ reading[m] \in Partial
  BY DEF PullInv, PullTypeOK
<1>2. CASE m = r
  BY <1>1, <1>2 DEF Turned, Reads, ReadPull, ReadComments, ReadStatus, ReadRuns, Partial
<1>3. CASE m # r
  BY <1>1, <1>3 DEF Turned, Reads, ReadPull, ReadComments, ReadStatus, ReadRuns, ReadAgain
<1> QED BY <1>2, <1>3

LEMMA OthersTurn ==
  ASSUME PullInv, NEW m \in Readers, reading' = reading \/ reading' = Begins(m) \/ reading' = Ends(m), NEW r \in Readers
  PROVE  Turned(r)
<1>1. reading \in [Readers -> Partial]
  BY DEF PullInv, PullTypeOK
<1> QED BY <1>1, NotReadingIdle DEF Turned, Begins, Ends

LEMMA AdapterTurns ==
  ASSUME PullInv, AdapterNext, NEW r \in Readers
  PROVE  Turned(r) /\ pull' = pull /\ written' = written /\ agreed' = agreed
<1>1. CASE Reads(Adapter) /\ UNCHANGED adapterVars
  BY <1>1, AdapterReads, ReadsTurns
  DEF adapterVars, githubVars, peopleVars, Reads, ReadPull, ReadComments, ReadStatus, ReadRuns, ReadAgain
<1>2. ASSUME UNCHANGED <<githubVars, agreed>>, reading' = reading \/ reading' = Begins(Adapter) \/ reading' = Ends(Adapter)
      PROVE  Turned(r) /\ pull' = pull /\ written' = written /\ agreed' = agreed
  BY <1>2, AdapterReads, OthersTurn DEF githubVars, peopleVars
<1>3. CASE \E e \in Events : Deliver(e)
  BY <1>2, <1>3 DEF Deliver
<1>4. CASE Find \/ Decide \/ AdapterFails
  BY <1>2, <1>4 DEF Find, Decide, AdapterFails
<1> QED BY <1>1, <1>3, <1>4 DEF AdapterNext

\* A runner comes to ask for the authorization again with a new snapshot only.
Asks(n) == n \in Runners /\ at'[n] = "again" => reading'[n].step = "pull" \/ (at[n] = "again" /\ task'[n] = task[n])

\* What is admitted is recorded whenever more is tested.
Admits == UNCHANGED <<tested, admitted>> \/ (Admission' \subseteq admitted' /\ admitted \subseteq admitted')

LEMMA RunnerTurns ==
  ASSUME HandoffInv, RunnerNext, NEW r \in Readers, NEW k \in Readers
  PROVE  Turned(r) /\ pull' = pull /\ written' = written /\ Asks(k) /\ Admits
<1>1. PullInv /\ reading \in [Readers -> Partial] /\ task \in [Runners -> Candidates \cup {NoTask}]
      /\ at \in [Runners -> Places]
  BY DEF HandoffInv, PullInv, PullTypeOK, RunnerInv, RunnerTypeOK, Places
<1>2. Runners \subseteq Readers
  BY ProgramAssumption
<1>3. CASE PowerFails
  BY <1>1, <1>3, NotReadingIdle DEF PowerFails, Turned, Asks, Admits, githubVars, peopleVars
<1>4. CASE \E q \in Candidates : Lands(q)
  BY <1>4 DEF Lands, Turned, Asks, Admits, peopleVars
<1>5. ASSUME NEW n \in Runners, Reads(n) /\ UNCHANGED runnerVars
      PROVE  Turned(r) /\ pull' = pull /\ written' = written /\ Asks(k) /\ Admits
  <2>1. Turned(r)
    BY <1>1, <1>2, <1>5, ReadsTurns
  <2>2. pull' = pull /\ written' = written
    BY <1>5 DEF githubVars, peopleVars, Reads, ReadPull, ReadComments, ReadStatus, ReadRuns, ReadAgain
  <2> QED BY <1>5, <2>1, <2>2 DEF Asks, Admits, runnerVars
<1>6. ASSUME NEW n \in Runners, Verify(n)
      PROVE  Turned(r) /\ pull' = pull /\ written' = written /\ Asks(k) /\ Admits
  <2>1. Turned(r) /\ pull' = pull /\ written' = written
    BY <1>1, <1>2, <1>6, OthersTurn DEF Verify, githubVars, peopleVars
  <2>2. Asks(k)
    BY <1>1, <1>2, <1>6, NotReadingIdle DEF Verify, Goes, Begins, Asks
  <2>3. admitted' = admitted \cup Admission'
    BY <1>6 DEF Verify
  <2> QED BY <2>1, <2>2, <2>3 DEF Admits
<1>7. ASSUME NEW n \in Runners,
             \/ Start(n) \/ Select(n) \/ Claim(n) \/ OpenJournal(n) \/ Fetch(n)
             \/ SelectAgain(n) \/ CheckHead(n) \/ StartPush(n) \/ Readback(n) \/ End(n)
             \/ EndFails(n) \/ Fail(n) \/ Die(n)
      PROVE  Turned(r) /\ pull' = pull /\ written' = written /\ Asks(k) /\ Admits
  <2>1. reading' = reading \/ reading' = Begins(n) \/ reading' = Ends(n)
    BY <1>7 DEF Start, Select, Claim, OpenJournal, Fetch, SelectAgain, CheckHead, StartPush, Readback, End, EndFails,
                Fail, Die
  <2>2. pull' = pull /\ written' = written /\ UNCHANGED <<tested, admitted>>
    BY <1>7 DEF Start, Select, Claim, OpenJournal, Fetch, SelectAgain, CheckHead, StartPush, Readback, End, EndFails,
                Fail, Die, githubVars, peopleVars
  <2>3. Asks(k)
    <3>1. CASE k = n
      BY <1>1, <1>7, <3>1 DEF Start, Select, Claim, OpenJournal, Fetch, SelectAgain, CheckHead, StartPush, Readback, End,
                              EndFails, Fail, Die, Goes, Stops, Asks
    <3>2. CASE k # n
      BY <1>1, <1>7, <3>2 DEF Start, Select, Claim, OpenJournal, Fetch, SelectAgain, CheckHead, StartPush, Readback, End,
                              EndFails, Fail, Die, Goes, Stops, Asks
    <3> QED BY <3>1, <3>2
  <2> QED BY <1>1, <1>2, <2>1, <2>2, <2>3, OthersTurn DEF Admits
<1> QED BY <1>3, <1>4, <1>5, <1>6, <1>7 DEF RunnerNext

\* What the pull request shows is recorded, and what a complete snapshot says was shown.
LEMMA HistoryKeeps ==
  ASSUME HandoffInv, [Next]_vars
  PROVE  HistoryInv'
<1>1. PullInv /\ HistoryInv /\ RunnerInv /\ RunnerTypeOK
  BY DEF HandoffInv, RunnerInv
<1>2. CASE PeopleStep
  <2>1. UNCHANGED <<reading, at, task, tested>> /\ Agreement' \subseteq agreed' /\ Admission' \subseteq admitted'
        /\ agreed \subseteq agreed' /\ admitted \subseteq admitted'
    BY <1>2 DEF PeopleStep
  <2> QED BY <1>1, <2>1 DEF HistoryInv, AgreedWhenDone, AdmittedWhenDone
<1>3. CASE ~PeopleStep
  <2>1. (AdapterNext /\ UNCHANGED runnerVars) \/ (RunnerNext /\ UNCHANGED adapterVars) \/ UNCHANGED vars
    BY <1>3 DEF Next, PeopleStep
  <2>2. pull' = pull /\ written' = written /\ agreed' = agreed /\ Admits
        /\ \A r \in Readers : Turned(r)
        /\ \A n \in Readers : Asks(n)
    <3>1. CASE AdapterNext /\ UNCHANGED runnerVars
      BY <1>1, <3>1, AdapterTurns, AdapterReads DEF runnerVars, Asks, Admits
    <3>2. CASE RunnerNext /\ UNCHANGED adapterVars
      BY <3>2, RunnerTurns, AdapterReads DEF adapterVars
    <3>3. CASE UNCHANGED vars
      BY <3>3 DEF vars, pullVars, githubVars, peopleVars, adapterVars, runnerVars, Turned, Asks, Admits
    <3> QED BY <2>1, <3>1, <3>2, <3>3
  <2>3. Agreement' \subseteq agreed'
    BY <1>1, <2>2 DEF HistoryInv, Agreement, Approved
  <2>4. Admission' \subseteq admitted' /\ admitted \subseteq admitted'
    BY <1>1, <2>2 DEF HistoryInv, Admission, Standing, Admits
  <2>5. AgreedWhenDone'
    <3>1. CASE reading'[Adapter] = reading[Adapter]
      BY <1>1, <2>2, <3>1 DEF HistoryInv, AgreedWhenDone, SnapshotOf
    <3>2. CASE reading'[Adapter].step # "done"
      BY <3>2 DEF AgreedWhenDone
    <3>3. CASE ReadAgain(Adapter)
      <4> DEFINE x == reading'[Adapter]
      <4>1. x \in Partial /\ Kept(x.comments) /\ x.pull = pull
        BY <1>1, <3>3, AdapterReads, ReadAgainEnds
      <4> HIDE DEF x
      <4>2. Action(SnapshotOf(x), Local) = "ready" => x.pull.head \in agreed
        BY <1>1, <4>1, ReadyIsAgreement DEF HistoryInv
      <4> QED BY <2>2, <4>2 DEF x, AgreedWhenDone, SnapshotOf
    <3> QED BY <2>2, <3>1, <3>2, <3>3, AdapterReads DEF Turned
  <2>6. AdmittedWhenDone'
    <3> SUFFICES ASSUME NEW n \in Runners, at'[n] = "again", reading'[n].step = "done",
                        task'[n] \in Selected(SnapshotOf(reading'[n]))
                 PROVE  task'[n] \in admitted'
      BY DEF AdmittedWhenDone, SnapshotOf
    <3>1. at[n] = "again" /\ task'[n] = task[n] /\ task[n] \in tested /\ n \in Readers
      BY <1>1, <2>2, ProgramAssumption DEF Asks, RunnerInv, Progress
    <3>2. CASE reading'[n] = reading[n]
      BY <1>1, <2>4, <3>1, <3>2 DEF HistoryInv, AdmittedWhenDone
    <3>3. CASE ReadAgain(n)
      <4> DEFINE x == reading'[n]
      <4>1. x \in Partial /\ Kept(x.comments) /\ x.pull = pull
        BY <1>1, <3>1, <3>3, ReadAgainEnds
      <4>2. task[n] \in Selected(SnapshotOf(x))
        BY <3>1
      <4> HIDE DEF x
      <4> QED BY <1>1, <2>4, <3>1, <4>1, <4>2, SelectedIsAdmission DEF HistoryInv
    <3> QED BY <2>2, <3>1, <3>2, <3>3 DEF Turned
  <2> QED BY <2>3, <2>4, <2>5, <2>6 DEF HistoryInv
<1> QED BY <1>2, <1>3

LEMMA HandoffStarts ==
  ASSUME Init
  PROVE  HandoffInv
<1>1. PICK s \in Scenes : /\ pull = s.pull /\ ref = s.pull.head /\ comments = s.comments
                          /\ status = s.status /\ runs = s.runs /\ now = 2 /\ edits = s.edits
                          /\ written = {[by |-> c.by, content |-> c.content] : c \in s.comments}
                          /\ reading = [r \in Readers |-> NotReading]
  BY DEF Init, PullInit
<1>2. s \in [pull: Pull, comments: SUBSET Comment, edits: 0 .. MaxEdits,
             status: [Heads -> Status], runs: [Heads -> Runs]]
      /\ Numbered(s.comments) /\ \A c \in s.comments : c.id \in 1 .. Cardinality(s.comments)
  BY SceneAssumption
<1>3. /\ s.pull \in Pull /\ s.comments \subseteq Comment /\ s.edits \in 0 .. MaxEdits
      /\ s.status \in [Heads -> Status] /\ s.runs \in [Heads -> Runs]
  BY <1>2
<1>4. s.pull.head \in Heads
  BY <1>3 DEF Pull
<1>5. \A c \in s.comments : /\ [by |-> c.by, content |-> c.content] \in [by: Accounts, content: Content]
                            /\ Requests(c.content)
  BY <1>3, CandidateAssumption DEF Comment
<1>6. PullTypeOK
  BY <1>1, <1>3, <1>4, <1>5, NotReadingType DEF PullTypeOK
<1>7. CommentsNumbered /\ CommentsKnown
  BY <1>1, <1>2 DEF CommentsNumbered, CommentsKnown, Known
<1>8. WrittenRequests
  <2>1. ASSUME NEW w \in written
        PROVE  Requests(w.content)
    <3>1. PICK c \in s.comments : w = [by |-> c.by, content |-> c.content]
      BY <1>1
    <3> QED BY <1>5, <3>1
  <2> QED BY <2>1 DEF WrittenRequests
<1>9. ReadingsKept
  BY <1>1, NotReadingType, EmptyIsKept DEF ReadingsKept
<1>10. AdapterTypeOK /\ ReadyIsApproved
  BY DEF Init, AdapterInit, AdapterTypeOK, ReadyIsApproved, Agreement
<1>11. RunnerInv
  <2>1. NoDirectory \in Directory
    BY DEF NoDirectory, Directory, Entry
  <2>2. RunnerInit /\ ref \in Heads
    BY <1>1, <1>4 DEF Init
  <2>3. RunnerTypeOK /\ task \in [Runners -> Candidates \cup {NoTask}] /\ OneOwner
    BY <2>1, <2>2 DEF RunnerInit, RunnerTypeOK, OneOwner, Owning
  <2>4. \A n \in Runners : Progress(n)
    BY <2>2 DEF RunnerInit, Progress, Owning
  <2>5. \A q \in Candidates : Recorded(q)
    BY <2>2 DEF RunnerInit, Recorded, NoDirectory
  <2> QED BY <2>2, <2>3, <2>4, <2>5 DEF RunnerInv, RunnerInit
<1>12. Agreement \subseteq agreed /\ Admission \subseteq admitted
  BY DEF Init, AdapterInit, RunnerInit, Admission, Standing
<1>13. \A r \in Readers : reading[r].step = "idle"
  BY <1>1, NotReadingIdle
<1>14. AgreedWhenDone /\ AdmittedWhenDone
  BY <1>13, ProgramAssumption DEF AgreedWhenDone, AdmittedWhenDone
<1> QED BY <1>6, <1>7, <1>8, <1>9, <1>10, <1>11, <1>12, <1>14 DEF HandoffInv, PullInv, HistoryInv

LEMMA HandoffSteps ==
  ASSUME HandoffInv, [Next]_vars
  PROVE  HandoffInv'
<1>1. CoreInv'
  <2>1. CASE PeopleStep
    BY <2>1, HandoffPeopleKeep
  <2>2. CASE AdapterNext /\ UNCHANGED runnerVars
    BY <2>2, AdapterKeeps
  <2>3. CASE RunnerNext /\ UNCHANGED adapterVars
    BY <2>3, RunnerKeeps
  <2>4. CASE UNCHANGED vars
    <3>1. PullInv' /\ UNCHANGED githubVars /\ UNCHANGED runnerVars /\ UNCHANGED adapterVars
      BY <2>4, PullStays DEF vars, pullVars, githubVars, peopleVars, HandoffInv
    <3>2. RunnerInv'
      BY <3>1, AdapterFrame
    <3> QED BY <3>1, <3>2, AdapterStays DEF HandoffInv, CoreInv
  <2> QED BY <2>1, <2>2, <2>3, <2>4 DEF Next, PeopleStep
<1>2. HistoryInv'
  BY HistoryKeeps
<1> QED BY <1>1, <1>2 DEF CoreInv, HandoffInv

-----------------------------------------------------------------------------
(* The theorems. *)

LEMMA HandoffHolds == Spec => []HandoffInv
<1>1. Init => HandoffInv
  BY HandoffStarts
<1>2. HandoffInv /\ [Next]_vars => HandoffInv'
  BY HandoffSteps
<1> QED BY <1>1, <1>2, PTL DEF Spec

\* The variables keep their types.
THEOREM HandoffTypes == Spec => []TypeOK
<1>1. HandoffInv => TypeOK
  BY DEF HandoffInv, PullInv, RunnerInv, TypeOK
<1> QED BY <1>1, HandoffHolds, PTL

\* An agent is woken for "ready" only for a head that the pull request has shown, open
\* and not blocked, when accounts trusted for both agents had approved that very head.
THEOREM ReadyWasApproved == Spec => []ReadyIsApproved
<1>1. HandoffInv => ReadyIsApproved
  BY DEF HandoffInv
<1> QED BY <1>1, HandoffHolds, PTL

\* No candidate - two commits on a branch, in one bundle - is pushed twice, by any number
\* of runners that die or lose their power anywhere, and a push stays on record.
THEOREM PushesOnce == Spec => []PushOnce
<1>1. HandoffInv => PushOnce
  BY DEF HandoffInv, RunnerInv, Recorded, PushOnce
<1> QED BY <1>1, HandoffHolds, PTL

\* What is pushed passed a whole verification and was still wanted after it: submitted by
\* its owner, for the head the pull request showed, open, not blocked and with hermes.
THEOREM PushesTested == Spec => []PushedIsTested
<1>1. HandoffInv => PushedIsTested
  BY DEF HandoffInv, RunnerInv, Recorded, PushedIsTested
<1> QED BY <1>1, HandoffHolds, PTL

\* A push that lands takes nothing from the branch, whoever changed it meanwhile.
THEOREM PushesKeepHistory == Spec => NothingIsLost
<1>1. ASSUME HandoffInv, [Next]_vars, flying' # flying, ref' # ref
      PROVE  ref \in Ancestors[ref']
  <2>1. PICK q \in Candidates : Lands(q)
    <3>1. RunnerNext
      BY <1>1 DEF Next, vars, runnerVars
    <3>2. ~PowerFails
      BY <1>1 DEF PowerFails, githubVars
    <3>3. ASSUME NEW n \in Runners
          PROVE  ~(\/ Start(n) \/ Select(n) \/ Claim(n) \/ OpenJournal(n) \/ Fetch(n) \/ Verify(n)
                   \/ SelectAgain(n) \/ CheckHead(n) \/ StartPush(n) \/ Readback(n) \/ End(n)
                   \/ EndFails(n) \/ Fail(n) \/ Die(n)
                   \/ Reads(n) /\ UNCHANGED runnerVars)
      BY <1>1 DEF Start, Select, Claim, OpenJournal, Fetch, Verify, SelectAgain, CheckHead, StartPush, Readback, End,
                  EndFails, Fail, Die, runnerVars, githubVars
    <3> QED BY <3>1, <3>2, <3>3 DEF RunnerNext
  <2>2. q \in flying /\ ref = q.from /\ ref' = q.to
    BY <1>1, <2>1 DEF Lands, Leased
  <2>3. Valid(q)
    BY <1>1, <2>2 DEF HandoffInv, RunnerInv
  <2> QED BY <2>2, <2>3 DEF Valid
<1>2. HandoffInv /\ [Next]_vars => [flying' # flying /\ ref' # ref => ref \in Ancestors[ref']]_<<pullVars, runnerVars>>
  BY <1>1
<1> QED BY <1>2, HandoffHolds, PTL DEF Spec, NothingIsLost
=============================================================================
