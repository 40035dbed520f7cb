----------------------- MODULE ExclusiveOwnershipProofs -----------------------
(***************************************************************************)
(* Theorems about ExclusiveOwnership for all owners, processes and depths  *)
(* of gates: one holder, and no owner displaced while it lives.            *)
(***************************************************************************)
EXTENDS ExclusiveOwnership, TLAPS

-----------------------------------------------------------------------------
(* The invariant, owner by owner. *)

Sound(o) ==
  /\ own[o].at \notin {"new", "dead"} => PidOf[o] \in alive
  /\ At(o, "hold") => file[0] = o /\ own[o].outcome = "held"
  /\ own[o].at \in Seeking \cup Gated => own[o].outcome = "none"
  /\ own[o].at \in Gated => Lvl(o) < MaxLevel /\ file[Lvl(o) + 1] = o
  /\ own[o].at \in Releasing =>
       /\ own[o].outcome # "none"
       /\ own[o].outcome # "held" => Lvl(o) < MaxLevel
       /\ At(o, "unlink") => file[Released(o)] = o
       /\ own[o].outcome = "got" => file[Lvl(o)] = o
  /\ At(o, "probe") => own[o].seen[Lvl(o)] \in Owners /\ ~At(own[o].seen[Lvl(o)], "new")
  /\ own[o].at \in Seeking \cup Gated \cup Releasing /\ own[o].outcome # "held" =>
       \A k \in Level : k < Lvl(o) => /\ own[o].seen[k] \in Owners
                                      /\ At(own[o].seen[k], "dead")
  /\ own[o].at \in {"recheck", "reprobe", "remove"} =>
       own[o].seen[Lvl(o)] \in Owners /\ At(own[o].seen[Lvl(o)], "dead")
  /\ own[o].at \in {"reprobe", "remove"} => file[Lvl(o)] = own[o].seen[Lvl(o)]

Named == \A k \in Level : file[k] # Nobody => ~At(file[k], "new")

Inv == TypeOK /\ Named /\ \A o \in Owners : Sound(o)

LEMMA InvIs == OwnershipInv <=> Inv
  BY DEF OwnershipInv, Inv, NamedTookPart, OwnFiles, SeenDead, Sound, Named

Places == Resting \cup Seeking \cup Gated \cup Releasing

LEMMA LevelFacts ==
  /\ MaxLevel \in Nat /\ MaxLevel >= 1 /\ 0 \in Level
  /\ \A k \in Level : k \in Nat /\ k <= MaxLevel
  /\ \A k \in Level : k # 0 => k - 1 \in Level /\ k - 1 < MaxLevel
  /\ \A k \in Level : k < MaxLevel => k + 1 \in Level
  BY LevelAssumption DEF Level

LEMMA StartType == Start \in Progress
  BY LevelFacts DEF Start, Progress, Resting, Outcome

LEMMA InitInv == Init => Inv
<1> SUFFICES ASSUME Init PROVE Inv
  OBVIOUS
<1>1. TypeOK
  BY StartType DEF Init, TypeOK
<1>2. Named
  BY DEF Init, Named
<1>3. ASSUME NEW o \in Owners PROVE Sound(o)
  <2>1. own[o].at = "new"
    BY DEF Init, Start
  <2> QED BY <2>1 DEF Sound, At, Gated, Releasing, Seeking
<1> QED BY <1>1, <1>2, <1>3 DEF Inv

-----------------------------------------------------------------------------
(* One owner moves, the others wait. *)

Moves(o) ==
  /\ \A q \in Owners \ {o} : own'[q] = own[q]
  /\ own' \in [Owners -> Progress]
  /\ own'[o].at \notin {"new", "dead"}

\* The dead stay dead, and who took part took part.
LEMMA MovesFacts ==
  ASSUME Inv, NEW o \in Owners, ~At(o, "dead"), Moves(o)
  PROVE  \A q \in Owners : /\ At(q, "dead") => At(q, "dead")'
                           /\ ~At(q, "new") => ~At(q, "new")'
  BY DEF Moves, At

\* An owner that does not move is as sound as it was if the files of the living
\* stay theirs, and so do those it is about to replace.
LEMMA OthersSound ==
  ASSUME Inv, NEW o \in Owners, NEW q \in Owners, own'[q] = own[q], UNCHANGED alive,
         \A x \in Owners : /\ At(x, "dead") => At(x, "dead")'
                           /\ ~At(x, "new") => ~At(x, "new")',
         ~At(q, "dead") => \A k \in Level : file[k] = q => file'[k] = q,
         own[q].at \in {"reprobe", "remove"} => file'[Lvl(q)] = file[Lvl(q)]
  PROVE  Sound(q)'
<1>1. Sound(q) /\ Lvl(q) \in Level /\ Lvl(q)' = Lvl(q) /\ Released(q)' = Released(q)
  BY DEF Inv, TypeOK, Progress, Lvl, Released
<1>2. own[q].at \in Gated => file'[Lvl(q) + 1] = q
  BY <1>1, LevelFacts DEF Sound, At, Gated
<1>3. own[q].at \in Releasing =>
        /\ own[q].outcome = "got" => file'[Lvl(q)] = q
        /\ At(q, "unlink") => file'[Released(q)] = q
  BY <1>1, LevelFacts DEF Sound, At, Releasing, Released
<1>4. At(q, "hold") => file'[0] = q
  BY <1>1, LevelFacts DEF Sound, At
<1> QED BY <1>1, <1>2, <1>3, <1>4 DEF Sound, At, Lvl, Released

\* A move that leaves the files alone.
LEMMA QuietStep ==
  ASSUME Inv, NEW o \in Owners, ~At(o, "dead"), Moves(o), Sound(o)',
         UNCHANGED <<file, alive>>
  PROVE  Inv'
<1>1. \A x \in Owners : (At(x, "dead") => At(x, "dead")') /\ (~At(x, "new") => ~At(x, "new")')
  BY MovesFacts
<1>2. ASSUME NEW q \in Owners \ {o} PROVE Sound(q)'
  BY <1>1, OthersSound DEF Moves
<1>3. Named'
  BY <1>1 DEF Inv, Named, TypeOK
<1>4. TypeOK'
  BY DEF Inv, TypeOK, Moves
<1> QED BY <1>2, <1>3, <1>4 DEF Inv

\* A move that publishes a file where there is none.
LEMMA PublishStep ==
  ASSUME Inv, NEW o \in Owners, ~At(o, "dead"), Moves(o), Sound(o)', UNCHANGED alive,
         NEW k \in Level, file[k] = Nobody, file' = [file EXCEPT ![k] = o]
  PROVE  Inv'
<1>1. \A x \in Owners : (At(x, "dead") => At(x, "dead")') /\ (~At(x, "new") => ~At(x, "new")')
  BY MovesFacts
<1>2. ASSUME NEW q \in Owners \ {o} PROVE Sound(q)'
  <2>1. \A j \in Level : file[j] = q => file'[j] = q
    BY OwnerAssumption DEF Inv, TypeOK
  <2>2. own[q].at \in {"reprobe", "remove"} => file'[Lvl(q)] = file[Lvl(q)]
    BY OwnerAssumption DEF Inv, TypeOK, Sound
  <2> QED BY <1>1, <2>1, <2>2, OthersSound DEF Moves
<1>3. Named'
  BY <1>1 DEF Inv, Named, TypeOK, Moves, At
<1>4. TypeOK'
  BY DEF Inv, TypeOK, Moves
<1> QED BY <1>2, <1>3, <1>4 DEF Inv

\* A move that removes a file: one that no other living owner counts on.
LEMMA RemoveStep ==
  ASSUME Inv, NEW o \in Owners, ~At(o, "dead"), Moves(o), Sound(o)', UNCHANGED alive,
         NEW k \in Level, file' = [file EXCEPT ![k] = Nobody],
         \A q \in Owners \ {o} : file[k] = q => At(q, "dead"),
         \A q \in Owners \ {o} : own[q].at \in {"reprobe", "remove"} => Lvl(q) # k
  PROVE  Inv'
<1>1. \A x \in Owners : (At(x, "dead") => At(x, "dead")') /\ (~At(x, "new") => ~At(x, "new")')
  BY MovesFacts
<1>2. ASSUME NEW q \in Owners \ {o} PROVE Sound(q)'
  <2>1. ~At(q, "dead") => \A j \in Level : file[j] = q => file'[j] = q
    BY DEF Inv, TypeOK
  <2>2. own[q].at \in {"reprobe", "remove"} => file'[Lvl(q)] = file[Lvl(q)]
    BY DEF Inv, TypeOK
  <2> QED BY <1>1, <2>1, <2>2, OthersSound DEF Moves
<1>3. Named'
  BY <1>1 DEF Inv, Named, TypeOK
<1>4. TypeOK'
  BY DEF Inv, TypeOK, Moves
<1> QED BY <1>2, <1>3, <1>4 DEF Inv

-----------------------------------------------------------------------------
(* The ways to move. *)

LEMMA PlaceNames ==
  /\ {"new", "wait", "hold", "done", "dead", "create", "read", "probe", "recheck", "reprobe",
      "remove", "relink", "check", "unlink"} \subseteq Places
  /\ \A p : p \in {"hold", "done", "wait"} => p \notin Seeking \cup Gated \cup Releasing
  BY DEF Places, Resting, Seeking, Gated, Releasing

LEMMA OwnType ==
  ASSUME Inv, NEW o \in Owners
  PROVE  /\ own[o] \in Progress /\ Lvl(o) \in Level /\ own[o].outcome \in Outcome
         /\ own[o].seen \in [Level -> Owners \cup {Nobody}] /\ Sound(o)
  BY DEF Inv, TypeOK, Progress, Lvl

LEMMA GoMoves ==
  ASSUME Inv, NEW o \in Owners, NEW p \in Places \ {"new", "dead"}, Go(o, p)
  PROVE  /\ Moves(o) /\ own'[o].at = p /\ Lvl(o)' = Lvl(o)
         /\ own'[o].seen = own[o].seen /\ own'[o].outcome = own[o].outcome
<1>1. own[o] \in Progress /\ own \in [Owners -> Progress]
  BY DEF Inv, TypeOK
<1>2. own' = [own EXCEPT ![o] = [own[o] EXCEPT !.at = p]]
  BY DEF Go
<1>3. [own[o] EXCEPT !.at = p] \in Progress
  BY <1>1 DEF Progress, Places
<1>4. own'[o] = [own[o] EXCEPT !.at = p]
  BY <1>1, <1>2
<1> QED BY <1>1, <1>2, <1>3, <1>4 DEF Moves, Progress, Lvl

LEMMA ReleaseMoves ==
  ASSUME Inv, NEW o \in Owners, NEW e \in Outcome, Release(o, e)
  PROVE  /\ Moves(o) /\ own'[o].at = "check" /\ Lvl(o)' = Lvl(o)
         /\ own'[o].seen = own[o].seen /\ own'[o].outcome = e
<1>1. own[o] \in Progress /\ own \in [Owners -> Progress]
  BY DEF Inv, TypeOK
<1>2. own' = [own EXCEPT ![o] = [own[o] EXCEPT !.at = "check", !.outcome = e]]
  BY DEF Release
<1>3. [own[o] EXCEPT !.at = "check", !.outcome = e] \in Progress
  BY <1>1, PlaceNames DEF Progress, Places
<1>4. own'[o] = [own[o] EXCEPT !.at = "check", !.outcome = e]
  BY <1>1, <1>2
<1> QED BY <1>1, <1>2, <1>3, <1>4 DEF Moves, Progress, Lvl

LEMMA ThrowMoves ==
  ASSUME Inv, NEW o \in Owners, NEW e \in Outcome, Throw(o, e)
  PROVE  Moves(o) /\ own'[o].at \in {"wait", "done"}
<1> DEFINE p == IF e = "busy" /\ o \in Waiters THEN "wait" ELSE "done"
           t == [Start EXCEPT !.at = p, !.outcome = e]
<1>1. own \in [Owners -> Progress]
  BY DEF Inv, TypeOK
<1>2. t \in Progress /\ t.at = p
  BY StartType, PlaceNames DEF Progress, Places, Start
<1>3. own' = [own EXCEPT ![o] = t]
  BY DEF Throw
<1> HIDE DEF t
<1> QED BY <1>1, <1>2, <1>3 DEF Moves

\* Outside the calls an owner is sound if its process is alive.
LEMMA RestSound ==
  ASSUME Inv, NEW o \in Owners, Turn(o), UNCHANGED alive, own'[o].at \in {"wait", "done"}
  PROVE  Sound(o)'
  BY PlaceNames DEF Sound, At, Turn, Gated, Releasing, Seeking

LEMMA ThrowSound ==
  ASSUME Inv, NEW o \in Owners, NEW e \in Outcome, Throw(o, e), Turn(o), UNCHANGED alive
  PROVE  Moves(o) /\ Sound(o)'
  BY ThrowMoves, RestSound

\* With the file of level k the call goes on to the file below it.
LEMMA GotSound ==
  ASSUME Inv, NEW o \in Owners, NEW k \in Level, Got(o, k), Turn(o), UNCHANGED alive,
         ~At(o, "dead"), file'[k] = o,
         \A j \in Level : j < k => own[o].seen[j] \in Owners /\ At(own[o].seen[j], "dead")
  PROVE  Moves(o) /\ Sound(o)'
<1>1. own \in [Owners -> Progress] /\ own[o] \in Progress
  BY DEF Inv, TypeOK
<1>2. CASE k = 0
  <2> DEFINE t == [Start EXCEPT !.at = "hold", !.outcome = "held"]
  <2>1. t \in Progress /\ t.at = "hold" /\ t.outcome = "held"
    BY StartType, PlaceNames DEF Progress, Places, Outcome, Start
  <2>2. own' = [own EXCEPT ![o] = t]
    BY <1>2 DEF Got
  <2> HIDE DEF t
  <2>3. Moves(o) /\ own'[o].at = "hold" /\ own'[o].outcome = "held"
    BY <1>1, <2>1, <2>2 DEF Moves
  <2>4. Sound(o)'
    BY <1>2, <2>3, PlaceNames DEF Sound, At, Turn
  <2> QED BY <2>3, <2>4
<1>3. CASE k # 0
  <2> DEFINE t == [own[o] EXCEPT !.at = "recheck", !.level = k - 1, !.outcome = "none"]
  <2>1. t \in Progress
    BY <1>1, <1>3, LevelFacts, PlaceNames DEF Progress, Places, Outcome
  <2>2. /\ t.at = "recheck" /\ t.level = k - 1 /\ t.outcome = "none" /\ t.seen = own[o].seen
    BY <1>1 DEF Progress
  <2>3. own' = [own EXCEPT ![o] = t]
    BY <1>1, <1>3 DEF Got
  <2> HIDE DEF t
  <2>4. /\ Moves(o) /\ own'[o].at = "recheck" /\ Lvl(o)' = k - 1
        /\ own'[o].outcome = "none" /\ own'[o].seen = own[o].seen
    BY <1>1, <2>1, <2>2, <2>3 DEF Moves, Lvl
  <2>5. k - 1 \in Level /\ k - 1 < MaxLevel /\ (k - 1) + 1 = k /\ k - 1 < k
    BY <1>3, LevelFacts
  <2>6. \A j \in Level : j < k - 1 => j < k
    BY <2>5, LevelFacts
  <2>7. \A x \in Owners : At(x, "dead") => At(x, "dead")'
    BY <2>4, MovesFacts
  <2>8. Sound(o)'
    BY <2>4, <2>5, <2>6, <2>7 DEF Sound, At, Turn, Gated, Releasing, Seeking, Lvl
  <2> QED BY <2>4, <2>8
<1> QED BY <1>2, <1>3

\* Under the gate the call decides what to give it back with.
LEMMA ReleaseSound ==
  ASSUME Inv, NEW o \in Owners, NEW e \in {"got", "busy", "error", "io"}, Release(o, e),
         Turn(o), UNCHANGED alive, own[o].at \in Gated,
         e = "got" => file'[Lvl(o)] = o
  PROVE  Moves(o) /\ Sound(o)'
<1>1. /\ Moves(o) /\ own'[o].at = "check" /\ Lvl(o)' = Lvl(o)
      /\ own'[o].seen = own[o].seen /\ own'[o].outcome = e
  BY ReleaseMoves DEF Outcome
<1>2. ~At(o, "dead")
  BY DEF At, Gated
<1>3. \A x \in Owners : At(x, "dead") => At(x, "dead")'
  BY <1>1, <1>2, MovesFacts
<1>4. Lvl(o) < MaxLevel /\ \A j \in Level : j < Lvl(o) => /\ own[o].seen[j] \in Owners
                                                         /\ At(own[o].seen[j], "dead")
  BY OwnType DEF Sound
<1>5. Sound(o)'
  BY <1>1, <1>3, <1>4 DEF Sound, At, Turn, Gated, Releasing, Seeking, Lvl
<1> QED BY <1>1, <1>5

-----------------------------------------------------------------------------
(* Every step keeps the invariant. *)

\* What an owner has to go on with, by its place.
LEMMA OnItsWay ==
  ASSUME Inv, NEW o \in Owners, own[o].at \in Seeking \cup Gated \cup Releasing,
         own[o].outcome # "held"
  PROVE  \A k \in Level : k < Lvl(o) => own[o].seen[k] \in Owners /\ At(own[o].seen[k], "dead")
  BY OwnType DEF Sound

\* The gate of a file is held by one owner.
LEMMA GateExcludes ==
  ASSUME Inv, NEW o \in Owners, NEW q \in Owners, own[o].at \in Gated, own[q].at \in Gated,
         Lvl(o) = Lvl(q)
  PROVE  o = q
  BY OwnType DEF Sound

\* Moves from place to place on the way.
LEMMA GoSound ==
  ASSUME Inv, NEW o \in Owners, Turn(o), UNCHANGED <<file, alive>>,
         \/ At(o, "wait") /\ Go(o, "done")
         \/ At(o, "create") /\ Go(o, "read")
         \/ At(o, "recheck") /\ file[Lvl(o)] = own[o].seen[Lvl(o)] /\ Go(o, "reprobe")
         \/ At(o, "reprobe") /\ Go(o, "remove")
         \/ At(o, "hold") /\ Go(o, "check")
         \/ At(o, "check") /\ file[Released(o)] = o /\ Go(o, "unlink")
  PROVE  Inv'
<1> USE PlaceNames, OwnType
<1>1. ASSUME At(o, "wait"), Go(o, "done") PROVE Inv'
  <2>1. Moves(o) /\ Sound(o)'
    BY <1>1, GoMoves, RestSound
  <2> QED BY <1>1, <2>1, QuietStep DEF At
<1>d. ASSUME ~At(o, "dead"), Moves(o) PROVE \A x \in Owners : At(x, "dead") => At(x, "dead")'
  BY <1>d, MovesFacts
<1>3. ASSUME At(o, "create"), Go(o, "read") PROVE Inv'
  <2>1. /\ Moves(o) /\ own'[o].at = "read" /\ Lvl(o)' = Lvl(o)
        /\ own'[o].seen = own[o].seen /\ own'[o].outcome = own[o].outcome
    BY <1>3, GoMoves
  <2>2. Sound(o)'
    BY <1>3, <1>d, <2>1 DEF Sound, At, Turn, Gated, Releasing, Seeking, Lvl
  <2> QED BY <1>3, <2>1, <2>2, QuietStep DEF At
<1>4. ASSUME At(o, "recheck"), file[Lvl(o)] = own[o].seen[Lvl(o)], Go(o, "reprobe") PROVE Inv'
  <2>1. /\ Moves(o) /\ own'[o].at = "reprobe" /\ Lvl(o)' = Lvl(o)
        /\ own'[o].seen = own[o].seen /\ own'[o].outcome = own[o].outcome
    BY <1>4, GoMoves
  <2>2. Sound(o)'
    BY <1>4, <1>d, <2>1 DEF Sound, At, Turn, Gated, Releasing, Seeking, Lvl
  <2> QED BY <1>4, <2>1, <2>2, QuietStep DEF At
<1>5. ASSUME At(o, "reprobe"), Go(o, "remove") PROVE Inv'
  <2>1. /\ Moves(o) /\ own'[o].at = "remove" /\ Lvl(o)' = Lvl(o)
        /\ own'[o].seen = own[o].seen /\ own'[o].outcome = own[o].outcome
    BY <1>5, GoMoves
  <2>2. Sound(o)'
    BY <1>5, <1>d, <2>1 DEF Sound, At, Turn, Gated, Releasing, Seeking, Lvl
  <2> QED BY <1>5, <2>1, <2>2, QuietStep DEF At
<1>6. ASSUME At(o, "hold"), Go(o, "check") PROVE Inv'
  <2>1. /\ Moves(o) /\ own'[o].at = "check" /\ Lvl(o)' = Lvl(o)
        /\ own'[o].seen = own[o].seen /\ own'[o].outcome = own[o].outcome
    BY <1>6, GoMoves
  <2>2. Sound(o)'
    BY <1>6, <2>1 DEF Sound, At, Turn, Gated, Releasing, Seeking, Lvl
  <2> QED BY <1>6, <2>1, <2>2, QuietStep DEF At
<1>7. ASSUME At(o, "check"), file[Released(o)] = o, Go(o, "unlink") PROVE Inv'
  <2>1. /\ Moves(o) /\ own'[o].at = "unlink" /\ Lvl(o)' = Lvl(o)
        /\ own'[o].seen = own[o].seen /\ own'[o].outcome = own[o].outcome
    BY <1>7, GoMoves
  <2>2. Released(o)' = Released(o)
    BY <2>1 DEF Released, Lvl
  <2>3. Sound(o)'
    BY <1>7, <1>d, <2>1, <2>2 DEF Sound, At, Turn, Gated, Releasing, Seeking, Lvl
  <2> QED BY <1>7, <2>1, <2>3, QuietStep DEF At
<1> QED BY <1>1, <1>3, <1>4, <1>5, <1>6, <1>7

LEMMA ThrowStep ==
  ASSUME Inv, NEW o \in Owners, NEW e \in Outcome, Throw(o, e), Turn(o), ~At(o, "dead"),
         UNCHANGED <<file, alive>>
  PROVE  Inv'
  BY ThrowSound, QuietStep

LEMMA ReleaseStep ==
  ASSUME Inv, NEW o \in Owners, NEW e \in {"busy", "error", "io"}, Release(o, e), Turn(o),
         own[o].at \in Gated, UNCHANGED <<file, alive>>
  PROVE  Inv'
<1>1. Moves(o) /\ Sound(o)'
  BY ReleaseSound
<1> QED BY <1>1, QuietStep DEF At, Gated

LEMMA BeginStep ==
  ASSUME Inv, NEW o \in Owners, Turn(o), Begin(o)
  PROVE  Inv'
<1> DEFINE t == [Start EXCEPT !.at = "create"]
<1>1. t \in Progress /\ t.at = "create" /\ t.level = 0 /\ t.outcome = "none"
  BY StartType, PlaceNames DEF Progress, Places, Start
<1>2. own' = [own EXCEPT ![o] = t] /\ own \in [Owners -> Progress]
  BY DEF Begin, Inv, TypeOK
<1> HIDE DEF t
<1>3. Moves(o) /\ own'[o].at = "create" /\ Lvl(o)' = 0 /\ own'[o].outcome = "none"
  BY <1>1, <1>2 DEF Moves, Lvl
<1>4. \A k \in Level : ~(k < 0)
  BY LevelFacts
<1>5. Sound(o)'
  BY <1>3, <1>4, PlaceNames DEF Begin, Sound, At, Turn, Gated, Releasing, Lvl
<1> QED BY <1>3, <1>5, QuietStep DEF Begin, At

LEMMA ReadStep ==
  ASSUME Inv, NEW o \in Owners, Turn(o), Read(o)
  PROVE  Inv'
<1> USE OwnType
<1>1. CASE file[Lvl(o)] = Nobody
  BY <1>1, ThrowStep DEF Read, At, Outcome
<1>2. CASE file[Lvl(o)] # Nobody
  <2> DEFINE f == file[Lvl(o)]
             t == [own[o] EXCEPT !.at = "probe", !.seen = [own[o].seen EXCEPT ![Lvl(o)] = f]]
  <2>1. f \in Owners /\ ~At(f, "new")
    BY <1>2 DEF Inv, TypeOK, Named
  <2>2. t \in Progress
    BY <2>1, PlaceNames DEF Progress, Places
  <2>3. /\ t.at = "probe" /\ t.level = Lvl(o) /\ t.outcome = own[o].outcome
        /\ t.seen[Lvl(o)] = f /\ \A k \in Level : k # Lvl(o) => t.seen[k] = own[o].seen[k]
    BY DEF Progress, Lvl
  <2>4. own' = [own EXCEPT ![o] = t] /\ own \in [Owners -> Progress]
    BY <1>2 DEF Read, Inv, TypeOK
  <2> HIDE DEF t
  <2>5. /\ Moves(o) /\ own'[o].at = "probe" /\ Lvl(o)' = Lvl(o)
        /\ own'[o].outcome = own[o].outcome /\ own'[o].seen[Lvl(o)] = f
        /\ \A k \in Level : k # Lvl(o) => own'[o].seen[k] = own[o].seen[k]
    BY <2>2, <2>3, <2>4 DEF Moves, Lvl
  <2>6. own[o].outcome = "none" /\ ~At(o, "dead") /\ own[o].at \in Seeking
    BY DEF Read, At, Sound, Seeking
  <2>7. \A x \in Owners : (At(x, "dead") => At(x, "dead")') /\ (~At(x, "new") => ~At(x, "new")')
    BY <2>5, <2>6, MovesFacts
  <2>8. \A k \in Level : k < Lvl(o) => own[o].seen[k] \in Owners /\ At(own[o].seen[k], "dead")
    BY <2>6, OnItsWay
  <2>9. Lvl(o) \in Nat /\ \A k \in Level : k < Lvl(o) => k # Lvl(o)
    BY LevelFacts
  <2>10. Sound(o)'
    BY SMTT(30), <2>1, <2>5, <2>6, <2>7, <2>8, <2>9 DEF Read, Sound, At, Turn, Gated, Releasing, Lvl
  <2> QED BY <2>5, <2>6, <2>10, QuietStep DEF Read
<1> QED BY <1>1, <1>2

LEMMA ProbeStep ==
  ASSUME Inv, NEW o \in Owners, Turn(o), Probe(o)
  PROVE  Inv'
<1> USE OwnType
<1>1. CASE SeenAlive(o) /\ Throw(o, "busy")
  BY <1>1, ThrowStep DEF Probe, At, Outcome
<1>2. CASE /\ ~SeenAlive(o) /\ Lvl(o) < MaxLevel
           /\ own' = [own EXCEPT ![o].at = "create", ![o].level = @ + 1]
  <2> DEFINE t == [own[o] EXCEPT !.at = "create", !.level = @ + 1]
             s == own[o].seen[Lvl(o)]
  <2>1. t \in Progress /\ Lvl(o) + 1 \in Level
    BY <1>2, LevelFacts, PlaceNames DEF Progress, Places, Lvl
  <2>2. t.at = "create" /\ t.level = Lvl(o) + 1 /\ t.outcome = own[o].outcome /\ t.seen = own[o].seen
    BY DEF Progress, Lvl
  <2>3. own' = [own EXCEPT ![o] = t] /\ own \in [Owners -> Progress]
    BY <1>2 DEF Inv, TypeOK
  <2> HIDE DEF t
  <2>4. /\ Moves(o) /\ own'[o].at = "create" /\ Lvl(o)' = Lvl(o) + 1
        /\ own'[o].outcome = own[o].outcome /\ own'[o].seen = own[o].seen
    BY <2>1, <2>2, <2>3 DEF Moves, Lvl
  <2>5. own[o].outcome = "none" /\ ~At(o, "dead") /\ own[o].at \in Seeking
    BY DEF Probe, At, Sound, Seeking
  <2>6. s \in Owners /\ ~At(s, "new")
    BY DEF Probe, Sound
  <2>7. At(s, "dead")
    BY <1>2, <2>6 DEF SeenAlive, Sound, At
  <2>8. \A k \in Level : k < Lvl(o) + 1 => own[o].seen[k] \in Owners /\ At(own[o].seen[k], "dead")
    <3>1. \A k \in Level : k < Lvl(o) + 1 => k < Lvl(o) \/ k = Lvl(o)
      BY DEF Level
    <3> QED BY <3>1, <2>5, <2>6, <2>7, OnItsWay
  <2>9. \A x \in Owners : At(x, "dead") => At(x, "dead")'
    BY <2>4, <2>5, MovesFacts
  <2>10. Sound(o)'
    BY <2>4, <2>5, <2>8, <2>9 DEF Probe, Sound, At, Turn, Gated, Releasing, Seeking, Lvl
  <2> QED BY <2>4, <2>5, <2>10, QuietStep DEF Probe
<1> QED BY <1>1, <1>2 DEF Probe

LEMMA CreateStep ==
  ASSUME Inv, NEW o \in Owners, Turn(o), Create(o)
  PROVE  Inv'
<1>1. CASE file[Lvl(o)] # Nobody /\ Go(o, "read") /\ UNCHANGED file
  BY <1>1, GoSound DEF Create
<1>2. CASE /\ file[Lvl(o)] = Nobody /\ file' = [file EXCEPT ![Lvl(o)] = o]
           /\ Got(o, Lvl(o))
  <2>1. own[o].at \in Seeking /\ ~At(o, "dead")
    BY DEF Create, At, Seeking
  <2>2. own[o].outcome # "held" /\ file'[Lvl(o)] = o
    BY <1>2, <2>1, OwnType DEF Sound, Inv, TypeOK
  <2>3. Moves(o) /\ Sound(o)'
    BY <1>2, <2>1, <2>2, OnItsWay, GotSound, OwnType DEF Create
  <2> QED BY <1>2, <2>1, <2>3, PublishStep, OwnType DEF Create
<1> QED BY <1>1, <1>2 DEF Create

LEMMA RecheckStep ==
  ASSUME Inv, NEW o \in Owners, Turn(o), Recheck(o) \/ Reprobe(o)
  PROVE  Inv'
<1>1. own[o].at \in Gated
  BY DEF Recheck, Reprobe, At, Gated
<1>2. CASE Recheck(o)
  BY <1>1, <1>2, GoSound, ReleaseStep DEF Recheck
<1>3. CASE Reprobe(o)
  BY <1>1, <1>3, GoSound, ReleaseStep DEF Reprobe
<1> QED BY <1>2, <1>3

LEMMA RemoveFileStep ==
  ASSUME Inv, NEW o \in Owners, Turn(o), Remove(o)
  PROVE  Inv'
<1> USE OwnType
<1>1. own[o].at \in Gated /\ own[o].at = "remove" /\ ~At(o, "dead")
  BY DEF Remove, At, Gated
<1>2. CASE file[Lvl(o)] = Nobody
  BY <1>1, <1>2, ReleaseStep DEF Remove
<1>3. CASE file[Lvl(o)] # Nobody
  <2>1. /\ Moves(o) /\ own'[o].at = "relink" /\ Lvl(o)' = Lvl(o)
        /\ own'[o].seen = own[o].seen /\ own'[o].outcome = own[o].outcome
    BY <1>3, PlaceNames, GoMoves DEF Remove
  <2>2. Lvl(o) < MaxLevel /\ file[Lvl(o) + 1] = o /\ file[Lvl(o)] = own[o].seen[Lvl(o)]
        /\ own[o].seen[Lvl(o)] \in Owners /\ At(own[o].seen[Lvl(o)], "dead")
        /\ own[o].outcome = "none"
    BY <1>1 DEF Sound
  <2>3. file' = [file EXCEPT ![Lvl(o)] = Nobody] /\ UNCHANGED alive
    BY <1>3 DEF Remove
  <2>4. file'[Lvl(o) + 1] = o
    BY <2>2, <2>3, LevelFacts DEF Inv, TypeOK
  <2>5. \A x \in Owners : At(x, "dead") => At(x, "dead")'
    BY <1>1, <2>1, MovesFacts
  <2>6. \A j \in Level : j < Lvl(o) => own[o].seen[j] \in Owners /\ At(own[o].seen[j], "dead")
    BY <1>1, <2>2, OnItsWay
  <2>7. Sound(o)'
    BY <2>1, <2>2, <2>3, <2>4, <2>5, <2>6 DEF Sound, At, Turn, Gated, Releasing, Seeking, Lvl
  <2>8. \A q \in Owners \ {o} : own[q].at \in {"reprobe", "remove"} => Lvl(q) # Lvl(o)
    BY <1>1, GateExcludes DEF Gated
  <2>9. \A q \in Owners \ {o} : file[Lvl(o)] = q => At(q, "dead")
    BY <2>2
  <2> QED BY <1>1, <2>1, <2>3, <2>7, <2>8, <2>9, RemoveStep
<1> QED BY <1>2, <1>3

LEMMA RelinkStep ==
  ASSUME Inv, NEW o \in Owners, Turn(o), Relink(o)
  PROVE  Inv'
<1>1. own[o].at \in Gated /\ ~At(o, "dead")
  BY DEF Relink, At, Gated
<1>2. CASE file[Lvl(o)] = Nobody
  <2>1. file' = [file EXCEPT ![Lvl(o)] = o] /\ Release(o, "got") /\ UNCHANGED alive
    BY <1>2 DEF Relink
  <2>2. file'[Lvl(o)] = o
    BY <2>1, OwnType DEF Inv, TypeOK
  <2>3. Moves(o) /\ Sound(o)'
    BY <1>1, <2>1, <2>2, ReleaseSound
  <2> QED BY <1>1, <1>2, <2>1, <2>3, PublishStep, OwnType
<1>3. CASE file[Lvl(o)] # Nobody
  BY <1>1, <1>3, ReleaseStep DEF Relink
<1> QED BY <1>2, <1>3

\* After the gate is given back the call goes on, or throws.
LEMMA ContinueSound ==
  ASSUME Inv, NEW o \in Owners, Turn(o), own[o].at \in Releasing, Continue(o),
         UNCHANGED alive, own[o].outcome = "got" => file'[Lvl(o)] = o
  PROVE  Moves(o) /\ Sound(o)'
<1>1. CASE own[o].outcome = "held" /\ Go(o, "done")
  <2>1. Moves(o) /\ own'[o].at = "done"
    BY <1>1, GoMoves, PlaceNames
  <2> QED BY <2>1, RestSound
<1>2. CASE own[o].outcome = "got" /\ Got(o, Lvl(o))
  <2>1. ~At(o, "dead")
    BY DEF At, Releasing
  <2> QED BY <1>2, <2>1, OnItsWay, GotSound, OwnType
<1>3. CASE own[o].outcome \in {"busy", "error", "io"} /\ Throw(o, own[o].outcome)
  BY <1>3, ThrowSound, OwnType
<1> QED BY <1>1, <1>2, <1>3 DEF Continue

LEMMA ContinueLeaves ==
  ASSUME Inv, NEW o \in Owners, Continue(o)
  PROVE  own'[o].at # "unlink"
<1>1. CASE Go(o, "done")
  BY <1>1, GoMoves, PlaceNames
<1>2. CASE Got(o, Lvl(o))
  <2>1. own \in [Owners -> Progress]
    BY DEF Inv, TypeOK
  <2>2. CASE Lvl(o) = 0
    BY <1>2, <2>1, <2>2 DEF Got, Start
  <2>3. CASE Lvl(o) # 0
    BY <1>2, <2>1, <2>3 DEF Got, Progress
  <2> QED BY <2>2, <2>3
<1>3. CASE Throw(o, own[o].outcome)
  BY <1>3, ThrowMoves, OwnType
<1> QED BY <1>1, <1>2, <1>3 DEF Continue

LEMMA ContinueStep ==
  ASSUME Inv, NEW o \in Owners, Turn(o), own[o].at \in Releasing, Continue(o),
         UNCHANGED <<file, alive>>
  PROVE  Inv'
<1>1. own[o].outcome = "got" => file'[Lvl(o)] = o
  BY OwnType DEF Sound
<1> QED BY <1>1, ContinueSound, QuietStep DEF At, Releasing

LEMMA UnlinkStep ==
  ASSUME Inv, NEW o \in Owners, Turn(o), Unlink(o)
  PROVE  Inv'
<1> USE OwnType
<1>1. own[o].at \in Releasing /\ own[o].at = "unlink" /\ ~At(o, "dead")
  BY DEF Unlink, At, Releasing
<1>2. file[Released(o)] = o
  BY <1>1 DEF Sound, At
<1>3. Released(o) \in Level /\ (own[o].outcome = "got" => Released(o) # Lvl(o))
  BY <1>1, LevelFacts DEF Sound, Released
<1>4. file' = [file EXCEPT ![Released(o)] = Nobody] /\ UNCHANGED alive
  BY DEF Unlink
<1>5. own[o].outcome = "got" => file'[Lvl(o)] = o
  BY <1>1, <1>3, <1>4 DEF Sound, Inv, TypeOK
<1>6. Moves(o) /\ Sound(o)'
  BY <1>1, <1>4, <1>5, ContinueSound DEF Unlink
<1>7. \A q \in Owners \ {o} : own[q].at \in {"reprobe", "remove"} => Lvl(q) # Released(o)
  BY <1>1, <1>2 DEF Sound
<1> QED BY <1>1, <1>2, <1>3, <1>4, <1>6, <1>7, RemoveStep

LEMMA FailStep ==
  ASSUME Inv, NEW o \in Owners, Turn(o), CallFails(o)
  PROVE  Inv'
<1>1. CASE own[o].at \in {"create", "read"} /\ Throw(o, "io")
  BY <1>1, ThrowStep DEF CallFails, At, Outcome
<1>2. CASE own[o].at \in {"recheck", "remove", "relink"} /\ Release(o, "io")
  BY <1>2, ReleaseStep DEF CallFails, Gated
<1>3. CASE own[o].at \in Releasing /\ Continue(o)
  BY <1>3, ContinueStep DEF CallFails
<1> QED BY <1>1, <1>2, <1>3 DEF CallFails

\* The death of a process leaves its files behind, and what was seen dead is dead.
LEMMA ExitStep ==
  ASSUME Inv, NEW p \in Pids, Exit(p)
  PROVE  Inv'
<1> DEFINE Gone(q) == PidOf[q] = p /\ ~At(q, "new")
<1>1. \A q \in Owners : /\ ~Gone(q) => own'[q] = own[q]
                        /\ Gone(q) => own'[q] = [Start EXCEPT !.at = "dead"]
  BY DEF Exit
<1>2. [Start EXCEPT !.at = "dead"] \in Progress /\ [Start EXCEPT !.at = "dead"].at = "dead"
  BY StartType, PlaceNames DEF Progress, Places, Start
<1>3. \A q \in Owners : (At(q, "dead") => At(q, "dead")') /\ (~At(q, "new") => ~At(q, "new")')
  BY <1>1, <1>2 DEF At
<1>4. TypeOK'
  <2>1. own' = [q \in Owners |-> IF PidOf[q] = p /\ ~At(q, "new")
                                 THEN [Start EXCEPT !.at = "dead"] ELSE own[q]]
    BY DEF Exit
  <2>2. own' \in [Owners -> Progress]
    BY <1>2, <2>1 DEF Inv, TypeOK
  <2> QED BY <2>2 DEF Exit, Inv, TypeOK
<1>5. Named'
  BY <1>3 DEF Exit, Inv, Named, TypeOK
<1>6. ASSUME NEW q \in Owners PROVE Sound(q)'
  <2>1. CASE Gone(q)
    <3>1. own'[q].at = "dead"
      BY <1>1, <1>2, <2>1
    <3> QED BY <3>1 DEF Sound, At, Gated, Releasing, Seeking
  <2>2. CASE ~Gone(q)
    <3>1. own'[q] = own[q]
      BY <1>1, <2>2
    <3>2. own[q].at \notin {"new", "dead"} => PidOf[q] \in alive'
      BY <2>2, OwnType DEF Exit, Sound, At
    <3>3. Lvl(q)' = Lvl(q) /\ Released(q)' = Released(q)
      BY <3>1 DEF Lvl, Released
    <3>4. UNCHANGED file
      BY DEF Exit
    <3> QED BY <1>3, <3>1, <3>2, <3>3, <3>4, OwnType DEF Sound, At
  <2> QED BY <2>1, <2>2
<1> QED BY <1>4, <1>5, <1>6 DEF Inv

LEMMA ReuseStep ==
  ASSUME Inv, NEW p \in Pids, Reuse(p)
  PROVE  Inv'
<1>1. TypeOK' /\ Named'
  BY DEF Reuse, Inv, TypeOK, Named, At
<1>2. ASSUME NEW q \in Owners PROVE Sound(q)'
  BY OwnType DEF Reuse, Sound, At, Lvl, Released
<1> QED BY <1>1, <1>2 DEF Inv

LEMMA NextInv == Inv /\ [Next]_vars => Inv'
<1> SUFFICES ASSUME Inv, [Next]_vars PROVE Inv'
  OBVIOUS
<1>1. ASSUME NEW o \in Owners, Advance(o) PROVE Inv'
  BY <1>1, CreateStep, ReadStep, ProbeStep, RecheckStep, RemoveFileStep, RelinkStep,
     ContinueStep, UnlinkStep, GoSound DEF Advance, Check, At, Releasing
<1>2. ASSUME NEW o \in Owners, Other(o) PROVE Inv'
  <2>1. CASE GiveUp(o) \/ Finish(o)
    BY <1>2, <2>1, GoSound DEF Other, GiveUp, Finish
  <2> QED BY <1>2, <2>1, BeginStep, FailStep DEF Other
<1>3. ASSUME NEW p \in Pids, Exit(p) \/ Reuse(p) PROVE Inv'
  BY <1>3, ExitStep, ReuseStep
<1>4. CASE UNCHANGED vars
  <2>1. \A q \in Owners : Sound(q)'
    BY <1>4 DEF vars, Inv, Sound, At, Lvl, Released
  <2>2. TypeOK' /\ Named'
    BY <1>4 DEF vars, Inv, TypeOK, Named, At
  <2> QED BY <2>1, <2>2 DEF Inv
<1> QED BY <1>1, <1>2, <1>3, <1>4 DEF Next

-----------------------------------------------------------------------------
(* The theorems. *)

\* The invariant behind the others: each owner's files are its own, and what it
\* is about to replace belongs to a dead one.
THEOREM OwnershipInvariant == Spec => []OwnershipInv
<1>1. Init => OwnershipInv
  BY InitInv, InvIs
<1>2. OwnershipInv /\ [Next]_vars => OwnershipInv'
  <2>1. OwnershipInv' <=> Inv'
    BY InvIs, PTL
  <2> QED BY <2>1, InvIs, NextInv
<1> QED BY <1>1, <1>2, PTL DEF Spec

\* The variables keep their types in every behaviour.
THEOREM OwnershipTypes == Spec => []TypeOK
<1>1. OwnershipInv => TypeOK
  BY DEF OwnershipInv
<1> QED BY <1>1, OwnershipInvariant, PTL

\* Two owners never have the lock together, whatever died on the way and however
\* many gates are stacked.
THEOREM OneOwner == Spec => []OneHolder
<1>1. OwnershipInv => OneHolder
  BY DEF OwnershipInv, OwnFiles, OneHolder, At
<1> QED BY <1>1, OwnershipInvariant, PTL

\* A living owner's file is taken by no one else: the gates serialize the
\* replacement of the dead.
THEOREM OwnersStay == Spec => NeverDisplaced
<1> DEFINE Kept == \A k \in Level, o \in Owners :
                     file[k] = o /\ file'[k] # o => At(o, "dead") \/ own'[o] # own[o]
<1>1. Inv /\ [Next]_vars => [Kept]_vars
  <2> SUFFICES ASSUME Inv, Next, NEW k \in Level, NEW o \in Owners,
                      file[k] = o, file'[k] # o, own'[o] = own[o]
               PROVE  At(o, "dead")
    BY DEF Kept
  <2>1. PICK q \in Owners : Create(q) \/ Remove(q) \/ Relink(q) \/ Unlink(q)
    BY DEF Next, Advance, Other, Exit, Reuse, Read, Probe, Recheck, Reprobe, Check, Begin,
           GiveUp, Finish, CallFails
  <2>2. Sound(q) /\ Lvl(q) \in Level
    BY OwnType
  <2>3. CASE Create(q) \/ Relink(q)
    BY <2>2, <2>3, OwnerAssumption DEF Create, Relink, Inv, TypeOK
  <2>4. CASE Remove(q)
    BY <2>2, <2>4 DEF Remove, Sound, At, Inv, TypeOK
  <2>5. CASE Unlink(q)
    <3>1. file[Released(q)] = q /\ file' = [file EXCEPT ![Released(q)] = Nobody]
      BY <2>2, <2>5 DEF Unlink, Sound, At, Releasing
    <3>2. q = o
      BY <3>1 DEF Inv, TypeOK
    <3>3. own'[q] # own[q]
      <4>1. own[q].at = "unlink" /\ own[q].outcome # "none"
        BY <2>2, <2>5 DEF Unlink, At, Sound, Releasing
      <4>2. own'[q].at # "unlink"
        BY <2>5, <4>1, ContinueLeaves DEF Unlink, Releasing
      <4> QED BY <4>1, <4>2
    <3> QED BY <3>2, <3>3
  <2> QED BY <2>1, <2>3, <2>4, <2>5
<1>2. Spec => []Inv
  <2>1. OwnershipInv => Inv
    BY InvIs
  <2> QED BY <2>1, OwnershipInvariant, PTL
<1>3. Spec => [][Kept]_vars
  BY <1>1, <1>2, PTL DEF Spec
<1> QED BY <1>3 DEF NeverDisplaced
=============================================================================
