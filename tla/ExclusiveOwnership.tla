-------------------------- MODULE ExclusiveOwnership --------------------------
(***************************************************************************)
(* Ownership of a lock file by one process (src/exclusive-ownership.ts):   *)
(* the daemon's single instance, the cleanup of its state file and the     *)
(* refresh of the desktop registration take it.                            *)
(*                                                                         *)
(* A file names its owner, a pid and an instance.  The file of a dead      *)
(* owner is replaced under a gate, which is a file of the same kind one    *)
(* level up; that of a gate whose owner died too is replaced under a gate  *)
(* of its own, and so on.  Every step is one call on a file or one look at *)
(* a process; processes interleave between any two, and may die there.     *)
(***************************************************************************)
EXTENDS Integers, FiniteSets

CONSTANTS
  Owners,     \* owners: each takes part once, in one process
  Pids,       \* process identifiers
  PidOf,      \* the pid of an owner
  Waiters,    \* owners inside withExclusiveFileLock, who try again when busy
  Reusable,   \* pids the system may give to another process
  Nobody,     \* no file
  MaxLevel    \* bound: gates upon gates

ASSUME OwnerAssumption == /\ PidOf \in [Owners -> Pids]
                          /\ Nobody \notin Owners
ASSUME SubsetAssumption == Waiters \subseteq Owners /\ Reusable \subseteq Pids
ASSUME LevelAssumption == MaxLevel \in Nat \ {0}

VARIABLES
  file,   \* who the file of each level names
  alive,  \* the pids in use
  own     \* each owner's progress

vars == <<file, alive, own>>

-----------------------------------------------------------------------------
Level == 0..MaxLevel

\* Outside the two functions; on the way to a file; with the gate of a file; on
\* the way out, giving a file back.
Resting == {"new", "wait", "hold", "done", "dead"}
Seeking == {"create", "read", "probe"}
Gated == {"recheck", "reprobe", "remove", "relink"}
Releasing == {"check", "unlink"}

\* busy: OwnershipBusyError; error: any other error that no call caused; io: a
\* call failed.
Outcome == {"none", "got", "held", "busy", "error", "io"}

Progress == [at: Resting \cup Seeking \cup Gated \cup Releasing,
             level: Level,
             seen: [Level -> Owners \cup {Nobody}],
             outcome: Outcome]

Start == [at |-> "new", level |-> 0, seen |-> [k \in Level |-> Nobody], outcome |-> "none"]

At(o, place) == own[o].at = place
Lvl(o) == own[o].level
Go(o, place) == own' = [own EXCEPT ![o].at = place]

\* The functions are synchronous: inside one process only one call runs.
Turn(o) ==
  /\ PidOf[o] \in alive
  /\ \A q \in Owners \ {o} : PidOf[q] = PidOf[o] => own[q].at \in Resting

\* The call throws.
Throw(o, outcome) ==
  own' = [own EXCEPT ![o] = [Start EXCEPT
    !.at = IF outcome = "busy" /\ o \in Waiters THEN "wait" ELSE "done",
    !.outcome = outcome]]

\* Mutant: a call that has the lock goes on as if it had a gate.
GotGate(o, k) ==
  own' = [own EXCEPT ![o].at = "recheck", ![o].level = k - 1, ![o].outcome = "none"]

\* The file of level k is this owner's: the lock itself, or a gate.
Got(o, k) ==
  own' = IF k = 0 THEN [own EXCEPT ![o] = [Start EXCEPT !.at = "hold", !.outcome = "held"]]
         ELSE [own EXCEPT ![o].at = "recheck", ![o].level = k - 1, ![o].outcome = "none"]

\* The gate is given back whatever came of the replacement.
Release(o, outcome) == own' = [own EXCEPT ![o].at = "check", ![o].outcome = outcome]

-----------------------------------------------------------------------------
Begin(o) ==
  /\ At(o, "new") \/ At(o, "wait")
  /\ own' = [own EXCEPT ![o] = [Start EXCEPT !.at = "create"]]
  /\ UNCHANGED <<file, alive>>

\* The deadline of withExclusiveFileLock has passed.
GiveUp(o) ==
  /\ At(o, "wait")
  /\ Go(o, "done")
  /\ UNCHANGED <<file, alive>>

\* createOwner: the link either publishes the whole file or finds one there.
Create(o) ==
  /\ At(o, "create")
  /\ \/ /\ file[Lvl(o)] = Nobody
        /\ file' = [file EXCEPT ![Lvl(o)] = o]
        /\ Got(o, Lvl(o))
     \/ /\ file[Lvl(o)] # Nobody
        /\ Go(o, "read")
        /\ UNCHANGED file
  /\ UNCHANGED alive

\* The first readOwner: a file gone since cannot be verified.
Read(o) ==
  /\ At(o, "read")
  /\ IF file[Lvl(o)] = Nobody THEN Throw(o, "error")
     ELSE own' = [own EXCEPT ![o].at = "probe",
                             ![o].seen = [@ EXCEPT ![Lvl(o)] = file[Lvl(o)]]]
  /\ UNCHANGED <<file, alive>>

SeenAlive(o) == PidOf[own[o].seen[Lvl(o)]] \in alive

\* Mutant: a file whose owner is seen to be dead is replaced without a gate.
ProbeUngated(o) ==
  /\ At(o, "probe")
  /\ IF SeenAlive(o) THEN Throw(o, "busy") ELSE Go(o, "remove")
  /\ UNCHANGED <<file, alive>>

\* Mutant: a gate whose owner is dead is not replaced in its turn.
ProbeOnce(o) ==
  /\ At(o, "probe")
  /\ IF SeenAlive(o) \/ Lvl(o) > 0 THEN Throw(o, "busy")
     ELSE own' = [own EXCEPT ![o].at = "create", ![o].level = @ + 1]
  /\ UNCHANGED <<file, alive>>

\* A dead owner's file is replaced under the gate one level up.
Probe(o) ==
  /\ At(o, "probe")
  /\ \/ SeenAlive(o) /\ Throw(o, "busy")
     \/ /\ ~SeenAlive(o) /\ Lvl(o) < MaxLevel
        /\ own' = [own EXCEPT ![o].at = "create", ![o].level = @ + 1]
  /\ UNCHANGED <<file, alive>>

-----------------------------------------------------------------------------
(* Under the gate of level Lvl(o) + 1. *)

\* Mutant: the file is not read again under the gate.
RecheckNothing(o) ==
  /\ At(o, "recheck")
  /\ Go(o, "reprobe")
  /\ UNCHANGED <<file, alive>>

\* Another contender may have replaced the dead owner, or left since.
Recheck(o) ==
  /\ At(o, "recheck")
  /\ \/ file[Lvl(o)] = Nobody /\ Release(o, "error")
     \/ file[Lvl(o)] # Nobody /\ file[Lvl(o)] # own[o].seen[Lvl(o)] /\ Release(o, "busy")
     \/ file[Lvl(o)] # Nobody /\ file[Lvl(o)] = own[o].seen[Lvl(o)] /\ Go(o, "reprobe")
  /\ UNCHANGED <<file, alive>>

Reprobe(o) ==
  /\ At(o, "reprobe")
  /\ IF SeenAlive(o) THEN Release(o, "busy") ELSE Go(o, "remove")
  /\ UNCHANGED <<file, alive>>

Remove(o) ==
  /\ At(o, "remove")
  /\ IF file[Lvl(o)] = Nobody THEN Release(o, "error") /\ UNCHANGED file
     ELSE file' = [file EXCEPT ![Lvl(o)] = Nobody] /\ Go(o, "relink")
  /\ UNCHANGED alive

\* createOwner again: a newcomer needs no gate for a file that is not there.
Relink(o) ==
  /\ At(o, "relink")
  /\ IF file[Lvl(o)] = Nobody
     THEN file' = [file EXCEPT ![Lvl(o)] = o] /\ Release(o, "got")
     ELSE Release(o, "error") /\ UNCHANGED file
  /\ UNCHANGED alive

-----------------------------------------------------------------------------
(* releaseExclusiveOwnership, of the lock or of the gate. *)

Finish(o) ==
  /\ At(o, "hold")
  /\ Go(o, "check")
  /\ UNCHANGED <<file, alive>>

Released(o) == IF own[o].outcome = "held" THEN 0 ELSE Lvl(o) + 1

Continue(o) ==
  \/ own[o].outcome = "held" /\ Go(o, "done")
  \/ own[o].outcome = "got" /\ Got(o, Lvl(o))
  \/ own[o].outcome \in {"busy", "error", "io"} /\ Throw(o, own[o].outcome)

Check(o) ==
  /\ At(o, "check")
  /\ IF file[Released(o)] = o THEN Go(o, "unlink") ELSE Continue(o)
  /\ UNCHANGED <<file, alive>>

Unlink(o) ==
  /\ At(o, "unlink")
  /\ file' = [file EXCEPT ![Released(o)] = Nobody]
  /\ Continue(o)
  /\ UNCHANGED alive

-----------------------------------------------------------------------------
(* What goes wrong. *)

\* A call on a file fails.  A failure to give a file back is ignored.
CallFails(o) ==
  /\ \/ own[o].at \in {"create", "read"} /\ Throw(o, "io")
     \/ own[o].at \in {"recheck", "remove", "relink"} /\ Release(o, "io")
     \/ own[o].at \in Releasing /\ Continue(o)
  /\ UNCHANGED <<file, alive>>

\* A process ends, and leaves its files as they are.
Exit(p) ==
  /\ p \in alive
  /\ alive' = alive \ {p}
  /\ own' = [o \in Owners |-> IF PidOf[o] = p /\ ~At(o, "new")
                              THEN [Start EXCEPT !.at = "dead"] ELSE own[o]]
  /\ UNCHANGED file

\* Its pid goes to another process.
Reuse(p) ==
  /\ p \in Reusable \ alive
  /\ alive' = alive \cup {p}
  /\ UNCHANGED <<file, own>>

-----------------------------------------------------------------------------
Init ==
  /\ file = [k \in Level |-> Nobody]
  /\ alive = Pids
  /\ own = [o \in Owners |-> Start]

\* A call on its way.
Advance(o) ==
  /\ Turn(o)
  /\ \/ Create(o) \/ Read(o) \/ Probe(o)
     \/ Recheck(o) \/ Reprobe(o) \/ Remove(o) \/ Relink(o)
     \/ Check(o) \/ Unlink(o)

Other(o) == Turn(o) /\ (Begin(o) \/ GiveUp(o) \/ Finish(o) \/ CallFails(o))

Next ==
  \/ \E o \in Owners : Advance(o) \/ Other(o)
  \/ \E p \in Pids : Exit(p) \/ Reuse(p)

Spec == Init /\ [][Next]_vars

\* A call that has begun goes on unless its process ends; when it begins, whether
\* it is tried again and when the lock is given back are up to the callers.
FairSpec == Spec /\ \A o \in Owners : WF_vars(Advance(o))

-----------------------------------------------------------------------------
(* Properties. *)

\* The variables keep their types.
TypeOK ==
  /\ file \in [Level -> Owners \cup {Nobody}]
  /\ alive \subseteq Pids
  /\ own \in [Owners -> Progress]

\* One owner at a time has the lock, and the file names it (daemon.ts start,
\* desktop-registration.ts refreshDesktopRegistration).
OneHolder ==
  \A o, q \in Owners : At(o, "hold") /\ At(q, "hold") => o = q /\ file[0] = o

\* "An observer can never unlink a new owner" (exclusive-ownership.ts lines 76 and
\* 77): a file, be it the lock or a gate, is taken from its owner only by that
\* owner or after its death.
NeverDisplaced ==
  [][\A k \in Level, o \in Owners :
       file[k] = o /\ file'[k] # o => At(o, "dead") \/ own'[o] # own[o]]_vars

\* No chain of deaths makes the lock unusable: one who comes when every other
\* is gone, and finds only files of dead pids, gets it unless a call fails
\* (exclusive-ownership.test.ts lines 33 and 62).
Alone(o) ==
  /\ \A q \in Owners \ {o} : own[q].at \in {"done", "dead"}
  /\ \A k \in Level : file[k] # Nobody => PidOf[file[k]] \notin alive \cup Reusable

StaleIsReplaced ==
  \A o \in Owners :
    At(o, "create") /\ Lvl(o) = 0 /\ Alone(o)
      ~> own[o].at \in {"hold", "dead"} \/ own[o].outcome = "io"

-----------------------------------------------------------------------------
(* The inductive invariant behind the safety properties. *)

\* Only an owner that took part is named, and its process is alive until it is dead.
NamedTookPart ==
  /\ \A k \in Level : file[k] # Nobody => ~At(file[k], "new")
  /\ \A o \in Owners : own[o].at \notin {"new", "dead"} => PidOf[o] \in alive

\* The files an owner counts on are its own.
OwnFiles ==
  \A o \in Owners :
    /\ At(o, "hold") => file[0] = o /\ own[o].outcome = "held"
    /\ own[o].at \in Seeking \cup Gated => own[o].outcome = "none"
    /\ own[o].at \in Gated => Lvl(o) < MaxLevel /\ file[Lvl(o) + 1] = o
    /\ own[o].at \in Releasing =>
         /\ own[o].outcome # "none"
         /\ own[o].outcome # "held" => Lvl(o) < MaxLevel
         /\ At(o, "unlink") => file[Released(o)] = o
         /\ own[o].outcome = "got" => file[Lvl(o)] = o

\* What it saw on the way to a gate was dead, and under the gate still is there.
SeenDead ==
  \A o \in Owners :
    /\ At(o, "probe") => own[o].seen[Lvl(o)] \in Owners /\ ~At(own[o].seen[Lvl(o)], "new")
    /\ own[o].at \in Seeking \cup Gated \cup Releasing /\ own[o].outcome # "held" =>
         \A k \in Level : k < Lvl(o) => /\ own[o].seen[k] \in Owners
                                        /\ At(own[o].seen[k], "dead")
    /\ own[o].at \in {"recheck", "reprobe", "remove"} =>
         own[o].seen[Lvl(o)] \in Owners /\ At(own[o].seen[Lvl(o)], "dead")
    /\ own[o].at \in {"reprobe", "remove"} => file[Lvl(o)] = own[o].seen[Lvl(o)]

OwnershipInv == TypeOK /\ NamedTookPart /\ OwnFiles /\ SeenDead
=============================================================================
