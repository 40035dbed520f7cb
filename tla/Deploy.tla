-------------------------------- MODULE Deploy --------------------------------
(***************************************************************************)
(* Deployment of merged releases (src/deploy): the service's tick, the     *)
(* release executor, the SQLite journal with its single activation lock    *)
(* (the fence), restart reconciliation, the operator's recovery command,   *)
(* and the change of a repository's owner.                                 *)
(*                                                                         *)
(* Each repository has one service process; all of them, and the           *)
(* operator's command line, share the journal and run concurrently.  A     *)
(* tick is synchronous, so inside one process only a crash can come        *)
(* between two steps; a step is one call that changes the runtime or the   *)
(* journal, with those that no other process could tell apart from it.     *)
(*                                                                         *)
(* What is installed on a repository's runtime is an image: the files of   *)
(* one release, wholly or partly copied.                                   *)
(***************************************************************************)
EXTENDS Integers, FiniteSets

CONSTANTS
  Repos,           \* repositories
  Intents,         \* releases; an intent is recorded for each at most once
  RepoOf,          \* the repository of an intent
  RepairFor,       \* the repair an intent was merged for, or NoRepair
  Empty,           \* intents whose artifact has no files
  Refusable,       \* merges the review policy may refuse
  UnsafeRollback,  \* repositories whose adapter declares rollback "unsafe"
  NoIntent, NoRepair, Base,
  MaxToken,        \* bound: fencing tokens issued
  MaxGeneration,   \* bound: owner generations
  MaxFaults        \* bound: failed calls, unreadable observations and crashes

Repairs == {"refused", "failed"} \X Intents

ASSUME IntentAssumption == /\ RepoOf \in [Intents -> Repos]
                           /\ Empty \subseteq Intents
                           /\ Refusable \subseteq Intents
                           /\ NoIntent \notin Intents
                           /\ Base \notin Intents
ASSUME RepairAssumption == /\ RepairFor \in [Intents -> Repairs \cup {NoRepair}]
                           /\ NoRepair \notin Repairs
ASSUME AdapterAssumption == UnsafeRollback \subseteq Repos
ASSUME BoundAssumption == MaxToken \in Nat /\ MaxGeneration \in Nat \ {0} /\ MaxFaults \in Nat

VARIABLES
  fence,    \* deploy_fence
  issued,   \* the greatest token in deploy_tokens
  phase,    \* deploy_intents.phase
  backup,   \* deploy_previous_files: the image an intent replaces
  outbox,   \* deploy_outbox
  pause,    \* deploy_pauses
  leases,   \* deploy_leases not yet released: <<intent, token>>
  owner,    \* deploy_owners
  runtime,  \* the image installed for each repository
  svc,      \* the service process of each repository
  faults    \* faults so far (bounded by MaxFaults)

journal == <<fence, issued, phase, backup, outbox, pause, leases, owner>>
vars == <<journal, runtime, svc, faults>>

-----------------------------------------------------------------------------
Open == {"recorded", "prepared", "activating"}
Settled == {"deployed", "nothing-to-deploy", "rolled-back", "fenced"}
Phase == {"none"} \cup Open \cup Settled

Image == [of: Intents \cup {Base}, whole: BOOLEAN]
Whole(i) == [of |-> i, whole |-> TRUE]
Partial(i) == [of |-> i, whole |-> FALSE]
NoImage == [of |-> Base, whole |-> FALSE]   \* no backup is recorded

Fence == [token: 0..MaxToken, held: BOOLEAN, fenced: BOOLEAN,
          intent: Intents \cup {NoIntent}]

Receipt == [id: {"receipt", "reconcile"}, intent: Intents, kind: Settled, acked: BOOLEAN]

Owner == [phase: {"stable", "draining"}, generation: 1..MaxGeneration, active: Nat]

\* The generation whose genesis record the repository has consumed: one for
\* ever, the table has one row per repository.
Genesis == 1

\* Places of a process: outside the executor, before it has the lock, with the
\* lock, and with the lock and a lease.
Outside == {"idle", "scan", "result"}
Waiting == {"begin"}
Activation == {"leased", "backed", "prepared", "activating", "copying", "copied",
               "rollback", "give-up", "retain", "pause", "publish", "notify",
               "settle", "clear", "unlease"}
Locked == Activation \cup {"peeked", "locked", "unlock"}
Place == Outside \cup Waiting \cup Locked

Outcome == Settled \cup {"none", "pending", "error"}

Service == [at: Place, intent: Intents \cup {NoIntent}, token: 0..MaxToken,
            outcome: Outcome, done: SUBSET Intents]

Idle == [at |-> "idle", intent |-> NoIntent, token |-> 0, outcome |-> "none", done |-> {}]

At(r, place) == svc[r].at = place
Mine(r) == svc[r].intent
Go(r, place) == svc' = [svc EXCEPT ![r].at = place]
GoWith(r, place, outcome) == svc' = [svc EXCEPT ![r].at = place, ![r].outcome = outcome]
Stop(r) == svc' = [svc EXCEPT ![r] = Idle]

\* The executor returns "pending": the tick goes on with another intent.
Scanning(r) == [Idle EXCEPT !.at = "scan", !.done = svc[r].done]
Pend(r) == svc' = [svc EXCEPT ![r] = Scanning(r)]

\* A failed call, an unreadable observation or a crash.
Fault == faults < MaxFaults /\ faults' = faults + 1
NoFault == UNCHANGED faults

NextToken == 1 + (IF issued < fence.token THEN fence.token ELSE issued)

-----------------------------------------------------------------------------
(* The start of a tick, and what a dead process left behind. *)

Interrupted(r) == fence.held /\ ~fence.fenced /\ RepoOf[fence.intent] = r

BeginTick(r) ==
  /\ At(r, "idle") /\ owner[r].phase = "stable" /\ ~Interrupted(r)
  /\ Go(r, "scan")
  /\ UNCHANGED <<journal, runtime, faults>>

FreeFence == [fence EXCEPT !.held = FALSE, !.fenced = FALSE]

\* The lease of a run that is over, and its count in the owner's row.
Unleased(i, token) == leases \ {<<i, token>>}
Discharged(i, token) ==
  [owner EXCEPT ![RepoOf[i]].active =
    IF <<i, token>> \in leases /\ @ > 0 THEN @ - 1 ELSE @]

\* reconcileRestart goes through only for a run that took its lease and has
\* prepared or begun its activation; for any other it throws, and so does the tick.
Reconcilable(r) ==
  /\ Interrupted(r)
  /\ <<fence.intent, fence.token>> \in leases
  /\ phase[fence.intent] \in {"prepared", "activating"}

\* Mutant: a receipt is added whether or not the run announced its outcome.
ConcludeAgain(i, outcome) ==
  /\ phase' = [phase EXCEPT ![i] = outcome]
  /\ outbox' = outbox \cup {[id |-> "reconcile", intent |-> i, kind |-> outcome, acked |-> FALSE]}
  /\ leases' = Unleased(i, fence.token)
  /\ owner' = Discharged(i, fence.token)
  /\ fence' = FreeFence
  /\ UNCHANGED <<issued, backup, pause, runtime>>

\* One transaction: the phase, a receipt, the lease and the lock.
Conclude(i, outcome) ==
  /\ phase' = [phase EXCEPT ![i] = outcome]
  /\ outbox' = IF \E x \in outbox : x.intent = i THEN outbox
               ELSE outbox \cup {[id |-> "reconcile", intent |-> i,
                                  kind |-> outcome, acked |-> FALSE]}
  /\ leases' = Unleased(i, fence.token)
  /\ owner' = Discharged(i, fence.token)
  /\ fence' = FreeFence
  /\ UNCHANGED <<issued, backup, pause, runtime>>

ReconcileStarts(r) == At(r, "idle") /\ owner[r].phase = "stable" /\ Reconcilable(r)

\* The runtime shows the release, or what was there before it.
FinishRestart(r) ==
  LET i == fence.intent IN
  /\ ReconcileStarts(r) /\ NoFault
  /\ \/ runtime[r] = Whole(i) /\ Conclude(i, "deployed")
     \/ runtime[r] # Whole(i) /\ runtime[r] = backup[i] /\ Conclude(i, "rolled-back")
  /\ Go(r, "scan")

\* It shows neither, or cannot be observed.  An outcome already in the outbox
\* makes this throw.
FenceRestart(r) ==
  LET i == fence.intent IN
  /\ ReconcileStarts(r)
  /\ \/ runtime[r] \notin {Whole(i), backup[i]} /\ NoFault
     \/ Fault
  /\ \A x \in outbox : x.intent # i
  /\ Conclude(i, "fenced")
  /\ UNCHANGED svc

-----------------------------------------------------------------------------
(* The tick's loops: fresh merges, then the intents still open.  The merges  *)
(* come from the caller in any order and with any decision; each intent is   *)
(* executed once in a tick, so the two loops are one here.                   *)

\* The receipts of every repository are sent again until one is acknowledged.
Resend(r, x) ==
  /\ At(r, "scan") /\ x \in outbox /\ ~x.acked
  /\ outbox' = (outbox \ {x}) \cup {[x EXCEPT !.acked = TRUE]}
  /\ UNCHANGED <<fence, issued, phase, backup, pause, leases, owner, runtime, svc, faults>>

\* applyDecision of a refusal replaces whatever pause there is.
Refuse(r, i) ==
  /\ At(r, "scan") /\ RepoOf[i] = r /\ i \in Refusable
  /\ pause[r] # <<"refused", i>>
  /\ pause' = [pause EXCEPT ![r] = <<"refused", i>>]
  /\ UNCHANGED <<fence, issued, phase, backup, outbox, leases, owner, runtime, svc, faults>>

\* Mutant: a settled intent is executed again.
ExecuteAnyPhase(r, i) ==
  /\ At(r, "scan") /\ RepoOf[i] = r /\ i \notin svc[r].done
  /\ NextToken <= MaxToken
  /\ phase' = [phase EXCEPT ![i] = IF @ = "none" THEN "recorded" ELSE @]
  /\ issued' = NextToken
  /\ svc' = [svc EXCEPT ![r] = [at |-> "begin", intent |-> i, token |-> NextToken,
                                outcome |-> "none", done |-> @.done \cup {i}]]
  /\ UNCHANGED <<fence, backup, outbox, pause, leases, owner, runtime, faults>>

\* An intent decision is recorded unless it is already; an intent whose phase
\* is open is executed under a new token.
Execute(r, i) ==
  /\ At(r, "scan") /\ RepoOf[i] = r /\ i \notin svc[r].done
  /\ phase[i] \in Open \cup {"none"}
  /\ NextToken <= MaxToken
  /\ phase' = [phase EXCEPT ![i] = IF @ = "none" THEN "recorded" ELSE @]
  /\ issued' = NextToken
  /\ svc' = [svc EXCEPT ![r] = [at |-> "begin", intent |-> i, token |-> NextToken,
                                outcome |-> "none", done |-> @.done \cup {i}]]
  /\ UNCHANGED <<fence, backup, outbox, pause, leases, owner, runtime, faults>>

EndTick(r) ==
  /\ At(r, "scan")
  /\ \A i \in Intents : RepoOf[i] = r /\ phase[i] \in Open => i \in svc[r].done
  /\ Stop(r)
  /\ UNCHANGED <<journal, runtime, faults>>

\* A scan, a receipt or an artifact that cannot be had throws.
AbortTick(r) ==
  /\ At(r, "scan") /\ Fault
  /\ Stop(r)
  /\ UNCHANGED <<journal, runtime>>

\* What the tick does with the executor's outcome.
ClearPause(r, i) ==
  pause' = IF pause[r] = RepairFor[i] THEN [pause EXCEPT ![r] = NoRepair] ELSE pause

TakeResult(r) ==
  /\ At(r, "result")
  /\ phase' = [phase EXCEPT ![Mine(r)] = svc[r].outcome]
  /\ IF svc[r].outcome \in {"deployed", "nothing-to-deploy"}
     THEN ClearPause(r, Mine(r))
     ELSE UNCHANGED pause
  /\ Pend(r)
  /\ UNCHANGED <<fence, issued, backup, outbox, leases, owner, runtime, faults>>

-----------------------------------------------------------------------------
(* executeRelease up to the lock. *)

OwnsRelease(r) == owner[r].phase = "stable" /\ owner[r].generation = Genesis

\* Only the owner that consumed the genesis record may activate.
NotOwned(r) ==
  /\ At(r, "begin") /\ ~OwnsRelease(r)
  /\ Stop(r)
  /\ UNCHANGED <<journal, runtime, faults>>

Receipts(i) == {x \in outbox : x.id = "receipt" /\ x.intent = i}
Begins(r) == At(r, "begin") /\ OwnsRelease(r)
Proceeds(r) == Begins(r) /\ Receipts(Mine(r)) = {}

\* An outcome is in the outbox already: it is sent again and settles the intent.
Replay(r, acked) ==
  /\ Begins(r) /\ NoFault
  /\ \E x \in Receipts(Mine(r)) :
       /\ outbox' = (outbox \ {x}) \cup {[x EXCEPT !.acked = @ \/ acked]}
       /\ phase' = [phase EXCEPT ![Mine(r)] = IF x.kind = "fenced" THEN @ ELSE x.kind]
       /\ GoWith(r, "result", x.kind)
  /\ UNCHANGED <<fence, issued, backup, pause, leases, owner, runtime>>

ReplayFails(r) ==
  /\ Begins(r) /\ Fault
  /\ \E x \in Receipts(Mine(r)) : ~x.acked
  /\ Stop(r)
  /\ UNCHANGED <<journal, runtime>>

Paused(r) == pause[r] \notin {NoRepair, RepairFor[Mine(r)]}

\* Mutant: a greater token takes the lock from the run that holds it.
TryAcquireHeld(r, place) ==
  \/ /\ fence.fenced
     /\ GoWith(r, "result", "fenced")
     /\ UNCHANGED fence
  \/ /\ ~fence.fenced /\ svc[r].token <= fence.token
     /\ Pend(r)
     /\ UNCHANGED fence
  \/ /\ ~fence.fenced /\ svc[r].token > fence.token
     /\ fence' = [token |-> svc[r].token, held |-> TRUE, fenced |-> FALSE,
                  intent |-> Mine(r)]
     /\ Go(r, place)

\* The fence module's tryAcquire with the scope of the run.
TryAcquire(r, place) ==
  \/ /\ fence.fenced
     /\ GoWith(r, "result", "fenced")
     /\ UNCHANGED fence
  \/ /\ ~fence.fenced /\ (fence.held \/ svc[r].token <= fence.token)
     /\ Pend(r)
     /\ UNCHANGED fence
  \/ /\ ~fence.fenced /\ ~fence.held /\ svc[r].token > fence.token
     /\ fence' = [token |-> svc[r].token, held |-> TRUE, fenced |-> FALSE,
                  intent |-> Mine(r)]
     /\ Go(r, place)

\* Mutant: a paused repository locks like any other.
PeekLocks(r) ==
  /\ Proceeds(r) /\ Paused(r)
  /\ TryAcquire(r, "locked")
  /\ UNCHANGED <<issued, phase, backup, outbox, pause, leases, owner, runtime, faults>>

\* Paused by another repair: the lock is taken only to see whether it is fenced.
Peek(r) ==
  /\ Proceeds(r) /\ Paused(r)
  /\ TryAcquire(r, "peeked")
  /\ UNCHANGED <<issued, phase, backup, outbox, pause, leases, owner, runtime, faults>>

\* busy(), or not idle() once the scheduler's admission lease is held.
Busy(r) ==
  /\ Proceeds(r) /\ ~Paused(r)
  /\ Pend(r)
  /\ UNCHANGED <<journal, runtime, faults>>

Lock(r) ==
  /\ Proceeds(r) /\ ~Paused(r)
  /\ TryAcquire(r, "locked")
  /\ UNCHANGED <<issued, phase, backup, outbox, pause, leases, owner, runtime, faults>>

Unpeek(r) ==
  /\ At(r, "peeked")
  /\ fence' = [fence EXCEPT !.held = FALSE]
  /\ Pend(r)
  /\ UNCHANGED <<issued, phase, backup, outbox, pause, leases, owner, runtime, faults>>

-----------------------------------------------------------------------------
(* executeRelease under the lock. *)

\* A newer release is ordered before this one.
OutOfOrder(r) ==
  /\ At(r, "locked")
  /\ GoWith(r, "unlock", "pending")
  /\ UNCHANGED <<journal, runtime, faults>>

Leased(r) ==
  /\ leases' = leases \cup {<<Mine(r), svc[r].token>>}
  /\ owner' = [owner EXCEPT ![r].active = @ + 1]
  /\ Go(r, "leased")
  /\ UNCHANGED <<fence, issued, phase, backup, outbox, pause, runtime, faults>>

\* Mutant: the owner is not looked at again.
LeaseAnyway(r) == At(r, "locked") /\ Leased(r)

\* acquireLease reads the owner again: it may have changed since `begin`.
Lease(r) == At(r, "locked") /\ OwnsRelease(r) /\ Leased(r)

LeaseRefused(r) ==
  /\ At(r, "locked") /\ ~OwnsRelease(r)
  /\ GoWith(r, "unlock", "error")
  /\ UNCHANGED <<journal, runtime, faults>>

RejectArtifact(r) ==
  /\ At(r, "leased") /\ Fault
  /\ GoWith(r, "unlease", "error")
  /\ UNCHANGED <<journal, runtime>>

NothingToDeploy(r) ==
  /\ At(r, "leased") /\ Mine(r) \in Empty
  /\ GoWith(r, "publish", "nothing-to-deploy")
  /\ UNCHANGED <<journal, runtime, faults>>

\* durablePrevious: what is installed now, unless a run before this recorded it.
BackUp(r) ==
  /\ At(r, "leased") /\ Mine(r) \notin Empty
  /\ backup' = [backup EXCEPT ![Mine(r)] = IF @ = NoImage THEN runtime[r] ELSE @]
  /\ Go(r, "backed")
  /\ UNCHANGED <<fence, issued, phase, outbox, pause, leases, owner, runtime, faults>>

\* Mutant: a run that got as far as the copy is taken to have finished it.
CopiedByPhase(r) == phase[Mine(r)] \in {"prepared", "activating"}

AlreadyCopied(r) ==
  /\ phase[Mine(r)] \in {"prepared", "activating"}
  /\ runtime[r] = Whole(Mine(r))

SkipCopy(r) ==
  /\ At(r, "backed") /\ AlreadyCopied(r)
  /\ Go(r, "copied")
  /\ UNCHANGED <<journal, runtime, faults>>

SetPhase(r, from, to) ==
  /\ At(r, from)
  /\ phase' = [phase EXCEPT ![Mine(r)] = to]
  /\ Go(r, to)
  /\ UNCHANGED <<fence, issued, backup, outbox, pause, leases, owner, runtime>>

\* What cannot be observed counts as not copied.
Prepare(r) == SetPhase(r, "backed", "prepared") /\ ((~AlreadyCopied(r) /\ NoFault) \/ Fault)
Activate(r) == SetPhase(r, "prepared", "activating") /\ NoFault

Install(r, from, image, to) ==
  /\ At(r, from)
  /\ runtime' = [runtime EXCEPT ![r] = image]
  /\ Go(r, to)
  /\ UNCHANGED journal

\* callbacks.write, which may stop half way.
Copy(r) == Install(r, "activating", Partial(Mine(r)), "copying") /\ NoFault
FinishCopy(r) == Install(r, "copying", Whole(Mine(r)), "copied") /\ NoFault

FailTo(r, from, to, outcome) ==
  /\ At(r, from) /\ Fault
  /\ GoWith(r, to, outcome)
  /\ UNCHANGED <<journal, runtime>>

CopyFails(r) == FailTo(r, "activating", "rollback", "none")
                \/ FailTo(r, "copying", "rollback", "none")

\* reload, verify, afterMutation, then recordManifest, which sets the phase.
Verify(r) ==
  /\ At(r, "copied")
  /\ phase' = [phase EXCEPT ![Mine(r)] = "deployed"]
  /\ GoWith(r, "publish", "deployed")
  /\ UNCHANGED <<fence, issued, backup, outbox, pause, leases, owner, runtime, faults>>

VerifyFails(r) == FailTo(r, "copied", "rollback", "none")

\* Any other error leaves the runtime in doubt.
ReloadFails(r) == FailTo(r, "copied", "retain", "fenced")

\* rollback()
Restore(r) ==
  /\ At(r, "rollback") /\ r \notin UnsafeRollback
  /\ runtime' = [runtime EXCEPT ![r] = backup[Mine(r)]]
  /\ GoWith(r, "pause", "rolled-back")
  /\ UNCHANGED <<journal, faults>>

\* Mutant: the restoration is not verified.
RestoreUnverified(r) ==
  /\ At(r, "rollback") /\ r \notin UnsafeRollback /\ Fault
  /\ \E image \in {runtime[r], Partial(Mine(r))} : runtime' = [runtime EXCEPT ![r] = image]
  /\ GoWith(r, "pause", "rolled-back")
  /\ UNCHANGED journal

RestoreFails(r) ==
  /\ At(r, "rollback") /\ r \notin UnsafeRollback /\ Fault
  /\ \E image \in {runtime[r], Partial(Mine(r))} : runtime' = [runtime EXCEPT ![r] = image]
  /\ GoWith(r, "give-up", "fenced")
  /\ UNCHANGED journal

RefuseRollback(r) ==
  /\ At(r, "rollback") /\ r \in UnsafeRollback
  /\ GoWith(r, "give-up", "fenced")
  /\ UNCHANGED <<journal, runtime, faults>>

\* retain: the lock is kept and fenced, and so is the lease.
Retain(r) ==
  /\ At(r, "give-up") \/ At(r, "retain")
  /\ fence' = [fence EXCEPT !.held = TRUE, !.fenced = TRUE]
  /\ Go(r, IF At(r, "give-up") THEN "pause" ELSE "publish")
  /\ UNCHANGED <<issued, phase, backup, outbox, pause, leases, owner, runtime, faults>>

PauseForRepair(r) ==
  /\ At(r, "pause")
  /\ pause' = [pause EXCEPT ![r] = <<"failed", Mine(r)>>]
  /\ Go(r, "publish")
  /\ UNCHANGED <<fence, issued, phase, backup, outbox, leases, owner, runtime, faults>>

\* publishReceipt: the row, then the delivery and its acknowledgement.
Publish(r) ==
  /\ At(r, "publish")
  /\ outbox' = outbox \cup {[id |-> "receipt", intent |-> Mine(r),
                             kind |-> svc[r].outcome, acked |-> FALSE]}
  /\ Go(r, "notify")
  /\ UNCHANGED <<fence, issued, phase, backup, pause, leases, owner, runtime, faults>>

Notify(r, acked) ==
  /\ At(r, "notify")
  /\ outbox' = {IF acked /\ x \in Receipts(Mine(r)) THEN [x EXCEPT !.acked = TRUE] ELSE x
                : x \in outbox}
  /\ Go(r, IF svc[r].outcome = "fenced" THEN "result" ELSE "settle")
  /\ UNCHANGED <<fence, issued, phase, backup, pause, leases, owner, runtime, faults>>

\* The delivery throws and the rest of the run is skipped, but for its cleanup.
NotifyFails(r) ==
  /\ At(r, "notify") /\ Fault
  /\ IF svc[r].outcome = "fenced" THEN Stop(r) ELSE GoWith(r, "unlease", "error")
  /\ UNCHANGED <<journal, runtime>>

Settle(r) ==
  /\ At(r, "settle")
  /\ phase' = [phase EXCEPT ![Mine(r)] = svc[r].outcome]
  /\ Go(r, IF svc[r].outcome = "rolled-back" THEN "unlease" ELSE "clear")
  /\ UNCHANGED <<fence, issued, backup, outbox, pause, leases, owner, runtime, faults>>

Clear(r) ==
  /\ At(r, "clear")
  /\ ClearPause(r, Mine(r))
  /\ Go(r, "unlease")
  /\ UNCHANGED <<fence, issued, phase, backup, outbox, leases, owner, runtime, faults>>

\* Mutant: the lease row is released and its count forgotten.
UnleaseRow(r) ==
  /\ At(r, "unlease")
  /\ leases' = Unleased(Mine(r), svc[r].token)
  /\ Go(r, "unlock")
  /\ UNCHANGED <<fence, issued, phase, backup, outbox, pause, owner, runtime, faults>>

Unlease(r) ==
  /\ At(r, "unlease")
  /\ leases' = Unleased(Mine(r), svc[r].token)
  /\ owner' = Discharged(Mine(r), svc[r].token)
  /\ Go(r, "unlock")
  /\ UNCHANGED <<fence, issued, phase, backup, outbox, pause, runtime, faults>>

\* Mutant: whatever the executor returns settles the intent.
UnlockSettling(r) ==
  /\ At(r, "unlock")
  /\ fence' = [fence EXCEPT !.held = FALSE]
  /\ Go(r, "result")
  /\ UNCHANGED <<issued, phase, backup, outbox, pause, leases, owner, runtime, faults>>

Unlock(r) ==
  /\ At(r, "unlock")
  /\ fence' = [fence EXCEPT !.held = FALSE]
  /\ \/ svc[r].outcome = "error" /\ Stop(r)
     \/ svc[r].outcome = "pending" /\ Pend(r)
     \/ svc[r].outcome \in Settled /\ Go(r, "result")
  /\ UNCHANGED <<issued, phase, backup, outbox, pause, leases, owner, runtime, faults>>

-----------------------------------------------------------------------------
(* The operator and the processes. *)

\* recover(): clears an uncertainty fence once the runtime shows the release.
Recover ==
  /\ fence.fenced
  /\ LET i == fence.intent IN
     /\ runtime[RepoOf[i]] = Whole(i)
     /\ leases' = Unleased(i, fence.token)
     /\ owner' = Discharged(i, fence.token)
  /\ fence' = FreeFence
  /\ UNCHANGED <<issued, phase, backup, outbox, pause, runtime, svc, faults>>

BeginDrain(r) ==
  /\ owner[r].phase = "stable" /\ owner[r].generation < MaxGeneration
  /\ owner' = [owner EXCEPT ![r].phase = "draining"]
  /\ UNCHANGED <<fence, issued, phase, backup, outbox, pause, leases, runtime, svc, faults>>

\* Mutant: the change does not wait for the active deployments.
ChangeNow(r) ==
  /\ owner[r].phase = "draining"
  /\ owner' = [owner EXCEPT ![r].phase = "stable", ![r].generation = @ + 1]
  /\ UNCHANGED <<fence, issued, phase, backup, outbox, pause, leases, runtime, svc, faults>>

CompleteOwnerChange(r) ==
  /\ owner[r].phase = "draining" /\ owner[r].active = 0
  /\ owner' = [owner EXCEPT ![r].phase = "stable", ![r].generation = @ + 1]
  /\ UNCHANGED <<fence, issued, phase, backup, outbox, pause, leases, runtime, svc, faults>>

Crash(r) ==
  /\ ~At(r, "idle") /\ Fault
  /\ Stop(r)
  /\ UNCHANGED <<journal, runtime>>

-----------------------------------------------------------------------------
Init ==
  /\ fence = [token |-> 0, held |-> FALSE, fenced |-> FALSE, intent |-> NoIntent]
  /\ issued = 0
  /\ phase = [i \in Intents |-> "none"]
  /\ backup = [i \in Intents |-> NoImage]
  /\ outbox = {} /\ leases = {}
  /\ pause = [r \in Repos |-> NoRepair]
  /\ owner = [r \in Repos |-> [phase |-> "stable", generation |-> Genesis, active |-> 0]]
  /\ runtime = [r \in Repos |-> Whole(Base)]
  /\ svc = [r \in Repos |-> Idle]
  /\ faults = 0

Restart(r) == BeginTick(r) \/ FinishRestart(r) \/ FenceRestart(r)

Tick(r) ==
  \/ \E x \in outbox : Resend(r, x)
  \/ \E i \in Intents : Refuse(r, i) \/ Execute(r, i)
  \/ EndTick(r) \/ AbortTick(r) \/ TakeResult(r)

Approach(r) ==
  \/ NotOwned(r) \/ ReplayFails(r) \/ \E acked \in BOOLEAN : Replay(r, acked)
  \/ Peek(r) \/ Unpeek(r) \/ Busy(r) \/ Lock(r)
  \/ OutOfOrder(r) \/ Lease(r) \/ LeaseRefused(r)

Run(r) ==
  \/ RejectArtifact(r) \/ NothingToDeploy(r) \/ BackUp(r) \/ SkipCopy(r)
  \/ Prepare(r) \/ Activate(r) \/ Copy(r) \/ FinishCopy(r) \/ CopyFails(r)
  \/ Verify(r) \/ VerifyFails(r) \/ ReloadFails(r)
  \/ Restore(r) \/ RestoreFails(r) \/ RefuseRollback(r) \/ Retain(r)
  \/ PauseForRepair(r) \/ Publish(r) \/ NotifyFails(r)
  \/ \E acked \in BOOLEAN : Notify(r, acked)
  \/ Settle(r) \/ Clear(r) \/ Unlease(r) \/ Unlock(r)

Next ==
  \/ \E r \in Repos : \/ Restart(r) \/ Tick(r) \/ Approach(r) \/ Run(r)
                      \/ BeginDrain(r) \/ CompleteOwnerChange(r) \/ Crash(r)
  \/ Recover

Spec == Init /\ [][Next]_vars

-----------------------------------------------------------------------------
(* Properties. *)

\* The variables keep their types.
TypeOK ==
  /\ fence \in Fence
  /\ issued \in 0..MaxToken
  /\ phase \in [Intents -> Phase]
  /\ backup \in [Intents -> Image]
  /\ outbox \subseteq Receipt
  /\ pause \in [Repos -> Repairs \cup {NoRepair}]
  /\ leases \subseteq Intents \X (0..MaxToken)
  /\ owner \in [Repos -> Owner]
  /\ runtime \in [Repos -> Image]
  /\ svc \in [Repos -> Service]
  /\ faults \in 0..MaxFaults

\* A run that gave the lock up to the operator only announces its outcome.
GivenUp(r) == svc[r].outcome = "fenced" /\ svc[r].at \in {"pause", "publish", "notify"}

\* Only activation and rollback hold the global lock, and one at a time (design
\* document, section 7): a process past tryAcquire is the one the fence names,
\* so two repositories never change their runtimes together.
OneActivation ==
  \A r \in Repos : svc[r].at \in Locked /\ ~GivenUp(r) =>
    /\ fence.held /\ ~fence.fenced
    /\ fence.intent = Mine(r) /\ fence.token = svc[r].token

\* The owner of a repository does not change while a deployment may be changing
\* its runtime, whatever crashed before: the owner's row counts exactly the
\* leases of its repository, and each of them is covered by the lock.
LeasesCounted ==
  /\ \A r \in Repos :
       owner[r].active = Cardinality({l \in leases : RepoOf[l[1]] = r})
  /\ \A l \in leases : fence.held /\ fence.intent = l[1] /\ fence.token = l[2]

\* A run changes the runtime only for the owner that admitted it (journal.ts
\* acquireLease and completeOwnerChange).
ActivationIsOwned ==
  \A r \in Repos : svc[r].at \in Activation /\ ~GivenUp(r) => owner[r].generation = Genesis

\* An outcome is announced once: at most one receipt for a release, and it
\* agrees with the phase the release is settled in.
OneOutcome ==
  /\ \A x, y \in outbox : x.intent = y.intent => x = y
  /\ \A x \in outbox : phase[x.intent] \in Settled => phase[x.intent] = x.kind

\* A settled release is settled for good.
SettledIsFinal ==
  [][\A i \in Intents : phase[i] \in Settled => phase'[i] = phase[i]]_vars

\* "Restart reconciliation does not duplicate deployment" (design document,
\* line 450): once the outcome of a release is announced or settled, its files
\* are never copied again, in this tick or after a crash.
NoCopyAfterOutcome ==
  [][\A r \in Repos :
       LET i == Mine(r) IN
       runtime'[r] # runtime[r] /\ runtime'[r].of = i =>
         phase[i] \in {"prepared", "activating"} /\ \A x \in outbox : x.intent # i]_vars

\* What the operator is told is true when it is recorded: a release announced as
\* deployed is the one installed, whole, and one announced as rolled back has
\* given way to what was there before its first copy (executor.ts, recovery.ts).
AnnouncedIsTrue ==
  [][\A x \in outbox' \ outbox : ~x.acked =>
       LET image == runtime'[RepoOf[x.intent]] IN
       /\ x.kind = "deployed" => image = Whole(x.intent)
       /\ x.kind = "rolled-back" => image = backup[x.intent]]_vars

\* A repository whose files are a mixture of two releases still has the lock, or
\* its operator is told that the runtime is uncertain (design document, lines 320
\* and 325; executor.ts retain, recovery.ts fenceRestart).
MixtureIsKnown ==
  \A r \in Repos : ~runtime[r].whole =>
    \/ fence.held /\ RepoOf[fence.intent] = r
    \/ \E x \in outbox : x.intent = runtime[r].of /\ x.kind = "fenced"

\* "A paused repository resumes only for a release explicitly linked as the
\* repair" (design document, lines 329 and 330).
PauseHolds ==
  [][\A r \in Repos : runtime'[r] # runtime[r] =>
       pause[r] \in {NoRepair, RepairFor[Mine(r)]}]_vars

-----------------------------------------------------------------------------
(* Properties the code does not have. *)

\* "Unknown delivery or deploy outcomes are reconciled" (design document, lines
\* 357 and 358): what a dead run left behind can be reconciled by the next tick.
DeadRunIsReconcilable ==
  \A r \in Repos : Interrupted(r) /\ svc[r].at \notin Locked => Reconcilable(r)

-----------------------------------------------------------------------------
(* The inductive invariant behind the safety properties. *)

\* A process past the scan works on an intent of its own repository, and what it
\* is about to announce or to settle is an outcome.
RunConsistent ==
  \A r \in Repos :
    /\ svc[r].at \notin {"idle", "scan"} => Mine(r) \in Intents /\ RepoOf[Mine(r)] = r
    /\ svc[r].at \in {"pause", "publish", "notify", "settle", "clear", "result"} =>
         svc[r].outcome \in Settled
    /\ svc[r].at \in {"give-up", "retain"} => svc[r].outcome = "fenced"

\* Only the run that holds the lock has a lease, from `leased` to `unlease`.
LeaseOfRun ==
  /\ \A l \in leases : fence.held /\ l = <<fence.intent, fence.token>>
  /\ \A r \in Repos :
       /\ svc[r].at \in Locked \ Activation => leases = {}
       /\ svc[r].at \in Activation /\ ~GivenUp(r) => <<Mine(r), svc[r].token>> \in leases

\* With the lock for all of them there is at most one lease.
ActiveIsLeased ==
  \A r \in Repos :
    owner[r].active = IF \E l \in leases : RepoOf[l[1]] = r THEN 1 ELSE 0

DeployInv == /\ TypeOK /\ RunConsistent /\ LeaseOfRun /\ ActiveIsLeased
             /\ OneActivation /\ ActivationIsOwned

-----------------------------------------------------------------------------
(* The inductive invariant behind what is announced and what is installed.  *)

\* No outcome of a release is announced; none but one; that it is uncertain.
Quiet(i) == \A x \in outbox : x.intent # i
Says(i, kind) == \A x \in outbox : x.intent = i => x.kind = kind
ToldFenced(i) == \E x \in outbox : x.intent = i /\ x.kind = "fenced"

\* What reconciliation announced is settled with it, and a release that had
\* nothing to deploy has no files.
ReceiptsAgree ==
  \A x \in outbox : /\ x.id = "reconcile" => phase[x.intent] = x.kind
                    /\ x.kind = "nothing-to-deploy" => x.intent \in Empty

\* A release without files gets no further than its record.
EmptyStays == \A i \in Empty : phase[i] \notin {"prepared", "activating"}

\* An image is of the repository's own releases, and of one whose backup was
\* taken before it was copied.
OfOwn(image, r) ==
  image.of # Base => RepoOf[image.of] = r /\ backup[image.of] # NoImage

ImagesKnown ==
  /\ \A r \in Repos : runtime[r] # NoImage /\ OfOwn(runtime[r], r)
  /\ \A i \in Intents : backup[i].of # i /\ OfOwn(backup[i], RepoOf[i])

\* A partly copied release has the lock or its announcement, and one that was
\* backed up has its announcement.
MixtureTold ==
  /\ \A r \in Repos : ~runtime[r].whole =>
       (fence.held /\ fence.intent = runtime[r].of) \/ ToldFenced(runtime[r].of)
  /\ \A i \in Intents :
       backup[i] # NoImage /\ ~backup[i].whole => ToldFenced(backup[i].of)

\* What the release that has the lock has announced, should its run be dead.
HeldOutcome ==
  fence.held /\ ~fence.fenced =>
    \A x \in outbox : x.intent = fence.intent =>
      /\ x.kind # "fenced"
      /\ x.kind = "deployed" => phase[x.intent] = "deployed"
      /\ x.kind = "rolled-back" => runtime[RepoOf[x.intent]] = backup[x.intent]

\* The places of a run by what it knows there.
Early == {"peeked", "locked", "leased", "backed"}
Committed == {"prepared", "activating", "copying", "copied", "rollback", "give-up",
              "retain", "pause"}
Announced == {"notify", "settle", "clear", "unlease", "unlock", "result"}

PhaseKnown(r) ==
  /\ svc[r].at \in {"begin"} \cup Early => phase[Mine(r)] \in Open
  /\ svc[r].at \in Committed => phase[Mine(r)] \in {"prepared", "activating"}
  /\ svc[r].at = "publish" \/ (svc[r].at \in Announced /\ svc[r].outcome \in Settled) =>
       phase[Mine(r)] \in Open \cup {svc[r].outcome}

ReceiptKnown(r) ==
  /\ svc[r].at \in Early \cup Committed \cup {"publish"} => Quiet(Mine(r))
  /\ svc[r].at \in Announced /\ svc[r].outcome \in Settled =>
       Says(Mine(r), svc[r].outcome)

\* What is installed when the outcome is about to be announced.
OutcomeKnown(r) ==
  svc[r].at \in {"pause", "publish"} =>
    /\ svc[r].outcome = "deployed" =>
         runtime[r] = Whole(Mine(r)) /\ phase[Mine(r)] = "deployed"
    /\ svc[r].outcome = "rolled-back" => runtime[r] = backup[Mine(r)]
    /\ svc[r].outcome = "nothing-to-deploy" => Mine(r) \in Empty

ImageKnown(r) ==
  /\ svc[r].at \in {"backed"} \cup Committed =>
       Mine(r) \notin Empty /\ backup[Mine(r)] # NoImage
  /\ svc[r].at = "copied" => runtime[r] = Whole(Mine(r))
  /\ svc[r].at \in Early \cup {"prepared", "activating", "settle", "clear", "unlease", "unlock"} =>
       runtime[r] # Partial(Mine(r))
  /\ svc[r].at \in {"pause", "publish", "notify"} /\ svc[r].outcome # "fenced" =>
       runtime[r] # Partial(Mine(r))

LockKnown(r) ==
  /\ svc[r].at \in {"locked", "leased", "backed", "prepared", "activating", "copying",
                    "copied", "rollback"} => ~Paused(r)
  /\ GivenUp(r) /\ fence.held /\ RepoOf[fence.intent] = r => fence.fenced

RunKnows(r) ==
  PhaseKnown(r) /\ ReceiptKnown(r) /\ OutcomeKnown(r) /\ ImageKnown(r) /\ LockKnown(r)

OutcomeInv == /\ OneOutcome /\ ReceiptsAgree /\ EmptyStays /\ ImagesKnown
              /\ MixtureTold /\ HeldOutcome /\ \A r \in Repos : RunKnows(r)
=============================================================================
