----------------------------- MODULE DeployProofs -----------------------------
(***************************************************************************)
(* Theorems about Deploy for all repositories, releases, adapters and      *)
(* bounds: its types; that activations exclude each other, hold their      *)
(* lease and keep their owner; that outcomes are announced once and are    *)
(* true; and that a mixture of two releases is known to the operator.      *)
(***************************************************************************)
EXTENDS Deploy, FiniteSetTheorems, TLAPS

\* Shorthand for the facts about the constants.
LEMMA ConstantFacts ==
  /\ RepoOf \in [Intents -> Repos]
  /\ RepairFor \in [Intents -> Repairs \cup {NoRepair}]
  /\ MaxToken \in Nat /\ MaxFaults \in Nat
  /\ MaxGeneration \in Nat /\ MaxGeneration >= 1
  BY IntentAssumption, RepairAssumption, BoundAssumption

-----------------------------------------------------------------------------
(* Types. *)

\* The ways a process moves keep the type of svc.
LEMMA GoType ==
  ASSUME TypeOK, NEW r \in Repos, NEW p \in Place, Go(r, p)
  PROVE  svc' \in [Repos -> Service]
  BY DEF TypeOK, Go, Service

LEMMA GoWithType ==
  ASSUME TypeOK, NEW r \in Repos, NEW p \in Place, NEW o \in Outcome, GoWith(r, p, o)
  PROVE  svc' \in [Repos -> Service]
  BY ZenonT(30) DEF TypeOK, GoWith, Service

LEMMA IdleType == Idle \in Service
  BY ConstantFacts DEF Idle, Service, Place, Outside, Outcome

LEMMA StopType ==
  ASSUME TypeOK, NEW r \in Repos, Stop(r)
  PROVE  svc' \in [Repos -> Service]
  BY IdleType DEF TypeOK, Stop

LEMMA PendType ==
  ASSUME TypeOK, NEW r \in Repos, Pend(r)
  PROVE  svc' \in [Repos -> Service]
<1>1. svc[r].done \in SUBSET Intents
  BY DEF TypeOK, Service
<1>2. "scan" \in Place
  BY DEF Place, Outside
<1>3. Scanning(r) \in Service
  BY <1>1, <1>2, IdleType DEF Scanning, Service
<1> QED BY <1>3 DEF TypeOK, Pend

\* The names the actions use for places, outcomes and phases.
LEMMA PlaceNames ==
  /\ {"idle", "scan", "result", "begin", "peeked", "locked", "unlock"} \subseteq Place
  /\ Activation \subseteq Place
  BY DEF Place, Outside, Waiting, Locked

LEMMA OutcomeNames ==
  /\ Settled \subseteq Outcome /\ Settled \subseteq Phase /\ Open \subseteq Phase
  /\ {"none", "pending", "error"} \subseteq Outcome
  BY DEF Settled, Open, Phase, Outcome

LEMMA ImageNames ==
  ASSUME NEW i \in Intents
  PROVE  Whole(i) \in Image /\ Partial(i) \in Image
  BY DEF Whole, Partial, Image

LEMMA FaultType ==
  ASSUME TypeOK, Fault \/ NoFault
  PROVE  faults' \in 0..MaxFaults
  BY ConstantFacts DEF TypeOK, Fault, NoFault

LEMMA InitType == Init => TypeOK
<1> SUFFICES ASSUME Init PROVE TypeOK
  OBVIOUS
<1>1. fence \in Fence /\ issued \in 0..MaxToken /\ faults \in 0..MaxFaults
  BY ConstantFacts DEF Init, Fence
<1>2. phase \in [Intents -> Phase] /\ backup \in [Intents -> Image]
  BY DEF Init, Phase, NoImage, Image
<1>3. outbox \subseteq Receipt /\ leases \subseteq Intents \X (0..MaxToken)
  BY DEF Init
<1>4. pause \in [Repos -> Repairs \cup {NoRepair}] /\ runtime \in [Repos -> Image]
  BY DEF Init, Whole, Image
<1>5. owner \in [Repos -> Owner]
  BY ConstantFacts DEF Init, Owner, Genesis
<1>6. svc \in [Repos -> Service]
  BY IdleType DEF Init
<1> QED BY <1>1, <1>2, <1>3, <1>4, <1>5, <1>6 DEF TypeOK
\* A step that touches neither the journal nor the runtime.
LEMMA TypeFrame ==
  ASSUME TypeOK, svc' \in [Repos -> Service], Fault \/ NoFault, UNCHANGED <<journal, runtime>>
  PROVE  TypeOK'
<1>1. faults' \in 0..MaxFaults
  BY FaultType
<1> QED BY <1>1 DEF TypeOK, journal

\* What a process works on, by its place.
LEMMA MineType ==
  ASSUME RunConsistent, NEW r \in Repos, ~At(r, "idle"), ~At(r, "scan")
  PROVE  Mine(r) \in Intents /\ RepoOf[Mine(r)] = r
  BY DEF RunConsistent, At

LEMMA OutcomeType ==
  ASSUME RunConsistent, NEW r \in Repos,
         svc[r].at \in {"pause", "publish", "notify", "settle", "clear", "result"}
  PROVE  svc[r].outcome \in Settled
  BY DEF RunConsistent

LEMMA TokenType ==
  ASSUME TypeOK, NEW r \in Repos
  PROVE  svc[r].token \in 0..MaxToken
  BY DEF TypeOK, Service

LEMMA DischargedType ==
  ASSUME TypeOK, NEW i \in Intents, NEW token
  PROVE  /\ Discharged(i, token) \in [Repos -> Owner]
         /\ Unleased(i, token) \subseteq Intents \X (0..MaxToken)
<1>1. RepoOf[i] \in Repos
  BY ConstantFacts
<1>2. owner[RepoOf[i]] \in Owner
  BY <1>1 DEF TypeOK
<1>3. owner[RepoOf[i]].active > 0 => owner[RepoOf[i]].active - 1 \in Nat
  BY <1>2 DEF Owner
<1>4. Discharged(i, token) \in [Repos -> Owner]
  BY <1>1, <1>2, <1>3 DEF TypeOK, Discharged, Owner
<1> QED BY <1>4 DEF TypeOK, Unleased

LEMMA FreeFenceType ==
  ASSUME TypeOK
  PROVE  FreeFence \in Fence
  BY DEF TypeOK, FreeFence, Fence

\* The intent of a reconcilable run is one of the intents.
LEMMA ReconcilableIntent ==
  ASSUME TypeOK, NEW r \in Repos, Reconcilable(r)
  PROVE  fence.intent \in Intents /\ RepoOf[fence.intent] = r
  BY DEF TypeOK, Reconcilable, Interrupted

LEMMA ConcludeType ==
  ASSUME TypeOK, NEW i \in Intents, NEW kind \in Settled, Conclude(i, kind),
         svc' \in [Repos -> Service], Fault \/ NoFault
  PROVE  TypeOK'
<1>1. faults' \in 0..MaxFaults
  BY FaultType
<1>2. phase' \in [Intents -> Phase]
  BY OutcomeNames DEF TypeOK, Conclude
<1>3. outbox' \subseteq Receipt
  <2>1. [id |-> "reconcile", intent |-> i, kind |-> kind, acked |-> FALSE] \in Receipt
    BY DEF Receipt
  <2> QED BY <2>1 DEF TypeOK, Conclude
<1>4. leases' \subseteq Intents \X (0..MaxToken) /\ owner' \in [Repos -> Owner] /\ fence' \in Fence
  BY DischargedType, FreeFenceType DEF Conclude
<1> QED BY <1>1, <1>2, <1>3, <1>4 DEF TypeOK, Conclude

LEMMA RestartType ==
  ASSUME TypeOK, NEW r \in Repos, Restart(r)
  PROVE  TypeOK'
<1> USE PlaceNames
<1>1. CASE BeginTick(r)
  <2>1. svc' \in [Repos -> Service]
    BY <1>1, GoType DEF BeginTick
  <2> QED BY <1>1, <2>1, TypeFrame DEF BeginTick, NoFault
<1>2. CASE FinishRestart(r)
  <2>1. fence.intent \in Intents
    BY <1>2, ReconcilableIntent DEF FinishRestart, ReconcileStarts
  <2>2. svc' \in [Repos -> Service]
    BY <1>2, GoType DEF FinishRestart
  <2>3. PICK kind \in Settled : Conclude(fence.intent, kind)
    BY <1>2 DEF FinishRestart, Settled
  <2> QED BY <1>2, <2>1, <2>2, <2>3, ConcludeType DEF FinishRestart
<1>3. CASE FenceRestart(r)
  <2>1. fence.intent \in Intents
    BY <1>3, ReconcilableIntent DEF FenceRestart, ReconcileStarts
  <2>2. svc' \in [Repos -> Service] /\ (Fault \/ NoFault)
    BY <1>3 DEF FenceRestart, TypeOK
  <2>3. "fenced" \in Settled /\ Conclude(fence.intent, "fenced")
    BY <1>3 DEF FenceRestart, Settled
  <2> QED BY <2>1, <2>2, <2>3, ConcludeType
<1> QED BY <1>1, <1>2, <1>3 DEF Restart
\* A receipt marked as acknowledged is a receipt.
LEMMA AckedType ==
  ASSUME NEW x \in Receipt, NEW acked \in BOOLEAN
  PROVE  [x EXCEPT !.acked = acked] \in Receipt
  BY DEF Receipt

LEMMA ClearPauseType ==
  ASSUME TypeOK, NEW r \in Repos, NEW i \in Intents, ClearPause(r, i)
  PROVE  pause' \in [Repos -> Repairs \cup {NoRepair}]
  BY DEF TypeOK, ClearPause

LEMMA ExecuteType ==
  ASSUME TypeOK, NEW r \in Repos, NEW i \in Intents, Execute(r, i)
  PROVE  TypeOK'
<1>1. NextToken \in 0..MaxToken
  BY ConstantFacts DEF TypeOK, Execute, NextToken, Fence
<1>2. svc[r].done \cup {i} \in SUBSET Intents
  BY DEF TypeOK, Service
<1>3. svc' \in [Repos -> Service]
  <2>1. [at |-> "begin", intent |-> i, token |-> NextToken, outcome |-> "none",
         done |-> svc[r].done \cup {i}] \in Service
    BY <1>1, <1>2, PlaceNames, OutcomeNames DEF Service
  <2> QED BY <2>1 DEF Execute, TypeOK
<1>4. phase' \in [Intents -> Phase]
  BY DEF TypeOK, Execute, Phase, Open
<1> QED BY <1>1, <1>3, <1>4 DEF TypeOK, Execute

LEMMA TickType ==
  ASSUME TypeOK, RunConsistent, NEW r \in Repos, Tick(r)
  PROVE  TypeOK'
<1> USE PlaceNames, OutcomeNames
<1>1. ASSUME NEW x \in outbox, Resend(r, x) PROVE TypeOK'
  <2>1. [x EXCEPT !.acked = TRUE] \in Receipt
    BY AckedType DEF TypeOK
  <2> QED BY <1>1, <2>1 DEF TypeOK, Resend
<1>2. ASSUME NEW i \in Intents, Refuse(r, i) PROVE TypeOK'
  <2>1. <<"refused", i>> \in Repairs
    BY DEF Repairs
  <2> QED BY <1>2, <2>1 DEF TypeOK, Refuse
<1>3. ASSUME NEW i \in Intents, Execute(r, i) PROVE TypeOK'
  BY <1>3, ExecuteType
<1>4. CASE EndTick(r)
  BY <1>4, StopType, TypeFrame DEF EndTick, NoFault
<1>5. CASE AbortTick(r)
  BY <1>5, StopType, TypeFrame DEF AbortTick
<1>6. CASE TakeResult(r)
  <2>1. Mine(r) \in Intents /\ svc[r].outcome \in Settled
    BY <1>6, MineType, OutcomeType DEF TakeResult, At
  <2>2. svc' \in [Repos -> Service]
    BY <1>6, PendType DEF TakeResult
  <2>3. phase' \in [Intents -> Phase]
    BY <1>6, <2>1 DEF TakeResult, TypeOK
  <2>4. pause' \in [Repos -> Repairs \cup {NoRepair}]
    BY <1>6, <2>1, ClearPauseType DEF TakeResult, TypeOK
  <2> QED BY <1>6, <2>2, <2>3, <2>4 DEF TakeResult, TypeOK
<1> QED BY <1>1, <1>2, <1>3, <1>4, <1>5, <1>6 DEF Tick

LEMMA TryAcquireType ==
  ASSUME TypeOK, RunConsistent, NEW r \in Repos, At(r, "begin"),
         NEW p \in Place, TryAcquire(r, p)
  PROVE  svc' \in [Repos -> Service] /\ fence' \in Fence
<1>1. Mine(r) \in Intents /\ svc[r].token \in 0..MaxToken
  BY MineType, TokenType DEF At
<1>2. CASE GoWith(r, "result", "fenced") /\ UNCHANGED fence
  BY <1>2, GoWithType, PlaceNames, OutcomeNames DEF TypeOK, Settled
<1>3. CASE Pend(r) /\ UNCHANGED fence
  BY <1>3, PendType DEF TypeOK
<1>4. CASE Go(r, p) /\ fence' = [token |-> svc[r].token, held |-> TRUE, fenced |-> FALSE,
                                 intent |-> Mine(r)]
  BY <1>1, <1>4, GoType DEF Fence
<1> QED BY <1>2, <1>3, <1>4 DEF TryAcquire

LEMMA ApproachType ==
  ASSUME TypeOK, RunConsistent, NEW r \in Repos, Approach(r)
  PROVE  TypeOK'
<1> USE PlaceNames, OutcomeNames
<1>1. CASE NotOwned(r)
  BY <1>1, StopType, TypeFrame DEF NotOwned, NoFault
<1>2. CASE ReplayFails(r)
  BY <1>2, StopType, TypeFrame DEF ReplayFails
<1>3. ASSUME NEW acked \in BOOLEAN, Replay(r, acked) PROVE TypeOK'
  <2>1. Mine(r) \in Intents
    BY <1>3, MineType DEF Replay, Begins, At
  <2>2. PICK x \in Receipts(Mine(r)) :
          /\ outbox' = (outbox \ {x}) \cup {[x EXCEPT !.acked = @ \/ acked]}
          /\ phase' = [phase EXCEPT ![Mine(r)] = IF x.kind = "fenced" THEN @ ELSE x.kind]
          /\ GoWith(r, "result", x.kind)
    BY <1>3 DEF Replay
  <2>3. x \in Receipt /\ x.kind \in Settled /\ x.acked \in BOOLEAN
    BY DEF Receipts, TypeOK, Receipt
  <2>4. (x.acked \/ acked) \in BOOLEAN
    OBVIOUS
  <2>5. outbox' \subseteq Receipt
    BY <2>2, <2>3, <2>4, AckedType DEF TypeOK
  <2>6. phase' \in [Intents -> Phase]
    BY <2>1, <2>2, <2>3 DEF TypeOK
  <2>7. svc' \in [Repos -> Service]
    BY <2>2, <2>3, GoWithType
  <2> QED BY <1>3, <2>5, <2>6, <2>7 DEF Replay, NoFault, TypeOK
<1>4. CASE Peek(r)
  BY <1>4, TryAcquireType DEF Peek, Proceeds, Begins, TypeOK
<1>5. CASE Unpeek(r)
  <2>1. fence' \in Fence
    BY <1>5 DEF Unpeek, TypeOK, Fence
  <2> QED BY <1>5, <2>1, PendType DEF Unpeek, TypeOK
<1>6. CASE Busy(r)
  BY <1>6, PendType, TypeFrame DEF Busy, NoFault
<1>7. CASE Lock(r)
  BY <1>7, TryAcquireType DEF Lock, Proceeds, Begins, TypeOK
<1>8. CASE OutOfOrder(r)
  BY <1>8, GoWithType, TypeFrame DEF OutOfOrder, NoFault
<1>9. CASE Lease(r)
  <2>1. Mine(r) \in Intents /\ svc[r].token \in 0..MaxToken
    BY <1>9, MineType, TokenType DEF Lease, At
  <2>2. leases' \subseteq Intents \X (0..MaxToken)
    BY <1>9, <2>1 DEF Lease, Leased, TypeOK
  <2>3. owner' \in [Repos -> Owner]
    BY <1>9 DEF Lease, Leased, TypeOK, Owner
  <2>4. svc' \in [Repos -> Service]
    BY <1>9, GoType DEF Lease, Leased, Activation
  <2> QED BY <1>9, <2>2, <2>3, <2>4 DEF Lease, Leased, TypeOK
<1>10. CASE LeaseRefused(r)
  BY <1>10, GoWithType, TypeFrame DEF LeaseRefused, NoFault
<1> QED BY <1>1, <1>2, <1>3, <1>4, <1>5, <1>6, <1>7, <1>8, <1>9, <1>10 DEF Approach
\* A run moves to a place it has a lock for.
LEMMA ActivationPlaces == \A p : p \in Activation => p \in Place
  BY PlaceNames

LEMMA SetPhaseType ==
  ASSUME TypeOK, RunConsistent, NEW r \in Repos, NEW from, NEW to \in Phase \cap Place,
         SetPhase(r, from, to), ~At(r, "idle"), ~At(r, "scan"), Fault \/ NoFault
  PROVE  TypeOK'
<1>1. faults' \in 0..MaxFaults /\ svc' \in [Repos -> Service]
  BY FaultType, GoType DEF SetPhase
<1>2. phase' \in [Intents -> Phase]
  BY MineType DEF SetPhase, TypeOK
<1> QED BY <1>1, <1>2 DEF SetPhase, TypeOK

LEMMA InstallType ==
  ASSUME TypeOK, NEW r \in Repos, NEW from, NEW image \in Image, NEW to \in Place,
         Install(r, from, image, to), Fault \/ NoFault
  PROVE  TypeOK'
<1>1. faults' \in 0..MaxFaults /\ svc' \in [Repos -> Service]
  BY FaultType, GoType DEF Install
<1>2. runtime' \in [Repos -> Image]
  BY DEF Install, TypeOK
<1> QED BY <1>1, <1>2 DEF Install, TypeOK, journal

LEMMA FailToType ==
  ASSUME TypeOK, NEW r \in Repos, NEW from, NEW to \in Place, NEW o \in Outcome,
         FailTo(r, from, to, o)
  PROVE  TypeOK'
<1>1. svc' \in [Repos -> Service]
  BY GoWithType DEF FailTo
<1> QED BY <1>1, TypeFrame DEF FailTo

\* The steps up to the end of the copy.
CopySteps(r) ==
  \/ RejectArtifact(r) \/ NothingToDeploy(r) \/ BackUp(r) \/ SkipCopy(r)
  \/ Prepare(r) \/ Activate(r) \/ Copy(r) \/ FinishCopy(r) \/ CopyFails(r)

LEMMA CopyStepsType ==
  ASSUME TypeOK, RunConsistent, NEW r \in Repos, CopySteps(r)
  PROVE  TypeOK'
<1> USE PlaceNames, OutcomeNames
<1>n. {"leased", "backed", "prepared", "activating", "copying", "copied", "rollback",
       "publish", "unlease"} \subseteq Place
  BY ActivationPlaces DEF Activation
<1>1. CASE RejectArtifact(r)
  BY <1>1, <1>n, GoWithType, TypeFrame DEF RejectArtifact
<1>2. CASE NothingToDeploy(r)
  BY <1>2, <1>n, GoWithType, TypeFrame DEF NothingToDeploy, NoFault, Settled
<1>3. CASE BackUp(r)
  <2>1. Mine(r) \in Intents
    BY <1>3, MineType DEF BackUp, At
  <2>2. backup' \in [Intents -> Image]
    BY <1>3, <2>1 DEF BackUp, TypeOK
  <2>3. svc' \in [Repos -> Service]
    BY <1>3, <1>n, GoType DEF BackUp
  <2> QED BY <1>3, <2>2, <2>3 DEF BackUp, TypeOK
<1>4. CASE SkipCopy(r)
  BY <1>4, <1>n, GoType, TypeFrame DEF SkipCopy, NoFault
<1>5. CASE Prepare(r)
  BY <1>5, <1>n, SetPhaseType DEF Prepare, SetPhase, At, Open
<1>6. CASE Activate(r)
  BY <1>6, <1>n, SetPhaseType DEF Activate, SetPhase, At, Open
<1>7. CASE Copy(r) \/ FinishCopy(r)
  <2>1. Mine(r) \in Intents
    BY <1>7, MineType DEF Copy, FinishCopy, Install, At
  <2> QED BY <1>7, <1>n, <2>1, ImageNames, InstallType DEF Copy, FinishCopy
<1>8. CASE CopyFails(r)
  BY <1>8, <1>n, FailToType DEF CopyFails
<1> QED BY <1>1, <1>2, <1>3, <1>4, <1>5, <1>6, <1>7, <1>8 DEF CopySteps

\* The steps that decide what became of the release.
VerdictSteps(r) ==
  \/ Verify(r) \/ VerifyFails(r) \/ ReloadFails(r)
  \/ Restore(r) \/ RestoreFails(r) \/ RefuseRollback(r) \/ Retain(r)

LEMMA VerdictStepsType ==
  ASSUME TypeOK, RunConsistent, NEW r \in Repos, VerdictSteps(r)
  PROVE  TypeOK'
<1> USE PlaceNames, OutcomeNames
<1>n. {"rollback", "give-up", "retain", "pause", "publish"} \subseteq Place
  BY ActivationPlaces DEF Activation
<1>o. {"deployed", "fenced", "rolled-back"} \subseteq Outcome \cap Phase
  BY DEF Settled
<1>m. ~At(r, "idle") /\ ~At(r, "scan") => Mine(r) \in Intents
  BY MineType
<1>1. CASE Verify(r)
  <2>1. svc' \in [Repos -> Service]
    BY <1>1, <1>n, <1>o, GoWithType DEF Verify
  <2>2. phase' \in [Intents -> Phase]
    BY <1>1, <1>o DEF Verify, TypeOK
  <2> QED BY <1>1, <2>1, <2>2 DEF Verify, TypeOK
<1>2. CASE VerifyFails(r) \/ ReloadFails(r)
  BY <1>2, <1>n, <1>o, FailToType DEF VerifyFails, ReloadFails
<1>3. CASE Restore(r)
  <2>1. svc' \in [Repos -> Service]
    BY <1>3, <1>n, <1>o, GoWithType DEF Restore
  <2>2. runtime' \in [Repos -> Image]
    BY <1>3, <1>m DEF Restore, TypeOK, At
  <2> QED BY <1>3, <2>1, <2>2 DEF Restore, TypeOK, journal
<1>4. CASE RestoreFails(r)
  <2>1. svc' \in [Repos -> Service] /\ faults' \in 0..MaxFaults
    BY <1>4, <1>n, <1>o, GoWithType, FaultType DEF RestoreFails
  <2>2. Partial(Mine(r)) \in Image
    BY <1>4, <1>m, ImageNames DEF RestoreFails, At
  <2>3. runtime' \in [Repos -> Image]
    BY <1>4, <2>2 DEF RestoreFails, TypeOK
  <2> QED BY <1>4, <2>1, <2>3 DEF RestoreFails, TypeOK, journal
<1>5. CASE RefuseRollback(r)
  BY <1>5, <1>n, <1>o, GoWithType, TypeFrame DEF RefuseRollback, NoFault
<1>6. CASE Retain(r)
  <2>1. svc' \in [Repos -> Service]
    BY <1>6, <1>n, GoType DEF Retain
  <2>2. fence' \in Fence
    BY <1>6 DEF Retain, TypeOK, Fence
  <2> QED BY <1>6, <2>1, <2>2 DEF Retain, TypeOK
<1> QED BY <1>1, <1>2, <1>3, <1>4, <1>5, <1>6 DEF VerdictSteps

\* The steps that announce the outcome and give everything back.
ClosingSteps(r) ==
  \/ PauseForRepair(r) \/ Publish(r) \/ NotifyFails(r)
  \/ \E acked \in BOOLEAN : Notify(r, acked)
  \/ Settle(r) \/ Clear(r) \/ Unlease(r) \/ Unlock(r)

LEMMA ClosingStepsType ==
  ASSUME TypeOK, RunConsistent, NEW r \in Repos, ClosingSteps(r)
  PROVE  TypeOK'
<1> USE PlaceNames, OutcomeNames
<1>n. {"publish", "notify", "settle", "clear", "unlease"} \subseteq Place
  BY ActivationPlaces DEF Activation
<1>m. ~At(r, "idle") /\ ~At(r, "scan") => Mine(r) \in Intents
  BY MineType
<1>1. CASE PauseForRepair(r)
  <2>1. svc' \in [Repos -> Service]
    BY <1>1, <1>n, GoType DEF PauseForRepair
  <2>2. <<"failed", Mine(r)>> \in Repairs
    BY <1>1, <1>m DEF PauseForRepair, At, Repairs
  <2> QED BY <1>1, <2>1, <2>2 DEF PauseForRepair, TypeOK
<1>2. CASE Publish(r)
  <2>1. svc' \in [Repos -> Service]
    BY <1>2, <1>n, GoType DEF Publish
  <2>2. Mine(r) \in Intents /\ svc[r].outcome \in Settled
    BY <1>2, <1>m, OutcomeType DEF Publish, At
  <2>3. [id |-> "receipt", intent |-> Mine(r), kind |-> svc[r].outcome, acked |-> FALSE] \in Receipt
    BY <2>2 DEF Receipt
  <2> QED BY <1>2, <2>1, <2>3 DEF Publish, TypeOK
<1>3. CASE NotifyFails(r)
  <2>1. svc' \in [Repos -> Service]
    BY <1>3, <1>n, GoWithType, StopType DEF NotifyFails
  <2> QED BY <1>3, <2>1, TypeFrame DEF NotifyFails
<1>4. ASSUME NEW acked \in BOOLEAN, Notify(r, acked) PROVE TypeOK'
  <2>1. svc' \in [Repos -> Service]
    BY <1>4, <1>n, GoType DEF Notify
  <2>2. outbox' \subseteq Receipt
    BY <1>4, AckedType DEF Notify, TypeOK
  <2> QED BY <1>4, <2>1, <2>2 DEF Notify, TypeOK
<1>5. CASE Settle(r)
  <2>1. svc' \in [Repos -> Service]
    BY <1>5, <1>n, GoType DEF Settle
  <2>2. svc[r].outcome \in Settled
    BY <1>5, OutcomeType DEF Settle, At
  <2>3. phase' \in [Intents -> Phase]
    BY <1>5, <2>2 DEF Settle, TypeOK
  <2> QED BY <1>5, <2>1, <2>3 DEF Settle, TypeOK
<1>6. CASE Clear(r)
  <2>1. svc' \in [Repos -> Service] /\ Mine(r) \in Intents
    BY <1>6, <1>m, <1>n, GoType DEF Clear, At
  <2>2. pause' \in [Repos -> Repairs \cup {NoRepair}]
    BY <1>6, <2>1, ClearPauseType DEF Clear
  <2> QED BY <1>6, <2>1, <2>2 DEF Clear, TypeOK
<1>7. CASE Unlease(r)
  <2>1. svc' \in [Repos -> Service] /\ Mine(r) \in Intents
    BY <1>7, <1>m, GoType DEF Unlease, At
  <2>2. leases' \subseteq Intents \X (0..MaxToken) /\ owner' \in [Repos -> Owner]
    BY <1>7, <2>1, DischargedType DEF Unlease
  <2> QED BY <1>7, <2>1, <2>2 DEF Unlease, TypeOK
<1>8. CASE Unlock(r)
  <2>1. svc' \in [Repos -> Service]
    BY <1>8, GoType, PendType, StopType DEF Unlock
  <2>2. fence' \in Fence
    BY <1>8 DEF Unlock, TypeOK, Fence
  <2> QED BY <1>8, <2>1, <2>2 DEF Unlock, TypeOK
<1> QED BY <1>1, <1>2, <1>3, <1>4, <1>5, <1>6, <1>7, <1>8 DEF ClosingSteps

LEMMA RunSteps ==
  ASSUME NEW r
  PROVE  Run(r) <=> CopySteps(r) \/ VerdictSteps(r) \/ ClosingSteps(r)
  BY DEF Run, CopySteps, VerdictSteps, ClosingSteps

\* The operator's command changes the row of an intent, and nothing when the
\* fence was never taken.
LEMMA RecoverType ==
  ASSUME TypeOK, Recover
  PROVE  TypeOK'
<1>1. fence' \in Fence
  BY FreeFenceType DEF Recover
<1>2. leases' \subseteq Intents \X (0..MaxToken)
  BY DEF Recover, Unleased, TypeOK
<1>3. owner' \in [Repos -> Owner]
  <2>1. CASE fence.intent \in Intents
    BY <2>1, DischargedType DEF Recover
  <2>2. CASE fence.intent \notin Intents
    <3>1. <<fence.intent, fence.token>> \notin leases
      BY <2>2 DEF TypeOK
    <3>2. Discharged(fence.intent, fence.token) =
            [owner EXCEPT ![RepoOf[fence.intent]].active = @]
      BY <3>1 DEF Discharged
    <3>3. RepoOf[fence.intent] \in Repos => Discharged(fence.intent, fence.token) \in [Repos -> Owner]
      BY <3>2 DEF TypeOK, Owner
    <3>4. RepoOf[fence.intent] \notin Repos => Discharged(fence.intent, fence.token) \in [Repos -> Owner]
      BY <3>2 DEF TypeOK
    <3>5. owner' = Discharged(fence.intent, fence.token)
      BY DEF Recover
    <3> QED BY <3>3, <3>4, <3>5, Zenon
  <2> QED BY <2>1, <2>2
<1> QED BY <1>1, <1>2, <1>3 DEF Recover, TypeOK

LEMMA OwnerType ==
  ASSUME TypeOK, NEW r \in Repos, BeginDrain(r) \/ CompleteOwnerChange(r)
  PROVE  TypeOK'
<1>1. owner[r] \in Owner
  BY DEF TypeOK
<1>2. CASE BeginDrain(r)
  BY <1>1, <1>2 DEF BeginDrain, TypeOK, Owner
<1>3. CASE CompleteOwnerChange(r)
  BY <1>1, <1>3 DEF CompleteOwnerChange, TypeOK, Owner
<1> QED BY <1>2, <1>3

LEMMA NextType ==
  ASSUME TypeOK, RunConsistent, [Next]_vars
  PROVE  TypeOK'
<1>1. ASSUME NEW r \in Repos, Restart(r) \/ Tick(r) \/ Approach(r) \/ Run(r) PROVE TypeOK'
  BY <1>1, RestartType, TickType, ApproachType, RunSteps, CopyStepsType, VerdictStepsType,
     ClosingStepsType
<1>2. ASSUME NEW r \in Repos, BeginDrain(r) \/ CompleteOwnerChange(r) PROVE TypeOK'
  BY <1>2, OwnerType
<1>3. ASSUME NEW r \in Repos, Crash(r) PROVE TypeOK'
  BY <1>3, StopType, TypeFrame DEF Crash
<1>4. CASE Recover
  BY <1>4, RecoverType
<1>5. CASE UNCHANGED vars
  BY <1>5 DEF vars, journal, TypeOK
<1> QED BY <1>1, <1>2, <1>3, <1>4, <1>5 DEF Next

-----------------------------------------------------------------------------
(* The invariant, process by process.                                        *)

\* A process that the fence names: it has the lock and has not given it up.
Holding(r) == svc[r].at \in Locked /\ ~GivenUp(r)

Consistent(r) ==
  /\ svc[r].at \notin {"idle", "scan"} => Mine(r) \in Intents /\ RepoOf[Mine(r)] = r
  /\ svc[r].at \in {"pause", "publish", "notify", "settle", "clear", "result"} =>
       svc[r].outcome \in Settled
  /\ svc[r].at \in {"give-up", "retain"} => svc[r].outcome = "fenced"

Covered(r) ==
  Holding(r) =>
    /\ fence.held /\ ~fence.fenced
    /\ fence.intent = Mine(r) /\ fence.token = svc[r].token
    /\ svc[r].at \notin Activation => leases = {}
    /\ svc[r].at \in Activation => /\ <<Mine(r), svc[r].token>> \in leases
                                   /\ owner[r].generation = Genesis

\* What the leases say of the lock and of the owners.
LeasesOK ==
  /\ \A l \in leases : fence.held /\ l = <<fence.intent, fence.token>>
  /\ ActiveIsLeased

Strengthening == LeasesOK /\ \A r \in Repos : Consistent(r) /\ Covered(r)

LEMMA GivenUpPlaces ==
  /\ {"pause", "publish", "notify"} \subseteq Activation
  /\ Activation \subseteq Locked
  /\ Locked \cap (Outside \cup Waiting) = {}
  BY DEF Activation, Locked, Outside, Waiting

LEMMA StrengtheningIs ==
  Strengthening <=> /\ RunConsistent /\ LeaseOfRun /\ ActiveIsLeased
                    /\ OneActivation /\ ActivationIsOwned
<1>1. ASSUME Strengthening
      PROVE  RunConsistent /\ LeaseOfRun /\ ActiveIsLeased /\ OneActivation /\ ActivationIsOwned
  <2>1. RunConsistent /\ ActiveIsLeased
    BY <1>1 DEF Strengthening, LeasesOK, Consistent, RunConsistent
  <2>2. OneActivation /\ ActivationIsOwned
    BY <1>1, GivenUpPlaces DEF Strengthening, Covered, Holding, OneActivation, ActivationIsOwned
  <2>3. ASSUME NEW r \in Repos, svc[r].at \in Locked \ Activation PROVE ~GivenUp(r)
    BY <2>3, GivenUpPlaces DEF GivenUp
  <2>4. LeaseOfRun
    BY <1>1, <2>3, GivenUpPlaces DEF Strengthening, LeasesOK, Covered, Holding, LeaseOfRun
  <2> QED BY <2>1, <2>2, <2>4
<1>2. ASSUME RunConsistent, LeaseOfRun, ActiveIsLeased, OneActivation, ActivationIsOwned
      PROVE  Strengthening
  <2>1. LeasesOK /\ \A r \in Repos : Consistent(r)
    BY <1>2 DEF LeasesOK, LeaseOfRun, Consistent, RunConsistent
  <2>2. ASSUME NEW r \in Repos, Holding(r) PROVE Covered(r)
    BY <1>2, <2>2, GivenUpPlaces
       DEF Covered, Holding, OneActivation, ActivationIsOwned, LeaseOfRun
  <2> QED BY <2>1, <2>2 DEF Strengthening, Covered
<1> QED BY <1>1, <1>2

LEMMA InitStrengthening == Init => Strengthening
<1> SUFFICES ASSUME Init PROVE Strengthening
  OBVIOUS
<1>1. LeasesOK
  BY DEF Init, LeasesOK, ActiveIsLeased
<1>2. ASSUME NEW r \in Repos PROVE Consistent(r) /\ Covered(r)
  <2>1. svc[r].at = "idle"
    BY DEF Init, Idle
  <2> QED BY <2>1, GivenUpPlaces DEF Consistent, Covered, Holding, Outside
<1> QED BY <1>1, <1>2 DEF Strengthening

\* Two processes never both hold the lock: the fence names one release.
LEMMA Exclusive ==
  ASSUME Strengthening, NEW q \in Repos, NEW r \in Repos, Holding(q),
         fence.held /\ RepoOf[fence.intent] = r
  PROVE  q = r
<1>1. Mine(q) \in Intents /\ RepoOf[Mine(q)] = q
  BY GivenUpPlaces DEF Strengthening, Consistent, Holding, Outside
<1>2. fence.intent = Mine(q)
  BY DEF Strengthening, Covered
<1> QED BY <1>1, <1>2

\* One who does not hold the lock is not concerned with it.
LEMMA Bystander ==
  ASSUME Strengthening, NEW q \in Repos, ~Holding(q), svc'[q] = svc[q]
  PROVE  Consistent(q)' /\ Covered(q)'
  BY DEF Strengthening, Consistent, Covered, Holding, GivenUp, Mine

LEMMA Undisturbed ==
  ASSUME Strengthening, NEW q \in Repos, svc'[q] = svc[q], UNCHANGED <<fence, leases>>,
         owner'[q].generation = owner[q].generation
  PROVE  Consistent(q)' /\ Covered(q)'
  BY DEF Strengthening, Consistent, Covered, Holding, GivenUp, Mine

\* A process that is, or gets, outside the lock.
LEMMA Leaves ==
  ASSUME NEW r \in Repos, svc'[r].at \in Outside \cup Waiting, Consistent(r)'
  PROVE  Covered(r)'
  BY GivenUpPlaces DEF Covered, Holding

\* A process that goes on with its activation, or gives it up.
LEMMA GoesOn ==
  ASSUME Strengthening, NEW r \in Repos, UNCHANGED <<fence, leases, owner>>,
         svc[r].at \in Activation, svc'[r].at \in Activation,
         Mine(r)' = Mine(r), svc'[r].token = svc[r].token,
         GivenUp(r) => GivenUp(r)'
  PROVE  Covered(r)'
  BY GivenUpPlaces DEF Strengthening, Covered, Holding, Mine

\* A step of one process that leaves the lock, the leases and the owners alone.
LEMMA LocalStep ==
  ASSUME Strengthening, NEW r \in Repos, UNCHANGED <<fence, leases, owner>>,
         \A q \in Repos \ {r} : svc'[q] = svc[q],
         Consistent(r)', Covered(r)'
  PROVE  Strengthening'
<1>1. LeasesOK'
  BY DEF Strengthening, LeasesOK, ActiveIsLeased
<1>2. ASSUME NEW q \in Repos PROVE Consistent(q)' /\ Covered(q)'
  BY Undisturbed
<1> QED BY <1>1, <1>2 DEF Strengthening

-----------------------------------------------------------------------------
(* The steps inside one process keep the invariant.                          *)

OthersWait(r) == \A q \in Repos \ {r} : svc'[q] = svc[q]

LEMMA GoFacts ==
  ASSUME TypeOK, NEW r \in Repos, NEW p, Go(r, p)
  PROVE  /\ OthersWait(r) /\ svc'[r].at = p /\ Mine(r)' = Mine(r)
         /\ svc'[r].token = svc[r].token /\ svc'[r].outcome = svc[r].outcome
  BY DEF TypeOK, Go, Service, OthersWait, Mine

LEMMA GoWithFacts ==
  ASSUME TypeOK, NEW r \in Repos, NEW p, NEW o, GoWith(r, p, o)
  PROVE  /\ OthersWait(r) /\ svc'[r].at = p /\ Mine(r)' = Mine(r)
         /\ svc'[r].token = svc[r].token /\ svc'[r].outcome = o
  BY DEF TypeOK, GoWith, Service, OthersWait, Mine

LEMMA EndFacts ==
  ASSUME TypeOK, NEW r \in Repos, Stop(r) \/ Pend(r)
  PROVE  OthersWait(r) /\ svc'[r].at \in {"idle", "scan"}
<1>1. Idle.at = "idle" /\ Scanning(r).at = "scan"
  BY DEF Idle, Scanning
<1>2. CASE Stop(r)
  BY <1>1, <1>2 DEF TypeOK, Stop, OthersWait
<1>3. CASE Pend(r)
  BY <1>1, <1>3 DEF TypeOK, Pend, OthersWait
<1> QED BY <1>2, <1>3

\* The end of an execution or of a tick, by a process that leaves the lock alone.
LEMMA EndStep ==
  ASSUME TypeOK, Strengthening, NEW r \in Repos, Stop(r) \/ Pend(r),
         UNCHANGED <<fence, leases, owner>>
  PROVE  Strengthening'
<1>1. OthersWait(r) /\ svc'[r].at \in {"idle", "scan"}
  BY EndFacts
<1>2. Consistent(r)'
  BY <1>1 DEF Consistent
<1>3. Covered(r)'
  BY <1>1, <1>2, Leaves DEF Outside
<1> QED BY <1>1, <1>2, <1>3, LocalStep DEF OthersWait

\* The release is settled: the process leaves the executor with its outcome.
LEMMA ResultStep ==
  ASSUME TypeOK, Strengthening, NEW r \in Repos, NEW o \in Settled,
         GoWith(r, "result", o), svc[r].at \notin {"idle", "scan"},
         UNCHANGED <<fence, leases, owner>>
  PROVE  Strengthening'
<1>1. OthersWait(r) /\ svc'[r].at = "result" /\ Mine(r)' = Mine(r) /\ svc'[r].outcome = o
  BY GoWithFacts
<1>2. Consistent(r)'
  BY <1>1 DEF Strengthening, Consistent
<1>3. Covered(r)'
  BY <1>1, <1>2, Leaves DEF Outside
<1> QED BY <1>1, <1>2, <1>3, LocalStep DEF OthersWait

\* The run goes on under the lock, with or without a new outcome.
LEMMA RunStep ==
  ASSUME TypeOK, Strengthening, NEW r \in Repos, NEW p \in Activation, NEW o,
         (Go(r, p) /\ o = svc[r].outcome) \/ GoWith(r, p, o),
         svc[r].at \in Activation, UNCHANGED <<fence, leases, owner>>,
         p \in {"pause", "publish", "notify", "settle", "clear"} => o \in Settled,
         p \in {"give-up", "retain"} => o = "fenced",
         GivenUp(r) => o = "fenced" /\ p \in {"pause", "publish", "notify"}
  PROVE  Strengthening'
<1>1. /\ OthersWait(r) /\ svc'[r].at = p /\ Mine(r)' = Mine(r)
      /\ svc'[r].token = svc[r].token /\ svc'[r].outcome = o
  BY GoFacts, GoWithFacts
<1>2. p \notin {"idle", "scan", "result"} /\ svc[r].at \notin {"idle", "scan"}
  BY GivenUpPlaces DEF Outside
<1>3. Consistent(r)'
  BY <1>1, <1>2 DEF Strengthening, Consistent
<1>4. GivenUp(r) => GivenUp(r)'
  BY <1>1 DEF GivenUp
<1>5. Covered(r)'
  BY <1>1, <1>4, GoesOn
<1> QED BY <1>1, <1>3, <1>5, LocalStep DEF OthersWait

\* The run gives the lock back without having had a lease.
LEMMA NoLeaseStep ==
  ASSUME TypeOK, Strengthening, NEW r \in Repos, NEW o, GoWith(r, "unlock", o),
         At(r, "locked"), UNCHANGED <<fence, leases, owner>>
  PROVE  Strengthening'
<1>1. /\ OthersWait(r) /\ svc'[r].at = "unlock" /\ Mine(r)' = Mine(r)
      /\ svc'[r].token = svc[r].token
  BY GoWithFacts
<1>2. Holding(r) /\ "unlock" \notin Activation /\ "locked" \notin Activation
  BY DEF At, Holding, GivenUp, Locked, Activation
<1>3. Consistent(r)'
  BY <1>1 DEF At, Strengthening, Consistent
<1>4. Covered(r)'
  BY <1>1, <1>2 DEF At, Strengthening, Covered, Mine
<1> QED BY <1>1, <1>3, <1>4, LocalStep DEF OthersWait

\* A step that moves no process.
LEMMA StillStep ==
  ASSUME Strengthening, UNCHANGED <<fence, leases, owner, svc>>
  PROVE  Strengthening'
<1>1. LeasesOK'
  BY DEF Strengthening, LeasesOK, ActiveIsLeased
<1>2. ASSUME NEW q \in Repos PROVE Consistent(q)' /\ Covered(q)'
  BY Undisturbed
<1> QED BY <1>1, <1>2 DEF Strengthening

-----------------------------------------------------------------------------
(* The steps that take the lock or give it back.                             *)

LEMMA OnlyHolder ==
  ASSUME Strengthening, NEW r \in Repos,
         Holding(r) \/ (fence.held /\ RepoOf[fence.intent] = r)
  PROVE  \A q \in Repos \ {r} : ~Holding(q)
<1>1. CASE fence.held /\ RepoOf[fence.intent] = r
  BY <1>1, Exclusive
<1>2. CASE Holding(r)
  <2>1. Mine(r) \in Intents /\ RepoOf[Mine(r)] = r
    BY <1>2, GivenUpPlaces DEF Strengthening, Consistent, Holding, Outside
  <2>2. fence.held /\ fence.intent = Mine(r)
    BY <1>2 DEF Strengthening, Covered
  <2> QED BY <2>1, <2>2, Exclusive
<1> QED BY <1>1, <1>2

LEMMA NoHolder ==
  ASSUME Strengthening, ~fence.held \/ fence.fenced, NEW q \in Repos
  PROVE  ~Holding(q)
  BY DEF Strengthening, Covered

\* A step of one process when no other holds the lock.
LEMMA LockStep ==
  ASSUME Strengthening, NEW r \in Repos, OthersWait(r), \A q \in Repos \ {r} : ~Holding(q),
         LeasesOK', Consistent(r)', Covered(r)'
  PROVE  Strengthening'
<1>1. ASSUME NEW q \in Repos PROVE Consistent(q)' /\ Covered(q)'
  BY Bystander DEF OthersWait
<1> QED BY <1>1 DEF Strengthening

LEMMA NoLeasesOK ==
  ASSUME NEW r0 \in Repos, leases' = {}, \A r \in Repos : owner'[r].active = 0
  PROVE  LeasesOK'
  BY DEF LeasesOK, ActiveIsLeased

\* The end of the lease that the lock covers is the end of all leases.
LEMMA DischargeEnds ==
  ASSUME TypeOK, Strengthening, leases' = Unleased(fence.intent, fence.token),
         owner' = Discharged(fence.intent, fence.token)
  PROVE  leases' = {} /\ LeasesOK'
<1> DEFINE i == fence.intent
           l0 == <<fence.intent, fence.token>>
<1>1. \A l \in leases : l = l0
  BY DEF Strengthening, LeasesOK
<1>2. leases' = {}
  BY <1>1 DEF Unleased
<1>3. \A r \in Repos : owner[r] \in Owner
  BY DEF TypeOK
<1>4. ASSUME NEW r \in Repos PROVE owner'[r].active = 0
  <2>1. owner[r].active = IF \E l \in leases : RepoOf[l[1]] = r THEN 1 ELSE 0
    BY DEF Strengthening, LeasesOK, ActiveIsLeased
  <2>2. CASE l0 \in leases
    <3>1. i \in Intents /\ RepoOf[i] \in Repos
      BY <2>2, ConstantFacts DEF TypeOK
    <3>2. owner[r].active = IF RepoOf[i] = r THEN 1 ELSE 0
      BY <1>1, <2>1, <2>2
    <3>3. CASE r = RepoOf[i]
      BY <2>2, <3>1, <3>2, <3>3, <1>3 DEF Discharged, TypeOK, Owner
    <3>4. CASE r # RepoOf[i]
      BY <2>2, <3>1, <3>2, <3>4, <1>3 DEF Discharged, TypeOK
    <3> QED BY <3>3, <3>4
  <2>3. CASE l0 \notin leases
    <3>1. owner[r].active = 0
      BY <1>1, <2>1, <2>3
    <3>2. Discharged(fence.intent, fence.token) =
            [owner EXCEPT ![RepoOf[fence.intent]].active = @]
      BY <2>3 DEF Discharged
    <3>3. Discharged(fence.intent, fence.token)[r].active = owner[r].active
      BY <3>2, <1>3 DEF TypeOK, Owner
    <3> QED BY <3>1, <3>3
  <2> QED BY <2>2, <2>3
<1>5. LeasesOK'
  BY <1>2, <1>4 DEF LeasesOK, ActiveIsLeased
<1> QED BY <1>2, <1>5

LEMMA ConcludeStep ==
  ASSUME TypeOK, Strengthening, NEW r \in Repos, NEW kind, ReconcileStarts(r),
         Conclude(fence.intent, kind), Go(r, "scan") \/ UNCHANGED svc
  PROVE  Strengthening'
<1>1. LeasesOK'
  BY DischargeEnds DEF Conclude
<1>2. \A q \in Repos \ {r} : ~Holding(q)
  BY OnlyHolder DEF ReconcileStarts, Reconcilable, Interrupted
<1>3. OthersWait(r) /\ svc'[r].at \in {"idle", "scan"}
  BY GoFacts DEF OthersWait, ReconcileStarts, At
<1>4. Consistent(r)'
  BY <1>3 DEF Consistent
<1>5. Covered(r)'
  BY <1>3, <1>4, Leaves DEF Outside
<1> QED BY <1>1, <1>2, <1>3, <1>4, <1>5, LockStep

LEMMA TryAcquireStep ==
  ASSUME TypeOK, Strengthening, NEW r \in Repos, At(r, "begin"),
         NEW p \in {"peeked", "locked"}, TryAcquire(r, p), UNCHANGED <<leases, owner>>
  PROVE  Strengthening'
<1>1. CASE GoWith(r, "result", "fenced") /\ UNCHANGED fence
  BY <1>1, ResultStep DEF At, Settled
<1>2. CASE Pend(r) /\ UNCHANGED fence
  BY <1>2, EndStep
<1>3. CASE /\ ~fence.held
           /\ fence' = [token |-> svc[r].token, held |-> TRUE, fenced |-> FALSE,
                        intent |-> Mine(r)]
           /\ Go(r, p)
  <2>1. \A q \in Repos : ~Holding(q)
    BY <1>3, NoHolder
  <2>2. leases = {}
    BY <1>3 DEF Strengthening, LeasesOK
  <2>3. LeasesOK'
    BY <2>2 DEF Strengthening, LeasesOK, ActiveIsLeased
  <2>4. /\ OthersWait(r) /\ svc'[r].at = p /\ Mine(r)' = Mine(r)
        /\ svc'[r].token = svc[r].token
    BY <1>3, GoFacts
  <2>5. p \notin Activation
    BY DEF Activation
  <2>6. Consistent(r)'
    BY <2>4 DEF At, Strengthening, Consistent
  <2>7. Covered(r)'
    BY <1>3, <2>2, <2>4, <2>5 DEF Covered, Mine
  <2> QED BY <2>1, <2>3, <2>4, <2>6, <2>7, LockStep
<1> QED BY <1>1, <1>2, <1>3 DEF TryAcquire

\* The lock is given back where there is no lease: after the look at the fence of
\* a paused repository, and at the end of a run.
LEMMA FreeStep ==
  ASSUME TypeOK, Strengthening, NEW r \in Repos, At(r, "peeked") \/ At(r, "unlock"),
         fence' = [fence EXCEPT !.held = FALSE], UNCHANGED <<leases, owner>>,
         \/ Stop(r) \/ Pend(r)
         \/ svc[r].outcome \in Settled /\ Go(r, "result")
  PROVE  Strengthening'
<1>1. Holding(r) /\ svc[r].at \notin Activation /\ svc[r].at \notin {"idle", "scan"}
  BY DEF At, Holding, GivenUp, Locked, Activation
<1>2. leases = {}
  BY <1>1 DEF Strengthening, Covered
<1>3. LeasesOK'
  BY <1>2 DEF Strengthening, LeasesOK, ActiveIsLeased
<1>4. \A q \in Repos \ {r} : ~Holding(q)
  BY <1>1, OnlyHolder
<1>5. /\ OthersWait(r) /\ svc'[r].at \in {"idle", "scan", "result"}
      /\ svc'[r].at = "result" => Mine(r)' = Mine(r) /\ svc'[r].outcome \in Settled
  BY EndFacts, GoFacts
<1>6. Consistent(r)'
  BY <1>1, <1>5 DEF Strengthening, Consistent
<1>7. Covered(r)'
  BY <1>5, <1>6, Leaves DEF Outside
<1> QED BY <1>3, <1>4, <1>5, <1>6, <1>7, LockStep

LEMMA LeaseStep ==
  ASSUME TypeOK, Strengthening, NEW r \in Repos, Lease(r)
  PROVE  Strengthening'
<1>1. /\ OthersWait(r) /\ svc'[r].at = "leased" /\ Mine(r)' = Mine(r)
      /\ svc'[r].token = svc[r].token
  BY GoFacts DEF Lease, Leased
<1>2. Holding(r) /\ "locked" \notin Activation /\ svc[r].at = "locked"
  BY DEF Lease, At, Holding, GivenUp, Locked, Activation
<1>3. /\ leases = {} /\ fence.held /\ ~fence.fenced
      /\ fence.intent = Mine(r) /\ fence.token = svc[r].token
  BY <1>2 DEF Strengthening, Covered
<1>4. leases' = {<<Mine(r), svc[r].token>>} /\ UNCHANGED fence
  BY <1>3 DEF Lease, Leased
<1>5. Mine(r) \in Intents /\ RepoOf[Mine(r)] = r
  BY <1>2 DEF Strengthening, Consistent
<1>6. \A q \in Repos : owner[q].active = 0
  BY <1>3 DEF Strengthening, LeasesOK, ActiveIsLeased
<1>7. \A q \in Repos : owner'[q].active = (IF q = r THEN 1 ELSE 0)
  BY <1>6 DEF Lease, Leased, TypeOK, Owner
<1>8. LeasesOK'
  BY <1>3, <1>4, <1>5, <1>7 DEF LeasesOK, ActiveIsLeased
<1>9. owner'[r].generation = Genesis
  BY DEF Lease, Leased, OwnsRelease, TypeOK, Owner
<1>10. Consistent(r)'
  BY <1>1, <1>5 DEF Consistent
<1>11. Covered(r)'
  BY <1>1, <1>3, <1>4, <1>9 DEF Covered, Mine, Activation
<1> QED BY <1>1, <1>2, <1>8, <1>10, <1>11, OnlyHolder, LockStep

LEMMA RetainStep ==
  ASSUME TypeOK, Strengthening, NEW r \in Repos, Retain(r)
  PROVE  Strengthening'
<1>1. Holding(r) /\ svc[r].at \in {"give-up", "retain"}
  BY DEF Retain, At, Holding, GivenUp, Locked, Activation
<1>2. /\ OthersWait(r) /\ svc'[r].at \in {"pause", "publish"} /\ Mine(r)' = Mine(r)
      /\ svc'[r].outcome = svc[r].outcome
  BY GoFacts DEF Retain
<1>3. svc[r].outcome = "fenced" /\ Mine(r) \in Intents /\ RepoOf[Mine(r)] = r
  BY <1>1 DEF Strengthening, Consistent
<1>4. fence'.held /\ fence'.intent = fence.intent /\ fence'.token = fence.token
  BY DEF Retain, TypeOK, Fence
<1>5. LeasesOK'
  BY <1>4 DEF Retain, Strengthening, LeasesOK, ActiveIsLeased
<1>6. Consistent(r)'
  BY <1>2, <1>3 DEF Consistent, Settled
<1>7. GivenUp(r)'
  BY <1>2, <1>3 DEF GivenUp
<1>8. Covered(r)'
  BY <1>7 DEF Covered, Holding
<1> QED BY <1>1, <1>2, <1>5, <1>6, <1>8, OnlyHolder, LockStep

LEMMA UnleaseStep ==
  ASSUME TypeOK, Strengthening, NEW r \in Repos, Unlease(r)
  PROVE  Strengthening'
<1>1. Holding(r) /\ svc[r].at = "unlease"
  BY DEF Unlease, At, Holding, GivenUp, Locked, Activation
<1>2. /\ OthersWait(r) /\ svc'[r].at = "unlock" /\ Mine(r)' = Mine(r)
      /\ svc'[r].token = svc[r].token
  BY GoFacts DEF Unlease
<1>3. fence.held /\ ~fence.fenced /\ fence.intent = Mine(r) /\ fence.token = svc[r].token
  BY <1>1 DEF Strengthening, Covered
<1>4. leases' = {} /\ LeasesOK'
  BY <1>3, DischargeEnds DEF Unlease
<1>5. Consistent(r)'
  BY <1>1, <1>2 DEF Strengthening, Consistent
<1>6. Covered(r)'
  BY <1>2, <1>3, <1>4 DEF Unlease, Covered, Mine, Activation
<1> QED BY <1>1, <1>2, <1>4, <1>5, <1>6, OnlyHolder, LockStep

-----------------------------------------------------------------------------
(* The steps of the operator.                                                *)

LEMMA RecoverStep ==
  ASSUME TypeOK, Strengthening, Recover
  PROVE  Strengthening'
<1>1. LeasesOK'
  BY DischargeEnds DEF Recover
<1>2. ASSUME NEW q \in Repos PROVE Consistent(q)' /\ Covered(q)'
  <2>1. ~Holding(q)
    BY NoHolder DEF Recover
  <2> QED BY <2>1, Bystander DEF Recover
<1> QED BY <1>1, <1>2 DEF Strengthening

LEMMA DrainStep ==
  ASSUME TypeOK, Strengthening, NEW r \in Repos, BeginDrain(r)
  PROVE  Strengthening'
<1>1. \A q \in Repos : /\ owner'[q].active = owner[q].active
                       /\ owner'[q].generation = owner[q].generation
  BY DEF BeginDrain, TypeOK, Owner
<1>2. LeasesOK'
  BY <1>1 DEF BeginDrain, Strengthening, LeasesOK, ActiveIsLeased
<1>3. ASSUME NEW q \in Repos PROVE Consistent(q)' /\ Covered(q)'
  BY <1>1, Undisturbed DEF BeginDrain
<1> QED BY <1>2, <1>3 DEF Strengthening

\* The change waits for the lease, so that no run of the repository is under way.
LEMMA OwnerChangeStep ==
  ASSUME TypeOK, Strengthening, NEW r \in Repos, CompleteOwnerChange(r)
  PROVE  Strengthening'
<1>1. \A q \in Repos : /\ owner'[q].active = owner[q].active
                       /\ q # r => owner'[q].generation = owner[q].generation
  BY DEF CompleteOwnerChange, TypeOK, Owner
<1>2. LeasesOK'
  BY ZenonT(30), <1>1 DEF CompleteOwnerChange, Strengthening, LeasesOK, ActiveIsLeased
<1>3. ~(Holding(r) /\ svc[r].at \in Activation)
  <2> SUFFICES ASSUME Holding(r), svc[r].at \in Activation PROVE FALSE
    OBVIOUS
  <2>1. <<Mine(r), svc[r].token>> \in leases
    BY DEF Strengthening, Covered
  <2>2. RepoOf[Mine(r)] = r
    BY GivenUpPlaces DEF Strengthening, Consistent, Outside
  <2>3. owner[r].active = 1
    BY <2>1, <2>2 DEF Strengthening, LeasesOK, ActiveIsLeased
  <2> QED BY <2>3 DEF CompleteOwnerChange
<1>4. Consistent(r)' /\ Covered(r)'
  BY <1>3 DEF CompleteOwnerChange, Strengthening, Consistent, Covered, Holding, GivenUp, Mine
<1>5. ASSUME NEW q \in Repos \ {r} PROVE Consistent(q)' /\ Covered(q)'
  BY <1>1, Undisturbed DEF CompleteOwnerChange
<1> QED BY <1>2, <1>4, <1>5 DEF Strengthening

-----------------------------------------------------------------------------
(* Every step keeps the invariant.                                           *)

LEMMA RestartStep ==
  ASSUME TypeOK, Strengthening, NEW r \in Repos, Restart(r)
  PROVE  Strengthening'
<1>1. CASE BeginTick(r)
  <2>1. OthersWait(r) /\ svc'[r].at = "scan"
    BY <1>1, GoFacts DEF BeginTick
  <2>2. Consistent(r)'
    BY <2>1 DEF Consistent
  <2>3. Covered(r)'
    BY <2>1, <2>2, Leaves DEF Outside
  <2> QED BY <1>1, <2>1, <2>2, <2>3, LocalStep DEF BeginTick, OthersWait, journal
<1>2. CASE FinishRestart(r)
  BY <1>2, ConcludeStep DEF FinishRestart
<1>3. CASE FenceRestart(r)
  BY <1>3, ConcludeStep DEF FenceRestart
<1> QED BY <1>1, <1>2, <1>3 DEF Restart

LEMMA TickStep ==
  ASSUME TypeOK, Strengthening, NEW r \in Repos, Tick(r)
  PROVE  Strengthening'
<1>1. ASSUME NEW x \in outbox, Resend(r, x) PROVE Strengthening'
  BY <1>1, StillStep DEF Resend
<1>2. ASSUME NEW i \in Intents, Refuse(r, i) PROVE Strengthening'
  BY <1>2, StillStep DEF Refuse
<1>3. ASSUME NEW i \in Intents, Execute(r, i) PROVE Strengthening'
  <2>1. OthersWait(r) /\ svc'[r].at = "begin" /\ Mine(r)' = i
    BY <1>3 DEF Execute, TypeOK, OthersWait, Mine
  <2>2. Consistent(r)'
    BY <1>3, <2>1 DEF Execute, Consistent
  <2>3. Covered(r)'
    BY <2>1, <2>2, Leaves DEF Waiting
  <2> QED BY <1>3, <2>1, <2>2, <2>3, LocalStep DEF Execute, OthersWait
<1>4. CASE EndTick(r)
  BY <1>4, EndStep DEF EndTick, journal
<1>5. CASE AbortTick(r)
  BY <1>5, EndStep DEF AbortTick, journal
<1>6. CASE TakeResult(r)
  BY <1>6, EndStep DEF TakeResult
<1> QED BY <1>1, <1>2, <1>3, <1>4, <1>5, <1>6 DEF Tick

LEMMA ApproachStep ==
  ASSUME TypeOK, Strengthening, NEW r \in Repos, Approach(r)
  PROVE  Strengthening'
<1>1. CASE NotOwned(r)
  BY <1>1, EndStep DEF NotOwned, journal
<1>2. CASE ReplayFails(r)
  BY <1>2, EndStep DEF ReplayFails, journal
<1>3. ASSUME NEW acked \in BOOLEAN, Replay(r, acked) PROVE Strengthening'
  <2>1. PICK x \in Receipts(Mine(r)) : GoWith(r, "result", x.kind)
    BY <1>3 DEF Replay
  <2>2. x.kind \in Settled
    BY DEF Receipts, TypeOK, Receipt
  <2>3. svc[r].at = "begin" /\ UNCHANGED <<fence, leases, owner>>
    BY <1>3 DEF Replay, Begins, At
  <2> QED BY <2>1, <2>2, <2>3, ResultStep
<1>4. CASE Peek(r)
  BY <1>4, TryAcquireStep DEF Peek, Proceeds, Begins
<1>5. CASE Unpeek(r)
  BY <1>5, FreeStep DEF Unpeek
<1>6. CASE Busy(r)
  BY <1>6, EndStep DEF Busy, journal
<1>7. CASE Lock(r)
  BY <1>7, TryAcquireStep DEF Lock, Proceeds, Begins
<1>8. CASE OutOfOrder(r)
  BY <1>8, NoLeaseStep DEF OutOfOrder, journal
<1>9. CASE Lease(r)
  BY <1>9, LeaseStep
<1>10. CASE LeaseRefused(r)
  BY <1>10, NoLeaseStep DEF LeaseRefused, journal
<1> QED BY <1>1, <1>2, <1>3, <1>4, <1>5, <1>6, <1>7, <1>8, <1>9, <1>10 DEF Approach

LEMMA CopyStepsStep ==
  ASSUME TypeOK, Strengthening, NEW r \in Repos, CopySteps(r)
  PROVE  Strengthening'
<1> USE DEF Activation, At, GivenUp, journal
<1>1. CASE RejectArtifact(r)
  BY <1>1, RunStep DEF RejectArtifact
<1>2. CASE NothingToDeploy(r)
  BY <1>2, RunStep DEF NothingToDeploy, Settled
<1>3. CASE BackUp(r)
  BY <1>3, RunStep DEF BackUp
<1>4. CASE SkipCopy(r)
  BY <1>4, RunStep DEF SkipCopy
<1>5. CASE Prepare(r)
  BY <1>5, RunStep DEF Prepare, SetPhase
<1>6. CASE Activate(r)
  BY <1>6, RunStep DEF Activate, SetPhase
<1>7. CASE Copy(r)
  BY <1>7, RunStep DEF Copy, Install
<1>8. CASE FinishCopy(r)
  BY <1>8, RunStep DEF FinishCopy, Install
<1>9. CASE CopyFails(r)
  BY <1>9, RunStep DEF CopyFails, FailTo
<1> QED BY <1>1, <1>2, <1>3, <1>4, <1>5, <1>6, <1>7, <1>8, <1>9 DEF CopySteps

LEMMA VerdictStepsStep ==
  ASSUME TypeOK, Strengthening, NEW r \in Repos, VerdictSteps(r)
  PROVE  Strengthening'
<1>a. {"copied", "rollback", "give-up", "retain", "pause", "publish"} \subseteq Activation
  BY DEF Activation
<1>b. {"deployed", "fenced", "rolled-back"} \subseteq Settled
  BY DEF Settled
<1> USE <1>a, <1>b DEF At, GivenUp, journal
<1>1. CASE Verify(r)
  BY <1>1, RunStep DEF Verify
<1>2. CASE VerifyFails(r)
  BY <1>2, RunStep DEF VerifyFails, FailTo
<1>3. CASE ReloadFails(r)
  BY <1>3, RunStep DEF ReloadFails, FailTo
<1>4. CASE Restore(r)
  BY <1>4, RunStep DEF Restore
<1>5. CASE RestoreFails(r)
  BY <1>5, RunStep DEF RestoreFails
<1>6. CASE RefuseRollback(r)
  BY <1>6, RunStep DEF RefuseRollback
<1>7. CASE Retain(r)
  BY <1>7, RetainStep
<1> QED BY <1>1, <1>2, <1>3, <1>4, <1>5, <1>6, <1>7 DEF VerdictSteps

LEMMA ClosingStepsStep ==
  ASSUME TypeOK, Strengthening, NEW r \in Repos, ClosingSteps(r)
  PROVE  Strengthening'
<1>a. {"pause", "publish", "notify", "settle", "clear", "unlease"} \subseteq Activation
  BY DEF Activation
<1>b. svc[r].at \in {"pause", "publish", "notify", "settle", "clear"} => svc[r].outcome \in Settled
  BY DEF Strengthening, Consistent
<1>1. CASE PauseForRepair(r)
  BY <1>1, <1>a, <1>b, RunStep DEF PauseForRepair, At, GivenUp
<1>2. CASE Publish(r)
  BY <1>2, <1>a, <1>b, RunStep DEF Publish, At, GivenUp
<1>3. CASE NotifyFails(r)
  <2>1. CASE svc[r].outcome = "fenced"
    BY <1>3, <2>1, EndStep DEF NotifyFails, journal
  <2>2. CASE svc[r].outcome # "fenced"
    BY <1>3, <2>2, <1>a, RunStep DEF NotifyFails, At, GivenUp, journal
  <2> QED BY <2>1, <2>2
<1>4. ASSUME NEW acked \in BOOLEAN, Notify(r, acked) PROVE Strengthening'
  <2>1. At(r, "notify") /\ UNCHANGED <<fence, leases, owner>>
    BY <1>4 DEF Notify
  <2>2. CASE svc[r].outcome = "fenced"
    <3>1. Go(r, "result")
      BY <1>4, <2>2 DEF Notify
    <3>2. OthersWait(r) /\ svc'[r].at = "result" /\ Mine(r)' = Mine(r)
          /\ svc'[r].outcome = svc[r].outcome
      BY <3>1, GoFacts
    <3>3. Consistent(r)'
      BY <2>1, <3>2 DEF At, Strengthening, Consistent
    <3>4. Covered(r)'
      BY <3>2, <3>3, Leaves DEF Outside
    <3> QED BY <2>1, <3>2, <3>3, <3>4, LocalStep DEF OthersWait
  <2>3. CASE svc[r].outcome # "fenced"
    <3>1. Go(r, "settle")
      BY <1>4, <2>3 DEF Notify
    <3> QED BY <2>1, <2>3, <3>1, <1>a, <1>b, RunStep DEF At, GivenUp
  <2> QED BY <2>2, <2>3
<1>5. CASE Settle(r)
  BY <1>5, <1>a, <1>b, RunStep DEF Settle, At, GivenUp
<1>6. CASE Clear(r)
  BY <1>6, <1>a, <1>b, RunStep DEF Clear, At, GivenUp
<1>7. CASE Unlease(r)
  BY <1>7, UnleaseStep
<1>8. CASE Unlock(r)
  BY <1>8, FreeStep DEF Unlock
<1> QED BY <1>1, <1>2, <1>3, <1>4, <1>5, <1>6, <1>7, <1>8 DEF ClosingSteps

LEMMA NextStrengthening ==
  ASSUME TypeOK, Strengthening, [Next]_vars
  PROVE  Strengthening'
<1>1. ASSUME NEW r \in Repos, Restart(r) \/ Tick(r) \/ Approach(r) \/ Run(r)
      PROVE  Strengthening'
  BY <1>1, RestartStep, TickStep, ApproachStep, RunSteps, CopyStepsStep, VerdictStepsStep,
     ClosingStepsStep
<1>2. ASSUME NEW r \in Repos, BeginDrain(r) \/ CompleteOwnerChange(r) PROVE Strengthening'
  BY <1>2, DrainStep, OwnerChangeStep
<1>3. ASSUME NEW r \in Repos, Crash(r) PROVE Strengthening'
  BY <1>3, EndStep DEF Crash, journal
<1>4. CASE Recover
  BY <1>4, RecoverStep
<1>5. CASE UNCHANGED vars
  BY <1>5, StillStep DEF vars, journal
<1> QED BY <1>1, <1>2, <1>3, <1>4, <1>5 DEF Next

-----------------------------------------------------------------------------
(* The theorems.                                                             *)

\* The invariant behind the others: the fence, the leases, the owners' counts and
\* the places of the processes agree after any interleaving of ticks, crashes,
\* restarts, recoveries and changes of owner.
THEOREM DeployInvariant == Spec => []DeployInv
<1>1. DeployInv <=> TypeOK /\ Strengthening
  BY StrengtheningIs DEF DeployInv
<1>2. Init => DeployInv
  BY <1>1, InitType, InitStrengthening
<1>3. DeployInv /\ [Next]_vars => DeployInv'
  <2>1. ASSUME DeployInv, [Next]_vars PROVE TypeOK' /\ Strengthening'
    <3>1. TypeOK /\ Strengthening /\ RunConsistent
      BY <2>1, <1>1 DEF DeployInv
    <3> QED BY <2>1, <3>1, NextType, NextStrengthening
  <2>2. TypeOK' /\ Strengthening' => DeployInv'
    <3>1. Strengthening' => /\ RunConsistent' /\ LeaseOfRun' /\ ActiveIsLeased'
                            /\ OneActivation' /\ ActivationIsOwned'
      BY StrengtheningIs, PTL
    <3> QED BY <3>1 DEF DeployInv
  <2> QED BY <2>1, <2>2
<1> QED BY <1>2, <1>3, PTL DEF Spec

\* The variables keep their types in every behaviour.
THEOREM DeployTypes == Spec => []TypeOK
<1>1. DeployInv => TypeOK
  BY DEF DeployInv
<1> QED BY <1>1, DeployInvariant, PTL

\* No two processes are past tryAcquire together, over all repositories: the
\* global lock of journal.ts excludes.
THEOREM ActivationsExclude == Spec => []OneActivation
<1>1. DeployInv => OneActivation
  BY DEF DeployInv
<1> QED BY <1>1, DeployInvariant, PTL

\* A run that may change a runtime has the owner that admitted it: an owner
\* change cannot overtake it.
THEOREM OwnersKept == Spec => []ActivationIsOwned
<1>1. DeployInv => ActivationIsOwned
  BY DEF DeployInv
<1> QED BY <1>1, DeployInvariant, PTL

\* The count in the owner's row is the number of leases of its repository, and
\* the lock covers each of them: no crash leaves a lease without the lock.
THEOREM LeasesAgree == Spec => []LeasesCounted
<1>1. DeployInv => LeasesCounted
  <2> SUFFICES ASSUME DeployInv PROVE LeasesCounted
    OBVIOUS
  <2>1. \A l \in leases : fence.held /\ l = <<fence.intent, fence.token>>
    BY DEF DeployInv, LeaseOfRun
  <2>2. ASSUME NEW r \in Repos
        PROVE  owner[r].active = Cardinality({l \in leases : RepoOf[l[1]] = r})
    <3> DEFINE S == {l \in leases : RepoOf[l[1]] = r}
    <3>1. owner[r].active = IF S # {} THEN 1 ELSE 0
      BY DEF DeployInv, ActiveIsLeased
    <3>2. CASE S = {}
      BY <3>1, <3>2, FS_EmptySet
    <3>3. CASE S # {}
      <4>1. S = {<<fence.intent, fence.token>>}
        BY <2>1, <3>3
      <4> QED BY <3>1, <4>1, FS_Singleton
    <3> QED BY <3>2, <3>3
  <2>3. ASSUME NEW l \in leases
        PROVE  fence.held /\ fence.intent = l[1] /\ fence.token = l[2]
    BY <2>1
  <2> QED BY <2>2, <2>3 DEF LeasesCounted
<1> QED BY <1>1, DeployInvariant, PTL

-----------------------------------------------------------------------------
(* What is announced and what is installed.                                  *)

\* The part of the invariant that is about no process, and what a step starts from.
RecordsInv == /\ OneOutcome /\ ReceiptsAgree /\ EmptyStays
              /\ ImagesKnown /\ MixtureTold /\ HeldOutcome

Known == /\ TypeOK /\ TypeOK' /\ Strengthening
         /\ RecordsInv /\ \A r \in Repos : RunKnows(r)

\* Receipts that differ in nothing but their acknowledgement.
Like(x, y) == x.id = y.id /\ x.intent = y.intent /\ x.kind = y.kind

SameReceipts ==
  /\ \A y \in outbox' : \E x \in outbox : Like(x, y)
  /\ \A x \in outbox : \E y \in outbox' : Like(x, y)
  /\ \A y, z \in outbox' : y.intent = z.intent => y = z

\* A step of one process, as the others see it.
Apart(r) ==
  /\ \A i \in Intents : RepoOf[i] # r => phase'[i] = phase[i] /\ backup'[i] = backup[i]
  /\ \A q \in Repos \ {r} : /\ runtime'[q] = runtime[q] /\ pause'[q] = pause[q]
                            /\ svc'[q] = svc[q]
  /\ \A y \in outbox' : RepoOf[y.intent] = r \/ \E x \in outbox : Like(x, y)
  /\ fence'.held /\ RepoOf[fence'.intent] # r => fence' = fence

LEMMA PlaceGroups ==
  \A p \in {"idle", "scan"} :
    p \notin Early /\ p \notin Committed /\ p \notin Announced
  BY DEF Early, Committed, Announced

LEMMA InitRecords == Init => OutcomeInv
<1> SUFFICES ASSUME Init PROVE OutcomeInv
  OBVIOUS
<1>1. OneOutcome /\ ReceiptsAgree /\ EmptyStays
  BY IntentAssumption DEF Init, OneOutcome, ReceiptsAgree, EmptyStays
<1>2. \A r \in Repos : runtime[r].of = Base /\ runtime[r].whole
  BY DEF Init, Whole
<1>3. \A i \in Intents : backup[i].of = Base /\ backup[i] = NoImage /\ i # Base
  BY IntentAssumption DEF Init, NoImage
<1>4. NoImage.whole = FALSE
  BY DEF NoImage
<1>5. ImagesKnown
  BY <1>2, <1>3, <1>4 DEF ImagesKnown, OfOwn
<1>6. MixtureTold /\ HeldOutcome
  BY <1>2, <1>3 DEF Init, MixtureTold, HeldOutcome
<1>7. ASSUME NEW r \in Repos PROVE RunKnows(r)
  <2>1. svc[r].at = "idle"
    BY DEF Init, Idle
  <2> QED BY <2>1, PlaceGroups
          DEF RunKnows, PhaseKnown, ReceiptKnown, OutcomeKnown, ImageKnown, LockKnown, GivenUp
<1> QED BY <1>1, <1>5, <1>6, <1>7 DEF OutcomeInv

\* A process outside the executor knows nothing that a step could disturb.
LEMMA EndKnows ==
  ASSUME NEW r \in Repos, svc'[r].at \in {"idle", "scan"}
  PROVE  RunKnows(r)'
  BY PlaceGroups
     DEF RunKnows, PhaseKnown, ReceiptKnown, OutcomeKnown, ImageKnown, LockKnown, GivenUp

\* A step of one process disturbs nothing that another knows.
LEMMA OthersKnow ==
  ASSUME Strengthening, NEW r \in Repos, NEW q \in Repos \ {r}, Apart(r), RunKnows(q)
  PROVE  RunKnows(q)'
<1>1. svc'[q] = svc[q] /\ runtime'[q] = runtime[q] /\ pause'[q] = pause[q]
  BY DEF Apart
<1>2. CASE svc[q].at \in {"idle", "scan"}
  BY <1>1, <1>2, EndKnows
<1>3. CASE svc[q].at \notin {"idle", "scan"}
  <2> DEFINE i == Mine(q)
  <2>1. i \in Intents /\ RepoOf[i] = q /\ i' = i
    BY <1>1, <1>3 DEF Strengthening, Consistent, Mine
  <2>2. phase'[i] = phase[i] /\ backup'[i] = backup[i]
    BY <2>1 DEF Apart
  <2>3. ASSUME NEW y \in outbox', y.intent = i
        PROVE  \E x \in outbox : x.intent = i /\ x.kind = y.kind
    BY <2>1, <2>3 DEF Apart, Like
  <2>4. Quiet(i) => Quiet(i)'
    BY <2>1, <2>3 DEF Quiet
  <2>5. Says(i, svc[q].outcome) => Says(i, svc[q].outcome)'
    BY <1>1, <2>1, <2>3 DEF Says
  <2> HIDE DEF i
  <2>6. PhaseKnown(q)'
    BY <1>1, <2>1, <2>2 DEF RunKnows, PhaseKnown, i
  <2>7. ReceiptKnown(q)'
    BY <1>1, <2>1, <2>4, <2>5 DEF RunKnows, ReceiptKnown, i
  <2>8. OutcomeKnown(q)' /\ ImageKnown(q)'
    BY <1>1, <2>1, <2>2 DEF RunKnows, OutcomeKnown, ImageKnown, i
  <2>9. LockKnown(q)'
    BY <1>1, <2>1 DEF RunKnows, LockKnown, Paused, GivenUp, Apart, i
  <2> QED BY <2>6, <2>7, <2>8, <2>9 DEF RunKnows
<1> QED BY <1>2, <1>3

LEMMA ProcessStep ==
  ASSUME Known, NEW r \in Repos, Apart(r), RunKnows(r)', RecordsInv'
  PROVE  OutcomeInv'
<1>1. ASSUME NEW q \in Repos PROVE RunKnows(q)'
  BY OthersKnow DEF Known
<1> QED BY <1>1 DEF OutcomeInv, RecordsInv

-----------------------------------------------------------------------------
(* The records under each kind of step.                                      *)

\* A change of phases and acknowledgements: only an open phase changes, and it is
\* settled with what is announced.
LEMMA PhasesRecords ==
  ASSUME Known, SameReceipts, UNCHANGED <<fence, backup, runtime>>,
         \A i \in Intents : phase'[i] # phase[i] =>
           /\ phase[i] \in Open \cup {"none"}
           /\ phase'[i] \in Settled => Says(i, phase'[i])
           /\ i \in Empty => phase'[i] \notin {"prepared", "activating"}
  PROVE  RecordsInv'
<1>1. \A x \in outbox : x.intent \in Intents /\ x.kind \in Settled
  BY DEF Known, TypeOK, Receipt
<1>2. Settled \cap (Open \cup {"none"}) = {} /\ "deployed" \in Settled
  BY DEF Settled, Open
<1>3. OneOutcome'
  <2>1. ASSUME NEW y \in outbox', phase'[y.intent] \in Settled PROVE phase'[y.intent] = y.kind
    <3>1. PICK x \in outbox : Like(x, y)
      BY DEF SameReceipts
    <3>2. x.intent \in Intents /\ x.intent = y.intent /\ x.kind = y.kind
      BY <1>1, <3>1 DEF Like
    <3>3. CASE phase'[y.intent] = phase[y.intent]
      BY <2>1, <3>2, <3>3 DEF Known, RecordsInv, OneOutcome
    <3>4. CASE phase'[y.intent] # phase[y.intent]
      BY <2>1, <3>2, <3>4 DEF Says
    <3> QED BY <3>3, <3>4
  <2> QED BY <2>1 DEF SameReceipts, OneOutcome
<1>4. ReceiptsAgree'
  <2> SUFFICES ASSUME NEW y \in outbox'
               PROVE  /\ y.id = "reconcile" => phase'[y.intent] = y.kind
                      /\ y.kind = "nothing-to-deploy" => y.intent \in Empty
    BY DEF ReceiptsAgree
  <2>1. PICK x \in outbox : Like(x, y)
    BY DEF SameReceipts
  <2>2. x.id = "reconcile" => phase'[x.intent] = phase[x.intent]
    BY <1>1, <1>2 DEF Known, RecordsInv, ReceiptsAgree
  <2> QED BY <2>1, <2>2 DEF Known, RecordsInv, ReceiptsAgree, Like
<1>5. EmptyStays'
  BY IntentAssumption DEF Known, RecordsInv, EmptyStays
<1>6. ImagesKnown'
  BY DEF Known, RecordsInv, ImagesKnown, OfOwn
<1>7. \A i : ToldFenced(i) => ToldFenced(i)'
  BY DEF SameReceipts, Like, ToldFenced
<1>8. MixtureTold'
  BY <1>7 DEF Known, RecordsInv, MixtureTold
<1>9. HeldOutcome'
  <2> SUFFICES ASSUME fence.held, ~fence.fenced, NEW y \in outbox', y.intent = fence.intent
               PROVE  /\ y.kind # "fenced"
                      /\ y.kind = "deployed" => phase'[y.intent] = "deployed"
                      /\ y.kind = "rolled-back" => runtime[RepoOf[y.intent]] = backup[y.intent]
    BY DEF HeldOutcome
  <2>1. PICK x \in outbox : Like(x, y)
    BY DEF SameReceipts
  <2>2. /\ x.intent = fence.intent /\ x.intent = y.intent /\ x.kind = y.kind
        /\ x.intent \in Intents
    BY <1>1, <2>1 DEF Like
  <2>3. /\ x.kind # "fenced"
        /\ x.kind = "deployed" => phase[x.intent] = "deployed"
        /\ x.kind = "rolled-back" => runtime[RepoOf[x.intent]] = backup[x.intent]
    BY <2>2 DEF Known, RecordsInv, HeldOutcome
  <2> QED BY <2>2, <2>3, <1>2
<1> QED BY <1>3, <1>4, <1>5, <1>6, <1>8, <1>9 DEF RecordsInv

LEMMA SameOutbox ==
  ASSUME Known, UNCHANGED outbox
  PROVE  SameReceipts
  BY DEF Known, RecordsInv, OneOutcome, SameReceipts, Like

\* A step that leaves the records alone.
LEMMA SameRecords ==
  ASSUME Known, UNCHANGED <<fence, phase, backup, outbox, runtime>>
  PROVE  RecordsInv'
  BY SameOutbox, PhasesRecords

LEMMA RuntimeRecords ==
  ASSUME Known, NEW r \in Repos, NEW image \in Image,
         runtime' = [runtime EXCEPT ![r] = image], UNCHANGED <<fence, phase, backup, outbox>>,
         image # NoImage, OfOwn(image, r),
         ~image.whole => (fence.held /\ fence.intent = image.of) \/ ToldFenced(image.of),
         fence.held /\ ~fence.fenced => Quiet(fence.intent)
  PROVE  RecordsInv'
<1>1. \A q \in Repos : runtime'[q] = IF q = r THEN image ELSE runtime[q]
  BY DEF Known, TypeOK
<1>2. OneOutcome' /\ ReceiptsAgree' /\ EmptyStays'
  BY DEF Known, RecordsInv, OneOutcome, ReceiptsAgree, EmptyStays
<1>3. ImagesKnown'
  BY <1>1 DEF Known, RecordsInv, ImagesKnown, OfOwn
<1>4. MixtureTold'
  BY <1>1 DEF Known, RecordsInv, MixtureTold, ToldFenced
<1>5. HeldOutcome'
  BY DEF HeldOutcome, Quiet
<1> QED BY <1>2, <1>3, <1>4, <1>5 DEF RecordsInv

\* A change of the lock: who gives it up leaves no mixture of its own behind, and
\* who takes it has announced nothing.
LEMMA FenceRecords ==
  ASSUME Known, UNCHANGED <<phase, backup, outbox, runtime>>,
         \/ ~fence.held
         \/ fence'.held /\ fence'.intent = fence.intent
         \/ \A q \in Repos : runtime[q].of = fence.intent => runtime[q].whole,
         fence'.held /\ ~fence'.fenced => Quiet(fence'.intent)
  PROVE  RecordsInv'
<1>1. OneOutcome' /\ ReceiptsAgree' /\ EmptyStays'
  BY DEF Known, RecordsInv, OneOutcome, ReceiptsAgree, EmptyStays
<1>2. ImagesKnown'
  BY DEF Known, RecordsInv, ImagesKnown, OfOwn
<1>3. MixtureTold'
  BY DEF Known, RecordsInv, MixtureTold, ToldFenced
<1>4. HeldOutcome'
  BY DEF HeldOutcome, Quiet
<1> QED BY <1>1, <1>2, <1>3, <1>4 DEF RecordsInv

\* What a run knows of itself and of the lock.
LEMMA OwnRun ==
  ASSUME Known, NEW r \in Repos, svc[r].at \notin {"idle", "scan"}
  PROVE  Mine(r) \in Intents /\ RepoOf[Mine(r)] = r
  BY DEF Known, Strengthening, Consistent

LEMMA OwnLock ==
  ASSUME Known, NEW r \in Repos, svc[r].at \in Locked, ~GivenUp(r)
  PROVE  fence.held /\ ~fence.fenced /\ fence.intent = Mine(r)
  BY DEF Known, Strengthening, Covered, Holding

\* A run that has announced nothing sees no mixture of its own release, unless it
\* is copying it.
LEMMA QuietMixture ==
  ASSUME Known, NEW i \in Intents, Quiet(i), ~fence.held, NEW r \in Repos
  PROVE  runtime[r] # Partial(i)
<1>1. Partial(i).of = i /\ Partial(i).whole = FALSE
  BY DEF Partial
<1>2. ~ToldFenced(i)
  BY DEF Quiet, ToldFenced
<1> QED BY <1>1, <1>2 DEF Known, RecordsInv, MixtureTold

\* With no mixture of the release in its own repository there is none of it.
LEMMA NoMixture ==
  ASSUME Known, NEW i \in Intents, runtime[RepoOf[i]] # Partial(i)
  PROVE  \A q \in Repos : runtime[q].of = i => runtime[q].whole
<1> SUFFICES ASSUME NEW q \in Repos, runtime[q].of = i PROVE runtime[q].whole
  OBVIOUS
<1>1. i # Base
  BY IntentAssumption
<1>2. RepoOf[i] = q
  BY <1>1 DEF Known, RecordsInv, ImagesKnown, OfOwn
<1>3. runtime[q] \in Image
  BY DEF Known, TypeOK
<1>4. ~runtime[q].whole => runtime[q] = Partial(i)
  BY <1>3 DEF Image, Partial
<1> QED BY <1>2, <1>4

LEMMA BackUpRecords ==
  ASSUME Known, NEW r \in Repos, BackUp(r)
  PROVE  RecordsInv'
<1> DEFINE i == Mine(r)
<1>1. i \in Intents /\ RepoOf[i] = r
  BY OwnRun DEF BackUp, At
<1>2. fence.held /\ ~fence.fenced /\ fence.intent = i
  BY OwnLock DEF BackUp, At, Locked, Activation, GivenUp
<1>3. Quiet(i) /\ runtime[r] # Partial(i)
  BY DEF BackUp, At, Known, RunKnows, ReceiptKnown, ImageKnown, Early
<1>4. \A j \in Intents : backup'[j] = IF j = i /\ backup[i] = NoImage THEN runtime[r] ELSE backup[j]
  BY <1>1 DEF BackUp, Known, TypeOK
<1>5. \A j \in Intents : backup[j] # NoImage => backup'[j] = backup[j]
  BY <1>4
<1>6. runtime[r] # NoImage /\ OfOwn(runtime[r], r) /\ runtime[r] \in Image
  BY DEF Known, RecordsInv, ImagesKnown, TypeOK
<1> HIDE DEF i
<1>7. backup[i] = NoImage => runtime[r].of # i
  BY <1>1, <1>6, IntentAssumption DEF OfOwn
<1>8. UNCHANGED <<fence, phase, outbox, runtime>>
  BY DEF BackUp
<1>9. OneOutcome' /\ ReceiptsAgree' /\ EmptyStays'
  BY <1>8 DEF Known, RecordsInv, OneOutcome, ReceiptsAgree, EmptyStays
<1>10. \A image \in Image : image.of \in Intents \cup {Base}
  BY DEF Image
<1>11. ImagesKnown'
  <2>1. ASSUME NEW q \in Repos
        PROVE  /\ runtime'[q] # NoImage
               /\ runtime'[q].of # Base =>
                    RepoOf[runtime'[q].of] = q /\ backup'[runtime'[q].of] # NoImage
    <3>1. runtime[q] \in Image /\ runtime[q] # NoImage /\ OfOwn(runtime[q], q)
      BY DEF Known, RecordsInv, ImagesKnown, TypeOK
    <3> QED BY <3>1, <1>5, <1>8, <1>10 DEF OfOwn
  <2>2. ASSUME NEW j \in Intents
        PROVE  /\ backup'[j].of # j
               /\ backup'[j].of # Base =>
                    RepoOf[backup'[j].of] = RepoOf[j] /\ backup'[backup'[j].of] # NoImage
    <3>1. /\ backup[j].of # j
          /\ backup[j].of # Base => RepoOf[backup[j].of] = RepoOf[j] /\ backup[backup[j].of] # NoImage
          /\ backup[j] \in Image
      BY DEF Known, RecordsInv, ImagesKnown, OfOwn, TypeOK
    <3>2. backup[j].of # Base => backup'[backup[j].of] # NoImage
      BY <3>1, <1>5, <1>10
    <3>3. runtime[r].of # Base => RepoOf[runtime[r].of] = r /\ backup'[runtime[r].of] # NoImage
      BY <1>5, <1>6, <1>10 DEF OfOwn
    <3>4. CASE j = i /\ backup[i] = NoImage
      BY <3>3, <3>4, <1>1, <1>4, <1>7
    <3>5. CASE ~(j = i /\ backup[i] = NoImage)
      BY <3>1, <3>2, <3>5, <1>4
    <3> QED BY <3>4, <3>5
  <2> QED BY <2>1, <2>2 DEF ImagesKnown, OfOwn
<1>12. outbox' = outbox
  BY <1>8
<1>13. ~runtime[r].whole => ToldFenced(runtime[r].of)
  <2>1. ~runtime[r].whole => runtime[r].of # i
    BY <1>3, <1>6 DEF Image, Partial
  <2> QED BY <2>1, <1>2 DEF Known, RecordsInv, MixtureTold
<1>14. MixtureTold'
  <2>1. \A q \in Repos : ~runtime'[q].whole =>
          \/ fence'.held /\ fence'.intent = runtime'[q].of
          \/ \E x \in outbox' : x.intent = runtime'[q].of /\ x.kind = "fenced"
    BY <1>8 DEF Known, RecordsInv, MixtureTold, ToldFenced
  <2>2. ASSUME NEW j \in Intents, backup'[j] # NoImage, ~backup'[j].whole
        PROVE  \E x \in outbox' : x.intent = backup'[j].of /\ x.kind = "fenced"
    <3>1. CASE j = i /\ backup[i] = NoImage
      BY <3>1, <2>2, <1>4, <1>8, <1>13 DEF ToldFenced
    <3>2. CASE ~(j = i /\ backup[i] = NoImage)
      BY <3>2, <2>2, <1>4, <1>8 DEF Known, RecordsInv, MixtureTold, ToldFenced
    <3> QED BY <3>1, <3>2
  <2> QED BY <2>1, <2>2 DEF MixtureTold, ToldFenced
<1>15. HeldOutcome'
  BY <1>2, <1>3, <1>8 DEF HeldOutcome, Quiet
<1> QED BY <1>9, <1>11, <1>14, <1>15 DEF RecordsInv

LEMMA PublishRecords ==
  ASSUME Known, NEW r \in Repos, Publish(r)
  PROVE  RecordsInv'
<1> DEFINE i == Mine(r)
           o == svc[r].outcome
           new == [id |-> "receipt", intent |-> i, kind |-> o, acked |-> FALSE]
<1>1. i \in Intents /\ RepoOf[i] = r /\ o \in Settled
  BY OwnRun DEF Publish, At, Known, Strengthening, Consistent
<1>2. /\ Quiet(i) /\ phase[i] \in Open \cup {o}
      /\ o = "deployed" => phase[i] = "deployed"
      /\ o = "rolled-back" => runtime[r] = backup[i]
      /\ o = "nothing-to-deploy" => i \in Empty
  BY DEF Publish, At, Known, RunKnows, PhaseKnown, ReceiptKnown, OutcomeKnown
<1>3. outbox' = outbox \cup {new} /\ UNCHANGED <<fence, phase, backup, runtime>>
  BY DEF Publish
<1>4. new.id = "receipt" /\ new.intent = i /\ new.kind = o
  OBVIOUS
<1>5. fence.held /\ ~fence.fenced /\ fence.intent = i => o # "fenced"
  BY <1>1 DEF Publish, At, Known, RunKnows, LockKnown, GivenUp
<1> HIDE DEF i, o, new
<1>6. Settled \cap Open = {}
  BY DEF Settled, Open
<1>7. OneOutcome'
  BY <1>1, <1>2, <1>3, <1>4, <1>6 DEF Known, RecordsInv, OneOutcome, Quiet
<1>8. ReceiptsAgree' /\ EmptyStays'
  BY <1>2, <1>3, <1>4 DEF Known, RecordsInv, ReceiptsAgree, EmptyStays
<1>9. ImagesKnown'
  BY <1>3 DEF Known, RecordsInv, ImagesKnown, OfOwn
<1>10. MixtureTold'
  BY <1>3 DEF Known, RecordsInv, MixtureTold, ToldFenced
<1>11. HeldOutcome'
  BY <1>1, <1>2, <1>3, <1>4, <1>5 DEF Known, RecordsInv, HeldOutcome
<1> QED BY <1>7, <1>8, <1>9, <1>10, <1>11 DEF RecordsInv

\* Reconciliation settles a release that has announced nothing, or its rollback.
LEMMA ConcludeRecords ==
  ASSUME Known, NEW r \in Repos, NEW kind \in {"deployed", "rolled-back", "fenced"},
         Reconcilable(r), Conclude(fence.intent, kind),
         kind = "deployed" => runtime[r] = Whole(fence.intent),
         kind = "rolled-back" => runtime[r] = backup[fence.intent],
         kind = "fenced" => Quiet(fence.intent)
  PROVE  RecordsInv' /\ Says(fence.intent, kind)
<1> DEFINE i == fence.intent
           new == [id |-> "reconcile", intent |-> i, kind |-> kind, acked |-> FALSE]
<1>1. i \in Intents /\ RepoOf[i] = r /\ fence.held /\ ~fence.fenced
      /\ phase[i] \in {"prepared", "activating"}
  BY ReconcilableIntent DEF Known, Reconcilable, Interrupted
<1>2. /\ outbox' = IF Quiet(i) THEN outbox \cup {new} ELSE outbox
      /\ UNCHANGED <<backup, runtime>> /\ ~fence'.held
      /\ \A j \in Intents : phase'[j] = IF j = i THEN kind ELSE phase[j]
  BY <1>1 DEF Conclude, Quiet, FreeFence, Known, TypeOK, Fence
<1>3. new.id = "reconcile" /\ new.intent = i /\ new.kind = kind
  OBVIOUS
<1>a. i # Base /\ Empty \subseteq Intents
  BY <1>1, IntentAssumption
<1> HIDE DEF i, new
<1>4. backup[i].of # i /\ runtime[r] # NoImage
  BY <1>1 DEF Known, RecordsInv, ImagesKnown
<1>5. \A x \in outbox : x.intent \in Intents /\ x.kind \in Settled
  BY DEF Known, TypeOK, Receipt
<1>6. Says(i, kind)
  <2> SUFFICES ASSUME NEW x \in outbox, x.intent = i PROVE x.kind = kind
    BY DEF Says
  <2>1. ~Quiet(i) /\ x.kind \in Settled
    BY <1>5 DEF Quiet
  <2>2. x.kind # "fenced" /\ (x.kind = "rolled-back" => runtime[r] = backup[i])
        /\ (x.kind = "deployed" => phase[i] = "deployed")
    BY <1>1 DEF Known, RecordsInv, HeldOutcome, i
  <2>3. x.kind = "nothing-to-deploy" => i \in Empty
    BY DEF Known, RecordsInv, ReceiptsAgree
  <2>4. i \notin Empty
    BY <1>1 DEF Known, RecordsInv, EmptyStays
  <2>5. x.kind = "rolled-back"
    BY <2>1, <2>2, <2>3, <2>4, <1>1 DEF Settled
  <2>6. runtime[r] # Whole(i)
    BY <2>2, <2>5, <1>4 DEF Whole
  <2> QED BY <2>1, <2>5, <2>6 DEF i
<1>7. \A x \in outbox : x.intent = i => x.kind = kind
  BY <1>6 DEF Says
<1>8. OneOutcome'
  BY <1>1, <1>2, <1>3, <1>5, <1>7 DEF Known, RecordsInv, OneOutcome, Quiet
<1>9. ReceiptsAgree'
  BY <1>1, <1>2, <1>3, <1>5, <1>7 DEF Known, RecordsInv, ReceiptsAgree
<1>10. EmptyStays'
  BY <1>1, <1>2, <1>a DEF Known, RecordsInv, EmptyStays
<1>11. ImagesKnown'
  BY <1>2 DEF Known, RecordsInv, ImagesKnown, OfOwn
<1>12. MixtureTold'
  <2>2. kind = "fenced" => \E x \in outbox' : x.intent = i /\ x.kind = "fenced"
    BY <1>2, <1>3 DEF i
  <2>3. ASSUME NEW q \in Repos, runtime[q].of = i, ~runtime[q].whole PROVE kind = "fenced"
    <3>1. RepoOf[i] = q
      BY <2>3, <1>1, <1>a DEF Known, RecordsInv, ImagesKnown, OfOwn
    <3>2. q = r
      BY <3>1, <1>1
    <3>3. kind # "deployed"
      BY <3>2, <2>3 DEF Whole
    <3>4. kind # "rolled-back"
      BY <3>2, <2>3, <1>4 DEF i
    <3> QED BY <3>3, <3>4
  <2>4. ASSUME NEW q \in Repos, ~runtime'[q].whole 
        PROVE \E x \in outbox' : x.intent = runtime'[q].of /\ x.kind = "fenced"
    <3>1. runtime[q].of = i \/ ToldFenced(runtime[q].of)
      BY <2>4, <1>2 DEF Known, RecordsInv, MixtureTold, i
    <3>2. CASE runtime[q].of = i
      BY <3>2, <2>2, <2>3, <2>4, <1>2 DEF ToldFenced
    <3>3. CASE ToldFenced(runtime[q].of)
      BY <3>3, <1>2 DEF ToldFenced
    <3> QED BY <3>1, <3>2, <3>3
  <2>5. ASSUME NEW j \in Intents, backup'[j] # NoImage, ~backup'[j].whole
        PROVE  \E x \in outbox' : x.intent = backup'[j].of /\ x.kind = "fenced"
    BY <2>5, <1>2 DEF Known, RecordsInv, MixtureTold, ToldFenced
  <2> QED BY <2>4, <2>5 DEF MixtureTold, ToldFenced
<1>13. HeldOutcome'
  BY <1>2 DEF HeldOutcome
<1> QED BY <1>6, <1>8, <1>9, <1>10, <1>11, <1>12, <1>13 DEF RecordsInv, i

-----------------------------------------------------------------------------
(* The steps keep the invariant.                                             *)

\* A step that leaves the records alone.
LEMMA LocalOutcome ==
  ASSUME Known, NEW r \in Repos, OthersWait(r),
         UNCHANGED <<fence, phase, backup, outbox, runtime>>,
         \A q \in Repos \ {r} : pause'[q] = pause[q],
         RunKnows(r)'
  PROVE  OutcomeInv'
<1>1. Apart(r)
  BY DEF Apart, OthersWait, Like
<1> QED BY <1>1, SameRecords, ProcessStep

LEMMA EndOutcome ==
  ASSUME Known, NEW r \in Repos, Stop(r) \/ Pend(r),
         UNCHANGED <<fence, phase, backup, outbox, runtime, pause>>
  PROVE  OutcomeInv'
<1>1. OthersWait(r) /\ svc'[r].at \in {"idle", "scan"}
  BY EndFacts DEF Known
<1> QED BY <1>1, EndKnows, LocalOutcome

LEMMA StillOutcome ==
  ASSUME Known, UNCHANGED <<fence, phase, backup, outbox, runtime, pause, svc>>
  PROVE  OutcomeInv'
<1>1. ASSUME NEW q \in Repos PROVE RunKnows(q)'
  BY DEF Known, RunKnows, PhaseKnown, ReceiptKnown, OutcomeKnown, ImageKnown, LockKnown,
         Mine, Quiet, Says, Paused, GivenUp
<1> QED BY <1>1, SameRecords DEF OutcomeInv, RecordsInv

\* A step that changes the phase of the process's release and no other record.
LEMMA PhaseOutcome ==
  ASSUME Known, NEW r \in Repos, OthersWait(r), svc[r].at \notin {"idle", "scan"}, NEW to,
         phase' = [phase EXCEPT ![Mine(r)] = to],
         UNCHANGED <<fence, backup, outbox, runtime>>,
         \A q \in Repos \ {r} : pause'[q] = pause[q],
         to # phase[Mine(r)] =>
           /\ phase[Mine(r)] \in Open \cup {"none"}
           /\ to \in Settled => Says(Mine(r), to)
           /\ Mine(r) \in Empty => to \notin {"prepared", "activating"},
         RunKnows(r)'
  PROVE  OutcomeInv'
<1>1. Mine(r) \in Intents /\ RepoOf[Mine(r)] = r
  BY OwnRun
<1>2. \A i \in Intents : phase'[i] = IF i = Mine(r) THEN to ELSE phase[i]
  BY DEF Known, TypeOK
<1>3. Apart(r)
  BY <1>1, <1>2 DEF Apart, OthersWait, Like
<1>4. RecordsInv'
  BY <1>2, SameOutbox, PhasesRecords
<1> QED BY <1>3, <1>4, ProcessStep

LEMMA ConcludeApart ==
  ASSUME Known, NEW r \in Repos, NEW kind, Reconcilable(r), Conclude(fence.intent, kind),
         OthersWait(r)
  PROVE  Apart(r)
<1>1. fence.intent \in Intents /\ RepoOf[fence.intent] = r
  BY ReconcilableIntent DEF Known
<1>2. \A i \in Intents : RepoOf[i] # r => phase'[i] = phase[i]
  BY <1>1 DEF Conclude, Known, TypeOK
<1>3. \A y \in outbox' : RepoOf[y.intent] = r \/ y \in outbox
  BY <1>1 DEF Conclude
<1>4. ~fence'.held
  BY DEF Conclude, FreeFence, Known, TypeOK, Fence
<1> QED BY <1>2, <1>3, <1>4 DEF Apart, OthersWait, Conclude, Like

LEMMA RestartOutcome ==
  ASSUME Known, NEW r \in Repos, Restart(r)
  PROVE  OutcomeInv'
<1>1. CASE BeginTick(r)
  <2>1. OthersWait(r) /\ svc'[r].at = "scan"
    BY <1>1, GoFacts DEF BeginTick, Known
  <2> QED BY <1>1, <2>1, EndKnows, LocalOutcome DEF BeginTick, journal
<1>2. CASE FinishRestart(r)
  <2>1. OthersWait(r) /\ svc'[r].at = "scan"
    BY <1>2, GoFacts DEF FinishRestart, Known
  <2>2. PICK kind \in {"deployed", "rolled-back"} :
          /\ Conclude(fence.intent, kind)
          /\ kind = "deployed" => runtime[r] = Whole(fence.intent)
          /\ kind = "rolled-back" => runtime[r] = backup[fence.intent]
    BY <1>2 DEF FinishRestart
  <2>3. Reconcilable(r)
    BY <1>2 DEF FinishRestart, ReconcileStarts
  <2>4. RecordsInv'
    BY <2>2, <2>3, ConcludeRecords
  <2> QED BY <2>1, <2>2, <2>3, <2>4, EndKnows, ConcludeApart, ProcessStep
<1>3. CASE FenceRestart(r)
  <2>1. OthersWait(r) /\ svc'[r].at = "idle"
    BY <1>3 DEF FenceRestart, ReconcileStarts, At, OthersWait
  <2>2. /\ Reconcilable(r) /\ Conclude(fence.intent, "fenced")
        /\ Quiet(fence.intent)
    BY <1>3 DEF FenceRestart, ReconcileStarts, Quiet
  <2>3. RecordsInv'
    BY <2>2, ConcludeRecords
  <2> QED BY <2>1, <2>2, <2>3, EndKnows, ConcludeApart, ProcessStep
<1> QED BY <1>1, <1>2, <1>3 DEF Restart

\* Sending a receipt again changes nothing but its acknowledgement.
LEMMA AckSame ==
  ASSUME Known, NEW x \in outbox, NEW acked \in BOOLEAN,
         outbox' = (outbox \ {x}) \cup {[x EXCEPT !.acked = acked]}
  PROVE  SameReceipts /\ \A y \in outbox' : \E z \in outbox : Like(z, y)
<1> DEFINE new == [x EXCEPT !.acked = acked]
<1>1. new.id = x.id /\ new.intent = x.intent /\ new.kind = x.kind
  BY DEF Known, TypeOK, Receipt
<1>2. outbox' = (outbox \ {x}) \cup {new}
  OBVIOUS
<1> HIDE DEF new
<1>3. \A y \in outbox' : \E z \in outbox : Like(z, y)
  BY <1>1, <1>2 DEF Like
<1>4. \A z \in outbox : \E y \in outbox' : Like(z, y)
  BY <1>1, <1>2 DEF Like
<1>5. \A y, z \in outbox' : y.intent = z.intent => y = z
  BY <1>1, <1>2 DEF Known, RecordsInv, OneOutcome
<1> QED BY <1>3, <1>4, <1>5 DEF SameReceipts

LEMMA SaysKept ==
  ASSUME SameReceipts, NEW i
  PROVE  /\ \A kind : Says(i, kind) => \A y \in outbox' : y.intent = i => y.kind = kind
         /\ Quiet(i) => \A y \in outbox' : y.intent # i
  BY DEF SameReceipts, Like, Says, Quiet

LEMMA TickOutcome ==
  ASSUME Known, NEW r \in Repos, Tick(r)
  PROVE  OutcomeInv'
<1>1. ASSUME NEW x \in outbox, Resend(r, x) PROVE OutcomeInv'
  <2>1. SameReceipts
    BY <1>1, AckSame DEF Resend
  <2>2. RecordsInv'
    BY <1>1, <2>1, PhasesRecords DEF Resend
  <2>3. Apart(r)
    BY <1>1, <2>1 DEF Resend, Apart, SameReceipts
  <2>4. svc'[r].at \in {"idle", "scan"}
    BY <1>1 DEF Resend, At
  <2> QED BY <2>2, <2>3, <2>4, EndKnows, ProcessStep
<1>2. ASSUME NEW i \in Intents, Refuse(r, i) PROVE OutcomeInv'
  <2>1. \A q \in Repos \ {r} : pause'[q] = pause[q]
    BY <1>2 DEF Refuse, Known, TypeOK
  <2>2. OthersWait(r) /\ svc'[r].at \in {"idle", "scan"}
    BY <1>2 DEF Refuse, At, OthersWait
  <2> QED BY <1>2, <2>1, <2>2, EndKnows, LocalOutcome DEF Refuse
<1>3. ASSUME NEW i \in Intents, Execute(r, i) PROVE OutcomeInv'
  <2>1. OthersWait(r) /\ svc'[r].at = "begin" /\ Mine(r)' = i
    BY <1>3 DEF Execute, Known, TypeOK, OthersWait, Mine
  <2>2. \A j \in Intents :
          phase'[j] = IF j = i /\ phase[i] = "none" THEN "recorded" ELSE phase[j]
    BY <1>3 DEF Execute, Known, TypeOK
  <2>3. "recorded" \in Open /\ "recorded" \notin Settled
    BY DEF Open, Settled
  <2>4. RecordsInv'
    BY <1>3, <2>2, <2>3, SameOutbox, PhasesRecords DEF Execute
  <2>5. Apart(r)
    BY <1>3, <2>1, <2>2 DEF Execute, Apart, OthersWait, Like
  <2>6. phase'[i] \in Open
    BY <1>3, <2>2, <2>3 DEF Execute
  <2>7. RunKnows(r)'
    BY <2>1, <2>6 DEF RunKnows, PhaseKnown, ReceiptKnown, OutcomeKnown, ImageKnown,
                      LockKnown, GivenUp, Early, Committed, Announced
  <2> QED BY <2>4, <2>5, <2>7, ProcessStep
<1>4. CASE EndTick(r)
  BY <1>4, EndOutcome DEF EndTick, journal
<1>5. CASE AbortTick(r)
  BY <1>5, EndOutcome DEF AbortTick, journal
<1>6. CASE TakeResult(r)
  <2> DEFINE o == svc[r].outcome
  <2>1. OthersWait(r) /\ svc'[r].at \in {"idle", "scan"}
    BY <1>6, EndFacts DEF TakeResult, Known
  <2>2. svc[r].at = "result" /\ o \in Settled
    BY <1>6 DEF TakeResult, At, Known, Strengthening, Consistent
  <2>3. phase[Mine(r)] \in Open \cup {o} /\ Says(Mine(r), o)
    BY <2>2 DEF Known, RunKnows, PhaseKnown, ReceiptKnown, Announced
  <2>4. \A q \in Repos \ {r} : pause'[q] = pause[q]
    BY <1>6 DEF TakeResult, ClearPause, Known, TypeOK
  <2>5. o \notin {"prepared", "activating"}
    BY <2>2 DEF Settled
  <2>6. phase' = [phase EXCEPT ![Mine(r)] = o] /\ UNCHANGED <<fence, backup, outbox, runtime>>
    BY <1>6 DEF TakeResult
  <2>7. svc[r].at \notin {"idle", "scan"}
    BY <2>2
  <2> HIDE DEF o
  <2> QED BY <2>1, <2>3, <2>4, <2>5, <2>6, <2>7, EndKnows, PhaseOutcome
<1> QED BY <1>1, <1>2, <1>3, <1>4, <1>5, <1>6 DEF Tick

\* A run takes the lock having announced nothing.
LEMMA TryAcquireOutcome ==
  ASSUME Known, NEW r \in Repos, Proceeds(r), NEW p \in {"peeked", "locked"},
         TryAcquire(r, p), p = "locked" => ~Paused(r),
         UNCHANGED <<phase, backup, outbox, pause, runtime>>
  PROVE  OutcomeInv'
<1> DEFINE i == Mine(r)
<1>1. svc[r].at = "begin" /\ i \in Intents /\ RepoOf[i] = r /\ phase[i] \in Open
  BY OwnRun DEF Proceeds, Begins, At, Known, RunKnows, PhaseKnown
<1>2. Quiet(i)
  <2> SUFFICES ASSUME NEW x \in outbox, x.intent = i PROVE FALSE
    BY DEF Quiet
  <2>1. x.id = "reconcile" /\ x.kind \in Settled
    BY DEF Proceeds, Receipts, Known, TypeOK, Receipt
  <2>2. phase[i] = x.kind
    BY <2>1 DEF Known, RecordsInv, ReceiptsAgree
  <2> QED BY <1>1, <2>1, <2>2 DEF Settled, Open
<1>3. CASE GoWith(r, "result", "fenced") /\ UNCHANGED fence
  <2>1. OthersWait(r) /\ svc'[r].at = "result" /\ Mine(r)' = i /\ svc'[r].outcome = "fenced"
    BY <1>3, GoWithFacts DEF Known
  <2>2. RunKnows(r)'
    BY <1>1, <1>2, <2>1
       DEF RunKnows, PhaseKnown, ReceiptKnown, OutcomeKnown, ImageKnown, LockKnown, GivenUp,
           Early, Committed, Announced, Quiet, Says
  <2> QED BY <1>3, <2>1, <2>2, LocalOutcome
<1>4. CASE Pend(r) /\ UNCHANGED fence
  BY <1>4, EndOutcome
<1>5. CASE /\ ~fence.held
           /\ fence' = [token |-> svc[r].token, held |-> TRUE, fenced |-> FALSE,
                        intent |-> Mine(r)]
           /\ Go(r, p)
  <2>1. OthersWait(r) /\ svc'[r].at = p /\ Mine(r)' = i
    BY <1>5, GoFacts DEF Known
  <2>2. runtime[r] # Partial(i)
    BY <1>1, <1>2, <1>5, QuietMixture
  <2>3. RunKnows(r)'
    BY <1>1, <1>2, <2>1, <2>2
       DEF RunKnows, PhaseKnown, ReceiptKnown, OutcomeKnown, ImageKnown, LockKnown, GivenUp,
           Early, Committed, Announced, Quiet, Paused
  <2>4. RecordsInv'
    BY <1>2, <1>5, FenceRecords DEF Quiet
  <2>5. Apart(r)
    BY <1>1, <1>5, <2>1 DEF Apart, OthersWait, Like
  <2> QED BY <2>3, <2>4, <2>5, ProcessStep
<1> QED BY <1>3, <1>4, <1>5 DEF TryAcquire

\* The lock is given back with no mixture of the run's release.
LEMMA FreeOutcome ==
  ASSUME Known, NEW r \in Repos, At(r, "peeked") \/ At(r, "unlock"),
         fence' = [fence EXCEPT !.held = FALSE],
         UNCHANGED <<phase, backup, outbox, pause, runtime>>,
         \/ Stop(r) \/ Pend(r)
         \/ At(r, "unlock") /\ svc[r].outcome \in Settled /\ Go(r, "result")
  PROVE  OutcomeInv'
<1>1. /\ Mine(r) \in Intents /\ RepoOf[Mine(r)] = r
      /\ fence.intent = Mine(r)
  BY OwnRun, OwnLock DEF At, GivenUp, Locked
<1>2. runtime[r] # Partial(Mine(r))
  BY DEF At, Known, RunKnows, ImageKnown, Early
<1>3. ~fence'.held
  BY DEF Known, TypeOK, Fence
<1>4. RecordsInv'
  BY <1>1, <1>2, <1>3, NoMixture, FenceRecords
<1>5. OthersWait(r)
  BY EndFacts, GoFacts DEF Known
<1>6. Apart(r)
  BY <1>3, <1>5 DEF Apart, OthersWait, Like
<1>7. RunKnows(r)'
  <2>1. CASE Stop(r) \/ Pend(r)
    BY <2>1, EndFacts, EndKnows DEF Known
  <2>2. CASE At(r, "unlock") /\ svc[r].outcome \in Settled /\ Go(r, "result")
    <3>1. svc'[r].at = "result" /\ Mine(r)' = Mine(r) /\ svc'[r].outcome = svc[r].outcome
      BY <2>2, GoFacts DEF Known
    <3>2. phase[Mine(r)] \in Open \cup {svc[r].outcome} /\ Says(Mine(r), svc[r].outcome)
      BY <2>2 DEF At, Known, RunKnows, PhaseKnown, ReceiptKnown, Announced
    <3> QED BY <3>1, <3>2
            DEF RunKnows, PhaseKnown, ReceiptKnown, OutcomeKnown, ImageKnown, LockKnown,
                GivenUp, Early, Committed, Announced, Says
  <2> QED BY <2>1, <2>2
<1> QED BY <1>4, <1>6, <1>7, ProcessStep

\* A run goes on, or fails, with the records as they are.
LEMMA GoOutcome ==
  ASSUME Known, NEW r \in Repos, NEW p, NEW o,
         (Go(r, p) /\ o = svc[r].outcome) \/ GoWith(r, p, o),
         UNCHANGED <<fence, phase, backup, outbox, pause, runtime>>,
         svc'[r].at = p /\ Mine(r)' = Mine(r) /\ svc'[r].outcome = o => RunKnows(r)'
  PROVE  OutcomeInv'
<1>1. OthersWait(r) /\ RunKnows(r)'
  BY GoFacts, GoWithFacts DEF Known
<1> QED BY <1>1, LocalOutcome

LEMMA ReplayOutcome ==
  ASSUME Known, NEW r \in Repos, NEW acked \in BOOLEAN, Replay(r, acked)
  PROVE  OutcomeInv'
<1> DEFINE i == Mine(r)
<1>1. PICK x \in Receipts(i) :
        /\ outbox' = (outbox \ {x}) \cup {[x EXCEPT !.acked = @ \/ acked]}
        /\ phase' = [phase EXCEPT ![i] = IF x.kind = "fenced" THEN @ ELSE x.kind]
        /\ GoWith(r, "result", x.kind)
  BY DEF Replay
<1>2. x \in outbox /\ x.intent = i /\ x.kind \in Settled /\ x.acked \in BOOLEAN
  BY DEF Receipts, Known, TypeOK, Receipt
<1>3. svc[r].at = "begin" /\ i \in Intents /\ RepoOf[i] = r /\ phase[i] \in Open
  BY OwnRun DEF Replay, Begins, At, Known, RunKnows, PhaseKnown
<1>4. (x.acked \/ acked) \in BOOLEAN
  OBVIOUS
<1>5. SameReceipts
  BY <1>1, <1>2, <1>4, AckSame
<1>6. Says(i, x.kind)
  BY <1>2 DEF Known, RecordsInv, OneOutcome, Says
<1>7. \A j \in Intents :
        phase'[j] = IF j = i /\ x.kind # "fenced" THEN x.kind ELSE phase[j]
  BY <1>1, <1>3 DEF Known, TypeOK
<1>8. x.kind \notin {"prepared", "activating"}
  BY <1>2 DEF Settled
<1>9. UNCHANGED <<fence, backup, pause, runtime>>
  BY DEF Replay
<1>10. OthersWait(r) /\ svc'[r].at = "result" /\ Mine(r)' = i /\ svc'[r].outcome = x.kind
  BY <1>1, GoWithFacts DEF Known
<1> HIDE DEF i
<1>11. RecordsInv'
  BY <1>3, <1>5, <1>6, <1>7, <1>8, <1>9, PhasesRecords
<1>12. Apart(r)
  BY <1>3, <1>5, <1>7, <1>9, <1>10 DEF Apart, OthersWait, SameReceipts
<1>13. phase'[i] \in Open \cup {x.kind}
  BY <1>3, <1>7
<1>14. \A y \in outbox' : y.intent = i => y.kind = x.kind
  BY <1>5, <1>6, SaysKept
<1>15. RunKnows(r)'
  BY <1>10, <1>13, <1>14
     DEF RunKnows, PhaseKnown, ReceiptKnown, OutcomeKnown, ImageKnown, LockKnown,
         GivenUp, Early, Committed, Announced, Says
<1> QED BY <1>11, <1>12, <1>15, ProcessStep

LEMMA ApproachOutcome ==
  ASSUME Known, NEW r \in Repos, Approach(r)
  PROVE  OutcomeInv'
<1>1. CASE NotOwned(r)
  BY <1>1, EndOutcome DEF NotOwned, journal
<1>2. CASE ReplayFails(r)
  BY <1>2, EndOutcome DEF ReplayFails, journal
<1>3. ASSUME NEW acked \in BOOLEAN, Replay(r, acked) PROVE OutcomeInv'
  BY <1>3, ReplayOutcome
<1>4. CASE Peek(r)
  BY <1>4, TryAcquireOutcome DEF Peek
<1>5. CASE Unpeek(r)
  BY <1>5, FreeOutcome DEF Unpeek
<1>6. CASE Busy(r)
  BY <1>6, EndOutcome DEF Busy, journal
<1>7. CASE Lock(r)
  BY <1>7, TryAcquireOutcome DEF Lock
<1>8. ASSUME At(r, "locked"), NEW o \in {"pending", "error"}, GoWith(r, "unlock", o),
             UNCHANGED <<fence, phase, backup, outbox, pause, runtime>>
      PROVE  OutcomeInv'
  <2>1. runtime[r] # Partial(Mine(r)) /\ o \notin Settled
    BY <1>8 DEF At, Known, RunKnows, ImageKnown, Early, Settled
  <2>2. svc'[r].at = "unlock" /\ Mine(r)' = Mine(r) /\ svc'[r].outcome = o => RunKnows(r)'
    BY <1>8, <2>1
       DEF RunKnows, PhaseKnown, ReceiptKnown, OutcomeKnown, ImageKnown, LockKnown,
           GivenUp, Early, Committed, Announced
  <2> QED BY <1>8, <2>2, GoOutcome
<1>9. CASE Lease(r)
  <2>1. svc'[r].at = "leased" /\ Mine(r)' = Mine(r) => RunKnows(r)'
    BY <1>9
       DEF Lease, Leased, At, Known, RunKnows, PhaseKnown, ReceiptKnown, OutcomeKnown, ImageKnown,
           LockKnown, GivenUp, Early, Committed, Announced, Quiet, Paused
  <2> QED BY <1>9, <2>1, GoOutcome DEF Lease, Leased
<1> QED BY <1>1, <1>2, <1>3, <1>4, <1>5, <1>6, <1>7, <1>8, <1>9
        DEF Approach, OutOfOrder, LeaseRefused, journal

\* A run goes on under the lock with another image on its runtime.
LEMMA InstallOutcome ==
  ASSUME Known, NEW r \in Repos, NEW image \in Image, NEW p, NEW o,
         svc[r].at \in Committed, ~GivenUp(r),
         (Go(r, p) /\ o = svc[r].outcome) \/ GoWith(r, p, o),
         runtime' = [runtime EXCEPT ![r] = image],
         UNCHANGED <<fence, phase, backup, outbox, pause>>,
         image \in {Whole(Mine(r)), Partial(Mine(r)), backup[Mine(r)], runtime[r]},
         /\ svc'[r].at = p /\ Mine(r)' = Mine(r) /\ svc'[r].outcome = o
         /\ runtime'[r] = image
         => RunKnows(r)'
  PROVE  OutcomeInv'
<1> DEFINE i == Mine(r)
<1>1. i \in Intents /\ RepoOf[i] = r /\ i # Base
  BY OwnRun, PlaceGroups, IntentAssumption
<1>2. fence.held /\ ~fence.fenced /\ fence.intent = i
  <2>1. svc[r].at \in Locked
    BY DEF Committed, Locked, Activation
  <2> QED BY <2>1, OwnLock
<1>3. Quiet(i) /\ backup[i] # NoImage
  BY DEF Known, RunKnows, ReceiptKnown, ImageKnown
<1>4. OthersWait(r) /\ RunKnows(r)'
  <2>1. runtime'[r] = image
    BY DEF Known, TypeOK
  <2> QED BY <2>1, GoFacts, GoWithFacts DEF Known
<1>5. /\ Whole(i).of = i /\ Whole(i).whole
      /\ Partial(i).of = i /\ NoImage.of = Base
  BY DEF Whole, Partial, NoImage
<1> HIDE DEF i
<1>6. image # NoImage /\ OfOwn(image, r)
  BY <1>1, <1>3, <1>5 DEF Known, RecordsInv, ImagesKnown, OfOwn, i
<1>7. ~image.whole => (fence.held /\ fence.intent = image.of) \/ ToldFenced(image.of)
  BY <1>1, <1>2, <1>3, <1>5 DEF Known, RecordsInv, MixtureTold, i
<1>8. RecordsInv'
  BY <1>2, <1>3, <1>6, <1>7, RuntimeRecords
<1>9. Apart(r)
  BY <1>4 DEF Apart, OthersWait, Known, TypeOK, Like
<1> QED BY <1>4, <1>8, <1>9, ProcessStep

LEMMA CopyStepsOutcome ==
  ASSUME Known, NEW r \in Repos, CopySteps(r)
  PROVE  OutcomeInv'
<1> USE DEF At, journal, Early, Committed, Announced
<1>a. svc[r].at \notin {"idle", "scan"}
  BY DEF CopySteps, RejectArtifact, NothingToDeploy, BackUp, SkipCopy, Prepare, Activate,
         SetPhase, Copy, FinishCopy, Install, CopyFails, FailTo
<1>b. Mine(r) \in Intents /\ RepoOf[Mine(r)] = r
  BY <1>a, OwnRun
<1>c. RunKnows(r)
  BY DEF Known
<1>1. CASE RejectArtifact(r)
  <2>1. svc'[r].at = "unlease" /\ Mine(r)' = Mine(r) /\ svc'[r].outcome = "error" => RunKnows(r)'
    BY <1>1, <1>c
       DEF RejectArtifact, RunKnows, PhaseKnown, ReceiptKnown, OutcomeKnown, ImageKnown,
           LockKnown, GivenUp, Settled
  <2> QED BY <1>1, <2>1, GoOutcome DEF RejectArtifact
<1>2. CASE NothingToDeploy(r)
  <2>1. /\ svc'[r].at = "publish" /\ Mine(r)' = Mine(r) /\ svc'[r].outcome = "nothing-to-deploy"
        => RunKnows(r)'
    BY <1>2, <1>c
       DEF NothingToDeploy, RunKnows, PhaseKnown, ReceiptKnown, OutcomeKnown, ImageKnown,
           LockKnown, GivenUp, Quiet
  <2> QED BY <1>2, <2>1, GoOutcome DEF NothingToDeploy
<1>3. CASE BackUp(r)
  <2>1. OthersWait(r) /\ svc'[r].at = "backed" /\ Mine(r)' = Mine(r)
    BY <1>3, GoFacts DEF BackUp, Known
  <2>2. \A i \in Intents : i # Mine(r) => backup'[i] = backup[i]
    BY <1>3 DEF BackUp, Known, TypeOK
  <2>3. backup'[Mine(r)] # NoImage
    BY <1>3, <1>b DEF BackUp, Known, TypeOK, RecordsInv, ImagesKnown
  <2>4. Apart(r)
    BY <1>3, <1>b, <2>1, <2>2 DEF BackUp, Apart, OthersWait, Like
  <2>5. RunKnows(r)'
    BY <1>3, <1>c, <2>1, <2>3
       DEF BackUp, RunKnows, PhaseKnown, ReceiptKnown, OutcomeKnown, ImageKnown,
           LockKnown, GivenUp, Quiet, Paused
  <2> QED BY <1>3, <2>4, <2>5, BackUpRecords, ProcessStep
<1>4. CASE SkipCopy(r)
  <2>1. svc'[r].at = "copied" /\ Mine(r)' = Mine(r) => RunKnows(r)'
    BY <1>4, <1>c
       DEF SkipCopy, AlreadyCopied, RunKnows, PhaseKnown, ReceiptKnown, OutcomeKnown,
           ImageKnown, LockKnown, GivenUp, Quiet, Paused
  <2> QED BY <1>4, <2>1, GoOutcome DEF SkipCopy
<1>5. ASSUME NEW from \in {"backed", "prepared"}, NEW to \in {"prepared", "activating"},
             SetPhase(r, from, to)
      PROVE  OutcomeInv'
  <2>1. OthersWait(r) /\ svc'[r].at = to /\ Mine(r)' = Mine(r)
    BY <1>5, GoFacts DEF SetPhase, Known
  <2>2. phase'[Mine(r)] = to
    BY <1>5, <1>b DEF SetPhase, Known, TypeOK
  <2>3. svc[r].at = from /\ UNCHANGED <<fence, backup, outbox, pause, runtime>>
    BY <1>5 DEF SetPhase
  <2>4. RunKnows(r)'
    BY <1>c, <2>1, <2>2, <2>3
       DEF RunKnows, PhaseKnown, ReceiptKnown, OutcomeKnown, ImageKnown,
           LockKnown, GivenUp, Quiet, Paused
  <2>5. phase[Mine(r)] \in Open /\ to \notin Settled /\ Mine(r) \notin Empty
    BY <1>c, <2>3 DEF RunKnows, PhaseKnown, ImageKnown, Open, Settled
  <2>6. phase' = [phase EXCEPT ![Mine(r)] = to]
    BY <1>5 DEF SetPhase
  <2> QED BY <1>a, <2>1, <2>3, <2>4, <2>5, <2>6, PhaseOutcome
<1>6. CASE Copy(r)
  <2>1. Partial(Mine(r)) \in Image
    BY <1>b, ImageNames
  <2>2. svc'[r].at = "copying" /\ Mine(r)' = Mine(r) => RunKnows(r)'
    BY <1>6, <1>c
       DEF Copy, Install, RunKnows, PhaseKnown, ReceiptKnown, OutcomeKnown, ImageKnown,
           LockKnown, GivenUp, Quiet, Paused
  <2>3. /\ svc[r].at = "activating" /\ Go(r, "copying")
        /\ runtime' = [runtime EXCEPT ![r] = Partial(Mine(r))]
        /\ UNCHANGED <<fence, phase, backup, outbox, pause>>
    BY <1>6 DEF Copy, Install
  <2>4. svc[r].at \in Committed /\ ~GivenUp(r)
    BY <2>3 DEF GivenUp
  <2> HIDE DEF Committed
  <2> QED BY <2>1, <2>2, <2>3, <2>4, InstallOutcome
<1>7. CASE FinishCopy(r)
  <2>1. Whole(Mine(r)) \in Image
    BY <1>b, ImageNames
  <2>2. /\ svc'[r].at = "copied" /\ Mine(r)' = Mine(r) /\ runtime'[r] = Whole(Mine(r))
        => RunKnows(r)'
    BY <1>7, <1>c
       DEF FinishCopy, Install, RunKnows, PhaseKnown, ReceiptKnown, OutcomeKnown, ImageKnown,
           LockKnown, GivenUp, Quiet, Paused, Whole
  <2>3. /\ svc[r].at = "copying" /\ Go(r, "copied")
        /\ runtime' = [runtime EXCEPT ![r] = Whole(Mine(r))]
        /\ UNCHANGED <<fence, phase, backup, outbox, pause>>
    BY <1>7 DEF FinishCopy, Install
  <2>4. svc[r].at \in Committed /\ ~GivenUp(r)
    BY <2>3 DEF GivenUp
  <2> HIDE DEF Committed
  <2> QED BY <2>1, <2>2, <2>3, <2>4, InstallOutcome
<1>8. CASE CopyFails(r)
  <2>1. svc'[r].at = "rollback" /\ Mine(r)' = Mine(r) => RunKnows(r)'
    BY <1>8, <1>c
       DEF CopyFails, FailTo, RunKnows, PhaseKnown, ReceiptKnown, OutcomeKnown, ImageKnown,
           LockKnown, GivenUp, Quiet, Paused
  <2> QED BY <1>8, <2>1, GoOutcome DEF CopyFails, FailTo
<1> QED BY <1>1, <1>2, <1>3, <1>4, <1>5, <1>6, <1>7, <1>8 DEF CopySteps, Prepare, Activate

LEMMA VerdictStepsOutcome ==
  ASSUME Known, NEW r \in Repos, VerdictSteps(r)
  PROVE  OutcomeInv'
<1> USE DEF At, journal, Early, Committed, Announced
<1>a. svc[r].at \in {"copied", "rollback", "give-up", "retain"}
  BY DEF VerdictSteps, Verify, VerifyFails, ReloadFails, FailTo, Restore, RestoreFails,
         RefuseRollback, Retain
<1>b. Mine(r) \in Intents /\ RepoOf[Mine(r)] = r
  BY <1>a, OwnRun
<1>c. RunKnows(r)
  BY DEF Known
<1>d. backup[Mine(r)] \in Image /\ runtime[r] \in Image /\ Partial(Mine(r)) \in Image
  BY <1>b, ImageNames DEF Known, TypeOK
<1>e. backup[Mine(r)] # Partial(Mine(r))
  BY <1>b DEF Known, RecordsInv, ImagesKnown, Partial
<1>1. CASE Verify(r)
  <2>1. OthersWait(r) /\ svc'[r].at = "publish" /\ Mine(r)' = Mine(r) /\ svc'[r].outcome = "deployed"
    BY <1>1, GoWithFacts DEF Verify, Known
  <2>2. phase'[Mine(r)] = "deployed"
    BY <1>1, <1>b DEF Verify, Known, TypeOK
  <2>3. Whole(Mine(r)) # Partial(Mine(r))
    BY DEF Whole, Partial
  <2>4. svc[r].at = "copied" /\ UNCHANGED <<fence, backup, outbox, pause, runtime>>
    BY <1>1 DEF Verify
  <2>5. RunKnows(r)'
    BY <1>c, <2>1, <2>2, <2>3, <2>4
       DEF RunKnows, PhaseKnown, ReceiptKnown, OutcomeKnown, ImageKnown, LockKnown, GivenUp, Quiet
  <2>6. phase[Mine(r)] \in Open /\ Says(Mine(r), "deployed")
    BY <1>c, <2>4 DEF RunKnows, PhaseKnown, ReceiptKnown, Open, Quiet, Says
  <2>7. phase' = [phase EXCEPT ![Mine(r)] = "deployed"]
    BY <1>1 DEF Verify
  <2> QED BY <1>a, <2>1, <2>4, <2>5, <2>6, <2>7, PhaseOutcome
<1>2. CASE VerifyFails(r)
  <2>1. svc'[r].at = "rollback" /\ Mine(r)' = Mine(r) => RunKnows(r)'
    BY <1>2, <1>c
       DEF VerifyFails, FailTo, RunKnows, PhaseKnown, ReceiptKnown, OutcomeKnown, ImageKnown,
           LockKnown, GivenUp, Quiet, Paused
  <2> QED BY <1>2, <2>1, GoOutcome DEF VerifyFails, FailTo
<1>3. CASE ReloadFails(r)
  <2>1. svc'[r].at = "retain" /\ Mine(r)' = Mine(r) => RunKnows(r)'
    BY <1>3, <1>c
       DEF ReloadFails, FailTo, RunKnows, PhaseKnown, ReceiptKnown, OutcomeKnown, ImageKnown,
           LockKnown, GivenUp, Quiet
  <2> QED BY <1>3, <2>1, GoOutcome DEF ReloadFails, FailTo
<1>4. CASE Restore(r)
  <2>1. /\ svc'[r].at = "pause" /\ Mine(r)' = Mine(r) /\ svc'[r].outcome = "rolled-back"
        /\ runtime'[r] = backup[Mine(r)]
        => RunKnows(r)'
    BY <1>4, <1>c, <1>e
       DEF Restore, RunKnows, PhaseKnown, ReceiptKnown, OutcomeKnown, ImageKnown, LockKnown,
           GivenUp, Quiet
  <2>3. /\ svc[r].at = "rollback" /\ GoWith(r, "pause", "rolled-back")
        /\ runtime' = [runtime EXCEPT ![r] = backup[Mine(r)]]
        /\ UNCHANGED <<fence, phase, backup, outbox, pause>>
    BY <1>4 DEF Restore
  <2>4. svc[r].at \in Committed /\ ~GivenUp(r)
    BY <2>3 DEF GivenUp
  <2> HIDE DEF Committed
  <2> QED BY <1>d, <2>1, <2>3, <2>4, InstallOutcome
<1>5. CASE RestoreFails(r)
  <2>1. PICK image \in {runtime[r], Partial(Mine(r))} : runtime' = [runtime EXCEPT ![r] = image]
    BY <1>5 DEF RestoreFails
  <2>2. svc'[r].at = "give-up" /\ Mine(r)' = Mine(r) /\ svc'[r].outcome = "fenced" => RunKnows(r)'
    BY <1>5, <1>c
       DEF RestoreFails, RunKnows, PhaseKnown, ReceiptKnown, OutcomeKnown, ImageKnown, LockKnown,
           GivenUp, Quiet
  <2>3. /\ svc[r].at = "rollback" /\ GoWith(r, "give-up", "fenced")
        /\ UNCHANGED <<fence, phase, backup, outbox, pause>>
    BY <1>5 DEF RestoreFails
  <2>4. svc[r].at \in Committed /\ ~GivenUp(r)
    BY <2>3 DEF GivenUp
  <2> HIDE DEF Committed
  <2> QED BY <1>d, <2>1, <2>2, <2>3, <2>4, InstallOutcome
<1>6. CASE RefuseRollback(r)
  <2>1. svc'[r].at = "give-up" /\ Mine(r)' = Mine(r) /\ svc'[r].outcome = "fenced" => RunKnows(r)'
    BY <1>6, <1>c
       DEF RefuseRollback, RunKnows, PhaseKnown, ReceiptKnown, OutcomeKnown, ImageKnown,
           LockKnown, GivenUp, Quiet
  <2> QED BY <1>6, <2>1, GoOutcome DEF RefuseRollback
<1>7. CASE Retain(r)
  <2>1. svc[r].at \in {"give-up", "retain"} /\ svc[r].outcome = "fenced"
    BY <1>7 DEF Retain, Known, Strengthening, Consistent
  <2>2. OthersWait(r) /\ svc'[r].at \in {"pause", "publish"} /\ Mine(r)' = Mine(r)
        /\ svc'[r].outcome = "fenced"
    BY <1>7, <2>1, GoFacts DEF Retain, Known
  <2>3. fence.held /\ fence.intent = Mine(r)
    BY <2>1, OwnLock DEF GivenUp, Locked, Activation
  <2>4. fence'.held /\ fence'.fenced /\ fence'.intent = fence.intent
    BY <1>7 DEF Retain, Known, TypeOK, Fence
  <2>5. UNCHANGED <<phase, backup, outbox, pause, runtime>>
    BY <1>7 DEF Retain
  <2>6. RecordsInv'
    BY <2>4, <2>5, FenceRecords
  <2>7. Apart(r)
    BY <1>b, <2>2, <2>3, <2>4, <2>5 DEF Apart, OthersWait, Like
  <2>8. RunKnows(r)'
    BY <1>c, <2>1, <2>2, <2>4, <2>5
       DEF RunKnows, PhaseKnown, ReceiptKnown, OutcomeKnown, ImageKnown, LockKnown, GivenUp,
           Quiet, Open
  <2> QED BY <2>6, <2>7, <2>8, ProcessStep
<1> QED BY <1>1, <1>2, <1>3, <1>4, <1>5, <1>6, <1>7 DEF VerdictSteps

\* The acknowledgement of the run's own receipts.
LEMMA NotifySame ==
  ASSUME Known, NEW r \in Repos, NEW acked, Notify(r, acked)
  PROVE  SameReceipts
<1> DEFINE Acked(x) == IF acked /\ x \in Receipts(Mine(r)) THEN [x EXCEPT !.acked = TRUE] ELSE x
<1>1. outbox' = {Acked(x) : x \in outbox}
  BY DEF Notify
<1>2. ASSUME NEW x \in outbox PROVE Like(x, Acked(x))
  BY DEF Known, TypeOK, Receipt, Like
<1> HIDE DEF Acked
<1>3. \A y \in outbox' : \E x \in outbox : y = Acked(x) /\ Like(x, y)
  BY <1>1, <1>2
<1>4. \A x \in outbox : \E y \in outbox' : Like(x, y)
  BY <1>1, <1>2
<1>5. ASSUME NEW y \in outbox', NEW z \in outbox', y.intent = z.intent PROVE y = z
  <2>1. PICK u \in outbox : y = Acked(u) /\ Like(u, y)
    BY <1>3
  <2>2. PICK v \in outbox : z = Acked(v) /\ Like(v, z)
    BY <1>3
  <2>3. u = v
    BY <1>5, <2>1, <2>2 DEF Like, Known, RecordsInv, OneOutcome
  <2> QED BY <2>1, <2>2, <2>3
<1> QED BY <1>3, <1>4, <1>5 DEF SameReceipts

\* A run past its announcement goes on with what it announced.
LEMMA AnnouncedGoes ==
  ASSUME Known, NEW r \in Repos,
         svc[r].at \in {"settle", "clear", "unlease"}, svc'[r].at \in {"clear", "unlease", "unlock"},
         Mine(r)' = Mine(r), svc'[r].outcome = svc[r].outcome,
         UNCHANGED <<backup, outbox, runtime>>,
         svc[r].outcome \in Settled => phase'[Mine(r)] \in Open \cup {svc[r].outcome}
  PROVE  RunKnows(r)'
  BY DEF Known, RunKnows, PhaseKnown, ReceiptKnown, OutcomeKnown, ImageKnown, LockKnown,
         GivenUp, Early, Committed, Announced, Says

LEMMA ClosingStepsOutcome ==
  ASSUME Known, NEW r \in Repos, ClosingSteps(r)
  PROVE  OutcomeInv'
<1> USE DEF At, journal
<1>a. svc[r].at \in {"pause", "publish", "notify", "settle", "clear", "unlease", "unlock"}
  BY DEF ClosingSteps, PauseForRepair, Publish, NotifyFails, Notify, Settle, Clear, Unlease, Unlock
<1>b. Mine(r) \in Intents /\ RepoOf[Mine(r)] = r
  BY <1>a, OwnRun
<1>c. RunKnows(r)
  BY DEF Known
<1>d. svc[r].at \in {"pause", "publish", "notify", "settle", "clear"} => svc[r].outcome \in Settled
  BY DEF Known, Strengthening, Consistent
<1>1. CASE PauseForRepair(r)
  <2>1. OthersWait(r) /\ svc'[r].at = "publish" /\ Mine(r)' = Mine(r)
        /\ svc'[r].outcome = svc[r].outcome
    BY <1>1, GoFacts DEF PauseForRepair, Known
  <2>2. \A q \in Repos \ {r} : pause'[q] = pause[q]
    BY <1>1 DEF PauseForRepair, Known, TypeOK
  <2>3. svc[r].at = "pause" /\ UNCHANGED <<fence, phase, backup, outbox, runtime>>
    BY <1>1 DEF PauseForRepair
  <2>4. RunKnows(r)'
    BY <1>c, <2>1, <2>3
       DEF RunKnows, PhaseKnown, ReceiptKnown, OutcomeKnown, ImageKnown, LockKnown, GivenUp,
           Early, Committed, Announced, Quiet, Open
  <2> QED BY <2>1, <2>2, <2>3, <2>4, LocalOutcome
<1>2. CASE Publish(r)
  <2> DEFINE new == [id |-> "receipt", intent |-> Mine(r), kind |-> svc[r].outcome, acked |-> FALSE]
  <2>1. OthersWait(r) /\ svc'[r].at = "notify" /\ Mine(r)' = Mine(r)
        /\ svc'[r].outcome = svc[r].outcome
    BY <1>2, GoFacts DEF Publish, Known
  <2>2. /\ svc[r].at = "publish" /\ outbox' = outbox \cup {new}
        /\ UNCHANGED <<fence, phase, backup, pause, runtime>>
    BY <1>2 DEF Publish
  <2>3. new.intent = Mine(r) /\ new.kind = svc[r].outcome
    OBVIOUS
  <2> HIDE DEF new
  <2>4. Apart(r)
    BY <1>b, <2>1, <2>2, <2>3 DEF Apart, OthersWait, Like
  <2>5. \A x \in outbox' : x.intent = Mine(r) => x.kind = svc[r].outcome
    BY <1>c, <2>2, <2>3 DEF RunKnows, ReceiptKnown, Quiet
  <2>6. RunKnows(r)'
    BY <1>c, <2>1, <2>2, <2>5
       DEF RunKnows, PhaseKnown, ReceiptKnown, OutcomeKnown, ImageKnown, LockKnown, GivenUp,
           Early, Committed, Announced, Says
  <2> QED BY <1>2, <2>4, <2>6, PublishRecords, ProcessStep
<1>3. CASE NotifyFails(r)
  <2>1. CASE svc[r].outcome = "fenced"
    BY <1>3, <2>1, EndOutcome DEF NotifyFails
  <2>2. CASE svc[r].outcome # "fenced"
    <3>1. svc'[r].at = "unlease" /\ Mine(r)' = Mine(r) /\ svc'[r].outcome = "error" => RunKnows(r)'
      BY <1>3, <2>2, <1>c
         DEF NotifyFails, RunKnows, PhaseKnown, ReceiptKnown, OutcomeKnown, ImageKnown, LockKnown,
             GivenUp, Early, Committed, Announced, Settled
    <3> QED BY <1>3, <2>2, <3>1, GoOutcome DEF NotifyFails
  <2> QED BY <2>1, <2>2
<1>4. ASSUME NEW acked \in BOOLEAN, Notify(r, acked) PROVE OutcomeInv'
  <2>1. /\ OthersWait(r) /\ Mine(r)' = Mine(r) /\ svc'[r].outcome = svc[r].outcome
        /\ svc'[r].at = IF svc[r].outcome = "fenced" THEN "result" ELSE "settle"
    BY <1>4, GoFacts DEF Notify, Known
  <2>2. svc[r].at = "notify" /\ UNCHANGED <<fence, phase, backup, pause, runtime>>
    BY <1>4 DEF Notify
  <2>3. SameReceipts
    BY <1>4, NotifySame
  <2>4. RecordsInv'
    BY <2>2, <2>3, PhasesRecords
  <2>5. Apart(r)
    BY <2>1, <2>2, <2>3 DEF Apart, OthersWait, SameReceipts
  <2>6. \A x \in outbox' : x.intent = Mine(r) => x.kind = svc[r].outcome
    <3>1. Says(Mine(r), svc[r].outcome)
      BY <1>c, <1>d, <2>2 DEF RunKnows, ReceiptKnown, Announced
    <3> QED BY <2>3, <3>1, SaysKept
  <2>7. RunKnows(r)'
    BY <1>c, <2>1, <2>2, <2>6
       DEF RunKnows, PhaseKnown, ReceiptKnown, OutcomeKnown, ImageKnown, LockKnown, GivenUp,
           Early, Committed, Announced, Says
  <2> QED BY <2>4, <2>5, <2>7, ProcessStep
<1>5. CASE Settle(r)
  <2>1. /\ OthersWait(r) /\ Mine(r)' = Mine(r) /\ svc'[r].outcome = svc[r].outcome
        /\ svc'[r].at \in {"unlease", "clear"}
    BY <1>5, GoFacts DEF Settle, Known
  <2>2. svc[r].at = "settle" /\ UNCHANGED <<fence, backup, outbox, pause, runtime>>
    BY <1>5 DEF Settle
  <2>3. phase' = [phase EXCEPT ![Mine(r)] = svc[r].outcome]
    BY <1>5 DEF Settle
  <2>4. phase'[Mine(r)] = svc[r].outcome
    BY <1>b, <2>3 DEF Known, TypeOK
  <2>5. RunKnows(r)'
    BY <2>1, <2>2, <2>4, AnnouncedGoes
  <2>6. phase[Mine(r)] \in Open \cup {svc[r].outcome} /\ Says(Mine(r), svc[r].outcome)
    BY <1>c, <1>d, <2>2 DEF RunKnows, PhaseKnown, ReceiptKnown, Announced
  <2>7. svc[r].outcome \notin {"prepared", "activating"} /\ svc[r].at \notin {"idle", "scan"}
    BY <1>d, <2>2 DEF Settled
  <2> QED BY <2>1, <2>2, <2>3, <2>5, <2>6, <2>7, PhaseOutcome
<1>6. CASE Clear(r) \/ Unlease(r)
  <2>1. /\ OthersWait(r) /\ Mine(r)' = Mine(r) /\ svc'[r].outcome = svc[r].outcome
        /\ svc'[r].at \in {"unlease", "unlock"}
    BY <1>6, GoFacts DEF Clear, Unlease, Known
  <2>2. /\ svc[r].at \in {"clear", "unlease"}
        /\ UNCHANGED <<fence, phase, backup, outbox, runtime>>
    BY <1>6 DEF Clear, Unlease
  <2>3. \A q \in Repos \ {r} : pause'[q] = pause[q]
    BY <1>6 DEF Clear, ClearPause, Unlease, Known, TypeOK
  <2>4. svc[r].outcome \in Settled => phase[Mine(r)] \in Open \cup {svc[r].outcome}
    BY <1>c, <2>2 DEF RunKnows, PhaseKnown, Announced
  <2>5. RunKnows(r)'
    BY <2>1, <2>2, <2>4, AnnouncedGoes
  <2> QED BY <2>1, <2>2, <2>3, <2>5, LocalOutcome
<1>7. CASE Unlock(r)
  BY <1>7, FreeOutcome DEF Unlock
<1> QED BY <1>1, <1>2, <1>3, <1>4, <1>5, <1>6, <1>7 DEF ClosingSteps

\* The operator frees the lock of a release that is installed whole.
LEMMA RecoverOutcome ==
  ASSUME Known, Recover
  PROVE  OutcomeInv'
<1> DEFINE i == fence.intent
<1>1. UNCHANGED <<phase, backup, outbox, pause, runtime, svc>> /\ ~fence'.held
  BY DEF Recover, FreeFence, Known, TypeOK, Fence
<1>2. runtime[RepoOf[i]] = Whole(i)
  BY DEF Recover
<1>3. ASSUME NEW q \in Repos, runtime[q].of = i PROVE runtime[q].whole
  <2>1. CASE i = Base
    BY <1>3, <2>1 DEF Known, RecordsInv, ImagesKnown, TypeOK, Image, NoImage
  <2>2. CASE i # Base
    BY <1>2, <1>3, <2>2 DEF Known, RecordsInv, ImagesKnown, OfOwn, Whole
  <2> QED BY <2>1, <2>2
<1>4. RecordsInv'
  BY <1>1, <1>3, FenceRecords
<1>5. ASSUME NEW q \in Repos PROVE RunKnows(q)'
  BY <1>1 DEF Known, RunKnows, PhaseKnown, ReceiptKnown, OutcomeKnown, ImageKnown, LockKnown,
              Mine, Quiet, Says, Paused, GivenUp
<1> QED BY <1>4, <1>5 DEF OutcomeInv, RecordsInv

LEMMA CrashOutcome ==
  ASSUME Known, NEW r \in Repos, Crash(r)
  PROVE  OutcomeInv'
  BY EndOutcome DEF Crash, journal

LEMMA NextOutcome ==
  ASSUME Known, [Next]_vars
  PROVE  OutcomeInv'
<1>1. ASSUME NEW r \in Repos, Restart(r) \/ Tick(r) \/ Approach(r) \/ Run(r)
      PROVE  OutcomeInv'
  BY <1>1, RestartOutcome, TickOutcome, ApproachOutcome, RunSteps, CopyStepsOutcome,
     VerdictStepsOutcome, ClosingStepsOutcome
<1>2. ASSUME NEW r \in Repos, BeginDrain(r) \/ CompleteOwnerChange(r) PROVE OutcomeInv'
  BY <1>2, StillOutcome DEF BeginDrain, CompleteOwnerChange
<1>3. ASSUME NEW r \in Repos, Crash(r) PROVE OutcomeInv'
  BY <1>3, CrashOutcome
<1>4. CASE Recover
  BY <1>4, RecoverOutcome
<1>5. CASE UNCHANGED vars
  BY <1>5, StillOutcome DEF vars, journal
<1> QED BY <1>1, <1>2, <1>3, <1>4, <1>5 DEF Next

-----------------------------------------------------------------------------
(* The theorems about what is announced and what is installed.               *)

LEMMA KnownInv ==
  ASSUME DeployInv, DeployInv', OutcomeInv
  PROVE  Known
  BY StrengtheningIs DEF DeployInv, OutcomeInv, Known, RecordsInv

\* The receipts, the phases, the backups, what is installed and what each run
\* knows of them agree after any interleaving of ticks, failures, crashes,
\* reconciliations and recoveries.
THEOREM OutcomeInvariant == Spec => []OutcomeInv
<1>1. Init => OutcomeInv
  BY InitRecords
<1>2. DeployInv /\ DeployInv' /\ OutcomeInv /\ [Next]_vars => OutcomeInv'
  BY KnownInv, NextOutcome
<1> QED BY <1>1, <1>2, DeployInvariant, PTL DEF Spec

\* A release has at most one receipt, and the phase it is settled in is the one
\* that was announced: no crash between the outbox and the phase, and no restart,
\* announces a second outcome (executor.ts publishReceipt, recovery.ts).
THEOREM OutcomesAnnouncedOnce == Spec => []OneOutcome
<1>1. OutcomeInv => OneOutcome
  BY DEF OutcomeInv
<1> QED BY <1>1, OutcomeInvariant, PTL

\* A repository that runs a mixture of two releases still has the lock, or its
\* operator has been told.
THEOREM MixturesKnown == Spec => []MixtureIsKnown
<1>1. DeployInv /\ OutcomeInv => MixtureIsKnown
  <2> SUFFICES ASSUME DeployInv, OutcomeInv, NEW r \in Repos, ~runtime[r].whole
               PROVE  \/ fence.held /\ RepoOf[fence.intent] = r
                      \/ \E x \in outbox : x.intent = runtime[r].of /\ x.kind = "fenced"
    BY DEF MixtureIsKnown
  <2>1. runtime[r] \in Image /\ runtime[r] # NoImage /\ OfOwn(runtime[r], r)
    BY DEF DeployInv, TypeOK, OutcomeInv, ImagesKnown
  <2>2. RepoOf[runtime[r].of] = r
    BY <2>1 DEF Image, NoImage, OfOwn
  <2> QED BY <2>2 DEF OutcomeInv, MixtureTold, ToldFenced
<1> QED BY <1>1, DeployInvariant, OutcomeInvariant, PTL

-----------------------------------------------------------------------------
(* What a step may never do.                                                 *)

\* The steps that change a runtime.
LEMMA RuntimeChanges ==
  ASSUME Known, Next, NEW r \in Repos, runtime'[r] # runtime[r]
  PROVE  svc[r].at \in {"activating", "copying", "rollback"}
<1>0. \/ UNCHANGED runtime
      \/ \E q \in Repos : Copy(q) \/ FinishCopy(q) \/ Restore(q) \/ RestoreFails(q)
  <2>1. ASSUME NEW q \in Repos, Restart(q) \/ Tick(q) \/ Approach(q) PROVE UNCHANGED runtime
    BY <2>1
       DEF Restart, BeginTick, FinishRestart, FenceRestart, Conclude,
           Tick, Resend, Refuse, Execute, EndTick, AbortTick, TakeResult,
           Approach, NotOwned, Replay, ReplayFails, Peek, Unpeek, Busy, Lock, OutOfOrder,
           Lease, Leased, LeaseRefused
  <2>2. ASSUME NEW q \in Repos, Run(q)
        PROVE  UNCHANGED runtime \/ Copy(q) \/ FinishCopy(q) \/ Restore(q) \/ RestoreFails(q)
    BY <2>2
       DEF Run, RejectArtifact, NothingToDeploy, BackUp, SkipCopy, Prepare, Activate, SetPhase,
           CopyFails, FailTo, Verify, VerifyFails, ReloadFails, RefuseRollback, Retain,
           PauseForRepair, Publish, NotifyFails, Notify, Settle, Clear, Unlease, Unlock
  <2> QED BY <2>1, <2>2 DEF Next, BeginDrain, CompleteOwnerChange, Crash, Recover
<1>1. PICK q \in Repos : Copy(q) \/ FinishCopy(q) \/ Restore(q) \/ RestoreFails(q)
  BY <1>0
<1>2. \A p \in Repos \ {q} : runtime'[p] = runtime[p]
  BY <1>1 DEF Copy, FinishCopy, Install, Restore, RestoreFails, Known, TypeOK
<1>3. q = r
  BY <1>2
<1> QED BY <1>1, <1>3 DEF Copy, FinishCopy, Install, Restore, RestoreFails, At

\* A runtime changes only in a repository that is not paused, or for the repair it
\* is paused for (executor.ts, the check of the pause before the lock).
THEOREM PausesHold == Spec => PauseHolds
<1>1. ASSUME Known, [Next]_vars
      PROVE  [\A r \in Repos : runtime'[r] # runtime[r] =>
                pause[r] \in {NoRepair, RepairFor[Mine(r)]}]_vars
  <2>1. ASSUME Next, NEW r \in Repos, runtime'[r] # runtime[r]
        PROVE  pause[r] \in {NoRepair, RepairFor[Mine(r)]}
    <3>1. svc[r].at \in {"activating", "copying", "rollback"}
      BY <1>1, <2>1, RuntimeChanges
    <3> QED BY <1>1, <3>1 DEF Known, RunKnows, LockKnown, Paused
  <2> QED BY <1>1, <2>1
<1>2. DeployInv /\ DeployInv' /\ OutcomeInv => Known
  BY KnownInv
<1> QED BY <1>1, <1>2, DeployInvariant, OutcomeInvariant, PTL DEF Spec, PauseHolds

\* Once the outcome of a release is announced or settled its files are not copied
\* again: a restart duplicates no deployment.
THEOREM CopiesEnd == Spec => NoCopyAfterOutcome
<1> DEFINE Right(r) ==
             LET i == Mine(r) IN
             runtime'[r] # runtime[r] /\ runtime'[r].of = i =>
               phase[i] \in {"prepared", "activating"} /\ \A x \in outbox : x.intent # i
<1>1. ASSUME Known, [Next]_vars
      PROVE  [\A r \in Repos : Right(r)]_vars
  <2>1. ASSUME Next, NEW r \in Repos, runtime'[r] # runtime[r]
        PROVE  /\ phase[Mine(r)] \in {"prepared", "activating"}
               /\ \A x \in outbox : x.intent # Mine(r)
    <3>1. svc[r].at \in {"activating", "copying", "rollback"}
      BY <1>1, <2>1, RuntimeChanges
    <3>2. svc[r].at \in Committed
      BY <3>1 DEF Committed
    <3> QED BY <1>1, <3>2 DEF Known, RunKnows, PhaseKnown, ReceiptKnown, Quiet
  <2> QED BY <1>1, <2>1
<1>2. DeployInv /\ DeployInv' /\ OutcomeInv => Known
  BY KnownInv
<1> QED BY <1>1, <1>2, DeployInvariant, OutcomeInvariant, PTL DEF Spec, NoCopyAfterOutcome

\* The steps that announce an outcome.
LEMMA NewReceipts ==
  ASSUME Known, Next, NEW x \in outbox', x \notin outbox, ~x.acked
  PROVE  \/ \E r \in Repos : Publish(r)
         \/ \E r \in Repos : FinishRestart(r) \/ FenceRestart(r)
<1>1. \/ UNCHANGED outbox
      \/ \E r \in Repos :
           \/ Publish(r) \/ FinishRestart(r) \/ FenceRestart(r)
           \/ \E y \in outbox : Resend(r, y)
           \/ \E acked \in BOOLEAN : Replay(r, acked)
           \/ \E acked \in BOOLEAN : Notify(r, acked)
  <2>1. ASSUME NEW r \in Repos, Restart(r) \/ Tick(r)
        PROVE  \/ UNCHANGED outbox \/ FinishRestart(r) \/ FenceRestart(r)
               \/ \E y \in outbox : Resend(r, y)
    BY <2>1 DEF Restart, BeginTick, Tick, Refuse, Execute, EndTick, AbortTick, TakeResult, journal
  <2>2. ASSUME NEW r \in Repos, Approach(r)
        PROVE  UNCHANGED outbox \/ \E acked \in BOOLEAN : Replay(r, acked)
    BY <2>2 DEF Approach, NotOwned, ReplayFails, Peek, Unpeek, Busy, Lock, OutOfOrder,
                Lease, Leased, LeaseRefused, journal
  <2>3. ASSUME NEW r \in Repos, Run(r)
        PROVE  UNCHANGED outbox \/ Publish(r) \/ \E acked \in BOOLEAN : Notify(r, acked)
    BY <2>3
       DEF Run, RejectArtifact, NothingToDeploy, BackUp, SkipCopy, Prepare, Activate, SetPhase,
           Copy, FinishCopy, Install, Restore, RestoreFails, CopyFails, FailTo, Verify,
           VerifyFails, ReloadFails, RefuseRollback, Retain, PauseForRepair, NotifyFails,
           Settle, Clear, Unlease, Unlock, journal
  <2> QED BY <2>1, <2>2, <2>3
          DEF Next, BeginDrain, CompleteOwnerChange, Crash, Recover, journal
<1>2. \A y \in outbox : y \in Receipt /\ y.acked \in BOOLEAN
  BY DEF Known, TypeOK, Receipt
<1>3. ASSUME NEW y \in outbox, NEW a \in BOOLEAN
      PROVE  [y EXCEPT !.acked = a].acked = a /\ (y.acked = a => [y EXCEPT !.acked = a] = y)
  BY <1>2, <1>3 DEF Receipt
<1>4. ASSUME NEW r \in Repos, NEW y \in outbox, Resend(r, y) PROVE FALSE
  <2>1. x = [y EXCEPT !.acked = TRUE]
    BY <1>4 DEF Resend
  <2> QED BY <1>3, <2>1
<1>5. ASSUME NEW r \in Repos, NEW acked \in BOOLEAN, Replay(r, acked) PROVE FALSE
  <2>1. PICK y \in Receipts(Mine(r)) :
          outbox' = (outbox \ {y}) \cup {[y EXCEPT !.acked = @ \/ acked]}
    BY <1>5 DEF Replay
  <2>2. y \in outbox /\ (y.acked \/ acked) \in BOOLEAN
    BY <1>2 DEF Receipts
  <2>3. x = [y EXCEPT !.acked = y.acked \/ acked]
    BY <2>1
  <2>4. x.acked = (y.acked \/ acked)
    BY <1>3, <2>2, <2>3
  <2>5. y.acked = (y.acked \/ acked)
    BY <1>2, <2>2, <2>4
  <2> QED BY <1>3, <2>2, <2>3, <2>5
<1>6. ASSUME NEW r \in Repos, NEW acked \in BOOLEAN, Notify(r, acked) PROVE FALSE
  <2>1. PICK y \in outbox : x = y \/ x = [y EXCEPT !.acked = TRUE]
    BY <1>6 DEF Notify
  <2> QED BY ZenonT(30), <1>3, <2>1
<1> QED BY <1>1, <1>4, <1>5, <1>6

\* A release announced as deployed is installed whole, and one announced as rolled
\* back has given way to its backup, at the step that announces it.
THEOREM AnnouncementsAreTrue == Spec => AnnouncedIsTrue
<1> DEFINE True(x) == LET image == runtime'[RepoOf[x.intent]] IN
                      /\ x.kind = "deployed" => image = Whole(x.intent)
                      /\ x.kind = "rolled-back" => image = backup[x.intent]
<1>1. ASSUME Known, [Next]_vars
      PROVE  [\A x \in outbox' \ outbox : ~x.acked => True(x)]_vars
  <2>1. ASSUME Next, NEW x \in outbox', x \notin outbox, ~x.acked PROVE True(x)
    <3>1. ASSUME NEW r \in Repos, Publish(r) PROVE True(x)
      <4>1. x.intent = Mine(r) /\ x.kind = svc[r].outcome /\ runtime' = runtime
        BY <2>1, <3>1 DEF Publish
      <4>2. svc[r].at = "publish" /\ RepoOf[Mine(r)] = r
        BY <1>1, <3>1, OwnRun DEF Publish, At
      <4>3. OutcomeKnown(r)
        BY <1>1 DEF Known, RunKnows
      <4> QED BY <4>1, <4>2, <4>3 DEF OutcomeKnown
    <3>2. ASSUME NEW r \in Repos, FinishRestart(r) \/ FenceRestart(r) PROVE True(x)
      <4>1. fence.intent \in Intents /\ RepoOf[fence.intent] = r
        BY <1>1, <3>2, ReconcilableIntent DEF FinishRestart, FenceRestart, ReconcileStarts, Known
      <4>2. PICK kind \in Settled :
              /\ Conclude(fence.intent, kind)
              /\ kind = "deployed" => runtime[r] = Whole(fence.intent)
              /\ kind = "rolled-back" => runtime[r] = backup[fence.intent]
        BY <3>2 DEF FinishRestart, FenceRestart, Settled
      <4>3. x.intent = fence.intent /\ x.kind = kind /\ runtime' = runtime
        BY <2>1, <4>2 DEF Conclude
      <4> QED BY <4>1, <4>2, <4>3
    <3> QED BY <1>1, <2>1, <3>1, <3>2, NewReceipts
  <2> QED BY <1>1, <2>1
<1>2. DeployInv /\ DeployInv' /\ OutcomeInv => Known
  BY KnownInv
<1> QED BY <1>1, <1>2, DeployInvariant, OutcomeInvariant, PTL DEF Spec, AnnouncedIsTrue

\* The steps that change a phase.
LEMMA SettledStays ==
  ASSUME Known, Next, NEW i \in Intents, phase[i] \in Settled
  PROVE  phase'[i] = phase[i]
<1>1. Settled \cap (Open \cup {"none", "prepared", "activating"}) = {}
  BY DEF Settled, Open
<1>2. ASSUME NEW r \in Repos, FinishRestart(r) \/ FenceRestart(r) PROVE phase'[i] = phase[i]
  <2>1. phase[fence.intent] \in {"prepared", "activating"}
    BY <1>2 DEF FinishRestart, FenceRestart, ReconcileStarts, Reconcilable
  <2> QED BY <1>1, <1>2, <2>1 DEF FinishRestart, FenceRestart, Conclude, Known, TypeOK
<1>3. ASSUME NEW r \in Repos, NEW j \in Intents, Execute(r, j) PROVE phase'[i] = phase[i]
  BY <1>1, <1>3 DEF Execute, Known, TypeOK
<1>4. ASSUME NEW r \in Repos, NEW to, phase' = [phase EXCEPT ![Mine(r)] = to],
             to = phase[Mine(r)] \/ phase[Mine(r)] \in Open \cup {"prepared", "activating"}
      PROVE  phase'[i] = phase[i]
  BY <1>1, <1>4 DEF Known, TypeOK
<1>5. ASSUME NEW r \in Repos, TakeResult(r) \/ Settle(r) PROVE phase'[i] = phase[i]
  <2>1. svc[r].outcome \in Settled /\ svc[r].at \in Announced
    BY <1>5 DEF TakeResult, Settle, At, Known, Strengthening, Consistent, Announced
  <2>2. phase[Mine(r)] \in Open \cup {svc[r].outcome}
    BY <2>1 DEF Known, RunKnows, PhaseKnown
  <2> QED BY <1>4, <1>5, <2>2 DEF TakeResult, Settle
<1>6. ASSUME NEW r \in Repos, NEW acked \in BOOLEAN, Replay(r, acked) PROVE phase'[i] = phase[i]
  <2>1. phase[Mine(r)] \in Open
    BY <1>6 DEF Replay, Begins, At, Known, RunKnows, PhaseKnown
  <2>2. PICK to : phase' = [phase EXCEPT ![Mine(r)] = to]
    BY <1>6 DEF Replay
  <2> QED BY <1>4, <2>1, <2>2
<1>7. ASSUME NEW r \in Repos, Prepare(r) \/ Activate(r) \/ Verify(r) PROVE phase'[i] = phase[i]
  <2>1. svc[r].at \in {"backed", "prepared", "copied"}
    BY <1>7 DEF Prepare, Activate, SetPhase, Verify, At
  <2>2. phase[Mine(r)] \in Open \cup {"prepared", "activating"}
    BY <2>1 DEF Known, RunKnows, PhaseKnown, Early, Committed
  <2> QED BY <1>4, <1>7, <2>2 DEF Prepare, Activate, SetPhase, Verify
<1>8. ASSUME NEW r \in Repos, Restart(r) \/ Tick(r) PROVE phase'[i] = phase[i]
  <2>1. UNCHANGED phase \/ FinishRestart(r) \/ FenceRestart(r) \/ TakeResult(r)
        \/ \E j \in Intents : Execute(r, j)
    BY <1>8 DEF Restart, BeginTick, Tick, Resend, Refuse, EndTick, AbortTick, journal
  <2> QED BY <1>2, <1>3, <1>5, <2>1
<1>9. ASSUME NEW r \in Repos, Approach(r) PROVE phase'[i] = phase[i]
  <2>1. UNCHANGED phase \/ \E acked \in BOOLEAN : Replay(r, acked)
    BY <1>9 DEF Approach, NotOwned, ReplayFails, Peek, Unpeek, Busy, Lock, OutOfOrder,
       Lease, Leased, LeaseRefused, journal
  <2> QED BY <1>6, <2>1
<1>10. ASSUME NEW r \in Repos, Run(r) PROVE phase'[i] = phase[i]
  <2>1. UNCHANGED phase \/ Prepare(r) \/ Activate(r) \/ Verify(r) \/ Settle(r)
    BY <1>10 DEF Run, Leased, RejectArtifact, NothingToDeploy,
       BackUp, SkipCopy, Copy, FinishCopy, Install, Restore, RestoreFails, CopyFails, FailTo,
       VerifyFails, ReloadFails, RefuseRollback, Retain, PauseForRepair, Publish, Notify,
       NotifyFails, Clear, Unlease, Unlock, journal
  <2> QED BY <1>5, <1>7, <2>1
<1>11. ASSUME NEW r \in Repos, BeginDrain(r) \/ CompleteOwnerChange(r) \/ Crash(r)
       PROVE  phase' = phase
  BY <1>11 DEF BeginDrain, CompleteOwnerChange, Crash, journal
<1>12. Recover => phase' = phase
  BY DEF Recover, journal
<1> QED BY <1>8, <1>9, <1>10, <1>11, <1>12 DEF Next

\* A settled release stays as it was settled, whoever executes, replays or
\* reconciles it.
THEOREM SettledReleasesStay == Spec => SettledIsFinal
<1>1. ASSUME Known, [Next]_vars
      PROVE  [\A i \in Intents : phase[i] \in Settled => phase'[i] = phase[i]]_vars
  BY <1>1, SettledStays
<1>2. DeployInv /\ DeployInv' /\ OutcomeInv => Known
  BY KnownInv
<1> QED BY <1>1, <1>2, DeployInvariant, OutcomeInvariant, PTL DEF Spec, SettledIsFinal
=============================================================================
