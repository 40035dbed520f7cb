# A TLA+ verification of WakeWire

WakeWire is a local daemon that turns events of the outside world (GitHub, Slack, Gmail, any
webhook) into turns of a coding agent's thread, together with the pieces that let two agents
review, merge and deploy a repository. This directory holds TLA+ models of that code, the TLC
configurations that check them and proofs that TLAPS checks. Source paths below are relative to
the repository's `src/` directory unless they start with `docs/`.

## Inventory

| Part | State it keeps | Operations | How it interacts | What is hard |
|---|---|---|---|---|
| Delivery queue: `core/queue.ts`, `db/repos.ts` | `deliveries` and `routes` tables; in memory `inFlight`, `ticking`, the running pass | enqueue, replay, tick, digest, answer, start, stop | called by every source's `emit` and by the API; calls one agent adapter per delivery | passes interleave with enqueues and late answers; a crash between commits; retries and backoff |
| Router and templates: `core/router.ts`, `route.ts`, `envelope.ts`, `template.ts` | none | match an event to the enabled routes, render the prompt | between a source and the queue | matching rules and their precedence |
| Sources: `sources/*`, `daemon/sources.ts`, `daemon/github-ingress.ts` | Gmail's UID watermark, live instances, Slack name caches | connect, fetch, verify, acknowledge, restart | push events into the queue through `emit` | redelivery, reconnects, watermark against enqueue, concurrent restarts |
| Sinks: `sinks/*` | JSON-RPC requests and turn waiters; `desktop_receipts`; the current connector generation | deliver a turn, probe, refresh, close | called by the queue | a lost answer after the turn was accepted; time-outs; notifications for another turn |
| Process ownership: `exclusive-ownership.ts` | a lock file and its takeover file | acquire, take over from a dead process, release | the daemon and the desktop registration | several processes and crashes between file operations |
| Deployment: `deploy/service.ts`, `executor.ts`, `recovery.ts`, `journal.ts`, `fence.ts` | the deployment journal (intents, fence, leases, owners, outbox, pauses, backups) and the runtime itself | tick, execute, roll back, reconcile after a restart, recover, change owner | one process per repository over one journal, plus the operator's command line | crashes between commits, a single lock for all repositories, outcomes announced exactly once |
| Release decisions: `deploy/candidate.ts`, `reconcile.ts`, `genesis.ts`, `registry.ts`, `lanes.ts` | rows of the journal | is a candidate ready; is a merge an intent or a refusal | input of the deployment tick | stale evidence |
| Review host: `deploy/t3.ts`, `broker.ts` | wake claims | wake a lane, accept a verdict | two threads per lane | a claim, a delivery and a mark in three commits |
| Coordination: `coordination/*` | none of its own | read a snapshot of a pull request, decide, wake | an adapter around the desktop sink | snapshots that change while they are read |
| Pre-push: `prepush/*` | a candidate directory with a journal | fetch, verify in a container, push, read back | a remote branch that others move | the last check before the push, a push whose answer is lost |
| API, command line, MCP server, client, configuration, secrets | none beyond the stores | read and change routes, sources and deliveries | over the daemon's socket | nothing a model checker would reach |

`video/`, `scripts/`, `recipes/`, `plugin/` and `docs/` hold a video, demos, examples and prose.

What would make the modelled parts wrong, with the properties that look for it, is the list
`hazards` of `PROJECT.json`.

## Modules

| Module | Models | Checked by |
|---|---|---|
| `DeliveryQueue` | the queue, the part of the store it uses, the daemon's start, stop and death | `queue_safety`, `queue_liveness` |
| `DeliveryContract` | what the queue promises, without the scheduler | the property `KeepsContract` of `queue_safety` |
| `SourceManager` | calls of the API that set up, restart and remove a source; the router's fan-out | `sources`, `sources_wake` |
| `GmailSource` | the IMAP loop, its fetches and the watermark | `sources`, `sources_wake` |
| `PushSources` | Slack's envelopes, requests of GitHub and other webhooks | `sources` |
| `Sources` | one source of any of these kinds under the manager | `sources`, `sources_wake` |
| `DesktopClient` | the refreshing connector to the Desktop application and its registration | `desktop` |
| `DesktopSink` | deliveries with durable receipts, over `DesktopClient` | `desktop` |
| `AppServer` | turns over JSON-RPC, their waiters, connections and the shared server | `app_server` |
| `CoordinationPolicy` | the decision about a pull request and the pre-push protocol, as functions of a snapshot | `handoff` |
| `PullSnapshot` | the client that takes a snapshot while people edit | `handoff` |
| `CoordinationAdapter` | the coordination sink, over `PullSnapshot` | `handoff` |
| `PrepushRunner` | the command that verifies and pushes a candidate, over `PullSnapshot` | `handoff` |
| `Handoff` | either program among people | `handoff` |
| `Candidate` | a release candidate as functions of its events | `release` |
| `ReviewHost` | wakes, claims and signed verdicts, over `Candidate` | `release` |
| `Release` | merges and the tick that decides them, over `ReviewHost` | `release` |
| `Deploy` | the deployment service's tick, executor, lock, recovery and owner changes | `deploy_safety`, `deploy_faults`, `deploy_wedge` |
| `ExclusiveOwnership` | the lock file of `exclusive-ownership.ts` and the gates under which it is replaced | `ownership` |
| `DeliveryQueueProofs`, `DeployProofs`, `ExclusiveOwnershipProofs`, `SourcesProofs`, `DesktopProofs`, `AppServerProofs`, `HandoffProofs`, `ReleaseProofs` | theorems | TLAPS |
| `MC...` | values of the constants for TLC | |

How they fit: `Sources` ends where rows are in the database, and `DeliveryQueue` begins there (its
`Enqueue` may take any event at any time, twice too). `DeliveryQueue` takes any answer from its
adapter; `DesktopSink`, `AppServer` and `CoordinationAdapter` are adapters and take any sequence of
calls the queue may make, so what they show holds behind the queue. `Release` ends with an intent,
which is the input of `Deploy`.

### DeliveryQueue

The daemon is one JavaScript event loop, so a handler is one action unless it commits to SQLite
more than once; `step` says where the loop is inside the queue's code, and between two commits only
a crash can happen. Variables correspond to the code like this: `route` and `rows` are the tables,
`nextId` the order of `received_at`; `ticking`, `inFlight` are the fields of the class; `ready`,
`todo`, `claimed`, `batch` are the locals of the pass that runs; `calls` are the adapter promises
not yet settled. Time is two flags of a row, `backoff` (its `next_attempt_at` lies ahead) and
`recent` (it counts for the rate limiter). A prompt is the set of events it shows.

* `Enqueue`, `RejectUnrendered`, `Replay`: `enqueueEvent` and `replay`, with the unique index that
  recognises duplicates.
* `TimerTick`, `ClaimAlone`, `ClaimDigest`, `Merge`, `Dispatch`, `EndScan`, `EndPass`: a pass of
  `tick`, cut at its commits.
* `Deliver`, `HoldForRetry`, `FailAttempt`, `FailPermanently`, `ReleaseKey`: the answers of an
  adapter and the continuation that gives the thread key back.
* `CreateRoute`, `SetEnabled`, `RemoveRoute`; `BackoffExpires`, `MinutePasses`; `Boot`, `Stop`,
  `Exit`, `Crash`.

Properties: one turn per thread across routes (`OneTurnPerThread`), a delivering row has an open
call while the process is up (`DeliveringHasCall`), a coalesced row leads to a row that exists and
is newer (`CarrierKept`), settled rows stay settled against late answers (`SettledIsFinal`), a
thread is served from its oldest ready row (`OldestReadyFirst`), the refinement of
`DeliveryContract` (`KeepsContract`), and under fairness `Drains` and `DeliveringEnds`. `OldestReadyFirst`
is about ready rows: a row in backoff may be overtaken. `CarrierKept` is about rows that were folded: a
crash between the digest's commit and theirs has the others sent twice, which no property excludes.

### Deploy

Each repository has one service process, all share the journal with its single lock, and the
operator runs `recover`. A process's `at` is its place in `tick` and `executeRelease`; a step is a
commit to the journal or a call that changes the runtime, so a crash may come between any two. A
runtime's files are an image: those of one release, whole or partly copied.

* `BeginTick`, `FinishRestart`, `FenceRestart`: the guard of `tick` and what it does with the lock a
  dead process left (`reconcileRestart`).
* `Resend`, `Refuse`, `Execute`, `EndTick`, `AbortTick`, `TakeResult`: the outbox, the merges the
  scan decided, the open intents, and what is done with an executor's result.
* `NotOwned`, `Replay`, `ReplayFails`, `Peek`, `Unpeek`, `Busy`, `Lock`: `executeRelease` up to the
  lock. `OutOfOrder`, `Lease`, `LeaseRefused`, `RejectArtifact`, `NothingToDeploy`, `BackUp`,
  `SkipCopy`, `Prepare`, `Activate`, `Copy`, `FinishCopy`, `CopyFails`, `Verify`, `VerifyFails`,
  `ReloadFails`: the run under the lock.
* `Restore`, `RestoreFails`, `RefuseRollback`, `Retain`, `PauseForRepair`: `rollback`.
  `Publish`, `Notify`, `NotifyFails`, `Settle`, `Clear`, `Unlease`, `Unlock`: the end of a run.
* `Recover`, `BeginDrain`, `CompleteOwnerChange`, `Crash`.

Properties: one activation at a time, by the run the lock names (`OneActivation`); leases, their
counts and the lock agree through every crash (`LeasesCounted`), and so no run outlives the owner
that admitted it (`ActivationIsOwned`); a paused repository is touched only by its repair
(`PauseHolds`); one outcome per release, never changed (`OneOutcome`, `SettledIsFinal`), true when
announced (`AnnouncedIsTrue`), and never followed by another copy (`NoCopyAfterOutcome`); a
half-copied runtime is never forgotten (`MixtureIsKnown`).

Abstractions: the tick's two loops are one, since each executes an intent at most once; the
decision about a merge (`deploy/reconcile.ts`) is an input, in any order; `release` and `retain`
read and write the lock in two statements, which is harmless because only the run that holds it
writes them; a backup is never incomplete (it is written in one transaction); manifests identify
images; the owner that consumed the genesis record is generation 1, and `deploy_genesis` has one
row per repository, so a later generation never activates. The order of a second process for
one repository is not modelled: the deployment assumes one.

### ExclusiveOwnership

The daemon's start, the cleanup of its state file and the refresh of the desktop registration each
take a lock file. An owner is one call of `acquireExclusiveOwnership`, or of `withExclusiveFileLock`
around it (`Waiters`), in the process `PidOf` gives it. A step is one call on a file or one look at
a process (`pidIsAlive`), and processes interleave and die between any two; the functions are
synchronous, so inside a process another call runs only while this one rests (`Turn`). The file of
a dead owner is replaced under a gate, the file `<path>.takeover`, which is acquired by the same
function: level `k` of `file` is the path with `k` such suffixes, an owner's `level` is the path
its innermost call works on, and `seen` keeps, for each call on the stack, the owner it observed.

* `Create`, `Read`, `Probe`: `createOwner`, the first `readOwner`, and the test of liveness that ends
  in `OwnershipBusyError` or in a call one level up.
* `Recheck`, `Reprobe`, `Remove`, `Relink`: the replacement under the gate; `Release` is its
  `finally`, whatever came of it.
* `Finish`, `Check`, `Unlink`: `releaseExclusiveOwnership`, of the lock or of a gate; `Continue` goes
  on with the result that was waiting for it.
* `Begin`, `GiveUp`: the attempts of a waiter and its deadline. `CallFails`, `Exit`, `Reuse`: a file
  call fails, a process dies and leaves its files, the system gives its pid to another process.

Properties: one holder, whom the file names (`OneHolder`); a file, lock or gate, is taken from its
owner only by that owner or after its death (`NeverDisplaced`); no chain of deaths makes the lock
unusable (`StaleIsReplaced`).

The random instance in a file is the owner's identity; the contents are published whole by the
link, so a half-written file is never read, and files that are no owner's at all are left out.

### SourceManager, GmailSource, PushSources, Sources

The manager's methods await the stop and the start of an instance, and calls run beside each other
without a lock. A `call` has a place between two awaits; `live` is the map's entry; `inst` is what
has become of each instance made, whether the map still knows it or not. `EmitsAll` and `EmitThrows`
are the callback of `daemon.ts`: emit is synchronous, so it ends with a row for every matching route,
or throws after some of them.

* `SetUp`, `Begin`, `StopOne`, `StopReturns`, `Delete`, `StartOne`, `StartNone`, `StartReturns`,
  `StartFails`, `Reboot`: the calls, cut at their awaits, and the daemon's death and start. An
  instance whose start failed stays as active as the code leaves it.
* `Connects`, `NoToken`, `Opens`, `Reconnects`, `Wakes`: `runLoop` and `connectAndWatch`. `Notified`:
  an `exists` notification, which starts a fetch or finds no listener yet. `Hands`, `FetchEnds`,
  `FetchFails`: `fetchNew`, a message at a time, several runs at once. `Arrives`, `Recreated`,
  `Drops`: the mail server.
* `Envelope`, `Named`, `Acks`: an envelope of Slack, sent again until it is acknowledged.
  `Relayed`, `Posted`, `PostedToIngress`, `Read`, `Verified`, `Refused`: a request, from the look-up
  of the source through two awaits to the answer. An exception behind the relay is an unhandled
  rejection and ends the daemon (`Rejected`).

Properties: what is acknowledged or answered with 200 is queued for every route (`AnsweredIsQueued`);
the persisted watermark passes nothing that was not handed on, whichever of several instances and
overlapping fetches wrote it (`WatermarkIsSafe`); a stopped GitHub source queues nothing of what it
had taken before (`StoppedIsSilent`). `WatermarkIsSafe` excepts what the code gives up on purpose
(the mailbox's past, a message that fails) and one case it does not consider: a fetch that ends
after its mailbox was replaced and the watch began anew writes an old UID into the new watermark.

### DesktopClient, DesktopSink

A process has one client; its current generation is a child process connected to one start of the
application. A failed read starts one refresh, which takes the registration's lock, probes, writes
the registration and makes the next generation, while other calls wait for it (`flight`, `parked`).
A delivery claims its receipt (`Claim`) before it sends, and the message travels outside the process
(`messages`, `Takes`): it may arrive after its call failed or its process died. `Restart` is a crash
and a start, `AppRestarts` one of the application.

Properties: a delivery's prompt reaches the conversation at most once (`AtMostOnce`); an answer or a
receipt that says done is true, with the right content (`DoneIsDone`); no generation and no refresh
survives a close (`NothingLeaks`).

### AppServer

The server handles `requests`; what it sends arrives in order (`wire`), and several messages may be
handled before the call that waits for the first goes on. `waiter` is `turnWaiters`, `adapter` and
`conn` the connections, of which an old one may still fail while the next works. `Deliver`,
`RunTurn`, `Started`, `Finishes` are a delivery; `TurnsAway`, `StartRefused`, `AskTimesOut`,
`TurnTimesOut`, `ConnFails`, `ServerDies`, `Stops` what can go wrong; `OtherStarts` is another client
of the server. The queue never has two calls on one thread at once; otherwise the rows of a thread
come in any order (`Begins`): one that was given up, with its turn still running, may wait for its
retry while another row of the thread is delivered.

Properties: what is reported as delivered had a turn that completed (`DeliveredIsDone`, for threads
in which no other client starts turns); the end of a turn never gets past the call that waits for it
(`NoMissedCompletion`).

### CoordinationPolicy, PullSnapshot, CoordinationAdapter, PrepushRunner, Handoff

`Action` is `evaluateCoordination` and `Selected` the pre-push selection, both over a snapshot
that `PullSnapshot` puts together from five requests while people post, edit, relabel, report checks
and push (`People`). The coordination sink (`Find`, `Decide`, `Deliver`) wakes the agent below it
under an identity made of all the prompt depends on. The runner goes from `Start` through `Select`,
`Claim`, `OpenJournal`, `Fetch`, `Verify`, `SelectAgain`, `CheckHead` and `StartPush` to `Readback` and
`End`; `Lands` is a push that GitHub decides, perhaps after its client gave up; `Fail`, `Die` and
`PowerFails` may come anywhere, the last taking back whatever was not synced.

A candidate is two commits, their branch and the digest of the bundle they come in: the same
commits in another bundle are another candidate, with a directory of its own. An account may be
trusted for both agents, and may then cast both votes.

Three variables record what the code never stores, so that the properties can speak of moments that
are past: `tested` the candidates that passed a whole verification, `agreed` the heads the pull request
has shown, open and not blocked, when both agents had approved them, and `admitted` the candidates
for which it stood, after their verification, as a push requires.

Properties: readiness is announced only of a head that was agreed on at some one moment
(`ReadyIsApproved`), which rests on the second read of the pull request; a candidate is pushed at most
once and a push is on record whatever fails (`PushOnce`), where the same commits in another bundle may be
pushed again while the first push is uncertain; only a candidate that passed every stage and was still
wanted afterwards is pushed (`PushedIsTested`), which rests on the second selection; and a push takes
nothing from the branch (`NothingIsLost`).

### Candidate, ReviewHost, Release

`Advance` is `advanceCandidate`. The review host claims a wake, delivers it and marks it in three
steps, by any number of calls (`Claim`, `Wake`, `Receive`, `MarkDelivered`, `ReleaseClaim`, `Die`);
agents sign verdicts (`Sign`), any of which may arrive late and repeatedly (`IngestVerdict`). The
operator merges what he likes (`Merge`), and the tick decides each merge (`Decide`, `Apply`, `Skip`).

Properties: one delivery of a wake at a time and none after it was marked (`OneDelivery`); a
candidate is ready only when both roles approved the revision it is at (`ReadyIsReviewed`); an intent
is exactly what both roles approved, tree included (`OnlyReviewedIsReleased`).

## Runs

Every run is listed in `PROJECT.json` with its properties.

| Run | Bounds | Why they are enough |
|---|---|---|
| `queue_safety` | 2 routes that share a thread, 2 events, 3 rows, 2 attempts, budget 1, 2 faults; `r2` cannot render `e2` | three rows give a digest with a carrier and a newer row beside it; two faults give a failed call and a crash in either order |
| `queue_liveness` | the same with 2 rows and a thread for each route | a pass with two jobs, a duplicate, a crash during either |
| `sources` | 1 source, of any kind, 2 calls of the API at once, 2 instances, 2 fetches, 2 requests, 2 routes, 2 messages in each of 2 mailboxes; 2 calls begun or faults in all | two instances at once, one of them forgotten; two fetches that overlap, also over a reconnection; a message that only one route matches |
| `sources_wake` | 1 instance, 1 message, no fault | the shortest history |
| `desktop` | 1 process, 2 calls at once and 3 in all, 1 delivery with 2 contents, 1 restart of the application, 1 crash | a retry after a crash or beside a probe that refreshes; a message that is late by a generation |
| `app_server` | 3 deliveries, two of them on one thread, in any order, and one for a new thread; a thread of another client; 2 connections, 2 faults, 1 foreign turn | a connection that fails twice while the next one works, with a turn on either; a turn that was given up, another row of its thread, and the retry |
| `handoff` | the sink or 2 runners, 3 commits, one pair of them submitted in 2 bundles, 2 accounts of which one is trusted for both agents, 2 edits by people (1 in the scenes of the runner), 5 opening scenes | the scenes put the edits where they decide: a block and an approval while the sink reads, a resubmission in the other bundle, a push beside the runner's; two runners meet at a candidate, also after the first has died |
| `release` | 1 pull request, 2 revisions, 2 requests, 2 merges, 2 signed verdicts, 2 other events | both roles, one of them late for the revision; a merge of what was reviewed, one with another tree, one that brought a genesis adapter and must not be deployed |
| `deploy_safety` | 2 repositories, 3 releases, 3 tokens, 1 owner change each, 1 fault | every pair of runs of different repositories, with one crash or failure anywhere |
| `deploy_faults` | 1 repository, a release and its repair, 5 tokens, 1 owner change, 4 faults | a failed copy, a failed restoration, a lost delivery and a crash can all meet |
| `deploy_wedge` | 1 repository, 2 releases, 3 tokens, 1 fault | the shortest history |
| `ownership` | 4 owners in 3 processes, two of them with one pid, which may be used again; gates up to level 4 | a holder, a contender and a latecomer at every pair of calls, with every death; each death leaves at most one more gate, so level 4 is never needed |

`CHECK_DEADLOCK FALSE`: all these systems may rest (a daemon with nothing to do or shut down, rows,
calls or messages used up, tokens used up by the bound, owners all finished or dead).

Symmetry is used in safety runs only, over calls, instances, fetches and requests (`sources`), calls
and contents (`desktop`), the two rows of one thread (`app_server`), runners and bundles (`handoff`): the
models only compare them. `desktop` was also
checked, without a run of its own, with a second process that shares the state file and one call in
each (four million states).

Fairness (`DeliveryQueue`, only for the two liveness properties): a handler that has begun goes on
(the event loop is not preempted), the interval timer fires and a pass whose jobs have ended ends,
every adapter call is answered (each sink bounds its waits), promise continuations run, and the
service manager starts the daemon again. `BackoffExpires` has strong fairness, because a backoff is a point in
time that passes whatever the scheduler does meanwhile. Sources, the operator, crashes and the rate
window have none. `ExclusiveOwnership`, for `StaleIsReplaced`: a call that has begun goes on unless its
process dies, because it is synchronous (`Advance`); when calls begin, whether a waiter tries
again, when the lock is given back, failures and deaths have none. `Sources`, for `MailIsHanded`: an
API call that has begun goes on, a loop that waits for a connection gets one, a notification the
server sent arrives, and a fetch goes on; calls of the API, mail and faults have none.

## What the code does not do

Two runs end in a violation that the documentation or a comment of the repository speaks against;
`findings` in `PROJECT.json` quotes both sides.

* `deploy_wedge`: a process that dies at the wrong place leaves a lock that no tick and no command
  can free.
* `sources_wake`: a message that arrives while the catch-up of a new connection runs waits for the
  next message or the next connection, because the listener comes after the catch-up
  (`docs/setup.md:163` promises a turn within about 30 seconds).

Observations made while modelling, without a run. The models behave this way too, and the
properties are stated so that they hold beside it.

Queue and deployment:

* A row in backoff is overtaken by a newer row of its thread (`core/queue.ts:130`).
* A digest that was held for a retry and is folded into another digest loses the events it had
  folded in (`core/queue.ts:186`).
* A release that only met another release's fence is settled as fenced, without a receipt, for good
  (`deploy/service.ts:94`).
* A repair whose receipt could not be delivered leaves its repository paused
  (`deploy/executor.ts:195`).
* `fenceRestart` gives the lock back although the runtime is in doubt, on purpose as its tests say
  (the release is announced as fenced, `MixtureIsKnown`), while the design document
  (`docs/superpowers/specs/2026-10-05-autonomous-review-deploy-design.md:330-333`) has an uncertain
  runtime fence all activation.
* A refusal replaces whatever pause the repository has, a failed release's included
  (`deploy/journal.ts:217-220`); `PauseHolds`, which asks only whether the pause that is there allows
  the run, holds all the same.
* A waiter of `withExclusiveFileLock` fails at once when the holder gives the lock back between two
  of the waiter's calls (`exclusive-ownership.ts:133`).

Sources:

* Two calls that restart a source, or a restart and a removal, leave an instance running that the
  manager does not know, or one of a source that was removed (`daemon/sources.ts:109`). Nor does it stop an
  instance whose start failed: one of GitHub stays active (`sources/github/source.ts:50`), and a
  relay or socket client it has made may still connect.
* A Gmail message whose enqueue throws is passed over like one that cannot be parsed
  (`sources/gmail/source.ts:191`), and a fetch that outlives its mailbox writes an old UID into the
  new watermark. A change of UIDVALIDITY passes over what arrived while there was no connection.
* A webhook source has no flag that it was stopped: an instance that verifies a request at the time
  still emits, and writes its capture count over a new setup's.
* An exception of `emit` behind the smee relay is a rejection nobody handles and ends the daemon.
  Stopping a Gmail source that is not connected yet returns only when that connection closes.

Sinks:

* A failed `turn/start` rejects a completion nobody awaits yet (`sinks/codex-app-server.ts:152`), an
  unhandled rejection that ends the daemon, where `sinks/types.ts:43` has "Retry with backoff,
  forever".
* Waiters are keyed by thread: the end of a turn another client started between our
  `thread/resume` and `turn/start` completes ours, hence the exception in `DeliveredIsDone`. The
  second failure of an old connection fails the waiters of the new one. A turn that runs past the
  time-out, or whose `turn/start` times out, is run again. `close` during a connection attempt
  leaves that connection and the server it spawned.
* A desktop delivery that waits for a refresh which then fails leaves its receipt in `sending`,
  although nothing was sent, and every retry answers that the outcome is uncertain.

Review and coordination:

* A process that dies between the claim of a wake and its mark leaves a claim that nobody takes
  over: that wake is never delivered (`deploy/t3.ts:97`).
* Editing the newest pre-push request into prose revives the one before it, and withdrawing a
  rejection the approval before it (`coordination/prepush.ts:70-73` says of withdrawn requests that
  they cannot).
* A runner that dies after it made a candidate's directory fences that candidate for good, by
  design.

## What is proved

Every theorem holds for all values of the constants that satisfy the named assumptions of the
modules. All follow one pattern: an inductive invariant, one lemma for each action that preserves
it, and the properties as its consequences. Each invariant was first checked with TLC on the
constants of its module's run. `theorems` in `PROJECT.json` lists the results.

| Proof module | Invariant | Proved from it |
|---|---|---|
| `DeliveryQueueProofs` | `QueueInv` | `TypeOK`, `OneTurnPerThread`, `DeliveringHasCall`, `CarrierKept`, `SettledIsFinal`, the refinement `KeepsContract` |
| | `PassServesOldest` | `OldestReadyFirst` |
| `DeployProofs` | `DeployInv` | `TypeOK`, `OneActivation`, `ActivationIsOwned`, `LeasesCounted` |
| | `OutcomeInv` | `OneOutcome`, `MixtureIsKnown`, `PauseHolds`, `NoCopyAfterOutcome`, `AnnouncedIsTrue`, `SettledIsFinal` |
| `ExclusiveOwnershipProofs` | `OwnershipInv` | `TypeOK`, `OneHolder`, `NeverDisplaced` |
| `SourcesProofs` | `SourcesInv` | `TypeOK`, `AnsweredIsQueued`, `WatermarkIsSafe`, `StoppedIsSilent` |
| `DesktopProofs` | `DesktopInv` | `TypeOK`, `AtMostOnce`, `DoneIsDone`, `NothingLeaks` |
| `AppServerProofs` | `AppServerInv` | `TypeOK`, `DeliveredIsDone`, `NoMissedCompletion` |
| `HandoffProofs` | `HandoffInv` | `TypeOK`, `ReadyIsApproved`, `PushOnce`, `PushedIsTested`, `NothingIsLost` |
| `ReleaseProofs` | `ReleaseInv` | `TypeOK`, `ReadyIsReviewed`, `OnlyReviewedIsReleased`, `OneDelivery` |

Hardly any of these properties is inductive alone; what each needs besides is the argument why the
code is right:

* Queue. That two calls have different keys needs that a key of a call is in `inFlight`
  (`CallsTracked`) and that the row a pass is about to dispatch has a key it has claimed and that is
  not in flight (`PassConsistent`); that in turn needs to know, of the snapshot the pass read, that a
  row whose key is not claimed still waits although answers arrive and rows are merged while the pass
  runs; and a start after a crash needs that a dead process holds nothing (`DownIsEmpty`). For
  `OldestReadyFirst`, the snapshot of a running pass has every row that is ready, and what the pass
  is about to send, or a row folded into it, is ahead of the others of its thread
  (`PassServesOldest`): they are all still to be visited, because their key was free.
* Deployment, the lock. A process that returns from `tryAcquire` excludes another only because the
  release the fence names belongs to one repository and each process works on a release of its own
  (`RunConsistent`). That an owner change cannot overtake a run needs that a run past `Lease` has its
  lease in the table (`LeaseOfRun`) and that the owner's count is one exactly while there is a lease
  of the repository (`ActiveIsLeased`): `CompleteOwnerChange` waits for a count of zero.
  `StrengtheningIs` restates the invariant process by process, so that a step that leaves the lock,
  the leases and the owners alone has to be looked at only for the process that takes it
  (`LocalStep`), and a step that changes them only for its own process because no other holds the
  lock (`OnlyHolder`, `LockStep`).
* Deployment, the outcome. What a run knows depends on how far it is (`RunKnows`): until it publishes,
  its release has announced nothing (`ReceiptKnown`) and its phase is open (`PhaseKnown`); when it
  publishes, the runtime holds what it is going to say (`OutcomeKnown`), and what it backed up is
  neither missing nor its own image (`ImageKnown`). The announcement is a row of its own, so two
  facts survive the death of a run: `HeldOutcome` says what the release that still has the lock may
  have announced, which is what `reconcileRestart` reads, and `MixtureTold` that a half-copied
  runtime either has the lock or was announced as fenced. `OutcomeInv` rests on `DeployInv`: the
  lock is what keeps another repository's run from interfering.
* Ownership. That a remover displaces nobody needs that it still has the gate (`OwnFiles`), and that
  the owner it saw on the way to the gate was dead then and is the one the file names now
  (`SeenDead`); no one else changes a file that a dead owner left, because that needs the same gate.
  Dead owners stay dead although their pid may be used again, so what was seen stays true however
  long the process waits. `Sound` restates the invariant owner by owner; three lemmas cover the
  steps that change no file, publish one, or remove one (`QuietStep`, `PublishStep`, `RemoveStep`),
  and `OthersSound` the owners that do not move.
* Sources. A watermark is safe because every fetch has handed on all it has gone past (`FetchKnows`),
  and starts from a mark that was itself safe, the persisted one or the one its loop has in memory
  (`AllPassed`), whichever instance wrote it and however fetches overlap; once a fetch has outlived
  its mailbox this ends, which is the exception `WatermarkIsSafe` makes. `WatchKnows` relates a loop's
  mark to the mailbox that is there. For Slack and for requests, an event that is about to be
  acknowledged has its rows (`WorkKnows`). `MoreHanded`: rows are never taken back here, so what was
  handed on stays so.
* Desktop sink. A delivery without a receipt has sent nothing (`Unclaimed`); with one, the
  conversation has that receipt's prompt or nothing (`Claimed`); a message that travels is the only one
  of its delivery and came before any other (`UnderWay`), also when its sender is gone; and the call
  that writes is the only one and has sent nothing while it waits for a generation (`Sender`). A crash
  leaves the receipt, hence no second message. For `NothingLeaks`, every open generation is the
  current one or being closed (`Tidy`).
* App-server sink. Completions are told apart by thread only, so the proof is about order. Two calls
  never have one thread, because the queue has one turn in flight on a thread (`RowsKnown`; which row
  goes first does not matter) and a started thread has one maker (`ThreadsKnown`). At most one
  connection lives (`ConnectionKnown`), and what a failed one sent is gone. The answer to `turn/start` is on its way once, and then its request is not
  (`RepliesKnown`); the end of a turn that was started is on its way after that answer, or the turn
  still runs (`TurnsKnown`), which gives `NoMissedCompletion` with `WaitersKnown`. For
  `DeliveredIsDone`, nothing of an earlier turn comes after an answer that says the thread is idle,
  so whoever asked for a turn then listens to its own (`IdleKnown`). This is where another client would break it:
  the theorem, like the property, leaves out deliveries in a thread where others start turns
  (`Alone`).
* Handoff. A snapshot is read request by request, but comments are only added or rewritten, each
  under one number and by somebody who wrote it (`ReadingsKept`), and so the latest comment of a role
  exists (`LatestIsOne`, by well-foundedness over finite sets) and was written. From its claim on a
  runner is alone in its candidate's directory, because `mkdir` succeeds once (`OneOwner`); `Progress`
  says what a runner has behind it where it is, and `Recorded` what the directory says, in memory and
  on disk, once a push was attempted. That a push takes nothing away needs only that whatever is in
  flight descends from what was fetched (`Valid`), since the remote compares before it swaps. For
  readiness and for the second selection, what the pull request shows is on record at every moment
  (`agreed` and `admitted` grow with every edit and every verification), and a snapshot is complete only when
  the pull request is what it was when its first part was read; all votes and submissions in it were
  written by then, so that what they say of it was true at that moment (`HistoryInv`).
* Review and release. A verdict of a candidate is on record with a signature for a wake that was
  delivered (`VerdictsOnRecord`); a call of a wake is alone and its row is held for it (`CallsHold`);
  a decision of the tick keeps its justification until it is applied although verdicts, merges and
  blocks come between (`DecisionsJustified`, `IntentsJustified`), and a merge the genesis record
  consumed stays consumed (`ConsumedStay`).

The assumptions are of three sorts. Bounds are natural numbers; they cap what TLC explores, and the theorems
hold for every bound. Tables have the domain and range the code's types give them: the thread of a route or
of a row, the repository of a release, the files and forms that people and GitHub can produce
(`PeopleAssumption`, `SceneAssumption`), the candidates a comment may name
(`CandidateAssumption`: they are among those there is a directory for). Sentinels such as `None` differ from the values they stand
beside. That the queue has one turn in flight on a thread, which `AppServer` needs of its caller, is the
guard of its `Begins`, and the theorem `ThreadExclusion` of `DeliveryQueueProofs`.

Only model-checked:

* The liveness properties `Drains`, `DeliveringEnds` and `StaleIsReplaced`: liveness and ENABLED are
  outside the prover's reach.
* The two properties that are expected to fail, `DeadRunIsReconcilable` and `MailIsHanded`.

`DeliveringHasCall` and `SettledIsFinal` of either machine are proved and have no run of their own.

## Not modelled

* The other sinks (`sinks/codex-exec.ts`, `codex-sdk.ts`, `factory.ts`, `worktree.ts`): one child
  process or SDK call for each turn; the queue takes any answer of theirs.
* Deployment support (`deploy/artifact.ts`, `crypto.ts`, `adapter.ts`, `runtime-observer.ts`, `cli.ts`):
  hashing, signatures, a command line; their outcomes are choices of `Deploy`.
* `daemon/api.ts`, `client.ts`, `mcp/`, `cli.ts`: facades; the operations that change state are actions
  of `DeliveryQueue` and `SourceManager`. Configuration, secrets, logging: no protocol.
* In parts that are modelled: which routes match an event and the text of a prompt (`Matching` and
  the set of events shown stand for them); the webhook source's capture mode, mapping and
  signatures; `deploy/broker.ts` and `summary.ts`, which are pure; intake of signed events, the
  cursor and the history of phases in the journal; `genesis.ts` but for its record, `lanes.ts` and
  `registry.ts`, which are tables; what the pre-push container runs, the integrity hashes and the
  package list, which are one verdict.

## Plan

Done: all modules listed above with their runs, and a proof of every safety property a passing run
checks.

To come, in this order:

1. An abstract specification of the outcomes of a release that `Deploy` implements, proved with
   `OutcomeInv` as the refinement's invariant; the same for the receipts of the desktop sink.
2. The webhook source's capture mode, and the matching rules as operators against a reference
   definition.
