---------------------------- MODULE DeliveryQueue ----------------------------
(***************************************************************************)
(* The delivery queue of the daemon: src/core/queue.ts over the deliveries *)
(* table of src/db/repos.ts.  A matched event becomes a row; a scheduler   *)
(* pass (tick) hands at most one row per thread key to the agent adapter,  *)
(* merges waiting rows of a route that is over its rate budget into one    *)
(* digest, and writes each outcome back to the row.                        *)
(*                                                                         *)
(* The daemon is one JavaScript event loop.  A handler runs to completion, *)
(* so every action but Crash that is not a step of a running pass needs    *)
(* step = "idle"; a pass is cut into steps where it commits to SQLite,     *)
(* because the process may die between two commits.  The adapter calls it  *)
(* starts are answered later, in any order, from the event loop.           *)
(*                                                                         *)
(* Time is two flags of a row: `backoff` (next_attempt_at lies ahead) and  *)
(* `recent` (updated_at lies in the trailing minute; kept only for the     *)
(* rows the rate limiter counts).  Row identities are given in the order   *)
(* of received_at.  A prompt is the set of events it shows.                *)
(***************************************************************************)
EXTENDS Integers, FiniteSets

CONSTANTS
  Routes,              \* route identities, each used for one route only
  Events,              \* source delivery ids
  Keys,                \* values of threadKey()
  ThreadKey,           \* the key of a route: its thread, or the route itself
  Limit,               \* rateLimitPerMinute ?? ratePerMinute, per route
  SupportsCoalescing,  \* the adapter's flag
  Unrenderable,        \* <<route, event>> whose template does not render
  MaxAttempts,         \* options.maxAttempts
  MaxRows,             \* bound: rows ever inserted
  MaxFaults            \* bound: failed calls, crashes and shutdowns

ASSUME RoutesAssumption == Routes # {} /\ Events # {}
ASSUME KeyAssumption == ThreadKey \in [Routes -> Keys]
ASSUME LimitAssumption == Limit \in [Routes -> Nat \ {0}]
ASSUME FlagAssumption == /\ SupportsCoalescing \in BOOLEAN
                         /\ Unrenderable \subseteq Routes \X Events
ASSUME BoundAssumption == /\ MaxAttempts \in Nat \ {0}
                          /\ MaxRows \in Nat
                          /\ MaxFaults \in Nat

VARIABLES
  route,     \* the routes table
  rows,      \* the deliveries table
  nextId,    \* the identity the next row gets
  up,        \* the process is running
  timer,     \* the interval timer is set
  ticking,   \* this.ticking
  step,      \* where the event loop is inside queue code
  ready,     \* `ready` of the running pass
  todo,      \* what its loop has still to visit
  claimed,   \* `claimed` of the running pass
  batch,     \* the row the running step is about
  inFlight,  \* this.inFlight
  calls,     \* adapter calls waiting for an answer
  faults     \* faults so far (bounded by MaxFaults)

store == <<route, rows, nextId>>
pass  == <<ready, todo, claimed, batch>>
jobs  == <<inFlight, calls>>
vars  == <<store, up, timer, ticking, step, pass, jobs, faults>>

-----------------------------------------------------------------------------
Ids == 1..MaxRows

RouteState == {"new", "enabled", "disabled", "removed"}
Pending == {"queued", "held"}
Settled == {"delivered", "failed", "skipped-duplicate", "coalesced"}
Status == {"absent", "delivering"} \cup Pending \cup Settled
Steps == {"idle", "reject", "scan", "merge", "dispatch"}

Row == [status: Status, route: Routes, event: Events, prompt: SUBSET Events,
        attempts: 0..MaxAttempts, backoff: BOOLEAN, recent: BOOLEAN,
        into: 0..MaxRows, replay: BOOLEAN]

Call == [row: Ids, key: Keys]

NewRow(st, r, e, p, replay) ==
  [status |-> st, route |-> r, event |-> e, prompt |-> p, attempts |-> 0,
   backoff |-> FALSE, recent |-> FALSE, into |-> 0, replay |-> replay]

NoRow == NewRow("absent", CHOOSE r \in Routes : TRUE, CHOOSE e \in Events : TRUE,
                {}, FALSE)

KeyOf(d) == ThreadKey[rows[d].route]
Exists(r) == route[r] \in {"enabled", "disabled"}

\* The unique index deliveries_dedup: skipped rows and replays are outside it.
\* A replay is never refused by it.
Duplicate(r, e) ==
  \E d \in Ids : /\ rows[d].status \notin {"absent", "skipped-duplicate"}
                 /\ ~rows[d].replay
                 /\ rows[d].route = r
                 /\ rows[d].event = e

\* Mutant: a held row is never listed again.
ListQueuedOnly(table) ==
  {d \in Ids : table[d].status = "queued" /\ ~table[d].backoff}

ListReady(table) ==
  {d \in Ids : table[d].status \in Pending /\ ~table[d].backoff}

RecentAttempts(r) ==
  {d \in Ids : /\ rows[d].route = r
               /\ rows[d].status \in {"delivered", "delivering"}
               /\ rows[d].recent}

\* An UPDATE ... WHERE id = d: nothing happens when the row is gone.
Update(d, row) == [rows EXCEPT ![d] = IF @.status = "absent" THEN @ ELSE row]

\* Mutant: an attempt is counted twice.
CountTwice(n) == n + 2

\* attempt_count is only compared with MaxAttempts, so it may stop there.
OneMore(n) == IF n < MaxAttempts THEN n + 1 ELSE n

-----------------------------------------------------------------------------
(* The scheduler pass. *)

\* What a pass reads before its loop.  `ready` keeps the snapshot for siblings.
BeginPass(table) ==
  /\ ticking' = TRUE
  /\ step' = "scan"
  /\ ready' = ListReady(table)
  /\ todo' = ListReady(table)
  /\ claimed' = {}
  /\ batch' = 0

\* setInterval(tick).  A pass that would find nothing is left out.
TimerTick ==
  /\ up /\ timer /\ step = "idle" /\ ~ticking
  /\ ListReady(rows) # {}
  /\ BeginPass(rows)
  /\ UNCHANGED <<store, up, timer, jobs, faults>>

\* Mutant: the loop does not look at the thread key.
DispatchableAnyKey(d) == route[rows[d].route] = "enabled"

\* The loop's two `continue`s: the route is disabled, the key is taken.  (The
\* third, a row whose route is gone, cannot occur: rows.route_id is a foreign
\* key and removing a route deletes its rows.)
Dispatchable(d) ==
  /\ route[rows[d].route] = "enabled"
  /\ KeyOf(d) \notin inFlight \cup claimed

\* Mutant: ORDER BY received_at DESC.
NewestUp(d) ==
  /\ d \in todo /\ Dispatchable(d)
  /\ \A x \in todo : Dispatchable(x) => x <= d

NextUp(d) ==
  /\ d \in todo /\ Dispatchable(d)
  /\ \A x \in todo : Dispatchable(x) => d <= x

Siblings(d) == {x \in ready : rows[x].route = rows[d].route} \ {d}

Coalesces(d) ==
  /\ SupportsCoalescing
  /\ Cardinality(RecentAttempts(rows[d].route)) >= Limit[rows[d].route]
  /\ Siblings(d) # {}

\* Claim the key of the next row and send that row alone.
ClaimAlone(d) ==
  /\ up /\ step = "scan"
  /\ NextUp(d) /\ ~Coalesces(d)
  /\ claimed' = claimed \cup {KeyOf(d)}
  /\ todo' = {x \in todo : x > d}
  /\ batch' = d
  /\ step' = "dispatch"
  /\ UNCHANGED <<store, up, timer, ticking, ready, jobs, faults>>

\* Claim the key and write the digest into its newest sibling, the carrier:
\* the digest shows the event of each row, not what the row's prompt shows.
ClaimDigest(d, carrier) ==
  /\ up /\ step = "scan"
  /\ NextUp(d) /\ Coalesces(d)
  /\ carrier \in Siblings(d)
  /\ \A x \in Siblings(d) : x <= carrier
  /\ claimed' = claimed \cup {KeyOf(d)}
  /\ todo' = {x \in todo : x > d}
  /\ rows' = [rows EXCEPT ![carrier].prompt =
                {rows[x].event : x \in Siblings(d) \cup {d}}]
  /\ batch' = carrier
  /\ step' = "merge"
  /\ UNCHANGED <<route, nextId, up, timer, ticking, ready, jobs, faults>>

\* Mutant: the carrier is marked with the rest.
MergeAll ==
  /\ up /\ step = "merge"
  /\ rows' = [x \in Ids |->
                IF x \in Siblings(batch) \cup {batch}
                THEN [rows[x] EXCEPT !.status = "coalesced", !.into = batch]
                ELSE rows[x]]
  /\ step' = "dispatch"
  /\ UNCHANGED <<route, nextId, up, timer, ticking, pass, jobs, faults>>

\* markCoalesced: the other rows of the digest, in one transaction.
Merge ==
  /\ up /\ step = "merge"
  /\ rows' = [x \in Ids |->
                IF x \in Siblings(batch)
                THEN [rows[x] EXCEPT !.status = "coalesced", !.into = batch]
                ELSE rows[x]]
  /\ step' = "dispatch"
  /\ UNCHANGED <<route, nextId, up, timer, ticking, pass, jobs, faults>>

\* inFlight.add, markDelivering and the synchronous part of process(): the
\* adapter is called, or a row without a prompt fails at once.
Dispatch ==
  /\ up /\ step = "dispatch"
  /\ inFlight' = inFlight \cup {KeyOf(batch)}
  /\ IF rows[batch].prompt = {}
     THEN /\ rows' = [rows EXCEPT ![batch].status = "failed"]
          /\ UNCHANGED calls
     ELSE /\ rows' = [rows EXCEPT ![batch].status = "delivering",
                                  ![batch].recent = TRUE]
          /\ calls' = calls \cup {[row |-> batch, key |-> KeyOf(batch)]}
  /\ step' = "scan"
  /\ UNCHANGED <<route, nextId, up, timer, ticking, pass, faults>>

\* The loop is over; the pass now awaits its jobs.
EndScan ==
  /\ up /\ step = "scan"
  /\ \A d \in todo : ~Dispatchable(d)
  /\ step' = "idle"
  /\ ready' = {} /\ todo' = {} /\ claimed' = {} /\ batch' = 0
  /\ UNCHANGED <<store, up, timer, ticking, jobs, faults>>

\* Promise.all(jobs) resolved: `ticking` is cleared only after every job of the
\* pass has ended.
EndPass ==
  /\ up /\ step = "idle" /\ ticking
  /\ inFlight = {}
  /\ ticking' = FALSE
  /\ UNCHANGED <<store, up, timer, step, pass, jobs, faults>>

-----------------------------------------------------------------------------
(* The answers of the adapter. *)

Answered(c) == /\ up /\ step = "idle" /\ c \in calls
               /\ calls' = calls \ {c}
               /\ UNCHANGED <<route, nextId, up, timer, ticking, step, pass, inFlight>>

\* An answer other than success spends one fault.
Fault == faults < MaxFaults /\ faults' = faults + 1

Deliver(c) ==
  /\ Answered(c)
  /\ rows' = Update(c.row, [rows[c.row] EXCEPT !.status = "delivered", !.recent = TRUE])
  /\ UNCHANGED faults

\* markFailed, after a PermanentError or the last attempt.
MarkFailed(d) ==
  rows' = Update(d, [rows[d] EXCEPT !.status = "failed", !.recent = FALSE])

\* markHeld: back to waiting, with a backoff that has to run out.
MarkHeld(d) ==
  rows' = Update(d, [rows[d] EXCEPT !.status = "held", !.recent = FALSE,
                                    !.backoff = TRUE, !.attempts = OneMore(@)])

FailPermanently(c) == Answered(c) /\ Fault /\ MarkFailed(c.row)

\* BusyError and UnreachableError are retried for ever.
HoldForRetry(c) == Answered(c) /\ Fault /\ MarkHeld(c.row)

\* Any other error is retried until the attempts run out.
FailAttempt(c) ==
  /\ Answered(c) /\ Fault
  /\ IF rows[c.row].attempts + 1 >= MaxAttempts
     THEN MarkFailed(c.row)
     ELSE MarkHeld(c.row)

\* Mutant: the key is released as soon as the call is made.
ReleaseEarly(k) ==
  /\ up /\ step = "idle"
  /\ k \in inFlight
  /\ inFlight' = inFlight \ {k}
  /\ UNCHANGED <<store, up, timer, ticking, step, pass, calls, faults>>

\* process(...).finally: runs after the row was written.
ReleaseKey(k) ==
  /\ up /\ step = "idle"
  /\ k \in inFlight
  /\ \A c \in calls : c.key # k
  /\ inFlight' = inFlight \ {k}
  /\ UNCHANGED <<store, up, timer, ticking, step, pass, calls, faults>>

-----------------------------------------------------------------------------
(* New deliveries. *)

\* enqueueEvent up to its first commit, and the pass that wake() starts in the
\* same turn of the event loop unless one is running.
Insert(r, e, replay) ==
  /\ up /\ step = "idle" /\ nextId <= MaxRows
  /\ nextId' = nextId + 1
  /\ IF ~replay /\ Duplicate(r, e)
     THEN /\ rows' = [rows EXCEPT ![nextId] = NewRow("skipped-duplicate", r, e, {}, FALSE)]
          /\ UNCHANGED <<ticking, step, pass>>
     ELSE IF <<r, e>> \in Unrenderable
     THEN /\ rows' = [rows EXCEPT ![nextId] = NewRow("queued", r, e, {}, replay)]
          /\ batch' = nextId
          /\ step' = "reject"
          /\ UNCHANGED <<ticking, ready, todo, claimed>>
     ELSE /\ rows' = [rows EXCEPT ![nextId] = NewRow("queued", r, e, {e}, replay)]
          /\ IF ticking
             THEN UNCHANGED <<ticking, step, pass>>
             ELSE BeginPass(rows')
  /\ UNCHANGED <<route, up, timer, jobs, faults>>

\* The router offers an event to every enabled route it matches.
Enqueue(r, e) == route[r] = "enabled" /\ Insert(r, e, FALSE)

\* replay() renders the event of an existing row again, past the index.
Replay(d) == /\ rows[d].status # "absent"
             /\ Exists(rows[d].route)
             /\ Insert(rows[d].route, rows[d].event, TRUE)

\* The second commit of enqueueEvent after a template error; it starts no pass.
RejectUnrendered ==
  /\ up /\ step = "reject"
  /\ rows' = [rows EXCEPT ![batch].status = "failed"]
  /\ batch' = 0
  /\ step' = "idle"
  /\ UNCHANGED <<route, nextId, up, timer, ticking, ready, todo, claimed, jobs, faults>>

-----------------------------------------------------------------------------
(* Routes. *)

ChangeRoute(r, state) ==
  /\ up /\ step = "idle"
  /\ route' = [route EXCEPT ![r] = state]
  /\ UNCHANGED <<nextId, up, timer, ticking, step, pass, jobs, faults>>

CreateRoute(r) == route[r] = "new" /\ ChangeRoute(r, "enabled") /\ UNCHANGED rows

SetEnabled(r, state) == Exists(r) /\ route[r] # state
                        /\ ChangeRoute(r, state) /\ UNCHANGED rows

\* RouteStore.remove deletes the route's deliveries with it.
RemoveRoute(r) ==
  /\ Exists(r)
  /\ ChangeRoute(r, "removed")
  /\ rows' = [d \in Ids |-> IF rows[d].route = r THEN NoRow ELSE rows[d]]

-----------------------------------------------------------------------------
(* Time and the process. *)

BackoffExpires(d) ==
  /\ step = "idle" /\ rows[d].backoff
  /\ rows' = [rows EXCEPT ![d].backoff = FALSE]
  /\ UNCHANGED <<route, nextId, up, timer, ticking, step, pass, jobs, faults>>

MinutePasses(d) ==
  /\ step = "idle" /\ rows[d].recent
  /\ rows' = [rows EXCEPT ![d].recent = FALSE]
  /\ UNCHANGED <<route, nextId, up, timer, ticking, step, pass, jobs, faults>>

\* Mutant: a start forgets resetInFlight.
BootWithoutReset ==
  /\ ~up
  /\ up' = TRUE /\ timer' = TRUE
  /\ BeginPass(rows)
  /\ UNCHANGED <<store, jobs, faults>>

\* start(): rows left `delivering` by the last process are queued again, and
\* the first pass begins at once.
Boot ==
  /\ ~up
  /\ up' = TRUE /\ timer' = TRUE
  /\ rows' = [d \in Ids |-> IF rows[d].status = "delivering"
                            THEN [rows[d] EXCEPT !.status = "queued", !.recent = FALSE]
                            ELSE rows[d]]
  /\ BeginPass(rows')
  /\ UNCHANGED <<route, nextId, jobs, faults>>

\* stop() clears the timer; enqueues still wake the queue until the exit.
Stop ==
  /\ up /\ timer /\ step = "idle" /\ Fault
  /\ timer' = FALSE
  /\ UNCHANGED <<store, up, ticking, step, pass, jobs>>

\* Everything in memory is lost.
Die ==
  /\ up' = FALSE /\ timer' = FALSE /\ ticking' = FALSE /\ step' = "idle"
  /\ ready' = {} /\ todo' = {} /\ claimed' = {} /\ batch' = 0
  /\ inFlight' = {} /\ calls' = {}
  /\ UNCHANGED store

\* The process dies, between any two commits.
Crash == up /\ Fault /\ Die

\* The daemon exits at the end of its shutdown.
Exit == up /\ ~timer /\ step = "idle" /\ Die /\ UNCHANGED faults

-----------------------------------------------------------------------------
Init ==
  /\ route = [r \in Routes |-> "new"]
  /\ rows = [d \in Ids |-> NoRow]
  /\ nextId = 1
  /\ up = FALSE /\ timer = FALSE /\ ticking = FALSE
  /\ step = "idle"
  /\ ready = {} /\ todo = {} /\ claimed = {} /\ batch = 0
  /\ inFlight = {} /\ calls = {}
  /\ faults = 0

\* The rest of a handler that has begun: nothing else runs in between.
Handler ==
  \/ \E d \in Ids : ClaimAlone(d)
  \/ \E d, carrier \in Ids : ClaimDigest(d, carrier)
  \/ Merge
  \/ Dispatch
  \/ EndScan
  \/ RejectUnrendered

Answer == \E c \in calls :
  Deliver(c) \/ FailPermanently(c) \/ HoldForRetry(c) \/ FailAttempt(c)

Request ==
  \/ \E r \in Routes, e \in Events : Enqueue(r, e)
  \/ \E d \in Ids : Replay(d)
  \/ \E r \in Routes : CreateRoute(r) \/ RemoveRoute(r)
  \/ \E r \in Routes, s \in {"enabled", "disabled"} : SetEnabled(r, s)

Clock == \E d \in Ids : BackoffExpires(d) \/ MinutePasses(d)

Next ==
  \/ TimerTick \/ EndPass
  \/ Handler
  \/ Answer \/ \E k \in Keys : ReleaseKey(k)
  \/ Request
  \/ Clock
  \/ Boot \/ Stop \/ Crash \/ Exit

Spec == Init /\ [][Next]_vars

\* What the event loop and the clock guarantee.  A handler that has begun goes
\* on; the interval timer fires; every adapter call is answered (each adapter
\* bounds its waits with a timeout); promise continuations run; the service
\* manager starts the daemon again.  A backoff runs out whatever passes run
\* meanwhile, hence the strong fairness.
Fairness ==
  /\ WF_vars(Handler) /\ WF_vars(TimerTick) /\ WF_vars(EndPass)
  /\ WF_vars(Answer)
  /\ \A k \in Keys : WF_vars(ReleaseKey(k))
  /\ \A d \in Ids : SF_vars(BackoffExpires(d))
  /\ WF_vars(Boot) /\ WF_vars(Exit)

FairSpec == Spec /\ Fairness

-----------------------------------------------------------------------------
(* Properties. *)

\* The variables keep their types.
TypeOK ==
  /\ route \in [Routes -> RouteState]
  /\ rows \in [Ids -> Row]
  /\ nextId \in 1..(MaxRows + 1)
  /\ up \in BOOLEAN /\ timer \in BOOLEAN /\ ticking \in BOOLEAN
  /\ step \in Steps
  /\ ready \subseteq Ids /\ todo \subseteq Ids
  /\ claimed \subseteq Keys
  /\ batch \in 0..MaxRows
  /\ step \in {"reject", "merge", "dispatch"} => batch \in Ids
  /\ inFlight \subseteq Keys
  /\ calls \subseteq Call
  /\ faults \in 0..MaxFaults

\* Never two turns in flight on one thread (README.md:131): two open adapter
\* calls have different thread keys, and so have two rows marked delivering,
\* even while the process is down and across routes that share a thread, one of
\* which may have been removed while its call was open.
OneTurnPerThread ==
  /\ \A c1, c2 \in calls : c1.key = c2.key => c1 = c2
  /\ \A d1, d2 \in Ids :
       rows[d1].status = "delivering" /\ rows[d2].status = "delivering"
         /\ KeyOf(d1) = KeyOf(d2) => d1 = d2

\* While the process runs, a row is delivering only as long as an adapter call
\* for it is open: nothing but a crash can leave it there (queue.ts:28-31).
DeliveringHasCall ==
  up => \A d \in Ids : rows[d].status = "delivering" =>
          \E c \in calls : c.row = d /\ c.key = KeyOf(d)

\* A coalesced row points to a newer row of its own route that is still there
\* and was never skipped, so its history can be followed (repos.ts:296-304).
CarrierKept ==
  \A d \in Ids : rows[d].status = "coalesced" =>
    LET c == rows[d].into IN
    /\ c > d
    /\ rows[c].status \notin {"absent", "skipped-duplicate"}
    /\ rows[c].route = rows[d].route

\* Whatever answer arrives late, a settled row keeps its status for as long as
\* its route exists: the mark* updates are not guarded by the status.
SettledIsFinal ==
  [][\A d \in Ids : rows[d].status \in Settled =>
       \/ rows'[d].status = rows[d].status
       \/ route'[rows[d].route] = "removed"]_vars

\* A thread is served from its oldest ready row: when a row begins to be sent,
\* it or a row folded into it is older than each row of an enabled route that is
\* ready for the same thread.
OldestReadyFirst ==
  [][\A b \in Ids : (rows[b].status # "delivering" /\ rows'[b].status = "delivering") =>
       \E h \in {b} \cup {x \in Ids : rows[x].status = "coalesced" /\ rows[x].into = b} :
         \A d \in ListReady(rows) \ {b} :
           (KeyOf(d) = KeyOf(b) /\ route[rows[d].route] = "enabled") => h < d]_vars

\* The queue keeps the contract of DeliveryContract.
Phase(row) ==
  CASE row.status = "absent" -> "none"
    [] row.status \in Pending -> "waiting"
    [] row.status = "delivering" -> "sending"
    [] row.status \in {"delivered", "failed"} -> row.status
    [] row.status = "skipped-duplicate" -> "skipped"
    [] row.status = "coalesced" -> "merged"

Contract == INSTANCE DeliveryContract WITH
  phase <- [d \in Ids |-> Phase(rows[d])],
  home <- [d \in Ids |-> rows[d].route],
  next <- nextId

KeepsContract == Contract!Spec

\* With finitely many faults, a row that waits is settled, unless its route is
\* disabled or removed: no key stays taken, no pass stays open, no row is lost
\* by a crash, no row waits behind the others of its thread for ever.
Drains ==
  \A d \in Ids :
    (rows[d].status \in Pending \cup {"delivering"}) ~>
      \/ rows[d].status \in Settled \cup {"absent"}
      \/ route[rows[d].route] # "enabled"

\* No row stays delivering for ever, enabled route or not: after a crash the
\* next start puts it back in the queue.
DeliveringEnds ==
  \A d \in Ids : (rows[d].status = "delivering") ~> (rows[d].status # "delivering")

-----------------------------------------------------------------------------
(* The inductive invariant behind the safety properties. *)

\* Identities are used once and a call outlives nothing but its row.
CallsTracked ==
  /\ \A d \in Ids : d >= nextId => rows[d].status = "absent"
  /\ \A c \in calls :
       /\ c.key \in inFlight
       /\ c.row < nextId
       /\ \/ rows[c.row].status = "absent"
          \/ rows[c.row].status = "delivering" /\ KeyOf(c.row) = c.key

\* A snapshot row whose key the pass has not claimed still waits, and the loop
\* has yet to visit it if it may be sent; the row a pass is about to send waits
\* on a free key; a digest goes to its newest row.
PassConsistent ==
  /\ todo \subseteq ready
  /\ step \in {"idle", "reject"} => ready = {} /\ claimed = {}
  /\ \A x \in ready : KeyOf(x) \notin claimed => rows[x].status \in Pending
  /\ \A x \in ready : Dispatchable(x) => x \in todo
  /\ step \in {"merge", "dispatch", "reject"} => rows[batch].status \in Pending
  /\ step \in {"merge", "dispatch"} =>
       batch \in ready /\ KeyOf(batch) \in claimed \ inFlight
  /\ step = "merge" =>
       \A x \in Siblings(batch) : x < batch /\ rows[x].status \in Pending

\* A process that is down holds nothing in memory.
DownIsEmpty == ~up => calls = {} /\ inFlight = {} /\ step = "idle" /\ ~ticking

QueueInv == /\ TypeOK /\ CallsTracked /\ PassConsistent /\ DownIsEmpty
            /\ OneTurnPerThread /\ DeliveringHasCall /\ CarrierKept

\* h is older than what else is ready for the thread of b.
Ahead(h, b) ==
  \A d \in ListReady(rows) \ {h, b} :
    KeyOf(d) = KeyOf(b) /\ route[rows[d].route] = "enabled" => h < d

\* While a pass runs its snapshot has every row that is ready, and the row it is about
\* to send, or one that goes into it, is ahead of the others.
PassServesOldest ==
  /\ step \in {"scan", "merge", "dispatch"} => ListReady(rows) \subseteq ready
  /\ step = "merge" => \E h \in Siblings(batch) : Ahead(h, batch)
  /\ step = "dispatch" =>
       \E h \in {batch} \cup {x \in Ids : rows[x].status = "coalesced" /\ rows[x].into = batch} :
         Ahead(h, batch)

=============================================================================
