---------------------------- MODULE DesktopClient ----------------------------
(***************************************************************************)
(* The connector to the Desktop application (src/sinks/desktop-*.ts):      *)
(* RefreshingDesktopMcpClient over generations of DesktopMcpClient, and    *)
(* the registration file that a refresh rewrites.                          *)
(*                                                                         *)
(* The application gets a new pipe when it restarts; a generation made     *)
(* from an older registration cannot reach it.  A failed read starts one   *)
(* refresh, which the other calls of the process wait for; a write is      *)
(* never repeated.  A request to a generation may fail at any time: its    *)
(* child process, its 30 seconds, its closing.  What a message does to the *)
(* conversation is DesktopSink's.                                          *)
(***************************************************************************)
EXTENDS Naturals, FiniteSets

CONSTANTS
  Procs,    \* processes with a client
  Calls,    \* calls in progress
  ProcOf,   \* the process of a call
  None,     \* undefined
  MaxEpoch  \* bound: restarts of the application

ASSUME CallAssumption == ProcOf \in [Calls -> Procs]
ASSUME EpochAssumption == MaxEpoch \in Nat

VARIABLES
  epoch,         \* which start of the application is running
  registration,  \* the one the registration file points to
  client,        \* the RefreshingDesktopMcpClient of each process
  tool           \* the progress of each `call`

clientVars == <<epoch, registration, client, tool>>

-----------------------------------------------------------------------------
\* A generation, told apart from others of its process by its number.
Generation == [n: Nat \ {0}, epoch: 0..MaxEpoch]

\* made: the promise exists, its body has not run; waiting: for the file lock.
FlightStep == {"made", "waiting", "probing", "writing"}
Flight == [failed: Generation \cup {None}, step: FlightStep, selected: 0..MaxEpoch]

ASSUME NoneAssumption == None \notin Generation \cup Flight

Client == [current: Generation \cup {None},
           open: SUBSET Generation,      \* not closed yet
           closing: SUBSET Generation,   \* closingGenerations
           flight: Flight \cup {None},
           made: Nat,
           stage: {"open", "closing", "closed"}]

FreshClient == [current |-> None, open |-> {}, closing |-> {}, flight |-> None, made |-> 0, stage |-> "open"]

\* parked: waits for another call's refresh before it does anything.
Tool == [at: {"idle", "parked", "trying", "refreshing", "again", "done"},
         name: {"read_thread", "send_message"},
         gen: Generation \cup {None},
         woken: {"no", "ok", "failed"},
         got: BOOLEAN,                   \* the application took the request
         ok: BOOLEAN]

NoTool == [at |-> "idle", name |-> "read_thread", gen |-> None, woken |-> "no", got |-> FALSE, ok |-> FALSE]

ClientTypeOK ==
  /\ epoch \in 0..MaxEpoch /\ registration \in 0..MaxEpoch
  /\ client \in [Procs -> Client]
  /\ tool \in [Calls -> Tool]

Closed(p) == client[p].stage # "open"
Doing(c) == tool[c].name

ClientInit ==
  /\ epoch = 0 /\ registration \in 0..MaxEpoch
  /\ client = [p \in Procs |-> FreshClient]
  /\ tool = [c \in Calls |-> NoTool]

-----------------------------------------------------------------------------
(* One `call`.                                                             *)

\* Mutant: client() makes a generation although the client was closed.
CurrentUnguarded(p) ==
  LET cl == client[p]
      new == [n |-> cl.made + 1, epoch |-> registration]
  IN IF cl.current # None THEN {cl}
     ELSE {[cl EXCEPT !.current = new, !.open = @ \cup {new}, !.made = @ + 1]}

\* client(): the current generation, made from the registration if there is none.
\* Nothing, when the client is closed.
Current(p) ==
  LET cl == client[p]
      new == [n |-> cl.made + 1, epoch |-> registration]
  IN IF Closed(p) THEN {}
     ELSE IF cl.current # None THEN {cl}
     ELSE {[cl EXCEPT !.current = new, !.open = @ \cup {new}, !.made = @ + 1]}

\* client() throws: closed, or a registration that cannot be read, is incomplete
\* or names a connector whose contents changed.
MayThrow(p) == Closed(p) \/ client[p].current = None

Ends(c, ok) == tool' = [tool EXCEPT ![c] = [NoTool EXCEPT !.at = "done", !.name = Doing(c), !.ok = ok]]

\* `(await) this.client().client.call(name, args)`, up to the request.
Request(c, name, at) ==
  \E cl \in Current(ProcOf[c]) :
    /\ client' = [client EXCEPT ![ProcOf[c]] = cl]
    /\ tool' = [tool EXCEPT ![c] = [NoTool EXCEPT !.at = at, !.name = name, !.gen = cl.current]]

\* A call that gives up: to its caller it is one rejection like another.
Rejects(c, name) ==
  /\ tool' = [tool EXCEPT ![c] = [NoTool EXCEPT !.at = "done", !.name = name]]
  /\ UNCHANGED client

RequestOrThrow(c, name, at) ==
  \/ Request(c, name, at)
  \/ MayThrow(ProcOf[c]) /\ Rejects(c, name)

Waits(c, name, at) == [tool EXCEPT ![c] = [NoTool EXCEPT !.at = at, !.name = name]]

\* refreshAfter(failed), then the second attempt or the wait for a refresh.
RefreshAfter(c, failed) ==
  LET p == ProcOf[c]
      cl == client[p]
  IN IF Closed(p) THEN Rejects(c, "read_thread")
     ELSE IF cl.flight # None THEN tool' = Waits(c, "read_thread", "refreshing") /\ UNCHANGED client
     ELSE IF cl.current # failed THEN RequestOrThrow(c, "read_thread", "again")
     ELSE /\ client' = [client EXCEPT ![p].flight = [failed |-> failed, step |-> "made", selected |-> 0]]
          /\ tool' = Waits(c, "read_thread", "refreshing")

\* Past the first wait.  A read catches what client() throws; a write does not.
FirstAttempt(c, name) ==
  \/ Request(c, name, "trying")
  \/ /\ MayThrow(ProcOf[c])
     /\ IF name = "read_thread" THEN RefreshAfter(c, None) ELSE Rejects(c, name)

StartTool(c, name) ==
  IF client[ProcOf[c]].flight # None
  THEN tool' = Waits(c, name, "parked") /\ UNCHANGED client
  ELSE FirstAttempt(c, name)

\* The refresh a call waited for is over.
Resume(c) ==
  /\ tool[c].woken # "no"
  /\ IF tool[c].woken = "failed" \/ Closed(ProcOf[c]) THEN Rejects(c, Doing(c))
     ELSE IF tool[c].at = "parked" THEN FirstAttempt(c, Doing(c))
     ELSE RequestOrThrow(c, "read_thread", "again")
  /\ UNCHANGED <<epoch, registration>>

Reachable(c) == tool[c].gen.epoch = epoch /\ tool[c].gen \in client[ProcOf[c]].open

\* The answer arrives.  A read whose client was closed meanwhile is a failed one.
Answered(c) ==
  /\ tool[c].at \in {"trying", "again"}
  /\ IF Doing(c) = "read_thread" THEN Reachable(c) /\ ~Closed(ProcOf[c]) ELSE tool[c].got
  /\ Ends(c, TRUE)
  /\ UNCHANGED <<epoch, registration, client>>

\* Mutant: a write is repeated after a refresh like a read.
FailedAny(c) ==
  /\ tool[c].at \in {"trying", "again"}
  /\ IF tool[c].at = "trying" THEN
       LET p == ProcOf[c] IN
       IF Closed(p) \/ client[p].current # tool[c].gen THEN RequestOrThrow(c, Doing(c), "again")
       ELSE RefreshAfter(c, tool[c].gen)
     ELSE Rejects(c, Doing(c))
  /\ UNCHANGED <<epoch, registration>>

\* The request fails.
Failed(c) ==
  /\ tool[c].at \in {"trying", "again"}
  /\ IF Doing(c) = "read_thread" /\ tool[c].at = "trying"
     THEN RefreshAfter(c, tool[c].gen) ELSE Rejects(c, Doing(c))
  /\ UNCHANGED <<epoch, registration>>

-----------------------------------------------------------------------------
(* The refresh.                                                            *)

Waiting(p) == {c \in Calls : ProcOf[c] = p /\ tool[c].at \in {"parked", "refreshing"} /\ tool[c].woken = "no"}

\* The flight settles: it is forgotten and its waiters may go on.
Settles(p, how, cl) ==
  /\ client' = [client EXCEPT ![p] = [cl EXCEPT !.flight = None]]
  /\ tool' = [c \in Calls |-> IF c \in Waiting(p) THEN [tool[c] EXCEPT !.woken = how] ELSE tool[c]]

InFlight(p, step) == client[p].flight # None /\ client[p].flight.step = step

\* The failed generation makes room, unless another is current by now.
FlightStarts(p) ==
  LET cl == client[p] IN
  /\ InFlight(p, "made")
  /\ IF cl.current # cl.flight.failed THEN Settles(p, "ok", cl)
     ELSE /\ client' = [client EXCEPT ![p] = [cl EXCEPT !.current = None,
                                                        !.closing = @ \cup ({cl.current} \ {None}),
                                                        !.flight.step = "waiting"]]
          /\ UNCHANGED tool
  /\ UNCHANGED <<epoch, registration>>

\* withExclusiveFileLock: one refresh at a time on the registration.
Lock(p) ==
  /\ InFlight(p, "waiting")
  /\ \A q \in Procs : ~InFlight(q, "probing") /\ ~InFlight(q, "writing")
  /\ client' = [client EXCEPT ![p].flight.step = "probing"]
  /\ UNCHANGED <<epoch, registration, tool>>

\* Exactly one candidate answers for the registered task.
Selects(p) ==
  /\ InFlight(p, "probing")
  /\ client' = [client EXCEPT ![p].flight.step = "writing", ![p].flight.selected = epoch]
  /\ UNCHANGED <<epoch, registration, tool>>

\* No candidate or several; no lock in time; a registration that changed meanwhile.
RefreshFails(p) ==
  /\ \E step \in FlightStep \ {"made"} : InFlight(p, step)
  /\ Settles(p, "failed", client[p])
  /\ UNCHANGED <<epoch, registration>>

Writes(p) ==
  /\ InFlight(p, "writing")
  /\ registration' = client[p].flight.selected
  /\ Settles(p, IF Closed(p) THEN "failed" ELSE "ok", client[p])
  /\ UNCHANGED epoch

-----------------------------------------------------------------------------
(* close() and the application.                                            *)

\* Mutant: close() closes the current generation without asking whether there is one.
CloseBeginsAny(p) ==
  /\ client[p].stage = "open"
  /\ client' = [client EXCEPT ![p].stage = "closing", ![p].current = None,
                              ![p].closing = @ \cup {client[p].current}]
  /\ UNCHANGED <<epoch, registration, tool>>

CloseBegins(p) ==
  /\ client[p].stage = "open"
  /\ client' = [client EXCEPT ![p].stage = "closing", ![p].current = None,
                              ![p].closing = @ \cup ({client[p].current} \ {None})]
  /\ UNCHANGED <<epoch, registration, tool>>

GenerationCloses(p) ==
  /\ \E g \in client[p].closing :
       client' = [client EXCEPT ![p].closing = @ \ {g}, ![p].open = @ \ {g}]
  /\ UNCHANGED <<epoch, registration, tool>>

CloseReturns(p) ==
  /\ client[p].stage = "closing" /\ client[p].flight = None /\ client[p].closing = {}
  /\ client' = [client EXCEPT ![p].stage = "closed"]
  /\ UNCHANGED <<epoch, registration, tool>>

\* Each generation is the current one or on its way out, and none is left, nor a
\* refresh at work, when close() has returned: calls that waited for a refresh,
\* failed meanwhile or started one while the client was being closed left nothing.
NothingLeaks ==
  \A p \in Procs : LET cl == client[p] IN
    /\ cl.open \subseteq cl.closing \cup {cl.current}
    /\ cl.stage = "closed" => cl.open = {} /\ cl.flight = None
=============================================================================
