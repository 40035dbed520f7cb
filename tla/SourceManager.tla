----------------------------- MODULE SourceManager -----------------------------
(***************************************************************************)
(* The source manager (src/daemon/sources.ts) and the router behind it     *)
(* (the callback of src/daemon/daemon.ts, src/core/router.ts, enqueueEvent *)
(* of the queue), for one source.  Calls of the API restart, set up again  *)
(* or remove the source; each awaits the stop and the start of an          *)
(* instance, and calls run at once.  The manager knows one live instance;  *)
(* an instance works until it is stopped, known or not.                    *)
(***************************************************************************)
EXTENDS Naturals, FiniteSets

CONSTANTS
  Calls,      \* calls of the API that may be at work at once
  Instances,  \* bound: instances, used again when nothing is heard of them any more
  Routes,     \* the enabled routes
  Events,     \* what may be emitted
  Matching,   \* the routes that match an event
  MaxUpsets,  \* bound: calls of the API, crashes, closed connections, failed writes and requests
  None        \* no instance

ASSUME ManagerAssumption == Matching \in [Events -> SUBSET Routes] /\ None \notin Instances

VARIABLES
  kind,    \* the kind of the source, of the same id for good
  record,  \* the source is in the sources table
  live,    \* the live instance
  inst,    \* what has become of an instance
  call,    \* the calls
  queued,  \* deliveries in the database: (route, event), each once
  upsets   \* those so far

managerVars == <<kind, record, live, inst, call>>
sharedVars == <<managerVars, queued, upsets>>

Kinds == {"gmail", "slack", "github", "webhook"}
\* An instance whose start failed is left as it is: nobody stops it, and a client it has
\* made may still connect.
Active(i) == inst[i] \in {"starting", "running", "failed"}
NoCall == [op |-> "none", at |-> "none", inst |-> None]
Goes(c, place, i) == call' = [call EXCEPT ![c].at = place, ![c].inst = i]

Upset == upsets < MaxUpsets /\ upsets' = upsets + 1

-----------------------------------------------------------------------------
(* The router: emit returns when every matching route has a row, or throws after some. *)

EmitsAll(e) == queued' = queued \cup (Matching[e] \X {e})

EmitThrows(e) ==
  /\ Upset
  /\ \E some \in SUBSET Matching[e] : some # Matching[e] /\ queued' = queued \cup (some \X {e})

-----------------------------------------------------------------------------
(* The calls of the API. *)

\* The setup of Gmail or Slack writes the record; the user restarts the source later.
SetUp ==
  /\ Upset
  /\ record' = TRUE
  /\ UNCHANGED <<kind, live, inst, call>>

\* restart and remove know the record; the setup of the others writes it, then restarts.
Begin(c, op) ==
  /\ call[c] = NoCall /\ Upset
  /\ op = "setup" \/ record
  /\ record' = TRUE
  /\ call' = [call EXCEPT ![c] = [op |-> op, at |-> "stop", inst |-> None]]
  /\ UNCHANGED <<kind, live, inst>>

\* stopOne, up to the stop of the instance.
StopOne(c) ==
  /\ call[c].at = "stop"
  /\ live' = None
  /\ IF live = None THEN Goes(c, "stopped", None) /\ UNCHANGED inst
     ELSE Goes(c, "stopping", live) /\ inst' = [inst EXCEPT ![live] = "stopping"]
  /\ UNCHANGED <<kind, record>>

\* Its stop has returned, well or not.
StopReturns(c) ==
  /\ call[c].at = "stopping"
  /\ inst' = [inst EXCEPT ![call[c].inst] = "stopped"]
  /\ Goes(c, "stopped", None)
  /\ UNCHANGED <<kind, record, live>>

Delete(c) ==
  /\ call[c].at = "stopped" /\ call[c].op = "remove"
  /\ record' = FALSE
  /\ call' = [call EXCEPT ![c] = NoCall]
  /\ UNCHANGED <<kind, live, inst>>

\* startOne, up to the start of an instance made from the record.
StartOne(c, i) ==
  /\ call[c].at = "stopped" /\ call[c].op # "remove" /\ record
  /\ inst[i] \in {"unused", "stopped", "failed"}
  /\ inst' = [inst EXCEPT ![i] = "starting"]
  /\ Goes(c, "starting", i)
  /\ UNCHANGED <<kind, record, live>>

StartNone(c) ==
  /\ call[c].at = "stopped" /\ call[c].op # "remove" /\ ~record
  /\ call' = [call EXCEPT ![c] = NoCall]
  /\ UNCHANGED <<kind, record, live, inst>>

\* Whichever instance was live is forgotten.
StartReturns(c) ==
  /\ call[c].at = "starting"
  /\ live' = call[c].inst
  /\ inst' = [inst EXCEPT ![call[c].inst] = "running"]
  /\ call' = [call EXCEPT ![c] = NoCall]
  /\ UNCHANGED <<kind, record>>

StartFails(c) ==
  /\ call[c].at = "starting"
  /\ inst' = [inst EXCEPT ![call[c].inst] = "failed"]
  /\ call' = [call EXCEPT ![c] = NoCall]
  /\ UNCHANGED <<kind, record, live>>

\* The daemon dies, or stops, and starts again: startAll.
Reboot(c) ==
  /\ live' = None
  /\ inst' = [i \in Instances |-> "unused"]
  /\ call' = [d \in Calls |-> IF d = c THEN [op |-> "boot", at |-> "stopped", inst |-> None] ELSE NoCall]
  /\ UNCHANGED <<kind, record>>

ManagerInit ==
  /\ kind \in Kinds
  /\ record = TRUE /\ live = None
  /\ inst = [i \in Instances |-> "unused"]
  /\ \E c \in Calls :
       call = [d \in Calls |-> IF d = c THEN [op |-> "boot", at |-> "stopped", inst |-> None] ELSE NoCall]
  /\ queued = {} /\ upsets = 0

ManagerTypeOK ==
  /\ kind \in Kinds /\ record \in BOOLEAN /\ live \in Instances \cup {None}
  /\ inst \in [Instances -> {"unused", "starting", "running", "stopping", "stopped", "failed"}]
  /\ call \in [Calls -> [op: {"none", "boot", "setup", "restart", "remove"},
                         at: {"none", "stop", "stopping", "stopped", "starting"},
                         inst: Instances \cup {None}]]
  /\ queued \subseteq Routes \X Events
=============================================================================
