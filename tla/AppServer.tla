------------------------------ MODULE AppServer ------------------------------
(***************************************************************************)
(* CodexAppServerAdapter and its JSON-RPC connection                       *)
(* (src/sinks/codex-app-server.ts, src/sinks/jsonrpc.ts): deliveries as    *)
(* turns of threads on an app-server that other clients use too.           *)
(*                                                                         *)
(* Answers and notifications come in the order the server sent them, and   *)
(* several may be handled before the call that waits for the first goes    *)
(* on.  A connection may fail twice, with an error and with its close, and *)
(* each time every completion waiter is failed, those of the next          *)
(* connection included.  A rejected `completion` that nobody awaits ends   *)
(* the process: Node's default for unhandled rejections, which the program *)
(* does not change.                                                        *)
(***************************************************************************)
EXTENDS Naturals, Sequences, FiniteSets

CONSTANTS
  Deliveries,    \* rows of the queue
  New,           \* those for a new thread
  ThreadOf,      \* the thread of the others
  Threads,       \* threads that exist
  Fresh,         \* ids of threads to come
  OtherThreads,  \* threads in which other clients start turns
  Other, None,
  MaxConns,      \* bound: connections
  MaxFaults,     \* bound: failures, timeouts and deaths
  MaxOthers      \* bound: turns of other clients

ASSUME DeliveryAssumption ==
  /\ New \subseteq Deliveries
  /\ ThreadOf \in [Deliveries \ New -> Threads]
ASSUME ThreadAssumption == Threads \cap Fresh = {} /\ OtherThreads \subseteq Threads
ASSUME NameAssumption ==
  /\ None \notin Deliveries \cup Threads \cup Fresh \cup Nat
  /\ Other \notin Deliveries \cup {None}
ASSUME BoundAssumption == MaxConns \in Nat /\ MaxFaults \in Nat /\ MaxOthers \in Nat

VARIABLES
  row,       \* the queue's row of each delivery
  call,      \* the adapter's call for each delivery
  waiter,    \* turnWaiters: the call that listens to each thread
  adapter,   \* connection and initializing
  conn,      \* the state of each connection
  wire,      \* messages on their way to the client
  requests,  \* requests the server has not handled
  turn,      \* the turn in flight on each thread
  finished,  \* deliveries with a turn that completed
  used,      \* fresh threads that exist
  faults, others

vars == <<row, call, waiter, adapter, conn, wire, requests, turn, finished, used, faults, others>>

-----------------------------------------------------------------------------
AllThreads == Threads \cup Fresh
Conns == 1..MaxConns

\* cut: the server is gone and the client does not know; failed: fail() has run and
\* the close event is to come, as it is after stop(); gone: no event any more.
ConnState == {"unused", "opening", "open", "cut", "failed", "gone"}
Alive(n) == n # None /\ conn[n] \in {"open", "cut"}

\* active, idle and started are results; the others are errors by their class.
Replies == {"none", "idle", "active", "started", "unreachable", "permanent", "error"}

Call == [at: {"idle", "connecting", "resuming", "starting", "running"},
         conn: Conns \cup {None},
         thread: AllThreads \cup {None},
         reply: Replies,                                        \* not looked at yet
         outcome: {"none", "completed", "failed", "rejected"}]  \* of `completion`

NoCall == [at |-> "idle", conn |-> None, thread |-> None, reply |-> "none", outcome |-> "none"]

Request == [delivery: Deliveries, conn: Conns, method: {"resume", "thread", "turn"}, thread: AllThreads \cup {None}]
Message == [kind: {"reply"}, delivery: Deliveries, method: {"resume", "thread", "turn"}, reply: Replies,
            thread: AllThreads \cup {None}]
           \cup [kind: {"completed"}, thread: AllThreads, by: Deliveries \cup {Other}, status: {"completed", "failed"}]

\* Typing of the adapter, its connections and the server.
TypeOK ==
  /\ row \in [Deliveries -> {"queued", "delivering", "delivered", "failed"}]
  /\ call \in [Deliveries -> Call]
  /\ waiter \in [AllThreads -> Deliveries \cup {None}]
  /\ adapter \in [connection: Conns \cup {None}, initializing: Conns \cup {None}]
  /\ conn \in [Conns -> ConnState]
  /\ wire \in [Conns -> Seq(Message)]
  /\ requests \subseteq Request
  /\ turn \in [AllThreads -> Deliveries \cup {Other, None}]
  /\ finished \subseteq Deliveries /\ used \subseteq Fresh
  /\ faults \in 0..MaxFaults /\ others \in 0..MaxOthers

Init ==
  /\ row = [d \in Deliveries |-> "queued"]
  /\ call = [d \in Deliveries |-> NoCall]
  /\ waiter = [t \in AllThreads |-> None]
  /\ adapter = [connection |-> None, initializing |-> None]
  /\ conn = [n \in Conns |-> "unused"]
  /\ wire = [n \in Conns |-> <<>>]
  /\ requests = {}
  /\ turn = [t \in AllThreads |-> None]
  /\ finished = {} /\ used = {} /\ faults = 0 /\ others = 0

-----------------------------------------------------------------------------
Fault == faults < MaxFaults /\ faults' = faults + 1

\* The queue takes an answer: it retries what is busy or unreachable, and may give
\* up on an error.
RowAfter(answer) ==
  IF answer = "ok" THEN {"delivered"} ELSE IF answer = "permanent" THEN {"failed"}
  ELSE IF answer = "error" THEN {"queued", "failed"} ELSE {"queued"}

Answers(d, answer) ==
  /\ \E r \in RowAfter(answer) : row' = [row EXCEPT ![d] = r]
  /\ call' = [call EXCEPT ![d] = NoCall]

\* Microtasks run before the next event of a timer or a socket.
CaughtUp == \A d \in Deliveries : call[d].reply = "none" /\ call[d].outcome = "none"

Unlisten(S) == [t \in AllThreads |-> IF waiter[t] \in S THEN None ELSE waiter[t]]

\* The process ends and starts again; rows in delivery are queued again.  The server,
\* what it was sent and its turns remain.
Ends ==
  /\ row' = [d \in Deliveries |-> IF row[d] = "delivering" THEN "queued" ELSE row[d]]
  /\ call' = [d \in Deliveries |-> NoCall]
  /\ waiter' = [t \in AllThreads |-> None]
  /\ adapter' = [connection |-> None, initializing |-> None]
  /\ conn' = [n \in Conns |-> IF conn[n] = "unused" THEN "unused" ELSE "gone"]
  /\ wire' = [n \in Conns |-> <<>>]

-----------------------------------------------------------------------------
(* Connecting.                                                             *)

\* Mutant: a delivery for a new thread asks for a method that is not one.
FirstMethodStart(d) == IF d \in New THEN "start" ELSE "resume"

FirstMethod(d) == IF d \in New THEN "thread" ELSE "resume"
Asks(d, n) == [delivery |-> d, conn |-> n, method |-> FirstMethod(d),
               thread |-> IF d \in New THEN None ELSE ThreadOf[d]]
AsksOn(S, n) ==
  /\ call' = [d \in Deliveries |-> IF d \in S THEN [NoCall EXCEPT !.at = "resuming", !.conn = n] ELSE call[d]]
  /\ requests' = requests \cup {Asks(d, n) : d \in S}

InDelivery(t) == \E e \in Deliveries \ New : ThreadOf[e] = t /\ row[e] = "delivering"

\* The queue hands over a row when no other row of its thread is in delivery.  It
\* passes over rows that are held for a retry, so a row may begin before earlier ones
\* are settled.  Rows for new threads are of routes of their own.
Begins(d) ==
  /\ row[d] = "queued" /\ (d \notin New => ~InDelivery(ThreadOf[d]))
  /\ row' = [row EXCEPT ![d] = "delivering"]

\* deliverToThread or startThread on a live connection, or waiting for one: doConnect
\* stops the connection it replaces.
Deliver(d) ==
  /\ Begins(d)
  /\ IF Alive(adapter.connection) THEN AsksOn({d}, adapter.connection) /\ UNCHANGED <<adapter, conn>>
     ELSE /\ call' = [call EXCEPT ![d].at = "connecting"]
          /\ UNCHANGED requests
          /\ IF adapter.initializing # None THEN UNCHANGED <<adapter, conn>>
             ELSE \E n \in Conns :
                    /\ conn[n] = "unused" /\ \A k \in Conns : k < n => conn[k] # "unused"
                    /\ conn' = [conn EXCEPT ![n] = "opening"]
                    /\ adapter' = [adapter EXCEPT !.initializing = n]
  /\ UNCHANGED <<waiter, wire, turn, finished, used, faults, others>>

Connecting == {d \in Deliveries : call[d].at = "connecting"}

\* initialize is answered.  Requests of earlier connections have reached the server
\* by now or never will.
Opens ==
  LET n == adapter.initializing IN
  /\ n # None
  /\ conn' = [conn EXCEPT ![n] = "open"]
  /\ adapter' = [connection |-> n, initializing |-> None]
  /\ call' = [d \in Deliveries |-> IF d \in Connecting THEN [NoCall EXCEPT !.at = "resuming", !.conn = n] ELSE call[d]]
  /\ requests' = {Asks(d, n) : d \in Connecting}
  /\ UNCHANGED <<row, waiter, wire, turn, finished, used, faults, others>>

\* Nothing listens, the process cannot be spawned, or initialize fails.
OpenFails ==
  LET n == adapter.initializing IN
  /\ n # None /\ Fault
  /\ conn' = [conn EXCEPT ![n] = "failed"]
  /\ adapter' = [adapter EXCEPT !.initializing = None]
  /\ row' = [d \in Deliveries |-> IF d \in Connecting THEN "queued" ELSE row[d]]
  /\ call' = [d \in Deliveries |-> IF d \in Connecting THEN NoCall ELSE call[d]]
  /\ UNCHANGED <<waiter, wire, requests, turn, finished, used, others>>

-----------------------------------------------------------------------------
(* The server.                                                             *)

Listens(n) == conn[n] = "open"
Send(n, m) == wire' = IF Listens(n) THEN [wire EXCEPT ![n] = Append(@, m)] ELSE wire
Reply(r, reply, t) == [kind |-> "reply", delivery |-> r.delivery, method |-> r.method, reply |-> reply, thread |-> t]

\* thread/resume, thread/start and turn/start, when the server does what they ask.
Handles(r) ==
  /\ requests' = requests \ {r}
  /\ CASE r.method = "resume" ->
            /\ Send(r.conn, Reply(r, IF turn[r.thread] = None THEN "idle" ELSE "active", r.thread))
            /\ UNCHANGED <<turn, used>>
       [] r.method = "thread" ->
            /\ \E t \in Fresh \ used : used' = used \cup {t} /\ Send(r.conn, Reply(r, "idle", t))
            /\ UNCHANGED turn
       [] r.method = "turn" ->
            /\ turn[r.thread] = None
            /\ turn' = [turn EXCEPT ![r.thread] = r.delivery]
            /\ Send(r.conn, Reply(r, "started", r.thread))
            /\ UNCHANGED used
  /\ UNCHANGED <<row, call, waiter, adapter, conn, finished, faults, others>>

\* The server refuses: overloaded, unknown thread, anything else.
Declines(r) ==
  /\ Fault
  /\ requests' = requests \ {r}
  /\ \E e \in {"unreachable", "permanent", "error"} : Send(r.conn, Reply(r, e, r.thread))
  /\ UNCHANGED <<row, call, waiter, adapter, conn, turn, finished, used, others>>

\* A turn ends; every client hears of it.
TurnEnds(t) ==
  /\ turn[t] # None
  /\ \E status \in {"completed", "failed"} :
       /\ wire' = [n \in Conns |-> IF Listens(n)
                     THEN Append(wire[n], [kind |-> "completed", thread |-> t, by |-> turn[t], status |-> status])
                     ELSE wire[n]]
       /\ finished' = IF status = "completed" THEN finished \cup ({turn[t]} \ {Other}) ELSE finished
  /\ turn' = [turn EXCEPT ![t] = None]
  /\ UNCHANGED <<row, call, waiter, adapter, conn, requests, used, faults, others>>

OtherStarts(t) ==
  /\ turn[t] = None /\ others < MaxOthers
  /\ others' = others + 1
  /\ turn' = [turn EXCEPT ![t] = Other]
  /\ UNCHANGED <<row, call, waiter, adapter, conn, wire, requests, finished, used, faults>>

\* The server dies with its turns; its clients will see their connections fail.
ServerDies ==
  /\ Fault
  /\ turn' = [t \in AllThreads |-> None]
  /\ requests' = {}
  /\ conn' = [n \in Conns |-> IF conn[n] = "open" THEN "cut" ELSE conn[n]]
  /\ UNCHANGED <<row, call, waiter, adapter, wire, finished, used, others>>

-----------------------------------------------------------------------------
(* What arrives.                                                           *)

\* A pending request of that connection.
Pending(d, n, method) ==
  /\ call[d].conn = n /\ call[d].reply = "none"
  /\ call[d].at = IF method = "turn" THEN "starting" ELSE "resuming"

\* Mutant: a notification completes the turn of whichever thread.
AddresseeAny(m) == {d \in Deliveries : \E t \in AllThreads : waiter[t] = d}

\* handleNotification: the call that listens to the thread.
Addressee(m) == {d \in Deliveries : waiter[m.thread] = d}

\* handleRaw.  What nobody waits for any more is dropped.
Receive(n) ==
  /\ Alive(n) /\ wire[n] # <<>>
  /\ wire' = [wire EXCEPT ![n] = Tail(@)]
  /\ LET m == Head(wire[n]) IN
     IF m.kind = "reply"
     THEN /\ call' = IF Pending(m.delivery, n, m.method)
                     THEN [call EXCEPT ![m.delivery].reply = m.reply, ![m.delivery].thread = m.thread] ELSE call
          /\ UNCHANGED waiter
     ELSE /\ call' = [d \in Deliveries |-> IF d \in Addressee(m) THEN [call[d] EXCEPT !.outcome = m.status] ELSE call[d]]
          /\ waiter' = Unlisten(Addressee(m))
  /\ UNCHANGED <<row, adapter, conn, requests, turn, finished, used, faults, others>>

\* Mutant: the waiter is registered when turn/start has been answered.
ListensLate(d) == [t \in AllThreads |-> IF call[d].at = "starting" /\ call[d].thread = t THEN d ELSE waiter[t]]

\* awaitTurnCompletion comes before turn/start.
ListensTo(d) == [t \in AllThreads |-> IF call[d].at = "resuming" /\ call[d].thread = t THEN d ELSE waiter[t]]

\* runTurn, up to its request.  A waiter that is there already is superseded.
RunTurn(d) ==
  LET t == call[d].thread IN
  /\ call[d].at = "resuming" /\ call[d].reply = "idle"
  /\ call' = [e \in Deliveries |->
       IF e = d THEN [call[d] EXCEPT !.at = "starting", !.reply = "none"]
       ELSE IF waiter[t] = e THEN [call[e] EXCEPT !.outcome = "rejected"] ELSE call[e]]
  /\ waiter' = ListensTo(d)
  /\ requests' = requests \cup {[delivery |-> d, conn |-> call[d].conn, method |-> "turn", thread |-> t]}
  /\ UNCHANGED <<row, adapter, conn, wire, turn, finished, used, faults, others>>

\* A busy thread or a refusal is the queue's affair.
TurnsAway(d) ==
  /\ call[d].at = "resuming" /\ call[d].reply \notin {"none", "idle"}
  /\ Answers(d, IF call[d].reply = "active" THEN "busy" ELSE call[d].reply)
  /\ UNCHANGED <<waiter, adapter, conn, wire, requests, turn, finished, used, faults, others>>

Started(d) ==
  /\ call[d].at = "starting" /\ call[d].reply = "started"
  /\ call' = [call EXCEPT ![d].at = "running", ![d].reply = "none"]
  /\ waiter' = ListensTo(d)
  /\ UNCHANGED <<row, adapter, conn, wire, requests, turn, finished, used, faults, others>>

\* turn/start was refused: cancelWaiter rejects a completion that runTurn, which
\* throws, never awaits.
StartRefused(d) ==
  /\ call[d].at = "starting" /\ call[d].reply \in {"unreachable", "permanent", "error"}
  /\ Ends
  /\ UNCHANGED <<requests, turn, finished, used, faults, others>>

\* The completion is settled.
Finishes(d) ==
  /\ call[d].at = "running" /\ call[d].outcome # "none"
  /\ Answers(d, CASE call[d].outcome = "completed" -> "ok" [] call[d].outcome = "failed" -> "error"
                  [] call[d].outcome = "rejected" -> "error")
  /\ UNCHANGED <<waiter, adapter, conn, wire, requests, turn, finished, used, faults, others>>

-----------------------------------------------------------------------------
(* Timeouts, failures and ends.                                            *)

\* thread/resume or thread/start is not answered in 60 seconds.
AskTimesOut(d) ==
  /\ call[d].at = "resuming" /\ CaughtUp /\ Fault
  /\ Answers(d, "unreachable")
  /\ UNCHANGED <<waiter, adapter, conn, wire, requests, turn, finished, used, others>>

\* Nor is the turn over in 30 minutes.
TurnTimesOut(d) ==
  /\ call[d].at = "running" /\ CaughtUp /\ Fault
  /\ waiter' = Unlisten({d})
  /\ Answers(d, "unreachable")
  /\ UNCHANGED <<adapter, conn, wire, requests, turn, finished, used, others>>

AwaitsStart == {d \in Deliveries : call[d].at = "starting"}
Lost(n) == {d \in Deliveries : call[d].at = "running" \/ (call[d].at = "resuming" /\ call[d].conn = n)}

\* fail(): the requests of the connection are rejected, and onClose fails every
\* waiter.  If one belongs to a call that awaits turn/start, nobody handles it.
ConnFails(n) ==
  /\ conn[n] \in {"open", "cut", "failed"} /\ CaughtUp /\ Fault
  /\ IF AwaitsStart # {} THEN Ends
     ELSE /\ row' = [d \in Deliveries |-> IF d \in Lost(n) THEN "queued" ELSE row[d]]
          /\ call' = [d \in Deliveries |-> IF d \in Lost(n) THEN NoCall ELSE call[d]]
          /\ waiter' = [t \in AllThreads |-> None]
          /\ \E next \in {"failed", "gone"} :
               (conn[n] = "failed" => next = "gone") /\ conn' = [conn EXCEPT ![n] = next]
          /\ wire' = [wire EXCEPT ![n] = <<>>]
          /\ UNCHANGED adapter
  /\ UNCHANGED <<requests, turn, finished, used, others>>

\* The daemon stops or is killed, or turn/start times out.
Stops ==
  /\ Fault
  /\ Ends
  /\ UNCHANGED <<requests, turn, finished, used, others>>

Next ==
  \/ \E d \in Deliveries : \/ Deliver(d) \/ RunTurn(d) \/ TurnsAway(d) \/ Started(d) \/ StartRefused(d)
                           \/ Finishes(d) \/ AskTimesOut(d) \/ TurnTimesOut(d)
  \/ Opens \/ OpenFails
  \/ \E r \in requests : Handles(r) \/ Declines(r)
  \/ \E t \in AllThreads : TurnEnds(t)
  \/ \E t \in OtherThreads : OtherStarts(t)
  \/ \E n \in Conns : Receive(n) \/ ConnFails(n)
  \/ ServerDies \/ Stops

Spec == Init /\ [][Next]_vars

-----------------------------------------------------------------------------
\* What is reported as delivered has had a turn that completed: no completion of
\* another delivery or of an earlier attempt that ended otherwise counts, unless other
\* clients start turns in its thread.
Alone(d) == d \in New \/ ThreadOf[d] \notin OtherThreads
DeliveredIsDone == \A d \in Deliveries : row[d] = "delivered" /\ Alone(d) => d \in finished

\* Each call that waits for a turn is registered, and only those; and the end of a
\* turn does not get past a call that waits for it, however fast the turn was.
NoMissedCompletion ==
  /\ \A t \in AllThreads, d \in Deliveries : waiter[t] = d =>
       call[d].thread = t /\ call[d].at \in {"starting", "running"} /\ call[d].outcome = "none"
  /\ \A d \in Deliveries :
       /\ call[d].at = "running" /\ call[d].outcome = "none" /\ conn[call[d].conn] = "open"
       => /\ waiter[call[d].thread] = d
          /\ \/ turn[call[d].thread] = d
             \/ \E i \in 1..Len(wire[call[d].conn]) : LET m == wire[call[d].conn][i] IN
                  m.kind = "completed" /\ m.thread = call[d].thread
-----------------------------------------------------------------------------
(* The inductive invariant behind the safety properties.                    *)

\* A row is in delivery while its call runs, one of a thread at a time.
RowsKnown ==
  /\ \A d \in Deliveries : row[d] = "delivering" <=> call[d].at # "idle"
  /\ \A d, e \in Deliveries \ New :
       row[d] = "delivering" /\ row[e] = "delivering" /\ ThreadOf[d] = ThreadOf[e] => d = e

\* At most one connection lives, and nothing is on its way on any other.
ConnectionKnown ==
  /\ \A n \in Conns : Alive(n) => n = adapter.connection
  /\ adapter.initializing # None => ~Alive(adapter.connection)
  /\ \A n \in Conns : wire[n] # <<>> => Alive(n)

\* A call past the connection is on the one that lives, and its thread is its own.
CallsKnown ==
  \A d \in Deliveries :
    /\ call[d].at \in {"idle", "connecting"} => call[d].reply = "none" /\ call[d].thread = None
    /\ call[d].at \notin {"starting", "running"} => call[d].outcome = "none"
    /\ call[d].at \in {"resuming", "starting", "running"} =>
         call[d].conn = adapter.connection /\ Alive(adapter.connection)
    /\ call[d].at \in {"starting", "running"} \/ call[d].reply = "idle" => call[d].thread # None
    /\ call[d].thread # None =>
         IF d \in New THEN call[d].thread \in used ELSE call[d].thread = ThreadOf[d]

\* A call that waits for the answer to turn/start on a thread.
Starts(d, t) == call[d].at = "starting" /\ call[d].reply = "none" /\ call[d].thread = t

\* A request for a turn is of the call that waits for its answer, or of a process
\* that is gone.
RequestsKnown ==
  \A r \in requests :
    /\ r.method = "resume" => r.delivery \notin New /\ r.thread = ThreadOf[r.delivery]
    /\ r.method = "thread" => r.delivery \in New /\ r.thread = None
    /\ r.method = "turn" =>
         \/ adapter.connection = None
         \/ r.conn = adapter.connection /\ Starts(r.delivery, r.thread)

\* The messages on their way, by their place.
On(n) == 1..Len(wire[n])
IsReply(n, i, method) == wire[n][i].kind = "reply" /\ wire[n][i].method = method
IsAnswer(n, i, reply, t) ==
  wire[n][i].kind = "reply" /\ wire[n][i].reply = reply /\ wire[n][i].thread = t
IsEnd(n, i, t) == wire[n][i].kind = "completed" /\ wire[n][i].thread = t

\* The answer to turn/start is on its way once, and then its request is not.
RepliesKnown ==
  \A n \in Conns : \A i \in On(n) : LET m == wire[n][i] IN
    /\ IsReply(n, i, "resume") => m.delivery \notin New /\ m.thread = ThreadOf[m.delivery]
    /\ IsReply(n, i, "thread") => m.delivery \in New /\ m.thread \in Fresh \cup {None}
    /\ IsReply(n, i, "turn") =>
         /\ Starts(m.delivery, m.thread) /\ m.reply # "idle"
         /\ \A r \in requests : r.method = "turn" => r.delivery # m.delivery
         /\ \A j \in On(n) : IsReply(n, j, "turn") /\ wire[n][j].delivery = m.delivery => j = i
    /\ m.kind = "reply" /\ m.reply = "started" => m.method = "turn"
    /\ m.kind = "reply" /\ m.reply = "idle" => m.thread # None
    /\ m.kind = "completed" /\ m.status = "completed" => m.by \in finished \cup {Other}

\* A thread that was started belongs to one delivery; none is in use before.
MadeBy(maker) ==
  \A t \in Fresh :
    /\ \A d \in Deliveries : call[d].thread = t => t \in used /\ maker[t] = d
    /\ \A r \in requests : r.thread = t => t \in used /\ maker[t] = r.delivery
    /\ \A n \in Conns : \A i \in On(n) :
         wire[n][i].thread = t =>
           t \in used /\ (wire[n][i].kind = "reply" => maker[t] = wire[n][i].delivery)
    /\ turn[t] # None => t \in used

ThreadsKnown == \E maker \in [Fresh -> Deliveries \cup {None}] : MadeBy(maker)

\* The waiters are those of the calls that wait for the end of a turn.
WaitersKnown ==
  /\ \A t \in AllThreads, d \in Deliveries : waiter[t] = d =>
       call[d].thread = t /\ call[d].at \in {"starting", "running"} /\ call[d].outcome = "none"
  /\ \A d \in Deliveries :
       call[d].at \in {"starting", "running"} /\ call[d].outcome = "none" =>
         waiter[call[d].thread] = d

\* A turn that was started is in flight, or its end comes after the answer.
EndsAfter(n, i, t) == \E j \in On(n) : j > i /\ IsEnd(n, j, t)
TurnsKnown ==
  /\ \A n \in Conns : conn[n] = "open" => \A i \in On(n) :
       wire[n][i].kind = "reply" /\ wire[n][i].reply = "started" =>
         \/ turn[wire[n][i].thread] = wire[n][i].delivery
         \/ EndsAfter(n, i, wire[n][i].thread)
  /\ \A d \in Deliveries :
       /\ \/ call[d].at = "starting" /\ call[d].reply = "started"
          \/ call[d].at = "running"
       /\ call[d].outcome = "none" /\ conn[call[d].conn] = "open"
       => turn[call[d].thread] = d \/ EndsAfter(call[d].conn, 0, call[d].thread)

\* Where no other client starts turns: nothing of an earlier turn comes after an
\* answer that the thread is idle, and what a call listens to is its own turn.
Own(t) == t \notin OtherThreads
StartedAfter(n, i, t) == \E j \in On(n) : j > i /\ IsAnswer(n, j, "started", t)
IdleKnown ==
  /\ \A n \in Conns : \A t \in AllThreads \ OtherThreads : \A i \in On(n) :
       IsAnswer(n, i, "idle", t) =>
         \/ StartedAfter(n, i, t)
         \/ ~EndsAfter(n, i, t) /\ (conn[n] = "open" => turn[t] = None)
  /\ \A d \in Deliveries : LET t == call[d].thread IN
       call[d].at = "resuming" /\ call[d].reply = "idle" /\ Own(t) =>
         ~EndsAfter(call[d].conn, 0, t) /\ (conn[call[d].conn] = "open" => turn[t] = None)
  /\ \A d \in Deliveries : LET t == call[d].thread IN
       call[d].at \in {"starting", "running"} /\ Own(t) =>
         /\ \A i \in On(call[d].conn) : IsEnd(call[d].conn, i, t) => wire[call[d].conn][i].by = d
         /\ conn[call[d].conn] = "open" => turn[t] \in {None, d}

\* A completion that was taken is of a turn of the delivery that completed.
OutcomesKnown ==
  /\ \A d \in Deliveries : call[d].outcome = "completed" /\ Own(call[d].thread) => d \in finished
  /\ DeliveredIsDone

AppServerInv ==
  /\ TypeOK /\ RowsKnown /\ ConnectionKnown /\ CallsKnown /\ RequestsKnown /\ RepliesKnown
  /\ ThreadsKnown /\ WaitersKnown /\ TurnsKnown /\ IdleKnown /\ OutcomesKnown
=============================================================================
