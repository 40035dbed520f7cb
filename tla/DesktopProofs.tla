---------------------------- MODULE DesktopProofs ----------------------------
(***************************************************************************)
(* Theorems about the desktop sink for all processes, calls, deliveries    *)
(* and restarts: a delivery reaches its conversation at most once, what is *)
(* answered as done is done, and no connection outlives its client.        *)
(***************************************************************************)
EXTENDS DesktopSink, TLAPS

-----------------------------------------------------------------------------
(* The client's part of the strengthening. *)

\* Every generation is current or being closed; a client that closes has no current
\* one and gets no other, and one that is closed has nothing at all.
Tidy(cl) ==
  /\ cl.open \subseteq cl.closing \cup ({cl.current} \ {None})
  /\ cl.stage # "open" => cl.current = None
  /\ cl.stage = "closed" => cl.flight = None /\ cl.closing = {}

ClientsTidy == \A p \in Procs : Tidy(client[p])

ClientInv == ClientTypeOK /\ ClientsTidy

LEMMA ProcOfCall ==
  ASSUME NEW c \in Calls
  PROVE  ProcOf[c] \in Procs
  BY CallAssumption

LEMMA ClientOf ==
  ASSUME ClientInv, NEW p \in Procs
  PROVE  client[p] \in Client /\ Tidy(client[p])
  BY DEF ClientInv, ClientTypeOK, ClientsTidy

\* A change of one client that keeps its type and leaves it tidy.
LEMMA ClientMoves ==
  ASSUME ClientInv, NEW p \in Procs, NEW cl \in Client, Tidy(cl),
         client' = [client EXCEPT ![p] = cl]
  PROVE  client' \in [Procs -> Client] /\ ClientsTidy'
  BY DEF ClientInv, ClientTypeOK, ClientsTidy

LEMMA ClientStays ==
  ASSUME ClientInv, UNCHANGED client
  PROVE  client' \in [Procs -> Client] /\ ClientsTidy'
  BY DEF ClientInv, ClientTypeOK, ClientsTidy

\* client() gives a tidy client with a current generation.
LEMMA CurrentGives ==
  ASSUME ClientInv, NEW p \in Procs, NEW cl \in Current(p)
  PROVE  cl \in Client /\ Tidy(cl) /\ cl.current \in Generation
<1>1. client[p] \in Client /\ Tidy(client[p]) /\ client[p].stage = "open"
  BY ClientOf DEF Current, Closed
<1>2. CASE client[p].current # None
  <2>1. cl = client[p]
    BY <1>1, <1>2 DEF Current, Closed
  <2> QED BY <1>1, <1>2, <2>1 DEF Client
<1>3. CASE client[p].current = None
  <2> DEFINE new == [n |-> client[p].made + 1, epoch |-> registration]
  <2>1. new \in Generation
    BY <1>1 DEF Client, Generation, ClientInv, ClientTypeOK
  <2> HIDE DEF new
  <2>2. cl = [client[p] EXCEPT !.current = new, !.open = @ \cup {new}, !.made = @ + 1]
    BY <1>1, <1>3 DEF Current, Closed, new
  <2>3. cl \in Client
    <3> DEFINE o == client[p].open \cup {new}
               n == client[p].made + 1
    <3>1. new \in Generation \cup {None} /\ o \in SUBSET Generation /\ n \in Nat
      BY <1>1, <2>1 DEF Client
    <3>2. cl = [client[p] EXCEPT !.current = new, !.open = o, !.made = n]
      BY <2>2
    <3> HIDE DEF o, n
    <3> QED BY <1>1, <3>1, <3>2 DEF Client
  <2>4. cl.current = new /\ cl.open = client[p].open \cup {new} /\ cl.closing = client[p].closing
        /\ cl.stage = "open"
    BY <1>1, <2>2 DEF Client
  <2>5. Tidy(cl)
    BY <1>1, <1>3, <2>1, <2>4, NoneAssumption DEF Tidy
  <2> QED BY <2>1, <2>3, <2>4, <2>5
<1> QED BY <1>2, <1>3

-----------------------------------------------------------------------------
(* A step of one call. *)

\* What a call may be doing after it began or went on: it has no answer yet, a request
\* is out only while it is at it, and a write neither refreshes nor repeats.
Going(t, name) ==
  /\ t \in Tool
  /\ t.name = name /\ t.at # "idle" /\ ~t.ok /\ ~t.got /\ t.woken = "no"
  /\ t.gen # None => t.at \in {"trying", "again"}
  /\ name = "send_message" => t.at \in {"parked", "trying", "done"}

Moved(c, name) ==
  /\ client' \in [Procs -> Client] /\ ClientsTidy'
  /\ tool' \in [Calls -> Tool]
  /\ \A x \in Calls \ {c} : tool'[x] = tool[x]
  /\ Going(tool'[c], name)

LEMMA ToolMoves ==
  ASSUME ClientInv, NEW c \in Calls, NEW name, NEW t, Going(t, name),
         tool' = [tool EXCEPT ![c] = t],
         client' \in [Procs -> Client], ClientsTidy'
  PROVE  Moved(c, name)
  BY DEF ClientInv, ClientTypeOK, Going, Moved

LEMMA NoToolType == NoTool \in Tool /\ NoTool.at = "idle" /\ ~NoTool.ok /\ ~NoTool.got
  BY DEF NoTool, Tool

\* The values a call is given.
LEMMA GoingTools ==
  ASSUME NEW name \in {"read_thread", "send_message"},
         NEW at \in {"parked", "trying", "refreshing", "again", "done"},
         name = "send_message" => at \in {"parked", "trying", "done"}
  PROVE  /\ Going([NoTool EXCEPT !.at = at, !.name = name], name)
         /\ \A g \in Generation : at \in {"trying", "again"} =>
              Going([NoTool EXCEPT !.at = at, !.name = name, !.gen = g], name)
<1>1. NoTool \in Tool /\ ~NoTool.got /\ ~NoTool.ok /\ NoTool.gen = None /\ NoTool.woken = "no"
  BY NoToolType DEF NoTool
<1>2. Going([NoTool EXCEPT !.at = at, !.name = name], name)
  BY <1>1 DEF Going, Tool
<1>3. ASSUME NEW g \in Generation, at \in {"trying", "again"}
      PROVE  Going([NoTool EXCEPT !.at = at, !.name = name, !.gen = g], name)
  BY <1>1, <1>3 DEF Going, Tool
<1> QED BY <1>2, <1>3

LEMMA RejectsMoves ==
  ASSUME ClientInv, NEW c \in Calls, NEW name \in {"read_thread", "send_message"}, Rejects(c, name)
  PROVE  Moved(c, name)
<1>1. Going([NoTool EXCEPT !.at = "done", !.name = name], name)
  BY GoingTools
<1> QED BY <1>1, ClientStays, ToolMoves DEF Rejects

LEMMA RequestMoves ==
  ASSUME ClientInv, NEW c \in Calls, NEW name \in {"read_thread", "send_message"},
         NEW at \in {"trying", "again"}, name = "send_message" => at = "trying",
         Request(c, name, at)
  PROVE  Moved(c, name)
<1>1. ProcOf[c] \in Procs
  BY ProcOfCall
<1>2. PICK cl \in Current(ProcOf[c]) :
        /\ client' = [client EXCEPT ![ProcOf[c]] = cl]
        /\ tool' = [tool EXCEPT ![c] = [NoTool EXCEPT !.at = at, !.name = name, !.gen = cl.current]]
  BY DEF Request
<1>3. cl \in Client /\ Tidy(cl) /\ cl.current \in Generation
  BY <1>1, CurrentGives
<1>4. Going([NoTool EXCEPT !.at = at, !.name = name, !.gen = cl.current], name)
  BY <1>3, GoingTools
<1>5. client' \in [Procs -> Client] /\ ClientsTidy'
  BY <1>1, <1>2, <1>3, ClientMoves
<1> QED BY <1>2, <1>4, <1>5, ToolMoves

LEMMA RequestOrThrowMoves ==
  ASSUME ClientInv, NEW c \in Calls, RequestOrThrow(c, "read_thread", "again")
  PROVE  Moved(c, "read_thread")
  BY RequestMoves, RejectsMoves DEF RequestOrThrow

LEMMA FlightSet ==
  ASSUME ClientInv, NEW p \in Procs, NEW f \in Flight, client[p].stage # "closed"
  PROVE  [client[p] EXCEPT !.flight = f] \in Client /\ Tidy([client[p] EXCEPT !.flight = f])
  BY ClientOf DEF Client, Tidy

LEMMA RefreshAfterMoves ==
  ASSUME ClientInv, NEW c \in Calls, NEW failed \in Generation \cup {None}, RefreshAfter(c, failed)
  PROVE  Moved(c, "read_thread")
<1> DEFINE p == ProcOf[c]
<1>1. p \in Procs
  BY ProcOfCall
<1>2. CASE Closed(p)
  BY <1>2, RejectsMoves DEF RefreshAfter
<1>3. Going([NoTool EXCEPT !.at = "refreshing", !.name = "read_thread"], "read_thread")
  BY GoingTools
<1>4. CASE ~Closed(p) /\ client[p].flight # None
  BY <1>3, <1>4, ClientStays, ToolMoves DEF RefreshAfter, Waits
<1>5. CASE ~Closed(p) /\ client[p].flight = None /\ client[p].current # failed
  BY <1>5, RequestOrThrowMoves DEF RefreshAfter
<1>6. CASE ~Closed(p) /\ client[p].flight = None /\ client[p].current = failed
  <2> DEFINE f == [failed |-> failed, step |-> "made", selected |-> 0]
  <2>1. f \in Flight
    BY EpochAssumption DEF Flight, FlightStep
  <2>2. client' = [client EXCEPT ![p] = [client[p] EXCEPT !.flight = f]]
        /\ tool' = [tool EXCEPT ![c] = [NoTool EXCEPT !.at = "refreshing", !.name = "read_thread"]]
    BY <1>6 DEF RefreshAfter, Waits
  <2>3. [client[p] EXCEPT !.flight = f] \in Client /\ Tidy([client[p] EXCEPT !.flight = f])
    BY <1>1, <1>6, <2>1, FlightSet DEF Closed
  <2>4. client' \in [Procs -> Client] /\ ClientsTidy'
    BY <1>1, <2>2, <2>3, ClientMoves
  <2> QED BY <1>3, <2>2, <2>4, ToolMoves
<1> QED BY <1>2, <1>4, <1>5, <1>6

LEMMA FirstAttemptMoves ==
  ASSUME ClientInv, NEW c \in Calls, NEW name \in {"read_thread", "send_message"}, FirstAttempt(c, name)
  PROVE  Moved(c, name)
  BY RequestMoves, RejectsMoves, RefreshAfterMoves DEF FirstAttempt

LEMMA StartToolMoves ==
  ASSUME ClientInv, NEW c \in Calls, NEW name \in {"read_thread", "send_message"}, StartTool(c, name)
  PROVE  Moved(c, name)
<1>1. Going([NoTool EXCEPT !.at = "parked", !.name = name], name)
  BY GoingTools
<1> QED BY <1>1, ClientStays, ToolMoves, FirstAttemptMoves DEF StartTool, Waits

\* Only a call that waits is woken, only one that is done is answered, and a write is
\* never in a refresh.
Fits(t) ==
  /\ t.woken # "no" => t.at \in {"parked", "refreshing"}
  /\ t.ok => t.at = "done"
  /\ t.name = "send_message" => t.at \in {"parked", "trying", "done"}

ToolsFit == \A c \in Calls : Fits(tool[c])

LEMMA ToolOf ==
  ASSUME ClientInv, NEW c \in Calls
  PROVE  tool[c] \in Tool /\ tool[c].name \in {"read_thread", "send_message"}
         /\ tool[c].gen \in Generation \cup {None}
  BY DEF ClientInv, ClientTypeOK, Tool

LEMMA MovedFits ==
  ASSUME ToolsFit, NEW c \in Calls, NEW name, Moved(c, name)
  PROVE  ToolsFit'
  BY DEF ToolsFit, Fits, Moved, Going

LEMMA ResumeMoves ==
  ASSUME ClientInv, ToolsFit, NEW c \in Calls, Resume(c)
  PROVE  Moved(c, Doing(c)) /\ tool[c].at \in {"parked", "refreshing"}
<1>1. tool[c].at \in {"parked", "refreshing"} /\ tool[c].name \in {"read_thread", "send_message"}
  BY ToolOf DEF Resume, ToolsFit, Fits
<1>2. tool[c].at # "parked" => Doing(c) = "read_thread"
  BY <1>1 DEF ToolsFit, Fits, Doing
<1> QED BY <1>1, <1>2, RejectsMoves, FirstAttemptMoves, RequestOrThrowMoves DEF Resume, Doing

LEMMA FailedMoves ==
  ASSUME ClientInv, NEW c \in Calls, Failed(c)
  PROVE  Moved(c, Doing(c))
  BY ToolOf, RejectsMoves, RefreshAfterMoves DEF Failed, Doing

-----------------------------------------------------------------------------
(* The steps of the refresh, and the end of a client. *)

\* The calls go on as they were, some of them woken.
Woken ==
  /\ client' \in [Procs -> Client] /\ ClientsTidy'
  /\ tool' \in [Calls -> Tool]
  /\ ToolsFit'
  /\ \A c \in Calls : /\ tool'[c].at = tool[c].at /\ tool'[c].name = tool[c].name
                      /\ tool'[c].got = tool[c].got /\ tool'[c].ok = tool[c].ok

LEMMA SameTools ==
  ASSUME ClientInv, ToolsFit, UNCHANGED tool, client' \in [Procs -> Client], ClientsTidy'
  PROVE  Woken
  BY DEF ClientInv, ClientTypeOK, ToolsFit, Woken

LEMMA Wakes ==
  ASSUME NEW t \in Tool, Fits(t), t.at \in {"parked", "refreshing"}, NEW how \in {"ok", "failed"}
  PROVE  /\ [t EXCEPT !.woken = how] \in Tool /\ Fits([t EXCEPT !.woken = how])
         /\ [t EXCEPT !.woken = how].at = t.at /\ [t EXCEPT !.woken = how].name = t.name
         /\ [t EXCEPT !.woken = how].got = t.got /\ [t EXCEPT !.woken = how].ok = t.ok
  BY DEF Tool, Fits

LEMMA SettlesWakes ==
  ASSUME ClientInv, ToolsFit, NEW p \in Procs, NEW how \in {"ok", "failed"}, Settles(p, how, client[p])
  PROVE  Woken
<1>1. [client[p] EXCEPT !.flight = None] \in Client /\ Tidy([client[p] EXCEPT !.flight = None])
  BY ClientOf DEF Client, Tidy
<1>2. client' \in [Procs -> Client] /\ ClientsTidy'
  BY <1>1, ClientMoves DEF Settles
<1>3. tool' = [c \in Calls |-> IF c \in Waiting(p) THEN [tool[c] EXCEPT !.woken = how] ELSE tool[c]]
  BY DEF Settles
<1>4. ASSUME NEW c \in Calls
      PROVE  /\ tool'[c] \in Tool /\ Fits(tool'[c])
             /\ tool'[c].at = tool[c].at /\ tool'[c].name = tool[c].name
             /\ tool'[c].got = tool[c].got /\ tool'[c].ok = tool[c].ok
  <2>1. tool[c] \in Tool /\ Fits(tool[c])
    BY DEF ClientInv, ClientTypeOK, ToolsFit
  <2>2. CASE c \in Waiting(p)
    <3> DEFINE u == [tool[c] EXCEPT !.woken = how]
    <3>1. tool[c].at \in {"parked", "refreshing"}
      BY <2>2 DEF Waiting
    <3>2. /\ u \in Tool /\ Fits(u) /\ u.at = tool[c].at /\ u.name = tool[c].name
          /\ u.got = tool[c].got /\ u.ok = tool[c].ok
      BY <2>1, <3>1, Wakes
    <3>3. tool'[c] = u
      BY <1>3, <2>2
    <3> HIDE DEF u
    <3> QED BY <3>2, <3>3
  <2>3. CASE c \notin Waiting(p)
    BY <1>3, <2>1, <2>3
  <2> QED BY <2>2, <2>3
<1>5. tool' \in [Calls -> Tool]
  BY <1>3, <1>4
<1>6. ToolsFit'
  BY <1>4 DEF ToolsFit, Fits
<1> QED BY <1>2, <1>4, <1>5, <1>6 DEF Woken

\* A flight is at work only while its client is not closed.
LEMMA FlightOf ==
  ASSUME ClientInv, NEW p \in Procs, NEW step, InFlight(p, step)
  PROVE  client[p].flight \in Flight /\ client[p].stage # "closed"
  BY ClientOf DEF InFlight, Client, Tidy

LEMMA FlightStartsWakes ==
  ASSUME ClientInv, ToolsFit, NEW p \in Procs, FlightStarts(p)
  PROVE  Woken /\ UNCHANGED <<epoch, registration>>
<1> DEFINE cl == client[p]
<1>1. cl \in Client /\ Tidy(cl) /\ cl.flight \in Flight /\ cl.stage # "closed"
  BY ClientOf, FlightOf DEF FlightStarts
<1>2. CASE cl.current # cl.flight.failed
  BY <1>2, SettlesWakes DEF FlightStarts
<1>3. CASE cl.current = cl.flight.failed
  <2> DEFINE f == [cl.flight EXCEPT !.step = "waiting"]
             k == cl.closing \cup ({cl.current} \ {None})
             new == [cl EXCEPT !.current = None, !.closing = k, !.flight = f]
  <2>1. f \in Flight
    BY <1>1 DEF Flight, FlightStep
  <2>2. k \in SUBSET Generation
    BY <1>1 DEF Client
  <2>3. [cl EXCEPT !.current = None, !.closing = @ \cup ({cl.current} \ {None}), !.flight.step = "waiting"] = new
    BY <1>1 DEF Client
  <2> HIDE DEF f
  <2>4. new \in Client /\ Tidy(new)
    <3> HIDE DEF k
    <3>1. new \in Client
      BY <1>1, <2>1, <2>2 DEF Client
    <3>2. new.current = None /\ new.closing = k /\ new.stage = cl.stage /\ new.open = cl.open
      BY <1>1 DEF Client
    <3> QED BY <1>1, <3>1, <3>2 DEF Tidy, k
  <2>5. client' = [client EXCEPT ![p] = new] /\ UNCHANGED tool
    BY <1>3, <2>3 DEF FlightStarts
  <2> HIDE DEF new
  <2>6. client' \in [Procs -> Client] /\ ClientsTidy'
    BY <2>4, <2>5, ClientMoves
  <2> QED BY <2>5, <2>6, SameTools DEF FlightStarts
<1> QED BY <1>2, <1>3 DEF FlightStarts

\* A step within a flight.
LEMMA FlightMoves ==
  ASSUME ClientInv, ToolsFit, NEW p \in Procs, NEW step, InFlight(p, step), NEW f \in Flight,
         client' = [client EXCEPT ![p] = [client[p] EXCEPT !.flight = f]], UNCHANGED tool
  PROVE  Woken
<1>1. [client[p] EXCEPT !.flight = f] \in Client /\ Tidy([client[p] EXCEPT !.flight = f])
  BY FlightOf, FlightSet
<1> QED BY <1>1, ClientMoves, SameTools

LEMMA LockWakes ==
  ASSUME ClientInv, ToolsFit, NEW p \in Procs, Lock(p)
  PROVE  Woken /\ UNCHANGED <<epoch, registration>>
<1> DEFINE f == [client[p].flight EXCEPT !.step = "probing"]
<1>1. InFlight(p, "waiting") /\ client[p].flight \in Flight
  BY FlightOf DEF Lock
<1>2. f \in Flight
  BY <1>1 DEF Flight, FlightStep
<1>3. client' = [client EXCEPT ![p] = [client[p] EXCEPT !.flight = f]]
  BY ClientOf DEF Lock
<1> QED BY <1>1, <1>2, <1>3, FlightMoves DEF Lock

LEMMA SelectsWakes ==
  ASSUME ClientInv, ToolsFit, NEW p \in Procs, Selects(p)
  PROVE  Woken /\ UNCHANGED <<epoch, registration>>
<1> DEFINE f == [client[p].flight EXCEPT !.step = "writing", !.selected = epoch]
<1>1. InFlight(p, "probing") /\ client[p].flight \in Flight /\ epoch \in 0..MaxEpoch
  BY FlightOf DEF Selects, ClientInv, ClientTypeOK
<1>2. f \in Flight
  BY <1>1 DEF Flight, FlightStep
<1>3. client' = [client EXCEPT ![p] = [client[p] EXCEPT !.flight = f]]
  BY <1>1, ClientOf DEF Selects, Client, Flight
<1> QED BY <1>1, <1>2, <1>3, FlightMoves DEF Selects

LEMMA RefreshWakes ==
  ASSUME ClientInv, ToolsFit, NEW p \in Procs, Refresh(p)
  PROVE  Woken /\ epoch' = epoch /\ registration' \in 0..MaxEpoch
<1>1. registration \in 0..MaxEpoch
  BY DEF ClientInv, ClientTypeOK
<1>2. CASE RefreshFails(p)
  BY <1>1, <1>2, SettlesWakes DEF RefreshFails
<1>3. CASE Writes(p)
  <2>1. registration' \in 0..MaxEpoch
    BY <1>3, FlightOf DEF Writes, Flight
  <2> QED BY <1>3, <2>1, SettlesWakes DEF Writes
<1> QED BY <1>1, <1>2, <1>3, FlightStartsWakes, LockWakes, SelectsWakes DEF Refresh

LEMMA CloseWakes ==
  ASSUME ClientInv, ToolsFit, NEW p \in Procs, Close(p)
  PROVE  Woken /\ UNCHANGED <<epoch, registration>>
<1>1. client[p] \in Client /\ Tidy(client[p])
  BY ClientOf
<1>2. CASE CloseBegins(p)
  <2> DEFINE k == client[p].closing \cup ({client[p].current} \ {None})
             new == [client[p] EXCEPT !.stage = "closing", !.current = None, !.closing = k]
  <2>1. client' = [client EXCEPT ![p] = new]
    BY <1>2, <1>1 DEF CloseBegins, ClientInv, ClientTypeOK
  <2>2. k \in SUBSET Generation
    BY <1>1 DEF Client
  <2>3. new \in Client /\ Tidy(new)
    <3> HIDE DEF k
    <3>1. new \in Client
      BY <1>1, <2>2 DEF Client
    <3>2. new.current = None /\ new.closing = k /\ new.stage = "closing" /\ new.open = client[p].open
      BY <1>1 DEF Client
    <3> QED BY <1>1, <3>1, <3>2 DEF Tidy, k
  <2> HIDE DEF new
  <2>4. client' \in [Procs -> Client] /\ ClientsTidy'
    BY <2>1, <2>3, ClientMoves
  <2> QED BY <1>2, <2>4, SameTools DEF CloseBegins
<1>3. CASE GenerationCloses(p)
  <2>1. PICK g \in client[p].closing :
          client' = [client EXCEPT ![p].closing = @ \ {g}, ![p].open = @ \ {g}]
    BY <1>3 DEF GenerationCloses
  <2> DEFINE k == client[p].closing \ {g}
             o == client[p].open \ {g}
             new == [client[p] EXCEPT !.closing = k, !.open = o]
  <2>2. client' = [client EXCEPT ![p] = new]
    BY <2>1, <1>1 DEF ClientInv, ClientTypeOK
  <2>3. k \in SUBSET Generation /\ o \in SUBSET Generation
    BY <1>1 DEF Client
  <2>4. new \in Client /\ Tidy(new)
    <3>1. new \in Client
      <4> HIDE DEF k, o
      <4> QED BY <1>1, <2>3 DEF Client
    <3>2. new.current = client[p].current /\ new.closing = k /\ new.stage = client[p].stage /\ new.open = o
          /\ new.flight = client[p].flight
      <4> HIDE DEF k, o
      <4> QED BY <1>1 DEF Client
    <3>3. Tidy(new)
      <4> HIDE DEF new
      <4> QED BY <1>1, <2>1, <3>2 DEF Tidy
    <3> QED BY <3>1, <3>3
  <2> HIDE DEF new
  <2>5. client' \in [Procs -> Client] /\ ClientsTidy'
    BY <2>2, <2>4, ClientMoves
  <2> QED BY <1>3, <2>5, SameTools DEF GenerationCloses
<1>4. CASE CloseReturns(p)
  <2> DEFINE new == [client[p] EXCEPT !.stage = "closed"]
  <2>1. new \in Client /\ Tidy(new)
    BY <1>1, <1>4 DEF CloseReturns, Client, Tidy
  <2>2. client' = [client EXCEPT ![p] = new]
    BY <1>4 DEF CloseReturns
  <2>3. client' \in [Procs -> Client] /\ ClientsTidy'
    BY <2>1, <2>2, ClientMoves
  <2> QED BY <1>4, <2>3, SameTools DEF CloseReturns
<1> QED BY <1>2, <1>3, <1>4 DEF Close

-----------------------------------------------------------------------------
(* The sink's part of the strengthening. *)

\* A call at work has a job, and one that writes a delivery.
JobsFit ==
  \A c \in Calls : tool[c].at # "idle" =>
    job[c] # None /\ (tool[c].name = "send_message" => job[c].kind = "deliver")

Sending(c, d) == tool[c].at # "idle" /\ tool[c].name = "send_message" /\ job[c].delivery = d

\* Nothing was done about a delivery without a receipt.
Unclaimed(d) ==
  receipts[d] = NoReceipt =>
    /\ submitted[d] = <<>>
    /\ \A m \in messages : m.delivery # d
    /\ \A c \in Calls : ~Sending(c, d)

\* With one, the conversation has its prompt or nothing yet.
Claimed(d) ==
  receipts[d] # NoReceipt =>
    /\ submitted[d] \in {<<>>, <<receipts[d].prompt>>}
    /\ receipts[d].state = "sent" => submitted[d] = <<receipts[d].prompt>>

\* A message under way is the only one of its delivery, and came before any other.
UnderWay(d) ==
  \A m \in messages : m.delivery = d =>
    /\ submitted[d] = <<>>
    /\ m.prompt = receipts[d].prompt
    /\ \A n \in messages : n.delivery = d => n = m

\* The call that writes is the one that holds the receipt; it has sent nothing while it
\* waits, and it has heard of what is in the conversation only.
Sender(c, d) ==
  Sending(c, d) =>
    /\ job[c].prompt = receipts[d].prompt
    /\ tool[c].at = "parked" => submitted[d] = <<>> /\ \A m \in messages : m.delivery # d
    /\ tool[c].got \/ tool[c].ok => submitted[d] = <<receipts[d].prompt>>
    /\ \A x \in Calls : Sending(x, d) => x = c

Once ==
  \A d \in Deliveries :
    Unclaimed(d) /\ Claimed(d) /\ UnderWay(d) /\ \A c \in Calls : Sender(c, d)

AnswersTrue ==
  \A c \in Calls : job[c] # None /\ job[c].answer = "ok" =>
    job[c].kind = "deliver" /\ submitted[job[c].delivery] = <<job[c].prompt>>

DesktopInv == TypeOK /\ ClientsTidy /\ ToolsFit /\ JobsFit /\ Once /\ AnswersTrue

LEMMA TypedClients ==
  ASSUME DesktopInv
  PROVE  ClientInv
  BY DEF DesktopInv, TypeOK, ClientInv

\* What is known of a job, and of the one with an answer more.
LEMMA JobOf ==
  ASSUME NEW j \in Job
  PROVE  /\ j.kind \in {"deliver", "probe"}
         /\ j.kind = "deliver" => j.delivery \in Deliveries /\ j.prompt \in Prompts
<1>1. CASE j \in [kind: {"deliver"}, delivery: Deliveries, prompt: Prompts, answer: Answers]
  BY <1>1
<1>2. CASE j \in [kind: {"probe"}, answer: Answers]
  BY <1>2
<1> QED BY <1>1, <1>2 DEF Job

LEMMA JobSays ==
  ASSUME NEW j \in Job, NEW a \in Answers
  PROVE  /\ [j EXCEPT !.answer = a] \in Job
         /\ [j EXCEPT !.answer = a].answer = a
         /\ [j EXCEPT !.answer = a].kind = j.kind
         /\ j.kind = "deliver" => [j EXCEPT !.answer = a].delivery = j.delivery
                                  /\ [j EXCEPT !.answer = a].prompt = j.prompt
<1>1. CASE j \in [kind: {"deliver"}, delivery: Deliveries, prompt: Prompts, answer: Answers]
  BY <1>1 DEF Job
<1>2. CASE j \in [kind: {"probe"}, answer: Answers]
  BY <1>2 DEF Job
<1> QED BY <1>1, <1>2 DEF Job

LEMMA JobTyped ==
  ASSUME DesktopInv, NEW c \in Calls, job[c] # None
  PROVE  job[c] \in Job
  BY DEF DesktopInv, TypeOK

\* Who is at work has a job of its kind.
LEMMA AtWork ==
  ASSUME DesktopInv, NEW c \in Calls, tool[c].at # "idle"
  PROVE  /\ job[c] \in Job /\ job[c] # None
         /\ tool[c].name = "send_message" => job[c].kind = "deliver" /\ job[c].delivery \in Deliveries
  BY JobTyped, JobOf DEF DesktopInv, JobsFit

\* A step in which no call becomes a sender and no message leaves or arrives keeps Once,
\* whatever it makes of the receipts, the prompts of which stay.
LEMMA NothingNew ==
  ASSUME DesktopInv,
         messages' \subseteq messages, UNCHANGED submitted,
         \A d \in Deliveries :
           /\ receipts'[d] = NoReceipt <=> receipts[d] = NoReceipt
           /\ receipts[d] # NoReceipt => receipts'[d].prompt = receipts[d].prompt
           /\ receipts'[d] # NoReceipt /\ receipts'[d].state = "sent" => submitted[d] = <<receipts[d].prompt>>,
         \A x \in Calls, d \in Deliveries : Sending(x, d)' =>
           /\ Sending(x, d)
           /\ job'[x].prompt = job[x].prompt
           /\ tool'[x].at = "parked" => tool[x].at = "parked"
           /\ tool'[x].got \/ tool'[x].ok => tool[x].got \/ tool[x].ok
  PROVE  Once'
<1> SUFFICES ASSUME NEW d \in Deliveries
             PROVE  (Unclaimed(d) /\ Claimed(d) /\ UnderWay(d) /\ \A c \in Calls : Sender(c, d))'
  BY DEF Once
<1>1. Unclaimed(d) /\ Claimed(d) /\ UnderWay(d) /\ \A c \in Calls : Sender(c, d)
  BY DEF DesktopInv, Once
<1>2. Unclaimed(d)'
  BY <1>1 DEF Unclaimed
<1>3. Claimed(d)'
  BY <1>1 DEF Claimed
<1>4. ASSUME NEW m \in messages, m.delivery = d
      PROVE  receipts[d] # NoReceipt
  BY <1>1, <1>4 DEF Unclaimed
<1>5. UnderWay(d)'
  BY <1>1, <1>4 DEF UnderWay
<1>6. ASSUME NEW c \in Calls
      PROVE  Sender(c, d)'
  <2> SUFFICES ASSUME Sending(c, d)'
               PROVE  Sender(c, d)'
    BY DEF Sender
  <2>1. Sending(c, d) /\ Sender(c, d) /\ receipts[d] # NoReceipt
    BY <1>1 DEF Unclaimed
  <2>2. receipts'[d].prompt = receipts[d].prompt
    BY <2>1
  <2>3. \A x \in Calls : Sending(x, d)' => x = c
    BY <2>1 DEF Sender
  <2> QED BY <2>1, <2>2, <2>3 DEF Sender
<1> QED BY <1>2, <1>3, <1>5, <1>6

\* The receipts as they are meet what NothingNew asks of them.
LEMMA SameReceipts ==
  ASSUME DesktopInv, UNCHANGED receipts
  PROVE  \A d \in Deliveries :
           /\ receipts'[d] = NoReceipt <=> receipts[d] = NoReceipt
           /\ receipts[d] # NoReceipt => receipts'[d].prompt = receipts[d].prompt
           /\ receipts'[d] # NoReceipt /\ receipts'[d].state = "sent" => submitted[d] = <<receipts[d].prompt>>
  BY DEF DesktopInv, Once, Claimed

-----------------------------------------------------------------------------
(* The steps. *)

\* A step of one call that is no writing one after it: it may have got a new job.
Aside(c) ==
  /\ client' \in [Procs -> Client] /\ ClientsTidy'
  /\ tool' \in [Calls -> Tool] /\ job' \in [Calls -> Job \cup {None}]
  /\ \A x \in Calls \ {c} : tool'[x] = tool[x] /\ job'[x] = job[x]
  /\ Fits(tool'[c])
  /\ tool'[c].at # "idle" => tool'[c].name = "read_thread" /\ job'[c] # None
  /\ UNCHANGED <<epoch, registration, messages, submitted, crashes>>
  /\ begun' \in 0..MaxCalls

LEMMA AsideKeeps ==
  ASSUME DesktopInv, NEW c \in Calls, Aside(c), receipts' \in [Deliveries -> Receipt \cup {NoReceipt}],
         \A d \in Deliveries :
           /\ receipts'[d] = NoReceipt <=> receipts[d] = NoReceipt
           /\ receipts[d] # NoReceipt => receipts'[d].prompt = receipts[d].prompt
           /\ receipts'[d] # NoReceipt /\ receipts'[d].state = "sent" => submitted[d] = <<receipts[d].prompt>>,
         job'[c] # None /\ job'[c].answer = "ok" =>
           job'[c].kind = "deliver" /\ submitted[job'[c].delivery] = <<job'[c].prompt>>
  PROVE  DesktopInv'
<1>1. TypeOK'
  BY DEF DesktopInv, Aside, TypeOK, ClientTypeOK
<1>2. ClientsTidy'
  BY DEF Aside
<1>3. ToolsFit'
  BY DEF DesktopInv, ToolsFit, Fits, Aside
<1>4. JobsFit'
  BY DEF DesktopInv, JobsFit, Aside
<1>5. \A x \in Calls, d \in Deliveries : Sending(x, d)' =>
        x # c /\ Sending(x, d) /\ job'[x] = job[x] /\ tool'[x] = tool[x]
  BY DEF Sending, Aside
<1>6. Once'
  BY <1>5, NothingNew DEF Aside
<1>7. AnswersTrue'
  BY DEF DesktopInv, AnswersTrue, Aside
<1> QED BY <1>1, <1>2, <1>3, <1>4, <1>6, <1>7 DEF DesktopInv

\* A call that begins or goes on to read.
LEMMA ReadIsAside ==
  ASSUME DesktopInv, NEW c \in Calls, Moved(c, "read_thread"),
         job' \in [Calls -> Job \cup {None}], \A x \in Calls \ {c} : job'[x] = job[x], job'[c] # None,
         UNCHANGED <<epoch, registration, messages, submitted, crashes>>, begun' \in 0..MaxCalls
  PROVE  Aside(c)
<1>1. Fits(tool'[c])
  BY DEF Moved, Going, Fits
<1> QED BY <1>1 DEF Moved, Going, Aside

\* A call that comes to rest.
LEMMA RestIsAside ==
  ASSUME DesktopInv, NEW c \in Calls, Rest(c),
         job' \in [Calls -> Job \cup {None}], \A x \in Calls \ {c} : job'[x] = job[x],
         UNCHANGED <<epoch, registration, client, messages, submitted, crashes, begun>>
  PROVE  Aside(c)
<1>1. client' \in [Procs -> Client] /\ ClientsTidy'
  BY TypedClients, ClientStays
<1>2. /\ tool' \in [Calls -> Tool]
      /\ \A x \in Calls \ {c} : tool'[x] = tool[x]
      /\ tool'[c] = NoTool
  BY NoToolType DEF Rest, DesktopInv, TypeOK, ClientTypeOK
<1>3. Fits(NoTool) /\ NoTool.at = "idle"
  BY DEF Fits, NoTool
<1>4. begun' \in 0..MaxCalls
  BY DEF DesktopInv, TypeOK
<1> QED BY <1>1, <1>2, <1>3, <1>4 DEF Aside

\* What an existing receipt answers is true.
LEMMA SettledTruly ==
  ASSUME DesktopInv, NEW d \in Deliveries, NEW m
  PROVE  /\ SettledBy(d, m) \in Answers
         /\ SettledBy(d, m) = "ok" => submitted[d] = <<m>>
  BY DEF SettledBy, Answers, DesktopInv, Once, Claimed

LEMMA DeliverKeeps ==
  ASSUME DesktopInv, NEW c \in Calls, NEW d \in Deliveries, NEW m \in Prompts, Deliver(c, d, m)
  PROVE  DesktopInv'
<1> DEFINE known == SettledBy(d, m)
           j == [kind |-> "deliver", delivery |-> d, prompt |-> m, answer |-> known]
<1>1. known \in Answers /\ (known = "ok" => submitted[d] = <<m>>)
  BY SettledTruly
<1>2. j \in Job
  BY <1>1 DEF Job
<1>3. job' = [job EXCEPT ![c] = j]
  BY DEF Deliver
<1>4. j.kind = "deliver" /\ j.delivery = d /\ j.prompt = m /\ j.answer = known
  OBVIOUS
<1> HIDE DEF j
<1>5. /\ job' \in [Calls -> Job \cup {None}] /\ job'[c] = j /\ job'[c] # None
      /\ \A x \in Calls \ {c} : job'[x] = job[x]
  BY <1>2, <1>3, SentinelAssumption DEF DesktopInv, TypeOK
<1>6. begun' \in 0..MaxCalls
  BY BoundAssumption DEF Deliver, DesktopInv, TypeOK
<1>7. Aside(c)
  <2>1. CASE known # "none"
    <3>1. UNCHANGED <<client, tool>> /\ tool[c].at = "idle"
      BY <2>1 DEF Deliver
    <3>2. client' \in [Procs -> Client] /\ ClientsTidy'
      BY <3>1, TypedClients, ClientStays
    <3>3. tool' \in [Calls -> Tool] /\ Fits(tool'[c])
      BY <3>1 DEF DesktopInv, ToolsFit, TypeOK, ClientTypeOK
    <3> QED BY <3>1, <3>2, <3>3, <1>5, <1>6 DEF Aside, Deliver
  <2>2. CASE known = "none"
    <3>1. StartTool(c, "read_thread")
      BY <2>2 DEF Deliver
    <3>2. Moved(c, "read_thread")
      BY <3>1, TypedClients, StartToolMoves
    <3> QED BY <3>2, <1>5, <1>6, ReadIsAside DEF Deliver
  <2> QED BY <2>1, <2>2
<1>8. receipts' = receipts /\ receipts' \in [Deliveries -> Receipt \cup {NoReceipt}]
  BY DEF Deliver, DesktopInv, TypeOK
<1> QED BY <1>1, <1>4, <1>5, <1>7, <1>8, SameReceipts, AsideKeeps

LEMMA ProbeKeeps ==
  ASSUME DesktopInv, NEW c \in Calls, Probe(c)
  PROVE  DesktopInv'
<1> DEFINE j == [kind |-> "probe", answer |-> "none"]
<1>1. j \in Job /\ j.answer = "none"
  BY DEF Job, Answers
<1>2. job' = [job EXCEPT ![c] = j]
  BY DEF Probe
<1> HIDE DEF j
<1>3. /\ job' \in [Calls -> Job \cup {None}] /\ job'[c] = j /\ job'[c] # None
      /\ \A x \in Calls \ {c} : job'[x] = job[x]
  BY <1>1, <1>2, SentinelAssumption DEF DesktopInv, TypeOK
<1>4. begun' \in 0..MaxCalls
  BY BoundAssumption DEF Probe, DesktopInv, TypeOK
<1>5. Moved(c, "read_thread")
  BY TypedClients, StartToolMoves DEF Probe
<1>6. Aside(c)
  BY <1>3, <1>4, <1>5, ReadIsAside DEF Probe
<1>7. receipts' = receipts /\ receipts' \in [Deliveries -> Receipt \cup {NoReceipt}]
  BY DEF Probe, DesktopInv, TypeOK
<1> QED BY <1>1, <1>3, <1>6, <1>7, SameReceipts, AsideKeeps

\* The job of a call after it was answered.
LEMMA Said ==
  ASSUME DesktopInv, NEW c \in Calls, tool[c].at # "idle", NEW a \in Answers, Says(c, a)
  PROVE  /\ job' \in [Calls -> Job \cup {None}]
         /\ \A x \in Calls \ {c} : job'[x] = job[x]
         /\ job'[c] # None /\ job'[c].answer = a /\ job'[c].kind = job[c].kind
         /\ job[c].kind = "deliver" => job'[c].delivery = job[c].delivery /\ job'[c].prompt = job[c].prompt
<1> DEFINE j == [job[c] EXCEPT !.answer = a]
<1>1. job[c] \in Job
  BY AtWork
<1>2. /\ j \in Job /\ j.answer = a /\ j.kind = job[c].kind
      /\ job[c].kind = "deliver" => j.delivery = job[c].delivery /\ j.prompt = job[c].prompt
  BY <1>1, JobSays
<1>3. job' = [job EXCEPT ![c] = j]
  BY DEF Says
<1> HIDE DEF j
<1> QED BY <1>2, <1>3, SentinelAssumption DEF DesktopInv, TypeOK

LEMMA AnswerElse ==
  ASSUME DesktopInv, NEW c \in Calls, tool[c].at # "idle", NEW a \in Answers \ {"ok"}, Says(c, a), Rest(c),
         UNCHANGED <<epoch, registration, client, receipts, messages, submitted, crashes, begun>>
  PROVE  DesktopInv'
<1>1. /\ job' \in [Calls -> Job \cup {None}] /\ \A x \in Calls \ {c} : job'[x] = job[x]
      /\ job'[c].answer # "ok"
  BY Said
<1>2. Aside(c)
  BY <1>1, RestIsAside
<1>3. receipts' = receipts /\ receipts' \in [Deliveries -> Receipt \cup {NoReceipt}]
  BY DEF DesktopInv, TypeOK
<1> QED BY <1>1, <1>2, <1>3, SameReceipts, AsideKeeps

LEMMA ProbeAnswersKeeps ==
  ASSUME DesktopInv, NEW c \in Calls, ProbeAnswers(c)
  PROVE  DesktopInv'
  BY AnswerElse DEF ProbeAnswers, HasRead, Answers

LEMMA RefuseKeeps ==
  ASSUME DesktopInv, NEW c \in Calls, Refuse(c)
  PROVE  DesktopInv'
  BY AnswerElse DEF Refuse, HasRead, Answers

\* What a call that writes knows.
LEMMA SenderOf ==
  ASSUME DesktopInv, NEW c \in Calls, tool[c].at # "idle", Doing(c) = "send_message"
  PROVE  /\ job[c] \in Job /\ job[c].kind = "deliver" /\ job[c].delivery \in Deliveries
         /\ Sending(c, job[c].delivery)
         /\ receipts[job[c].delivery] # NoReceipt /\ receipts[job[c].delivery] \in Receipt
         /\ Sender(c, job[c].delivery)
<1>1. job[c] \in Job /\ job[c].kind = "deliver" /\ job[c].delivery \in Deliveries
  BY AtWork DEF Doing
<1>2. Sending(c, job[c].delivery)
  BY DEF Sending, Doing
<1>3. Unclaimed(job[c].delivery) /\ Sender(c, job[c].delivery)
  BY <1>1 DEF DesktopInv, Once
<1> QED BY <1>1, <1>2, <1>3 DEF Unclaimed, DesktopInv, TypeOK

LEMMA SendEndsKeeps ==
  ASSUME DesktopInv, NEW c \in Calls, SendEnds(c)
  PROVE  DesktopInv'
<1>1. tool[c].at # "idle" /\ Doing(c) = "send_message"
  BY DEF SendEnds
<1>2. CASE ~Confirmed(c)
  BY <1>1, <1>2, AnswerElse DEF SendEnds, Answers
<1>3. CASE Confirmed(c)
  <2> DEFINE d == job[c].delivery
             r == [receipts[d] EXCEPT !.state = "sent"]
  <2>1. /\ d \in Deliveries /\ job[c].kind = "deliver" /\ receipts[d] \in Receipt /\ receipts[d] # NoReceipt
        /\ job[c].prompt = receipts[d].prompt /\ submitted[d] = <<receipts[d].prompt>>
    BY <1>1, <1>3, SenderOf DEF Sender, Confirmed
  <2>2. Says(c, "ok") /\ Rest(c) /\ receipts' = [receipts EXCEPT ![d] = r]
        /\ UNCHANGED <<epoch, registration, client, messages, submitted, crashes, begun>>
    BY <1>3 DEF SendEnds
  <2>3. r \in Receipt /\ r.prompt = receipts[d].prompt
    BY <2>1 DEF Receipt
  <2> HIDE DEF r
  <2>4. receipts' \in [Deliveries -> Receipt \cup {NoReceipt}]
    BY <2>2, <2>3 DEF DesktopInv, TypeOK
  <2>5. \A x \in Deliveries :
          /\ receipts'[x] = NoReceipt <=> receipts[x] = NoReceipt
          /\ receipts[x] # NoReceipt => receipts'[x].prompt = receipts[x].prompt
          /\ receipts'[x] # NoReceipt /\ receipts'[x].state = "sent" => submitted[x] = <<receipts[x].prompt>>
    BY <2>1, <2>2, <2>3, SentinelAssumption DEF DesktopInv, TypeOK, Once, Claimed
  <2>6. /\ job' \in [Calls -> Job \cup {None}] /\ \A x \in Calls \ {c} : job'[x] = job[x]
        /\ job'[c].kind = "deliver" /\ job'[c].delivery = d /\ job'[c].prompt = job[c].prompt
    BY <1>1, <2>1, <2>2, Said DEF Answers
  <2>7. Aside(c)
    BY <2>2, <2>6, RestIsAside
  <2> HIDE DEF d
  <2> QED BY <2>1, <2>4, <2>5, <2>6, <2>7, AsideKeeps
<1> QED BY <1>2, <1>3

\* A refresh or a closing client changes nothing of the sink.
LEMMA WokenKeeps ==
  ASSUME DesktopInv, Woken, epoch' = epoch, registration' \in 0..MaxEpoch, UNCHANGED sinkVars
  PROVE  DesktopInv'
<1>1. TypeOK'
  BY DEF DesktopInv, TypeOK, ClientTypeOK, Woken, sinkVars
<1>2. ClientsTidy' /\ ToolsFit'
  BY DEF Woken
<1>3. JobsFit'
  BY DEF DesktopInv, JobsFit, Woken, sinkVars
<1>4. \A x \in Calls, d \in Deliveries : Sending(x, d)' =>
        Sending(x, d) /\ job'[x] = job[x] /\ tool'[x].at = tool[x].at
        /\ tool'[x].got = tool[x].got /\ tool'[x].ok = tool[x].ok
  BY DEF Sending, Woken, sinkVars
<1>5. receipts' = receipts /\ messages' = messages /\ submitted' = submitted
  BY DEF sinkVars
<1>6. Once'
  BY <1>4, <1>5, SameReceipts, NothingNew
<1>7. AnswersTrue'
  BY DEF DesktopInv, AnswersTrue, sinkVars
<1> QED BY <1>1, <1>2, <1>3, <1>6, <1>7 DEF DesktopInv

LEMMA RefreshKeeps ==
  ASSUME DesktopInv, NEW p \in Procs, Refresh(p)
  PROVE  DesktopInv'
<1>1. ToolsFit /\ UNCHANGED sinkVars
  BY DEF DesktopInv, Refresh
<1> QED BY <1>1, TypedClients, RefreshWakes, WokenKeeps

LEMMA CloseKeeps ==
  ASSUME DesktopInv, NEW p \in Procs, Close(p)
  PROVE  DesktopInv'
<1>1. ToolsFit /\ UNCHANGED sinkVars /\ registration \in 0..MaxEpoch
  BY DEF DesktopInv, Close, TypeOK, ClientTypeOK
<1> QED BY <1>1, TypedClients, CloseWakes, WokenKeeps

LEMMA AnswerKeeps ==
  ASSUME DesktopInv, NEW c \in Calls, Answer(c)
  PROVE  DesktopInv'
<1> DEFINE t == [NoTool EXCEPT !.at = "done", !.name = Doing(c), !.ok = TRUE]
<1>1. tool[c] \in Tool /\ Doing(c) \in {"read_thread", "send_message"} /\ tool[c].at \in {"trying", "again"}
  BY TypedClients, ToolOf DEF Answer, Answered, Doing
<1>2. /\ t \in Tool /\ t.at = "done" /\ t.name = tool[c].name /\ ~t.got /\ t.woken = "no"
  BY <1>1, NoToolType DEF Tool, NoTool, Doing
<1>3. tool' = [tool EXCEPT ![c] = t] /\ UNCHANGED <<epoch, registration, client>> /\ UNCHANGED sinkVars
  BY DEF Answer, Answered, Ends
<1>4. Doing(c) = "send_message" => tool[c].got
  BY DEF Answer, Answered
<1> HIDE DEF t
<1>5. /\ tool' \in [Calls -> Tool] /\ tool'[c] = t
      /\ \A x \in Calls \ {c} : tool'[x] = tool[x]
  BY <1>2, <1>3 DEF DesktopInv, TypeOK, ClientTypeOK
<1>6. TypeOK'
  BY <1>3, <1>5 DEF DesktopInv, TypeOK, ClientTypeOK, sinkVars
<1>7. ClientsTidy'
  BY <1>3, TypedClients, ClientStays
<1>8. ToolsFit'
  BY <1>2, <1>5 DEF DesktopInv, ToolsFit, Fits
<1>9. JobsFit'
  BY <1>1, <1>2, <1>3, <1>5 DEF DesktopInv, JobsFit, sinkVars
<1>10. \A x \in Calls, d \in Deliveries : Sending(x, d)' =>
         /\ Sending(x, d) /\ job'[x] = job[x]
         /\ tool'[x].at = "parked" => tool[x].at = "parked"
         /\ tool'[x].got \/ tool'[x].ok => tool[x].got \/ tool[x].ok
  BY <1>1, <1>2, <1>3, <1>4, <1>5 DEF Sending, sinkVars, Doing
<1>11. receipts' = receipts /\ messages' = messages /\ submitted' = submitted
  BY <1>3 DEF sinkVars
<1>12. Once'
  BY <1>10, <1>11, SameReceipts, NothingNew
<1>13. AnswersTrue'
  BY <1>3 DEF DesktopInv, AnswersTrue, sinkVars
<1> QED BY <1>6, <1>7, <1>8, <1>9, <1>12, <1>13 DEF DesktopInv

LEMMA AppRestartsKeeps ==
  ASSUME DesktopInv, AppRestarts
  PROVE  DesktopInv'
<1>1. TypeOK'
  BY EpochAssumption DEF DesktopInv, TypeOK, ClientTypeOK, AppRestarts
<1>2. ClientsTidy' /\ ToolsFit' /\ JobsFit' /\ AnswersTrue'
  BY DEF DesktopInv, ClientsTidy, Tidy, ToolsFit, JobsFit, AnswersTrue, AppRestarts
<1>3. \A x \in Calls, d \in Deliveries : Sending(x, d)' =>
        Sending(x, d) /\ job'[x] = job[x] /\ tool'[x] = tool[x]
  BY DEF Sending, AppRestarts
<1>4. receipts' = receipts /\ messages' \subseteq messages /\ submitted' = submitted
  BY DEF AppRestarts
<1>5. Once'
  BY <1>3, <1>4, SameReceipts, NothingNew
<1> QED BY <1>1, <1>2, <1>5 DEF DesktopInv

LEMMA RestartKeeps ==
  ASSUME DesktopInv, NEW p \in Procs, Restart(p)
  PROVE  DesktopInv'
<1>1. FreshClient \in Client /\ Tidy(FreshClient)
  BY DEF FreshClient, Client, Tidy
<1>2. client' \in [Procs -> Client] /\ ClientsTidy'
  BY <1>1, TypedClients, ClientMoves DEF Restart
<1>3. \A c \in Calls : \/ tool'[c] = NoTool /\ job'[c] = None
                       \/ tool'[c] = tool[c] /\ job'[c] = job[c]
  BY DEF Restart
<1>4. tool' \in [Calls -> Tool] /\ job' \in [Calls -> Job \cup {None}]
  BY NoToolType DEF Restart, DesktopInv, TypeOK, ClientTypeOK
<1>5. TypeOK'
  BY <1>2, <1>4, BoundAssumption DEF Restart, DesktopInv, TypeOK, ClientTypeOK
<1>6. Fits(NoTool) /\ NoTool.at = "idle"
  BY DEF Fits, NoTool
<1>7. ToolsFit'
  BY <1>3, <1>6 DEF DesktopInv, ToolsFit, Fits
<1>8. JobsFit'
  BY <1>3, <1>6 DEF DesktopInv, JobsFit
<1>9. \A x \in Calls, d \in Deliveries : Sending(x, d)' =>
        Sending(x, d) /\ job'[x] = job[x] /\ tool'[x] = tool[x]
  BY <1>3, <1>6 DEF Sending
<1>10. receipts' = receipts /\ messages' = messages /\ submitted' = submitted
  BY DEF Restart
<1>11. Once'
  BY <1>9, <1>10, SameReceipts, NothingNew
<1>12. AnswersTrue'
  BY <1>3, <1>10 DEF DesktopInv, AnswersTrue
<1> QED BY <1>2, <1>5, <1>7, <1>8, <1>11, <1>12 DEF DesktopInv

-----------------------------------------------------------------------------
(* The write: it is claimed, it leaves, and it is taken. *)

\* The message a write leaves with.
MessageOf(c) ==
  [call |-> c, delivery |-> job[c].delivery, prompt |-> job[c].prompt, epoch |-> tool'[c].gen.epoch]

LEMMA LeavesOne ==
  ASSUME NEW c \in Calls, Leaves(c)
  PROVE  /\ tool'[c].gen # None /\ tool'[c].name = "send_message" => messages' = messages \cup {MessageOf(c)}
         /\ ~(tool'[c].gen # None /\ tool'[c].name = "send_message") => messages' = messages
  BY DEF Leaves, MessageOf

\* A call that goes on with its write while nothing of it is under way.
LEMMA WriteKeeps ==
  ASSUME DesktopInv, NEW c \in Calls, Moved(c, "send_message"), Leaves(c),
         job[c] \in Job, job[c] # None, job[c].kind = "deliver",
         receipts' \in [Deliveries -> Receipt \cup {NoReceipt}],
         \A d \in Deliveries \ {job[c].delivery} : receipts'[d] = receipts[d],
         receipts'[job[c].delivery] # NoReceipt,
         receipts'[job[c].delivery].prompt = job[c].prompt,
         receipts'[job[c].delivery].state = "sent" => submitted[job[c].delivery] = <<job[c].prompt>>,
         \A m \in messages : m.delivery # job[c].delivery,
         submitted[job[c].delivery] = <<>>,
         \A x \in Calls \ {c} : ~Sending(x, job[c].delivery),
         UNCHANGED <<epoch, registration, job, submitted, crashes, begun>>
  PROVE  DesktopInv'
<1> DEFINE k == job[c].delivery
<1>1. /\ client' \in [Procs -> Client] /\ ClientsTidy' /\ tool' \in [Calls -> Tool]
      /\ \A x \in Calls \ {c} : tool'[x] = tool[x]
      /\ tool'[c].name = "send_message" /\ tool'[c].at # "idle" /\ ~tool'[c].ok /\ ~tool'[c].got
      /\ tool'[c].gen # None => tool'[c].at \in {"trying", "again"}
  BY DEF Moved, Going
<1>2. k \in Deliveries /\ job[c].prompt \in Prompts
  BY JobOf
<1>3. messages' \subseteq Message
  <2>1. CASE tool'[c].gen = None
    BY <2>1, LeavesOne DEF DesktopInv, TypeOK
  <2>2. CASE tool'[c].gen # None
    <3>1. tool'[c].gen.epoch \in 0..MaxEpoch
      BY <1>1, <2>2 DEF Tool, Generation
    <3>2. MessageOf(c) \in Message
      BY <1>2, <3>1 DEF MessageOf, Message
    <3> QED BY <1>1, <2>2, <3>2, LeavesOne DEF DesktopInv, TypeOK
  <2> QED BY <2>1, <2>2
<1>4. TypeOK'
  BY <1>1, <1>3 DEF DesktopInv, TypeOK, ClientTypeOK
<1>5. ToolsFit'
  BY MovedFits DEF DesktopInv
<1>6. JobsFit'
  BY <1>1 DEF DesktopInv, JobsFit
<1>7. \A m \in messages' : m \in messages \/ (m = MessageOf(c) /\ tool'[c].gen # None)
  BY LeavesOne
<1>8. MessageOf(c).delivery = k /\ MessageOf(c).prompt = job[c].prompt
  BY DEF MessageOf
<1>9. \A x \in Calls, d \in Deliveries : x # c => (Sending(x, d)' <=> Sending(x, d))
  BY <1>1 DEF Sending
<1>10. Sending(c, k)' /\ \A d \in Deliveries \ {k} : ~Sending(c, d)'
  BY <1>1 DEF Sending
<1>11. ASSUME NEW d \in Deliveries
       PROVE  (Unclaimed(d) /\ Claimed(d) /\ UnderWay(d) /\ \A x \in Calls : Sender(x, d))'
  <2>1. Unclaimed(d) /\ Claimed(d) /\ UnderWay(d) /\ \A x \in Calls : Sender(x, d)
    BY DEF DesktopInv, Once
  <2>2. CASE d = k
    <3>1. Unclaimed(d)' /\ Claimed(d)'
      BY <2>2, <2>1 DEF Unclaimed, Claimed
    <3>2. \A m \in messages' : m.delivery = k => m = MessageOf(c) /\ tool'[c].gen # None
      BY <1>7
    <3> HIDE DEF k
    <3>3. UnderWay(d)'
      BY <2>2, <3>2, <1>8 DEF UnderWay, k
    <3>4. Sender(c, d)'
      BY <2>2, <3>2, <1>1, <1>2, <1>9 DEF Sender, k
    <3>5. \A x \in Calls \ {c} : Sender(x, d)'
      BY <2>2, <1>2, <1>9 DEF Sender, k
    <3> QED BY <3>1, <3>3, <3>4, <3>5
  <2>3. CASE d # k
    <3>1. receipts'[d] = receipts[d] /\ submitted'[d] = submitted[d]
      BY <2>3
    <3>2. \A m \in messages' : m.delivery = d => m \in messages
      BY <1>7, <1>8, <2>3
    <3>3. messages \subseteq messages'
      BY LeavesOne
    <3>4. \A x \in Calls : Sending(x, d)' => x # c /\ Sending(x, d) /\ tool'[x] = tool[x] /\ job'[x] = job[x]
      BY <1>1, <1>9, <1>10, <2>3
    <3> HIDE DEF k
    <3>5. Unclaimed(d)' /\ Claimed(d)'
      BY <2>1, <3>1, <3>2, <3>4 DEF Unclaimed, Claimed
    <3>6. UnderWay(d)'
      BY <2>1, <3>1, <3>2 DEF UnderWay
    <3>7. \A x \in Calls : Sender(x, d)'
      BY <2>1, <3>1, <3>2, <3>4 DEF Sender
    <3> QED BY <3>5, <3>6, <3>7
  <2> QED BY <2>2, <2>3
<1>12. Once'
  BY <1>11 DEF Once
<1>13. AnswersTrue'
  BY DEF DesktopInv, AnswersTrue
<1> QED BY <1>1, <1>4, <1>5, <1>6, <1>12, <1>13 DEF DesktopInv

LEMMA ClaimKeeps ==
  ASSUME DesktopInv, NEW c \in Calls, Claim(c)
  PROVE  DesktopInv'
<1> DEFINE d == job[c].delivery
           r == [prompt |-> job[c].prompt, state |-> "sending"]
<1>1. tool[c].at # "idle" /\ job[c].kind = "deliver" /\ receipts[d] = NoReceipt
  BY DEF Claim, HasRead, Claimable
<1>2. job[c] \in Job /\ job[c] # None /\ d \in Deliveries /\ job[c].prompt \in Prompts
  BY <1>1, AtWork, JobOf
<1>3. submitted[d] = <<>> /\ (\A m \in messages : m.delivery # d) /\ \A x \in Calls : ~Sending(x, d)
  BY <1>1, <1>2 DEF DesktopInv, Once, Unclaimed
<1>4. r \in Receipt /\ r.prompt = job[c].prompt /\ r.state = "sending"
  BY <1>2 DEF Receipt
<1>5. receipts' = [receipts EXCEPT ![d] = r]
  BY DEF Claim
<1> HIDE DEF r
<1>6. /\ receipts' \in [Deliveries -> Receipt \cup {NoReceipt}] /\ receipts'[d] = r
      /\ \A x \in Deliveries \ {d} : receipts'[x] = receipts[x]
  BY <1>2, <1>4, <1>5 DEF DesktopInv, TypeOK
<1>7. r # NoReceipt
  BY <1>4, SentinelAssumption
<1>8. Moved(c, "send_message")
  BY TypedClients, StartToolMoves DEF Claim
<1>9. Leaves(c) /\ UNCHANGED <<epoch, registration, job, submitted, crashes, begun>>
  BY DEF Claim
<1> QED BY <1>1, <1>2, <1>3, <1>4, <1>6, <1>7, <1>8, <1>9, WriteKeeps

LEMMA ContinueKeeps ==
  ASSUME DesktopInv, NEW c \in Calls, Continue(c)
  PROVE  DesktopInv'
<1>1. Leaves(c) /\ UNCHANGED <<receipts, job, submitted, crashes, begun>> /\ UNCHANGED <<epoch, registration>>
      /\ (Resume(c) \/ Failed(c))
  BY DEF Continue, Resume, Failed
<1>2. Moved(c, Doing(c))
  BY <1>1, TypedClients, ResumeMoves, FailedMoves DEF DesktopInv
<1>3. tool[c].at # "idle"
  BY <1>1, TypedClients, ResumeMoves DEF DesktopInv, Failed
<1>4. job[c] \in Job /\ job[c] # None
  BY <1>3, AtWork
<1>5. /\ receipts' = receipts /\ receipts' \in [Deliveries -> Receipt \cup {NoReceipt}]
      /\ job' = job /\ job' \in [Calls -> Job \cup {None}]
      /\ begun' \in 0..MaxCalls
  BY <1>1 DEF DesktopInv, TypeOK
<1>6. CASE Doing(c) = "read_thread"
  <2>1. messages' = messages
    BY <1>1, <1>2, <1>6, LeavesOne DEF Moved, Going
  <2>2. Aside(c)
    BY <1>1, <1>2, <1>4, <1>5, <1>6, <2>1, ReadIsAside
  <2>3. job'[c] # None /\ job'[c].answer = "ok" =>
          job'[c].kind = "deliver" /\ submitted[job'[c].delivery] = <<job'[c].prompt>>
    BY <1>5 DEF DesktopInv, AnswersTrue
  <2> QED BY <1>5, <2>2, <2>3, SameReceipts, AsideKeeps
<1>7. CASE Doing(c) = "send_message" /\ Resume(c)
  <2>1. tool[c].at = "parked"
    BY <1>7, TypedClients, ResumeMoves DEF DesktopInv, ToolsFit, Fits, Doing
  <2>2. /\ job[c].kind = "deliver" /\ job[c].delivery \in Deliveries
        /\ Sending(c, job[c].delivery) /\ Sender(c, job[c].delivery)
        /\ receipts[job[c].delivery] # NoReceipt
    BY <1>3, <1>7, SenderOf
  <2>3. /\ job[c].prompt = receipts[job[c].delivery].prompt
        /\ submitted[job[c].delivery] = <<>> /\ \A m \in messages : m.delivery # job[c].delivery
        /\ \A x \in Calls \ {c} : ~Sending(x, job[c].delivery)
    BY <2>1, <2>2 DEF Sender
  <2>4. receipts[job[c].delivery].state = "sent" => submitted[job[c].delivery] = <<job[c].prompt>>
    BY <2>2, <2>3 DEF DesktopInv, Once, Claimed
  <2>5. Moved(c, "send_message")
    BY <1>2, <1>7
  <2> QED BY <1>1, <1>4, <1>5, <2>2, <2>3, <2>4, <2>5, WriteKeeps
<1>8. CASE Doing(c) = "send_message" /\ Failed(c)
  <2> DEFINE t == [NoTool EXCEPT !.at = "done", !.name = "send_message"]
  <2>1. UNCHANGED client /\ tool' = [tool EXCEPT ![c] = t]
    BY <1>8 DEF Failed, Rejects
  <2>2. t.at = "done" /\ t.name = "send_message" /\ t.gen = None /\ ~t.got /\ ~t.ok
    BY DEF NoTool
  <2> HIDE DEF t
  <2>3. tool'[c] = t /\ \A x \in Calls \ {c} : tool'[x] = tool[x]
    BY <2>1 DEF DesktopInv, TypeOK, ClientTypeOK
  <2>4. messages' = messages
    BY <1>1, <2>2, <2>3, LeavesOne
  <2>5. \A x \in Calls, d \in Deliveries : Sending(x, d)' =>
          /\ Sending(x, d) /\ job'[x] = job[x]
          /\ tool'[x].at = "parked" => tool[x].at = "parked"
          /\ tool'[x].got \/ tool'[x].ok => tool[x].got \/ tool[x].ok
    BY <1>3, <1>5, <1>8, <2>2, <2>3 DEF Sending, Doing
  <2>6. Once'
    BY <1>1, <1>5, <2>4, <2>5, SameReceipts, NothingNew
  <2>7. TypeOK' /\ ClientsTidy'
    BY <1>1, <1>2, <2>4 DEF Moved, DesktopInv, TypeOK, ClientTypeOK
  <2>8. ToolsFit'
    BY <1>2, MovedFits DEF DesktopInv
  <2>9. JobsFit' /\ AnswersTrue'
    BY <1>1, <1>3, <1>8, <2>2, <2>3 DEF DesktopInv, JobsFit, AnswersTrue, Doing
  <2> QED BY <2>6, <2>7, <2>8, <2>9 DEF DesktopInv
<1>9. Doing(c) \in {"read_thread", "send_message"}
  BY TypedClients, ToolOf DEF Doing
<1> QED BY <1>1, <1>6, <1>7, <1>8, <1>9

LEMMA TakesKeeps ==
  ASSUME DesktopInv, Takes
  PROVE  DesktopInv'
<1>1. PICK m \in messages :
        /\ messages' = messages \ {m}
        /\ submitted' = [submitted EXCEPT ![m.delivery] = Append(@, m.prompt)]
        /\ tool' = IF /\ tool[m.call].at \in {"trying", "again"} /\ Doing(m.call) = "send_message"
                      /\ job[m.call].delivery = m.delivery
                   THEN [tool EXCEPT ![m.call].got = TRUE] ELSE tool
        /\ UNCHANGED <<epoch, registration, client, receipts, job, crashes, begun>>
  BY DEF Takes
<1> DEFINE k == m.delivery
           Heard == /\ tool[m.call].at \in {"trying", "again"} /\ Doing(m.call) = "send_message"
                    /\ job[m.call].delivery = m.delivery
<1>2. m \in Message /\ m.call \in Calls /\ k \in Deliveries /\ m.prompt \in Prompts
  BY DEF DesktopInv, TypeOK, Message
<1>3. Unclaimed(k) /\ UnderWay(k) /\ \A x \in Calls : Sender(x, k)
  BY <1>2 DEF DesktopInv, Once
<1>4. receipts[k] # NoReceipt /\ submitted[k] = <<>> /\ m.prompt = receipts[k].prompt
      /\ \A n \in messages : n.delivery = k => n = m
  BY <1>3 DEF Unclaimed, UnderWay
<1>5. Append(submitted[k], m.prompt) = <<m.prompt>> /\ <<m.prompt>> \in Seq(Prompts)
  BY <1>2, <1>4
<1>6. /\ submitted' \in [Deliveries -> Seq(Prompts)] /\ submitted'[k] = <<m.prompt>>
      /\ \A d \in Deliveries \ {k} : submitted'[d] = submitted[d]
  BY <1>1, <1>2, <1>5 DEF DesktopInv, TypeOK
<1>7. /\ tool' \in [Calls -> Tool]
      /\ \A x \in Calls : tool'[x].at = tool[x].at /\ tool'[x].name = tool[x].name
                          /\ tool'[x].ok = tool[x].ok /\ tool'[x].woken = tool[x].woken
      /\ \A x \in Calls : tool'[x].got => tool[x].got \/ (Heard /\ x = m.call)
  <2>1. tool \in [Calls -> Tool]
    BY DEF DesktopInv, TypeOK, ClientTypeOK
  <2>2. CASE Heard
    <3> DEFINE u == [tool[m.call] EXCEPT !.got = TRUE]
    <3>1. u \in Tool /\ u.at = tool[m.call].at /\ u.name = tool[m.call].name
          /\ u.ok = tool[m.call].ok /\ u.woken = tool[m.call].woken
      BY ZenonT(30), <1>2, <2>1 DEF Tool
    <3>2. tool' = [tool EXCEPT ![m.call] = u]
      BY <1>1, <2>2
    <3> HIDE DEF u
    <3> QED BY <1>2, <2>1, <2>2, <3>1, <3>2
  <2>3. CASE ~Heard
    BY <1>1, <2>1, <2>3
  <2> QED BY <2>2, <2>3
<1>8. TypeOK'
  BY <1>1, <1>6, <1>7 DEF DesktopInv, TypeOK, ClientTypeOK
<1>9. ClientsTidy' /\ ToolsFit' /\ JobsFit'
  BY <1>1, <1>7 DEF DesktopInv, ClientsTidy, ToolsFit, Fits, JobsFit
<1>10. \A x \in Calls, d \in Deliveries : Sending(x, d)' <=> Sending(x, d)
  BY <1>1, <1>7 DEF Sending
<1>11. Heard => Sending(m.call, k)
  BY DEF Sending, Doing
<1> HIDE DEF Heard
<1>12. ASSUME NEW d \in Deliveries
       PROVE  (Unclaimed(d) /\ Claimed(d) /\ UnderWay(d) /\ \A x \in Calls : Sender(x, d))'
  <2>1. Unclaimed(d) /\ Claimed(d) /\ UnderWay(d) /\ \A x \in Calls : Sender(x, d)
    BY DEF DesktopInv, Once
  <2>2. CASE d = k
    <3>1. \A n \in messages' : n.delivery # k
      BY <1>1, <1>4
    <3> HIDE DEF k
    <3>2. Unclaimed(d)' /\ Claimed(d)' /\ UnderWay(d)'
      BY <2>2, <3>1, <1>1, <1>4, <1>6 DEF Unclaimed, Claimed, UnderWay
    <3>3. \A x \in Calls : Sender(x, d)'
      BY <2>1, <2>2, <3>1, <1>1, <1>4, <1>6, <1>10 DEF Sender
    <3> QED BY <3>2, <3>3
  <2>3. CASE d # k
    <3>1. submitted'[d] = submitted[d] /\ receipts'[d] = receipts[d] /\ messages' \subseteq messages /\ job' = job
      BY <1>1, <1>6, <2>3
    <3>2. \A x \in Calls : Sending(x, d) => (tool'[x].got => tool[x].got)
      BY <1>7, <1>11, <2>3 DEF Sending
    <3> HIDE DEF k
    <3>3. Unclaimed(d)' /\ Claimed(d)' /\ UnderWay(d)'
      BY <2>1, <3>1, <1>10 DEF Unclaimed, Claimed, UnderWay
    <3>4. \A x \in Calls : Sender(x, d)'
      BY <2>1, <3>1, <3>2, <1>7, <1>10 DEF Sender
    <3> QED BY <3>3, <3>4
  <2> QED BY <2>2, <2>3
<1>13. Once'
  BY <1>12 DEF Once
<1>14. AnswersTrue'
  <2> SUFFICES ASSUME NEW c \in Calls, job[c] # None, job[c].answer = "ok"
               PROVE  job[c].kind = "deliver" /\ submitted'[job[c].delivery] = <<job[c].prompt>>
    BY <1>1 DEF AnswersTrue
  <2>1. job[c].kind = "deliver" /\ submitted[job[c].delivery] = <<job[c].prompt>>
    BY DEF DesktopInv, AnswersTrue
  <2>2. job[c].delivery \in Deliveries /\ job[c].delivery # k
    BY <2>1, <1>4, JobTyped, JobOf
  <2> QED BY <2>1, <2>2, <1>6
<1> QED BY <1>8, <1>9, <1>13, <1>14 DEF DesktopInv

-----------------------------------------------------------------------------
(* The invariant and what follows from it. *)

LEMMA DesktopStarts == Init => DesktopInv
<1> SUFFICES ASSUME Init
             PROVE  DesktopInv
  OBVIOUS
<1>1. FreshClient \in Client /\ Tidy(FreshClient)
  BY DEF FreshClient, Client, Tidy
<1>2. NoTool \in Tool /\ Fits(NoTool) /\ NoTool.at = "idle"
  BY NoToolType DEF Fits, NoTool
<1>3. TypeOK
  BY <1>1, <1>2, EpochAssumption, BoundAssumption DEF Init, ClientInit, TypeOK, ClientTypeOK
<1>4. ClientsTidy
  BY <1>1 DEF Init, ClientInit, ClientsTidy
<1>5. ToolsFit /\ JobsFit /\ AnswersTrue
  BY <1>2 DEF Init, ClientInit, ToolsFit, JobsFit, AnswersTrue
<1>6. Once
  BY <1>2 DEF Init, ClientInit, Once, Unclaimed, Claimed, UnderWay, Sender, Sending
<1> QED BY <1>3, <1>4, <1>5, <1>6 DEF DesktopInv

LEMMA DesktopStutters == DesktopInv /\ UNCHANGED vars => DesktopInv'
<1> SUFFICES ASSUME DesktopInv, UNCHANGED vars
             PROVE  DesktopInv'
  OBVIOUS
<1>1. UNCHANGED <<epoch, registration, client, tool, receipts, job, messages, submitted, crashes, begun>>
  BY DEF vars, clientVars, sinkVars
<1>2. TypeOK' /\ ClientsTidy' /\ ToolsFit' /\ JobsFit' /\ AnswersTrue'
  BY <1>1 DEF DesktopInv, TypeOK, ClientTypeOK, ClientsTidy, ToolsFit, JobsFit, AnswersTrue
<1>3. Once'
  BY <1>1 DEF DesktopInv, Once, Unclaimed, Claimed, UnderWay, Sender, Sending
<1> QED BY <1>2, <1>3 DEF DesktopInv

LEMMA DesktopSteps == DesktopInv /\ [Next]_vars => DesktopInv'
<1> SUFFICES ASSUME DesktopInv, [Next]_vars
             PROVE  DesktopInv'
  OBVIOUS
<1>1. CASE \E c \in Calls, d \in Deliveries, m \in Prompts : Deliver(c, d, m)
  BY <1>1, DeliverKeeps
<1>2. CASE \E c \in Calls : \/ Probe(c) \/ ProbeAnswers(c) \/ Refuse(c) \/ Claim(c) \/ SendEnds(c)
                            \/ Continue(c) \/ Answer(c)
  BY <1>2, ProbeKeeps, ProbeAnswersKeeps, RefuseKeeps, ClaimKeeps, SendEndsKeeps, ContinueKeeps, AnswerKeeps
<1>3. CASE \E p \in Procs : Refresh(p) \/ Close(p) \/ Restart(p)
  BY <1>3, RefreshKeeps, CloseKeeps, RestartKeeps
<1>4. CASE Takes \/ AppRestarts
  BY <1>4, TakesKeeps, AppRestartsKeeps
<1>5. CASE UNCHANGED vars
  BY <1>5, DesktopStutters
<1> QED BY <1>1, <1>2, <1>3, <1>4, <1>5 DEF Next

LEMMA DesktopInvariant == Spec => []DesktopInv
  BY DesktopStarts, DesktopSteps, PTL DEF Spec

\* The client, its calls, the receipts and the messages keep their types.
THEOREM DesktopTypes == Spec => []TypeOK
<1>1. DesktopInv => TypeOK
  BY DEF DesktopInv
<1> QED BY <1>1, DesktopInvariant, PTL

\* However answers are lost, processes end, the application restarts and owners share
\* the state file: the receipt that is written before the message goes out lets one
\* call write, and that one sends one message.
THEOREM PromptArrivesOnce == Spec => []AtMostOnce
<1>1. DesktopInv => AtMostOnce
  <2> SUFFICES ASSUME DesktopInv, NEW d \in Deliveries
               PROVE  Len(submitted[d]) <= 1
    BY DEF AtMostOnce
  <2>1. submitted[d] = <<>> \/ submitted[d] = <<receipts[d].prompt>>
    BY DEF DesktopInv, Once, Unclaimed, Claimed
  <2>2. Len(<<>>) = 0 /\ Len(<<receipts[d].prompt>>) = 1
    OBVIOUS
  <2>3. CASE submitted[d] = <<>>
    BY <2>2, <2>3
  <2>4. CASE submitted[d] = <<receipts[d].prompt>>
    BY <2>2, <2>4
  <2> QED BY <2>1, <2>3, <2>4
<1> QED BY <1>1, DesktopInvariant, PTL

\* A delivery that was answered as done, and a receipt that says so, stand for the
\* prompt that is in the conversation.
THEOREM AnsweredIsDone == Spec => []DoneIsDone
<1>1. DesktopInv => DoneIsDone
  BY DEF DesktopInv, Once, Claimed, AnswersTrue, DoneIsDone
<1> QED BY <1>1, DesktopInvariant, PTL

\* No generation is lost out of sight of close(), and none outlives it.
THEOREM ClosedIsClean == Spec => []NothingLeaks
<1>1. DesktopInv => NothingLeaks
  BY DEF DesktopInv, ClientsTidy, Tidy, NothingLeaks
<1> QED BY <1>1, DesktopInvariant, PTL
=============================================================================
