-------------------------- MODULE AppServerProofs --------------------------
(***************************************************************************)
(* Proofs about AppServer: its inductive invariant AppServerInv, and what  *)
(* follows from it.  There is one lemma per action, and under it one step  *)
(* per conjunct that the action can disturb.                               *)
(***************************************************************************)
EXTENDS AppServer, TLAPS, SequenceTheorems

\* The initial state satisfies the invariant.
LEMMA InitInv == Init => AppServerInv
<1> SUFFICES ASSUME Init PROVE AppServerInv
  OBVIOUS
<1> USE DeliveryAssumption, ThreadAssumption, NameAssumption, BoundAssumption DEF Init
<1>c. NoCall \in Call
  BY DEF NoCall, Call, Replies, AllThreads
<1>1. TypeOK
  <2>1. call \in [Deliveries -> Call]
    BY <1>c
  <2>2. wire \in [Conns -> Seq(Message)]
    OBVIOUS
  <2> QED BY <2>1, <2>2 DEF TypeOK, ConnState
<1>2. \A n \in Conns : wire[n] = <<>> /\ ~Alive(n) /\ On(n) = {}
  BY DEF Alive, On
<1>3. ~Alive(None)
  BY DEF Alive
<1>4. RowsKnown /\ ConnectionKnown /\ CallsKnown
  BY <1>2, <1>3 DEF RowsKnown, ConnectionKnown, CallsKnown, NoCall
<1>5. RequestsKnown /\ RepliesKnown /\ WaitersKnown
  <2>1. RequestsKnown /\ WaitersKnown
    BY <1>2 DEF RequestsKnown, WaitersKnown, NoCall, AllThreads
  <2>2. RepliesKnown
    BY <1>2 DEF RepliesKnown
  <2> QED BY <2>1, <2>2
<1>6. ThreadsKnown
  <2>1. [t \in Fresh |-> None] \in [Fresh -> Deliveries \cup {None}]
    OBVIOUS
  <2>2. MadeBy([t \in Fresh |-> None])
    BY <1>2 DEF MadeBy, NoCall, AllThreads
  <2> QED BY <2>1, <2>2 DEF ThreadsKnown
<1>7. TurnsKnown /\ IdleKnown
  BY <1>2 DEF TurnsKnown, IdleKnown, NoCall
<1>8. OutcomesKnown
  BY DEF OutcomesKnown, DeliveredIsDone, NoCall
<1> QED BY <1>1, <1>4, <1>5, <1>6, <1>7, <1>8 DEF AppServerInv

\* The fields of a call.
LEMMA CallTypes ==
  /\ NoCall \in Call
  /\ \A c \in Call : c = [at |-> c.at, conn |-> c.conn, thread |-> c.thread, reply |-> c.reply, outcome |-> c.outcome]
  /\ \A c \in Call : c.at \in {"idle", "connecting", "resuming", "starting", "running"} /\ c.conn \in Conns \cup {None}
       /\ c.thread \in AllThreads \cup {None} /\ c.reply \in Replies /\ c.outcome \in {"none", "completed", "failed", "rejected"}
  /\ \A a \in {"idle", "connecting", "resuming", "starting", "running"}, n \in Conns \cup {None},
        t \in AllThreads \cup {None}, r \in Replies, o \in {"none", "completed", "failed", "rejected"} :
       [at |-> a, conn |-> n, thread |-> t, reply |-> r, outcome |-> o] \in Call
  BY DEF Call, NoCall, Replies

\* What Send does to the wires.
AddedTo(S, m) ==
  /\ wire' \in [Conns -> Seq(Message)]
  /\ \A k \in S : conn[k] = "open"
  /\ \A k \in Conns :
       /\ Len(wire[k]) \in Nat
       /\ Len(wire'[k]) = IF k \in S THEN Len(wire[k]) + 1 ELSE Len(wire[k])
       /\ \A i \in On(k) : wire'[k][i] = wire[k][i]
       /\ k \in S => wire'[k][Len(wire[k]) + 1] = m
       /\ k \notin S => wire'[k] = wire[k]

\* A message put on the wires of S.
LEMMA AppendFacts ==
  ASSUME TypeOK, NEW S \in SUBSET Conns, NEW m \in Message, \A k \in S : conn[k] = "open",
         wire' = [k \in Conns |-> IF k \in S THEN Append(wire[k], m) ELSE wire[k]]
  PROVE  AddedTo(S, m)
<1>1. \A k \in Conns : wire[k] \in Seq(Message) /\ Len(wire[k]) \in Nat
  BY DEF TypeOK
<1>2. \A k \in S : Append(wire[k], m) \in Seq(Message) /\ Len(Append(wire[k], m)) = Len(wire[k]) + 1
    /\ (\A i \in 1..Len(wire[k]) : Append(wire[k], m)[i] = wire[k][i]) /\ Append(wire[k], m)[Len(wire[k]) + 1] = m
  BY <1>1
<1>3. wire' \in [Conns -> Seq(Message)]
  BY <1>1, <1>2
<1>4. ASSUME NEW k \in Conns
      PROVE  /\ Len(wire[k]) \in Nat
             /\ Len(wire'[k]) = IF k \in S THEN Len(wire[k]) + 1 ELSE Len(wire[k])
             /\ \A i \in On(k) : wire'[k][i] = wire[k][i]
             /\ k \in S => wire'[k][Len(wire[k]) + 1] = m
             /\ k \notin S => wire'[k] = wire[k]
  BY <1>1, <1>2 DEF On
<1> QED BY <1>3, <1>4 DEF AddedTo

\* A message that the server sends on n reaches the wire if n is open.
LEMMA SendFacts ==
  ASSUME TypeOK, NEW n \in Conns, NEW m \in Message, Send(n, m)
  PROVE  AddedTo(IF conn[n] = "open" THEN {n} ELSE {}, m)
<1> DEFINE S == IF conn[n] = "open" THEN {n} ELSE {}
<1>1. wire' = [k \in Conns |-> IF k \in S THEN Append(wire[k], m) ELSE wire[k]]
  <2>1. DOMAIN wire = Conns /\ wire = [k \in Conns |-> wire[k]]
    BY DEF TypeOK
  <2> QED BY <2>1 DEF Send, Listens
<1>2. AddedTo(S, m)
  BY <1>1, AppendFacts
<1> QED BY <1>2

\* The fields of a request and the answers to it.
LEMMA RequestTypes ==
  ASSUME TypeOK, NEW r \in requests
  PROVE  /\ r \in Request /\ r.delivery \in Deliveries /\ r.conn \in Conns
         /\ r.method \in {"resume", "thread", "turn"} /\ r.thread \in AllThreads \cup {None}
         /\ r = [delivery |-> r.delivery, conn |-> r.conn, method |-> r.method, thread |-> r.thread]
         /\ \A reply \in Replies, t \in AllThreads \cup {None} : Reply(r, reply, t) \in Message
BY DEF TypeOK, Request, Reply, Message

\* The fields of a message on its way.
LEMMA MessageTypes ==
  ASSUME TypeOK, NEW n \in Conns, NEW i \in On(n)
  PROVE  /\ wire[n][i] \in Message /\ wire[n] \in Seq(Message) /\ Len(wire[n]) \in Nat
         /\ wire[n][i].kind \in {"reply", "completed"} /\ wire[n][i].thread \in AllThreads \cup {None}
         /\ wire[n][i].kind = "reply" =>
              wire[n][i].delivery \in Deliveries /\ wire[n][i].method \in {"resume", "thread", "turn"} /\ wire[n][i].reply \in Replies
         /\ wire[n][i].kind = "completed" =>
              /\ wire[n][i].thread \in AllThreads /\ wire[n][i].by \in Deliveries \cup {Other}
              /\ wire[n][i].status \in {"completed", "failed"}
<1>1. wire[n] \in Seq(Message) /\ i \in 1..Len(wire[n])
  BY DEF TypeOK, On
<1>2. wire[n][i] \in Message
  BY <1>1
<1> QED BY <1>1, <1>2 DEF Message

\* What the head of a wire leaves behind.
LEMMA TailFacts ==
  ASSUME TypeOK, NEW n \in Conns, wire[n] # <<>>, wire' = [wire EXCEPT ![n] = Tail(@)]
  PROVE  /\ wire' \in [Conns -> Seq(Message)]
         /\ 1 \in On(n) /\ Head(wire[n]) = wire[n][1]
         /\ \A k \in Conns : k # n => wire'[k] = wire[k]
         /\ \A i \in Nat : i \in 1..Len(wire'[n]) <=> i > 0 /\ i + 1 \in On(n)
         /\ \A i \in 1..Len(wire'[n]) : wire'[n][i] = wire[n][i + 1]
<1>1. wire[n] \in Seq(Message) /\ wire \in [Conns -> Seq(Message)]
  BY DEF TypeOK
<1> DEFINE s == wire[n]
<1>2. Tail(s) \in Seq(Message) /\ Len(Tail(s)) = Len(s) - 1 /\ Len(s) \in Nat \ {0}
    /\ (\A i \in 1..(Len(s) - 1) : Tail(s)[i] = s[i + 1]) /\ Head(s) = s[1]
  BY <1>1
<1>3. wire'[n] = Tail(s) /\ wire' \in [Conns -> Seq(Message)]
  BY <1>1, <1>2
<1> HIDE DEF s
<1>4. On(n) = 1..Len(s)
  BY DEF On, s
<1>5. \A i \in Nat : i \in 1..Len(wire'[n]) <=> i > 0 /\ i + 1 \in On(n)
  BY <1>2, <1>3, <1>4
<1>6. \A i \in 1..Len(wire'[n]) : wire'[n][i] = wire[n][i + 1]
  BY <1>2, <1>3, <1>4 DEF s
<1>7. \A k \in Conns : k # n => wire'[k] = wire[k]
  BY <1>1
<1> QED BY <1>2, <1>3, <1>4, <1>5, <1>6, <1>7 DEF s

\* Two calls never have one thread.
LEMMA OneCall ==
  TypeOK /\ RowsKnown /\ CallsKnown /\ ThreadsKnown =>
    \A d, e \in Deliveries : call[d].thread # None /\ call[d].thread = call[e].thread => d = e
<1> SUFFICES ASSUME TypeOK, RowsKnown, CallsKnown, ThreadsKnown, NEW d \in Deliveries, NEW e \in Deliveries,
                    call[d].thread # None, call[d].thread = call[e].thread, d # e
             PROVE  FALSE
  OBVIOUS
<1> DEFINE t == call[d].thread
<1>1. row[d] = "delivering" /\ row[e] = "delivering"
  BY DEF RowsKnown, CallsKnown
<1>2. CASE d \in New \/ e \in New
  <2>1. t \in Fresh /\ d \in New /\ e \in New
    BY <1>2, DeliveryAssumption, ThreadAssumption DEF CallsKnown, TypeOK
  <2>2. PICK maker \in [Fresh -> Deliveries \cup {None}] : MadeBy(maker)
    BY DEF ThreadsKnown
  <2> QED BY <2>1, <2>2 DEF MadeBy
<1>3. CASE d \notin New /\ e \notin New
  <2>1. ThreadOf[d] = ThreadOf[e]
    BY <1>3 DEF CallsKnown
  <2> QED BY <1>1, <1>3, <2>1 DEF RowsKnown
<1> QED BY <1>2, <1>3

\* The parts of a step's type correctness.
LEMMA TypesFrom ==
  ASSUME row' \in [Deliveries -> {"queued", "delivering", "delivered", "failed"}],
         call' \in [Deliveries -> Call], waiter' \in [AllThreads -> Deliveries \cup {None}],
         adapter' \in [connection: Conns \cup {None}, initializing: Conns \cup {None}],
         conn' \in [Conns -> ConnState], wire' \in [Conns -> Seq(Message)], requests' \subseteq Request,
         turn' \in [AllThreads -> Deliveries \cup {Other, None}], finished' \subseteq Deliveries, used' \subseteq Fresh,
         faults' \in 0..MaxFaults, others' \in 0..MaxOthers
  PROVE  TypeOK'
BY DEF TypeOK, AllThreads, Conns, Call, Request, Message, Replies, ConnState

\* The end of the process keeps the invariant: no call and no message remains.
LEMMA EndsInv ==
  ASSUME AppServerInv, Ends, requests' = requests, turn' = turn, finished' = finished, used' = used,
         faults' \in 0..MaxFaults, others' = others
  PROVE  AppServerInv'
<1> USE NameAssumption
<1>1. TypeOK'
  <2>1. row' \in [Deliveries -> {"queued", "delivering", "delivered", "failed"}]
    BY DEF Ends, AppServerInv, TypeOK
  <2>2. call' \in [Deliveries -> Call]
    BY CallTypes DEF Ends
  <2>3. waiter' \in [AllThreads -> Deliveries \cup {None}] /\ wire' \in [Conns -> Seq(Message)]
        /\ adapter' \in [connection: Conns \cup {None}, initializing: Conns \cup {None}]
    BY DEF Ends
  <2>4. conn' \in [Conns -> ConnState]
    BY DEF Ends, ConnState, AppServerInv, TypeOK
  <2> QED BY <2>1, <2>2, <2>3, <2>4, TypesFrom DEF AppServerInv, TypeOK
<1>2. \A d \in Deliveries : call'[d].at = "idle" /\ call'[d].reply = "none" /\ call'[d].thread = None /\ call'[d].outcome = "none"
  BY DEF Ends, NoCall
<1>3. \A n \in Conns : wire'[n] = <<>> /\ Len(wire'[n]) = 0 /\ conn'[n] \notin {"open", "cut"}
  BY DEF Ends
<1>4. adapter'.connection = None /\ adapter'.initializing = None
  BY DEF Ends
<1>5. \A t \in AllThreads : waiter'[t] = None
  BY DEF Ends
<1>6. RowsKnown'
  <2>1. \A d \in Deliveries : row'[d] \notin {"delivering"} /\ (row'[d] # "queued" => row[d] = row'[d])
    BY DEF Ends
  <2>2. \A d \in Deliveries : row[d] \in {"delivered", "failed"} => row'[d] = row[d]
    BY DEF Ends
  <2> QED BY <1>2, <2>1, <2>2, DeliveryAssumption DEF RowsKnown, AppServerInv
<1>7. ConnectionKnown'
  BY <1>3, <1>4 DEF ConnectionKnown, Alive
<1>8. CallsKnown' /\ RequestsKnown'
  BY <1>2, <1>4 DEF CallsKnown, RequestsKnown, AppServerInv
<1>9. RepliesKnown'
  BY <1>3 DEF RepliesKnown, On
<1>10. ThreadsKnown'
  <2>1. PICK maker \in [Fresh -> Deliveries \cup {None}] : MadeBy(maker)
    BY DEF ThreadsKnown, AppServerInv
  <2>2. MadeBy(maker)'
    BY <2>1, <1>2, <1>3, ThreadAssumption DEF MadeBy, On, AllThreads
  <2> QED BY <2>2 DEF ThreadsKnown
<1>11. WaitersKnown' /\ TurnsKnown'
  BY <1>2, <1>3, <1>5 DEF WaitersKnown, TurnsKnown, On
<1>12. IdleKnown'
  BY <1>2, <1>3 DEF IdleKnown, On
<1>13. OutcomesKnown'
  BY <1>2 DEF OutcomesKnown, DeliveredIsDone, AppServerInv, Ends
<1> QED BY <1>1, <1>6, <1>7, <1>8, <1>9, <1>10, <1>11, <1>12, <1>13 DEF AppServerInv

\* A call is over, with an answer for the queue.
LEMMA DropInv ==
  ASSUME AppServerInv, NEW d \in Deliveries, call[d].at \in {"resuming", "running"},
         call' = [call EXCEPT ![d] = NoCall],
         NEW answer \in {"queued", "delivered", "failed"}, row' = [row EXCEPT ![d] = answer],
         answer = "delivered" => call[d].outcome = "completed",
         waiter' = Unlisten({d}),
         UNCHANGED <<adapter, conn, wire, requests, turn, finished, used, others>>, faults' \in 0..MaxFaults
  PROVE  AppServerInv'
<1> USE NameAssumption
<1>0. TypeOK /\ RowsKnown /\ ConnectionKnown /\ CallsKnown /\ RequestsKnown /\ RepliesKnown
      /\ ThreadsKnown /\ WaitersKnown /\ TurnsKnown /\ IdleKnown /\ OutcomesKnown
  BY DEF AppServerInv
<1>t. /\ row' \in [Deliveries -> {"queued", "delivering", "delivered", "failed"}] /\ call' \in [Deliveries -> Call]
      /\ waiter' \in [AllThreads -> Deliveries \cup {None}]
  BY <1>0, CallTypes DEF TypeOK, Unlisten
<1>1. TypeOK'
  BY <1>0, <1>t, TypesFrom DEF TypeOK
<1>2. call'[d] = NoCall /\ \A e \in Deliveries : e # d => call'[e] = call[e]
  BY <1>0 DEF TypeOK
<1>3. call'[d].at = "idle" /\ call'[d].reply = "none" /\ call'[d].thread = None /\ call'[d].outcome = "none"
  BY <1>2 DEF NoCall
<1>4. row'[d] = answer /\ \A e \in Deliveries : e # d => row'[e] = row[e]
  BY <1>0 DEF TypeOK
<1>5. RowsKnown'
  <2>1. row[d] = "delivering"
    BY <1>0 DEF RowsKnown
  <2> QED BY <1>0, <1>2, <1>3, <1>4, <2>1, DeliveryAssumption DEF RowsKnown
<1>6. ConnectionKnown'
  BY <1>0 DEF ConnectionKnown, Alive
<1>7. CallsKnown'
  BY <1>0, <1>2, <1>3 DEF CallsKnown, Alive
<1>8. \A e \in Deliveries, t \in AllThreads \cup {None} : Starts(e, t) => e # d /\ Starts(e, t)'
  BY <1>2 DEF Starts
<1>9. RequestsKnown'
  BY <1>0, <1>8, RequestTypes DEF RequestsKnown
<1>10. RepliesKnown'
  BY <1>0, <1>8, MessageTypes DEF RepliesKnown, On, IsReply
<1>11. ThreadsKnown'
  <2>1. PICK maker \in [Fresh -> Deliveries \cup {None}] : MadeBy(maker)
    BY <1>0 DEF ThreadsKnown
  <2>2. MadeBy(maker)'
    BY <1>2, <1>3, <2>1, ThreadAssumption DEF MadeBy, On, AllThreads
  <2> QED BY <2>2 DEF ThreadsKnown
<1>12. WaitersKnown'
  BY <1>0, <1>2, <1>3 DEF WaitersKnown, Unlisten, CallsKnown, TypeOK, Call
<1>13. TurnsKnown'
  BY <1>0, <1>2, <1>3 DEF TurnsKnown, EndsAfter, IsEnd, On
<1>14. IdleKnown'
  BY <1>0, <1>2, <1>3 DEF IdleKnown, EndsAfter, StartedAfter, IsAnswer, IsEnd, On, Own
<1>15. OutcomesKnown'
  <2>1. CASE answer = "delivered" /\ Alone(d)
    <3>1. call[d].thread # None /\ Own(call[d].thread)
      BY <1>0, <2>1, DeliveryAssumption, ThreadAssumption DEF CallsKnown, TypeOK, Own, Alone
    <3>2. d \in finished
      BY <1>0, <2>1, <3>1 DEF OutcomesKnown
    <3> QED BY <1>0, <1>2, <1>3, <1>4, <3>2 DEF OutcomesKnown, DeliveredIsDone, Own, Alone
  <2>2. CASE ~(answer = "delivered" /\ Alone(d))
    BY <1>0, <1>2, <1>3, <1>4, <2>2 DEF OutcomesKnown, DeliveredIsDone, Own, Alone
  <2> QED BY <2>1, <2>2
<1> QED BY <1>1, <1>5, <1>6, <1>7, <1>9, <1>10, <1>11, <1>12, <1>13, <1>14, <1>15 DEF AppServerInv

\* None is no connection, and a connection lives while it is open or cut.
LEMMA ConnNames == None \notin Conns /\ \A n \in Conns : Alive(n) <=> conn[n] \in {"open", "cut"}
<1>1. Conns \subseteq Nat
  BY BoundAssumption DEF Conns
<1> QED BY <1>1, NameAssumption DEF Alive

\* The faults stay within their bound.
LEMMA FaultTypes == ASSUME TypeOK, Fault PROVE faults' \in 0..MaxFaults
BY BoundAssumption DEF TypeOK, Fault

LEMMA SameFaults == ASSUME TypeOK, faults' = faults PROVE faults' \in 0..MaxFaults
BY DEF TypeOK

\* A thread that a waiter of another call holds is not touched.
LEMMA NoWaiter ==
  ASSUME AppServerInv, NEW d \in Deliveries, call[d].at \notin {"starting", "running"} \/ call[d].outcome # "none"
  PROVE  Unlisten({d}) = waiter
BY DEF AppServerInv, WaitersKnown, Unlisten, TypeOK

\* What ends one call: a refusal, a settled completion, a timeout.
LEMMA TurnsAwayInv == ASSUME AppServerInv, NEW d \in Deliveries, TurnsAway(d) PROVE AppServerInv'
<1>1. call[d].at = "resuming" /\ Answers(d, IF call[d].reply = "active" THEN "busy" ELSE call[d].reply)
  BY DEF TurnsAway
<1>2. call[d].reply \in Replies
  BY CallTypes DEF AppServerInv, TypeOK
<1>3. PICK answer \in {"queued", "failed"} : row' = [row EXCEPT ![d] = answer]
  BY <1>1, <1>2 DEF Answers, RowAfter, Replies
<1> QED BY <1>1, <1>3, DropInv, NoWaiter, SameFaults DEF TurnsAway, Answers, AppServerInv

LEMMA FinishesInv == ASSUME AppServerInv, NEW d \in Deliveries, Finishes(d) PROVE AppServerInv'
<1>1. call[d].at = "running" /\ call[d].outcome \in {"completed", "failed", "rejected"}
  BY CallTypes DEF Finishes, AppServerInv, TypeOK
<1>2. PICK answer \in {"queued", "failed", "delivered"} :
        row' = [row EXCEPT ![d] = answer] /\ (answer = "delivered" => call[d].outcome = "completed")
  BY <1>1 DEF Finishes, Answers, RowAfter
<1> QED BY <1>1, <1>2, DropInv, NoWaiter, SameFaults DEF Finishes, Answers, AppServerInv

LEMMA AskTimesOutInv == ASSUME AppServerInv, NEW d \in Deliveries, AskTimesOut(d) PROVE AppServerInv'
<1>1. row' = [row EXCEPT ![d] = "queued"]
  BY DEF AskTimesOut, Answers, RowAfter
<1> QED BY <1>1, DropInv, NoWaiter, FaultTypes DEF AskTimesOut, Answers, AppServerInv

LEMMA TurnTimesOutInv == ASSUME AppServerInv, NEW d \in Deliveries, TurnTimesOut(d) PROVE AppServerInv'
<1>1. row' = [row EXCEPT ![d] = "queued"]
  BY DEF TurnTimesOut, Answers, RowAfter
<1> QED BY <1>1, DropInv, FaultTypes DEF TurnTimesOut, Answers, AppServerInv

\* What ends the process.
LEMMA StopsInv == ASSUME AppServerInv, Stops PROVE AppServerInv'
BY EndsInv, FaultTypes DEF Stops, AppServerInv

LEMMA StartRefusedInv == ASSUME AppServerInv, NEW d \in Deliveries, StartRefused(d) PROVE AppServerInv'
BY EndsInv, SameFaults DEF StartRefused, AppServerInv

\* Nothing lives while a connection is opened.
LEMMA Opening ==
  ASSUME AppServerInv, adapter.initializing # None
  PROVE  /\ adapter.initializing \in Conns
         /\ \A n \in Conns : ~Alive(n) /\ wire[n] = <<>> /\ On(n) = {}
         /\ \A d \in Deliveries : call[d].at \in {"idle", "connecting"} /\ call[d].reply = "none" /\ call[d].thread = None
              /\ call[d].outcome = "none"
         /\ \A t \in AllThreads : waiter[t] = None
<1>1. \A n \in Conns : ~Alive(n) /\ wire[n] = <<>>
  BY DEF AppServerInv, ConnectionKnown
<1>2. \A n \in Conns : On(n) = {}
  BY <1>1 DEF On
<1>3. \A d \in Deliveries : call[d].at \in {"idle", "connecting"}
  BY CallTypes DEF AppServerInv, ConnectionKnown, CallsKnown, TypeOK
<1>4. \A t \in AllThreads : waiter[t] = None
  <2>1. \A t \in AllThreads : waiter[t] \in Deliveries \cup {None}
    BY DEF AppServerInv, TypeOK
  <2>2. \A t \in AllThreads, d \in Deliveries : waiter[t] = d => call[d].at \in {"starting", "running"}
    BY DEF AppServerInv, WaitersKnown
  <2> QED BY <1>3, <2>1, <2>2
<1>5. \A d \in Deliveries : call[d].reply = "none" /\ call[d].thread = None /\ call[d].outcome = "none"
  BY <1>3 DEF AppServerInv, CallsKnown
<1>6. adapter.initializing \in Conns
  BY DEF AppServerInv, TypeOK
<1> QED BY <1>1, <1>2, <1>3, <1>4, <1>5, <1>6

\* A connection that cannot be opened or that fails.
LEMMA OpenFailsInv == ASSUME AppServerInv, OpenFails PROVE AppServerInv'
<1> USE NameAssumption
<1>0. TypeOK /\ RowsKnown /\ ConnectionKnown /\ CallsKnown /\ RequestsKnown /\ RepliesKnown
      /\ ThreadsKnown /\ WaitersKnown /\ TurnsKnown /\ IdleKnown /\ OutcomesKnown
  BY DEF AppServerInv
<1> DEFINE n == adapter.initializing
<1>n. n \in Conns /\ n # None
  BY <1>0 DEF OpenFails, TypeOK
<1>o. /\ \A k \in Conns : ~Alive(k) /\ wire[k] = <<>> /\ On(k) = {}
      /\ \A d \in Deliveries : call[d].at \in {"idle", "connecting"} /\ call[d].reply = "none" /\ call[d].thread = None
           /\ call[d].outcome = "none"
      /\ \A t \in AllThreads : waiter[t] = None
  BY <1>n, Opening
<1>1. TypeOK'
  <2>1. row' \in [Deliveries -> {"queued", "delivering", "delivered", "failed"}]
    BY <1>0 DEF OpenFails, TypeOK
  <2>2. call' \in [Deliveries -> Call]
    BY <1>0, CallTypes DEF OpenFails, TypeOK
  <2>3. conn' \in [Conns -> ConnState]
    BY <1>0 DEF OpenFails, TypeOK, ConnState
  <2>4. adapter' \in [connection: Conns \cup {None}, initializing: Conns \cup {None}]
    BY <1>0 DEF OpenFails, TypeOK
  <2>5. faults' \in 0..MaxFaults
    BY <1>0, FaultTypes DEF OpenFails
  <2> QED BY <1>0, <2>1, <2>2, <2>3, <2>4, <2>5, TypesFrom DEF OpenFails, TypeOK
<1>2. \A d \in Deliveries : call'[d].at = "idle" /\ call'[d].reply = "none" /\ call'[d].thread = None /\ call'[d].outcome = "none"
  BY <1>o DEF OpenFails, NoCall, Connecting
<1>3. \A k \in Conns : wire'[k] = <<>> /\ Len(wire'[k]) = 0 /\ conn'[k] \notin {"open", "cut"}
  BY <1>o, <1>0, ConnNames DEF OpenFails, TypeOK
<1>4. adapter'.initializing = None /\ adapter'.connection = adapter.connection
  BY <1>0 DEF OpenFails, TypeOK
<1>6. RowsKnown'
  <2>1. \A d \in Deliveries : row'[d] = IF call[d].at = "connecting" THEN "queued" ELSE row[d]
    BY DEF OpenFails, Connecting
  <2> QED BY <1>0, <1>o, <1>2, <2>1, DeliveryAssumption DEF RowsKnown
<1>7. ConnectionKnown'
  BY <1>3, <1>4 DEF ConnectionKnown, Alive
<1>8. CallsKnown'
  BY <1>2 DEF CallsKnown
<1>9. RequestsKnown'
  BY <1>0, <1>2, <1>4, <1>o, RequestTypes DEF RequestsKnown, OpenFails, Starts
<1>10. RepliesKnown'
  BY <1>3 DEF RepliesKnown, On
<1>11. ThreadsKnown'
  <2>1. PICK maker \in [Fresh -> Deliveries \cup {None}] : MadeBy(maker)
    BY <1>0 DEF ThreadsKnown
  <2>2. MadeBy(maker)'
    BY <2>1, <1>2, <1>3, ThreadAssumption DEF MadeBy, On, AllThreads, OpenFails
  <2> QED BY <2>2 DEF ThreadsKnown
<1>12. WaitersKnown' /\ TurnsKnown'
  BY <1>2, <1>3, <1>o DEF WaitersKnown, TurnsKnown, On, OpenFails
<1>13. IdleKnown'
  BY <1>2, <1>3 DEF IdleKnown, On
<1>14. OutcomesKnown'
  BY <1>2, <1>0 DEF OutcomesKnown, DeliveredIsDone, OpenFails
<1> QED BY <1>1, <1>6, <1>7, <1>8, <1>9, <1>10, <1>11, <1>12, <1>13, <1>14 DEF AppServerInv

LEMMA ConnFailsInv == ASSUME AppServerInv, NEW n \in Conns, ConnFails(n) PROVE AppServerInv'
<1> USE NameAssumption
<1>0. TypeOK /\ RowsKnown /\ ConnectionKnown /\ CallsKnown /\ RequestsKnown /\ RepliesKnown
      /\ ThreadsKnown /\ WaitersKnown /\ TurnsKnown /\ IdleKnown /\ OutcomesKnown
  BY DEF AppServerInv
<1>f. faults' \in 0..MaxFaults
  BY <1>0, FaultTypes DEF ConnFails
<1>a. CASE AwaitsStart # {}
  BY <1>a, <1>f, EndsInv DEF ConnFails
<1>b. CASE AwaitsStart = {}
  <2> DEFINE S == Lost(n)
  <2>1. /\ row' = [d \in Deliveries |-> IF d \in S THEN "queued" ELSE row[d]]
        /\ call' = [d \in Deliveries |-> IF d \in S THEN NoCall ELSE call[d]]
        /\ waiter' = [t \in AllThreads |-> None]
        /\ wire' = [wire EXCEPT ![n] = <<>>]
        /\ UNCHANGED <<adapter, requests, turn, finished, used, others>>
    BY <1>b DEF ConnFails
  <2>2. PICK next \in {"failed", "gone"} : conn' = [conn EXCEPT ![n] = next]
    BY <1>b DEF ConnFails
  <2>3. TypeOK'
    <3>1. row' \in [Deliveries -> {"queued", "delivering", "delivered", "failed"}]
      BY <1>0, <2>1 DEF TypeOK
    <3>2. call' \in [Deliveries -> Call]
      BY <1>0, <2>1, CallTypes DEF TypeOK
    <3>3. conn' \in [Conns -> ConnState]
      BY <1>0, <2>2 DEF TypeOK, ConnState
    <3>4. waiter' \in [AllThreads -> Deliveries \cup {None}]
      BY <2>1
    <3>5. wire' \in [Conns -> Seq(Message)]
      BY <1>0, <2>1 DEF TypeOK
    <3> QED BY <1>0, <1>f, <2>1, <3>1, <3>2, <3>3, <3>4, <3>5, TypesFrom DEF TypeOK
  <2>4. \A d \in Deliveries : d \in S =>
          call'[d].at = "idle" /\ call'[d].reply = "none" /\ call'[d].thread = None /\ call'[d].outcome = "none"
    BY <2>1 DEF NoCall
  <2>5. \A d \in Deliveries : d \notin S =>
          /\ call'[d] = call[d] /\ call[d].outcome = "none"
          /\ call[d].at \in {"idle", "connecting"} \/ (call[d].at = "resuming" /\ call[d].conn # n)
    <3>1. ASSUME NEW d \in Deliveries, d \notin S
          PROVE  call[d].at \in {"idle", "connecting"} \/ (call[d].at = "resuming" /\ call[d].conn # n)
      BY <3>1, <1>b, <1>0, CallTypes DEF Lost, AwaitsStart, TypeOK
    <3>2. \A d \in Deliveries : d \notin S => call'[d] = call[d]
      BY <2>1
    <3> QED BY <1>0, <3>1, <3>2 DEF CallsKnown
  <2>6. \A d \in S : d \in Deliveries /\ call[d].at \in {"resuming", "running"}
    BY DEF Lost
  <2>7. /\ \A k \in Conns : k # n => wire'[k] = wire[k] /\ conn'[k] = conn[k]
        /\ wire'[n] = <<>> /\ conn'[n] \notin {"open", "cut"} /\ Len(wire'[n]) = 0
    BY <1>0, <2>1, <2>2 DEF TypeOK
  <2> HIDE DEF S
  <2>8. RowsKnown'
    <3>1. \A d \in Deliveries : row'[d] = IF d \in S THEN "queued" ELSE row[d]
      BY <2>1
    <3> QED BY <1>0, <2>4, <2>5, <2>6, <3>1, DeliveryAssumption DEF RowsKnown
  <2>9. ConnectionKnown'
    <3>1. \A k \in Conns : Alive(k)' => k # n /\ Alive(k)
      BY <2>7 DEF Alive
    <3>2. \A k \in Conns : wire'[k] # <<>> => k # n /\ Alive(k)'
      BY <1>0, <2>7 DEF ConnectionKnown, Alive
    <3>3. adapter.initializing # None => ~Alive(adapter.connection)'
      <4>1. CASE adapter.connection = None
        BY <2>1, <4>1 DEF Alive
      <4>2. CASE adapter.connection \in Conns
        BY <1>0, <2>1, <3>1, <4>2 DEF ConnectionKnown, Alive
      <4> QED BY <1>0, <4>1, <4>2 DEF TypeOK
    <3> QED BY <1>0, <2>1, <3>1, <3>2, <3>3 DEF ConnectionKnown
  <2>10. \A d \in Deliveries : call'[d].at \in {"idle", "connecting", "resuming"} /\ call'[d].outcome = "none"
           /\ (call'[d].at = "resuming" => d \notin S /\ call'[d] = call[d] /\ call[d].conn # n)
    BY <2>4, <2>5
  <2>11. CallsKnown'
    <3>1. ASSUME NEW d \in Deliveries, call'[d].at = "resuming"
          PROVE  call'[d].conn = adapter'.connection /\ Alive(adapter.connection)'
      BY <1>0, <2>1, <2>7, <2>10, <3>1 DEF CallsKnown, Alive, TypeOK
    <3>2. \A d \in Deliveries : d \in S \/ call'[d] = call[d]
      BY <2>5
    <3>3. used' = used /\ adapter' = adapter
      BY <2>1
    <3> QED BY <1>0, <2>4, <2>10, <3>1, <3>2, <3>3 DEF CallsKnown, Alive
  <2>12. \A d \in Deliveries, t \in AllThreads \cup {None} : ~Starts(d, t)
    BY <1>b DEF Starts, AwaitsStart
  <2>13. RequestsKnown'
    BY <1>0, <2>1, <2>12, RequestTypes DEF RequestsKnown
  <2>14. \A k \in Conns : \A i \in On(k)' : k # n /\ i \in On(k) /\ wire'[k] = wire[k] /\ On(k)' = On(k)
    BY <2>7 DEF On
  <2>15. RepliesKnown'
    BY <1>0, <2>1, <2>12, <2>14, MessageTypes DEF RepliesKnown, IsReply
  <2>16. ThreadsKnown'
    <3>1. PICK maker \in [Fresh -> Deliveries \cup {None}] : MadeBy(maker)
      BY <1>0 DEF ThreadsKnown
    <3>2. MadeBy(maker)'
      BY <2>1, <2>4, <2>5, <2>14, <3>1, ThreadAssumption DEF MadeBy, AllThreads
    <3> QED BY <3>2 DEF ThreadsKnown
  <2>17. WaitersKnown'
    BY <2>1, <2>10 DEF WaitersKnown
  <2>18. TurnsKnown'
    BY <1>0, <2>1, <2>7, <2>10, <2>14 DEF TurnsKnown, EndsAfter, IsEnd
  <2>19. IdleKnown'
    <3>1. \A d \in Deliveries : call'[d].at = "resuming" => call'[d].conn \in Conns
      BY <1>0, <2>10, ConnNames, CallTypes DEF CallsKnown, TypeOK, Alive
    <3>2. ASSUME NEW k \in Conns, NEW t \in AllThreads \ OtherThreads, NEW i \in On(k)', IsAnswer(k, i, "idle", t)'
          PROVE  (StartedAfter(k, i, t) \/ (~EndsAfter(k, i, t) /\ (conn[k] = "open" => turn[t] = None)))'
      <4>1. IsAnswer(k, i, "idle", t) /\ k # n /\ i \in On(k)
        BY <2>14, <3>2 DEF IsAnswer
      <4>2. StartedAfter(k, i, t) \/ (~EndsAfter(k, i, t) /\ (conn[k] = "open" => turn[t] = None))
        BY <1>0, <4>1 DEF IdleKnown
      <4> QED BY <2>1, <2>7, <2>14, <4>1, <4>2 DEF EndsAfter, StartedAfter, IsAnswer, IsEnd
    <3>3. ASSUME NEW d \in Deliveries, (call[d].at = "resuming" /\ call[d].reply = "idle" /\ Own(call[d].thread))'
          PROVE  (~EndsAfter(call[d].conn, 0, call[d].thread)
                    /\ (conn[call[d].conn] = "open" => turn[call[d].thread] = None))'
      <4>1. call'[d] = call[d] /\ call[d].conn # n /\ call[d].conn \in Conns
        BY <2>10, <3>1, <3>3
      <4>2. ~EndsAfter(call[d].conn, 0, call[d].thread) /\ (conn[call[d].conn] = "open" => turn[call[d].thread] = None)
        BY <1>0, <3>3, <4>1 DEF IdleKnown, Own
      <4> QED BY SMTT(30), <2>1, <2>7, <4>1, <4>2 DEF EndsAfter, IsEnd, On
    <3> QED BY <2>10, <3>2, <3>3 DEF IdleKnown, Own
  <2>20. OutcomesKnown'
    BY <1>0, <2>1, <2>10 DEF OutcomesKnown, DeliveredIsDone
  <2> QED BY <2>3, <2>8, <2>9, <2>11, <2>13, <2>15, <2>16, <2>17, <2>18, <2>19, <2>20 DEF AppServerInv
<1> QED BY <1>a, <1>b

\* The first request of a call.
LEMMA AsksFacts ==
  ASSUME NEW d \in Deliveries, NEW n \in Conns
  PROVE  /\ Asks(d, n) \in Request /\ Asks(d, n).delivery = d
         /\ Asks(d, n).method \in {"resume", "thread"} /\ Asks(d, n).thread \notin Fresh
         /\ Asks(d, n).method = "resume" => d \notin New /\ Asks(d, n).thread = ThreadOf[d]
         /\ Asks(d, n).method = "thread" => d \in New /\ Asks(d, n).thread = None
<1>1. d \notin New => ThreadOf[d] \in Threads
  BY DeliveryAssumption
<1>2. FirstMethod(d) = IF d \in New THEN "thread" ELSE "resume"
  BY DEF FirstMethod
<1>3. Asks(d, n) \in Request /\ Asks(d, n).delivery = d
  BY <1>1, <1>2 DEF Asks, Request, AllThreads
<1>4. Asks(d, n).thread \notin Fresh
  BY <1>1, ThreadAssumption, NameAssumption DEF Asks
<1> QED BY <1>2, <1>3, <1>4 DEF Asks

\* A call that has asked on n.
Resuming(n) == [NoCall EXCEPT !.at = "resuming", !.conn = n]

\* The fields of a call that has asked.
LEMMA ResumingFacts ==
  ASSUME NEW n \in Conns
  PROVE  /\ Resuming(n) \in Call /\ Resuming(n).at = "resuming" /\ Resuming(n).conn = n /\ Resuming(n).thread = None
         /\ Resuming(n).reply = "none" /\ Resuming(n).outcome = "none"
<1>1. Resuming(n) \in Call
  <2>1. NoCall \in Call
    BY CallTypes
  <2>2. [NoCall EXCEPT !.at = "resuming", !.conn = n] \in Call
    BY <2>1 DEF Call
  <2> QED BY <2>2 DEF Resuming
<1>2. Resuming(n).at = "resuming" /\ Resuming(n).conn = n /\ Resuming(n).thread = None
      /\ Resuming(n).reply = "none" /\ Resuming(n).outcome = "none"
  BY DEF Resuming, NoCall
<1> QED BY <1>1, <1>2

\* A connection that opens: every call that waited for it asks.
LEMMA OpensInv == ASSUME AppServerInv, Opens PROVE AppServerInv'
<1> USE NameAssumption
<1>0. TypeOK /\ RowsKnown /\ ConnectionKnown /\ CallsKnown /\ RequestsKnown /\ RepliesKnown
      /\ ThreadsKnown /\ WaitersKnown /\ TurnsKnown /\ IdleKnown /\ OutcomesKnown
  BY DEF AppServerInv
<1> DEFINE n == adapter.initializing
<1>n. n \in Conns /\ n # None
  BY <1>0 DEF Opens, TypeOK
<1>o. /\ \A k \in Conns : ~Alive(k) /\ wire[k] = <<>> /\ On(k) = {}
      /\ \A d \in Deliveries : call[d].at \in {"idle", "connecting"} /\ call[d].reply = "none" /\ call[d].thread = None
           /\ call[d].outcome = "none"
      /\ \A t \in AllThreads : waiter[t] = None
  BY <1>n, Opening
<1>a. /\ conn' = [conn EXCEPT ![n] = "open"]
      /\ adapter' = [connection |-> n, initializing |-> None]
      /\ call' = [d \in Deliveries |-> IF d \in Connecting THEN Resuming(n) ELSE call[d]]
      /\ requests' = {Asks(d, n) : d \in Connecting}
      /\ UNCHANGED <<row, waiter, wire, turn, finished, used, faults, others>>
  BY DEF Opens, Resuming
<1>b. \A d \in Connecting : d \in Deliveries /\ call[d].at = "connecting"
  BY DEF Connecting
<1>d. \A d \in Deliveries : d \notin Connecting => call[d].at # "connecting"
  BY DEF Connecting
<1> HIDE DEF n
<1>1. TypeOK'
  <2>1. call' \in [Deliveries -> Call]
    BY <1>0, <1>a, <1>n, ResumingFacts DEF TypeOK
  <2>2. conn' \in [Conns -> ConnState]
    BY <1>0, <1>a DEF TypeOK, ConnState
  <2>3. adapter' \in [connection: Conns \cup {None}, initializing: Conns \cup {None}]
    BY <1>n, <1>a
  <2>4. requests' \subseteq Request
    BY <1>n, <1>a, <1>b, AsksFacts
  <2> QED BY <1>0, <1>a, <2>1, <2>2, <2>3, <2>4, TypesFrom DEF TypeOK
<1>2. \A d \in Deliveries : /\ call'[d].reply = "none" /\ call'[d].thread = None /\ call'[d].outcome = "none"
                            /\ call'[d].at \in {"idle", "resuming"} /\ (call'[d].at = "idle" <=> call[d].at = "idle")
                            /\ call'[d].at = "resuming" => call'[d].conn = n
  <2> SUFFICES ASSUME NEW d \in Deliveries
               PROVE  /\ call'[d].reply = "none" /\ call'[d].thread = None /\ call'[d].outcome = "none"
                      /\ call'[d].at \in {"idle", "resuming"} /\ (call'[d].at = "idle" <=> call[d].at = "idle")
                      /\ call'[d].at = "resuming" => call'[d].conn = n
    OBVIOUS
  <2>1. CASE d \in Connecting
    BY <2>1, <1>a, <1>b, <1>n, ResumingFacts
  <2>2. CASE d \notin Connecting
    BY <2>2, <1>a, <1>d, <1>o
  <2> QED BY <2>1, <2>2
<1>3. \A k \in Conns : wire'[k] = <<>> /\ Len(wire'[k]) = 0 /\ (Alive(k)' => k = n)
  BY <1>o, <1>0, <1>a DEF Alive, TypeOK
<1>4. Alive(adapter.connection)' /\ adapter'.connection = n /\ adapter'.initializing = None
  <2>1. adapter'.connection = n /\ adapter'.initializing = None /\ conn'[n] = "open"
    BY <1>0, <1>a, <1>n DEF TypeOK
  <2> QED BY <2>1, <1>n DEF Alive
<1>5. \A r \in requests' : r.method # "turn" /\ r.thread \notin Fresh
        /\ (r.method = "resume" => r.delivery \notin New /\ r.thread = ThreadOf[r.delivery])
        /\ (r.method = "thread" => r.delivery \in New /\ r.thread = None)
  <2> SUFFICES ASSUME NEW r \in requests'
               PROVE  /\ r.method # "turn" /\ r.thread \notin Fresh
                      /\ (r.method = "resume" => r.delivery \notin New /\ r.thread = ThreadOf[r.delivery])
                      /\ (r.method = "thread" => r.delivery \in New /\ r.thread = None)
    OBVIOUS
  <2>1. PICK d \in Connecting : r = Asks(d, n)
    BY <1>a
  <2> QED BY <2>1, <1>b, <1>n, AsksFacts
<1>6. RowsKnown'
  BY <1>0, <1>2, <1>a DEF RowsKnown
<1>7. ConnectionKnown'
  BY <1>3, <1>4 DEF ConnectionKnown
<1>8. CallsKnown'
  BY <1>2, <1>4 DEF CallsKnown
<1>9. RequestsKnown'
  BY <1>5 DEF RequestsKnown
<1>10. RepliesKnown'
  BY <1>3 DEF RepliesKnown, On
<1>11. ThreadsKnown'
  <2>1. PICK maker \in [Fresh -> Deliveries \cup {None}] : MadeBy(maker)
    BY <1>0 DEF ThreadsKnown
  <2>2. MadeBy(maker)'
    BY <2>1, <1>a, <1>2, <1>3, <1>5, ThreadAssumption DEF MadeBy, On, AllThreads
  <2> QED BY <2>2 DEF ThreadsKnown
<1>12. WaitersKnown' /\ TurnsKnown'
  BY <1>2, <1>3, <1>o, <1>a DEF WaitersKnown, TurnsKnown, On
<1>13. IdleKnown'
  BY <1>2, <1>3 DEF IdleKnown, On
<1>14. OutcomesKnown'
  BY <1>2, <1>0, <1>a DEF OutcomesKnown, DeliveredIsDone
<1> QED BY <1>1, <1>6, <1>7, <1>8, <1>9, <1>10, <1>11, <1>12, <1>13, <1>14 DEF AppServerInv

\* What a step does that begins the call of d, on n or waiting for a connection.
LEMMA BeginInv ==
  ASSUME AppServerInv, NEW d \in Deliveries, Begins(d), TypeOK',
         \A e \in Deliveries : e # d => call'[e] = call[e],
         call'[d].reply = "none", call'[d].thread = None, call'[d].outcome = "none",
         \/ call'[d].at = "connecting"
         \/ call'[d].at = "resuming" /\ call'[d].conn = adapter.connection /\ Alive(adapter.connection),
         \A k \in Conns : conn'[k] = conn[k] \/ (conn[k] = "unused" /\ conn'[k] = "opening"),
         adapter'.connection = adapter.connection,
         adapter'.initializing # None => ~Alive(adapter.connection),
         \A r \in requests' : r \in requests \/ \E n \in Conns : r = Asks(d, n),
         UNCHANGED <<waiter, wire, turn, finished, used>>
  PROVE  AppServerInv'
<1> USE NameAssumption
<1>0. TypeOK /\ RowsKnown /\ ConnectionKnown /\ CallsKnown /\ RequestsKnown /\ RepliesKnown
      /\ ThreadsKnown /\ WaitersKnown /\ TurnsKnown /\ IdleKnown /\ OutcomesKnown
  BY DEF AppServerInv
<1>1. row[d] = "queued" /\ row'[d] = "delivering" /\ \A e \in Deliveries : e # d => row'[e] = row[e]
  BY <1>0 DEF Begins, TypeOK
<1>2. call[d].at = "idle" /\ call[d].reply = "none" /\ call[d].thread = None /\ call[d].outcome = "none"
  BY <1>0, <1>1 DEF RowsKnown, CallsKnown
<1>3. \A k \in Conns : (Alive(k)' <=> Alive(k)) /\ (conn'[k] = "open" => conn[k] = "open")
  BY ConnNames DEF Alive
<1>4. Alive(adapter.connection)' <=> Alive(adapter.connection)
  <2>1. CASE adapter.connection = None
    BY <2>1 DEF Alive
  <2>2. CASE adapter.connection \in Conns
    BY <2>2, <1>3 DEF Alive
  <2> QED BY <1>0, <2>1, <2>2 DEF TypeOK
<1>5. \A r \in requests' : r \in requests
         \/ (/\ r.delivery = d /\ r.method \in {"resume", "thread"} /\ r.thread \notin Fresh
             /\ r.method = "resume" => d \notin New /\ r.thread = ThreadOf[d]
             /\ r.method = "thread" => d \in New /\ r.thread = None)
  <2> SUFFICES ASSUME NEW r \in requests', r \notin requests
               PROVE  /\ r.delivery = d /\ r.method \in {"resume", "thread"} /\ r.thread \notin Fresh
                      /\ r.method = "resume" => d \notin New /\ r.thread = ThreadOf[d]
                      /\ r.method = "thread" => d \in New /\ r.thread = None
    OBVIOUS
  <2>1. PICK n \in Conns : r = Asks(d, n)
    OBVIOUS
  <2> QED BY <2>1, AsksFacts
<1>6. RowsKnown'
  BY <1>0, <1>1, <1>2, DeliveryAssumption DEF RowsKnown, Begins, InDelivery
<1>7. ConnectionKnown'
  BY <1>0, <1>3, <1>4 DEF ConnectionKnown
<1>8. CallsKnown'
  BY <1>0, <1>2, <1>4 DEF CallsKnown
<1>9. \A e \in Deliveries, t \in AllThreads \cup {None} : Starts(e, t) => e # d /\ Starts(e, t)'
  BY <1>2 DEF Starts
<1>10. RequestsKnown'
  BY <1>0, <1>5, <1>9, RequestTypes DEF RequestsKnown
<1>11. RepliesKnown'
  BY SMTT(30), <1>0, <1>5, <1>9, MessageTypes DEF RepliesKnown, On, IsReply
<1>12. ThreadsKnown'
  <2>1. PICK maker \in [Fresh -> Deliveries \cup {None}] : MadeBy(maker)
    BY <1>0 DEF ThreadsKnown
  <2>2. MadeBy(maker)'
    BY <1>2, <1>5, <2>1, ThreadAssumption DEF MadeBy, On, AllThreads
  <2> QED BY <2>2 DEF ThreadsKnown
<1>13. WaitersKnown'
  BY <1>0, <1>2 DEF WaitersKnown
<1>c. \A e \in Deliveries : call[e].at \in {"resuming", "starting", "running"} => call[e].conn \in Conns
  BY <1>0, ConnNames DEF CallsKnown, TypeOK, Alive
<1>14. TurnsKnown'
  BY <1>0, <1>2, <1>3, <1>c DEF TurnsKnown, EndsAfter, IsEnd, On
<1>15. IdleKnown'
  BY <1>0, <1>2, <1>3, <1>c DEF IdleKnown, EndsAfter, StartedAfter, IsAnswer, IsEnd, On, Own
<1>16. OutcomesKnown'
  BY <1>0, <1>1, <1>2 DEF OutcomesKnown, DeliveredIsDone
<1> QED BY <1>6, <1>7, <1>8, <1>10, <1>11, <1>12, <1>13, <1>14, <1>15, <1>16 DEF AppServerInv

\* The queue hands over a row.
LEMMA DeliverInv == ASSUME AppServerInv, NEW d \in Deliveries, Deliver(d) PROVE AppServerInv'
<1>0. TypeOK /\ Begins(d) /\ UNCHANGED <<waiter, wire, turn, finished, used, faults, others>>
  BY DEF Deliver, AppServerInv
<1>r. row' \in [Deliveries -> {"queued", "delivering", "delivered", "failed"}]
  BY <1>0 DEF Begins, TypeOK
<1> DEFINE c == adapter.connection
<1>1. CASE Alive(c)
  <2>1. AsksOn({d}, c) /\ adapter' = adapter /\ conn' = conn
    BY <1>1 DEF Deliver
  <2>2. c \in Conns
    BY <1>0, <1>1 DEF TypeOK, Alive
  <2> HIDE DEF c
  <2>3. /\ \A e \in Deliveries : e # d => call'[e] = call[e]
        /\ call'[d] = Resuming(c) /\ call' \in [Deliveries -> Call]
    <3>1. call' = [e \in Deliveries |-> IF e = d THEN Resuming(c) ELSE call[e]]
      BY <2>1 DEF AsksOn, Resuming
    <3> QED BY <1>0, <3>1, <2>2, ResumingFacts DEF TypeOK
  <2>r. call'[d].at = "resuming" /\ call'[d].conn = c /\ call'[d].reply = "none" /\ call'[d].thread = None
        /\ call'[d].outcome = "none"
    BY <2>2, <2>3, ResumingFacts
  <2>4. requests' = requests \cup {Asks(d, c)}
    BY <2>1 DEF AsksOn
  <2>5. TypeOK'
    <3>1. requests' \subseteq Request
      BY <1>0, <2>2, <2>4, AsksFacts DEF TypeOK
    <3> QED BY <1>0, <1>r, <2>1, <2>3, <3>1, TypesFrom DEF TypeOK
  <2>6. adapter'.initializing # None => ~Alive(c)
    BY <2>1 DEF AppServerInv, ConnectionKnown, c
  <2> QED BY <1>0, <1>1, <2>1, <2>2, <2>3, <2>r, <2>4, <2>5, <2>6, BeginInv DEF c
<1>2. CASE ~Alive(c)
  <2>1. call' = [call EXCEPT ![d].at = "connecting"] /\ requests' = requests
    BY <1>2 DEF Deliver
  <2>2. /\ adapter'.connection = c
        /\ \A k \in Conns : conn'[k] = conn[k] \/ (conn[k] = "unused" /\ conn'[k] = "opening")
        /\ conn' \in [Conns -> ConnState]
        /\ adapter' \in [connection: Conns \cup {None}, initializing: Conns \cup {None}]
    BY <1>0, <1>2 DEF Deliver, TypeOK, ConnState
  <2>3. call[d].reply = "none" /\ call[d].thread = None /\ call[d].outcome = "none"
    BY <1>0 DEF AppServerInv, Begins, RowsKnown, CallsKnown
  <2>4. /\ \A e \in Deliveries : e # d => call'[e] = call[e]
        /\ call'[d].at = "connecting" /\ call'[d].reply = "none" /\ call'[d].thread = None /\ call'[d].outcome = "none"
    BY <1>0, <2>1, <2>3 DEF TypeOK, Call
  <2>5. call' \in [Deliveries -> Call]
    <3> DEFINE x == [call[d] EXCEPT !.at = "connecting"]
    <3>0. call[d] \in Call
      BY <1>0 DEF TypeOK
    <3>1. x \in Call
      BY <3>0 DEF Call
    <3>2. call' = [call EXCEPT ![d] = x]
      BY <2>1
    <3> HIDE DEF x
    <3> QED BY <1>0, <3>1, <3>2 DEF TypeOK
  <2>6. TypeOK'
    BY <1>0, <1>r, <2>1, <2>2, <2>5, TypesFrom DEF TypeOK
  <2> QED BY <1>0, <1>2, <2>1, <2>2, <2>4, <2>6, BeginInv
<1> QED BY <1>1, <1>2

\* A call past the connection is on the connection that lives.
LEMMA CallConn ==
  ASSUME AppServerInv, NEW d \in Deliveries, call[d].at \in {"resuming", "starting", "running"}
  PROVE  call[d].conn \in Conns /\ call[d].conn = adapter.connection /\ Alive(adapter.connection)
BY DEF AppServerInv, CallsKnown, TypeOK, Alive

\* What other clients and the server do.
LEMMA OtherStartsInv == ASSUME AppServerInv, NEW t \in OtherThreads, OtherStarts(t) PROVE AppServerInv'
<1> USE NameAssumption
<1>0. TypeOK /\ RowsKnown /\ ConnectionKnown /\ CallsKnown /\ RequestsKnown /\ RepliesKnown
      /\ ThreadsKnown /\ WaitersKnown /\ TurnsKnown /\ IdleKnown /\ OutcomesKnown
  BY DEF AppServerInv
<1>1. /\ turn[t] = None /\ turn' = [turn EXCEPT ![t] = Other] /\ others' = others + 1 /\ others < MaxOthers
      /\ UNCHANGED <<row, call, waiter, adapter, conn, wire, requests, finished, used, faults>>
  BY DEF OtherStarts
<1>2. t \in Threads /\ t \in AllThreads /\ t \notin Fresh
  BY ThreadAssumption DEF AllThreads
<1>3. turn'[t] = Other /\ \A u \in AllThreads : u # t => turn'[u] = turn[u]
  BY <1>0, <1>1, <1>2 DEF TypeOK
<1>4. TypeOK'
  <2>1. turn' \in [AllThreads -> Deliveries \cup {Other, None}]
    BY <1>0, <1>1 DEF TypeOK
  <2>2. others' \in 0..MaxOthers
    BY <1>0, <1>1, BoundAssumption DEF TypeOK
  <2> QED BY <1>0, <1>1, <2>1, <2>2, TypesFrom DEF TypeOK
<1>5. RowsKnown' /\ ConnectionKnown' /\ WaitersKnown' /\ OutcomesKnown'
  BY <1>0, <1>1 DEF RowsKnown, ConnectionKnown, WaitersKnown, OutcomesKnown, DeliveredIsDone, Alive
<1>6. CallsKnown' /\ RequestsKnown'
  BY <1>0, <1>1 DEF CallsKnown, RequestsKnown, Starts, Alive
<1>7. RepliesKnown'
  BY <1>0, <1>1 DEF RepliesKnown, Starts, IsReply, On
<1>8. ThreadsKnown'
  <2>1. PICK maker \in [Fresh -> Deliveries \cup {None}] : MadeBy(maker)
    BY <1>0 DEF ThreadsKnown
  <2>2. MadeBy(maker)'
    BY <1>1, <1>2, <1>3, <2>1 DEF MadeBy, On, AllThreads
  <2> QED BY <2>2 DEF ThreadsKnown
<1>9. TurnsKnown'
  <2>1. \A x \in Deliveries, u \in AllThreads : turn[u] = x => turn'[u] = x
    BY <1>1, <1>3
  <2>2. \A n \in Conns : conn[n] = "open" => \A i \in On(n) :
         wire[n][i].kind = "reply" /\ wire[n][i].reply = "started" =>
         /\ wire[n][i].thread \in AllThreads /\ wire[n][i].delivery \in Deliveries
         /\ turn[wire[n][i].thread] = wire[n][i].delivery \/ EndsAfter(n, i, wire[n][i].thread)
    <3>1. \A n \in Conns : \A i \in On(n) :
            wire[n][i].kind = "reply" /\ wire[n][i].reply = "started" =>
              wire[n][i].delivery \in Deliveries /\ Starts(wire[n][i].delivery, wire[n][i].thread)
      BY <1>0, MessageTypes DEF RepliesKnown, IsReply
    <3>2. \A x \in Deliveries, u \in AllThreads \cup {None} : Starts(x, u) => u \in AllThreads
      BY <1>0, CallTypes DEF Starts, CallsKnown, TypeOK
    <3>3. \A n \in Conns : \A i \in On(n) : wire[n][i].thread \in AllThreads \cup {None}
      BY <1>0, MessageTypes
    <3> QED BY <1>0, <3>1, <3>2, <3>3 DEF TurnsKnown
  <2>3. \A x \in Deliveries : call[x].at \in {"starting", "running"} => call[x].thread \in AllThreads
    BY <1>0, CallTypes DEF CallsKnown, TypeOK
  <2> QED BY <1>0, <1>1, <2>1, <2>2, <2>3 DEF TurnsKnown, EndsAfter, IsEnd, On
<1>10. IdleKnown'
  <2>1. \A u : Own(u) => u # t
    BY DEF Own
  <2>2. \A x \in Deliveries : call[x].at \in {"starting", "running"} \/ call[x].reply = "idle" => call[x].thread \in AllThreads
    BY <1>0, CallTypes DEF CallsKnown, TypeOK
  <2> QED BY <1>0, <1>1, <1>3, <2>1, <2>2 DEF IdleKnown, EndsAfter, StartedAfter, IsAnswer, IsEnd, On, Own
<1> QED BY <1>4, <1>5, <1>6, <1>7, <1>8, <1>9, <1>10 DEF AppServerInv

LEMMA ServerDiesInv == ASSUME AppServerInv, ServerDies PROVE AppServerInv'
<1> USE NameAssumption
<1>0. TypeOK /\ RowsKnown /\ ConnectionKnown /\ CallsKnown /\ RequestsKnown /\ RepliesKnown
      /\ ThreadsKnown /\ WaitersKnown /\ TurnsKnown /\ IdleKnown /\ OutcomesKnown
  BY DEF AppServerInv
<1>1. /\ turn' = [t \in AllThreads |-> None] /\ requests' = {}
      /\ conn' = [n \in Conns |-> IF conn[n] = "open" THEN "cut" ELSE conn[n]]
      /\ UNCHANGED <<row, call, waiter, adapter, wire, finished, used, others>>
  BY DEF ServerDies
<1>2. TypeOK'
  <2>1. conn' \in [Conns -> ConnState]
    BY <1>0, <1>1 DEF TypeOK, ConnState
  <2>2. turn' \in [AllThreads -> Deliveries \cup {Other, None}] /\ requests' \subseteq Request /\ faults' \in 0..MaxFaults
    BY <1>0, <1>1, FaultTypes DEF ServerDies
  <2> QED BY <1>0, <1>1, <2>1, <2>2, TypesFrom DEF TypeOK
<1>3. /\ \A n \in Conns : (Alive(n)' <=> Alive(n)) /\ conn'[n] # "open"
      /\ Alive(adapter.connection)' <=> Alive(adapter.connection)
      /\ adapter.connection # None => adapter.connection \in Conns
  BY <1>0, <1>1 DEF Alive, TypeOK
<1>4. RowsKnown' /\ WaitersKnown' /\ OutcomesKnown'
  BY <1>0, <1>1 DEF RowsKnown, WaitersKnown, OutcomesKnown, DeliveredIsDone
<1>5. ConnectionKnown' /\ CallsKnown' /\ RequestsKnown'
  BY <1>0, <1>1, <1>3 DEF ConnectionKnown, CallsKnown, RequestsKnown
<1>6. RepliesKnown'
  BY <1>0, <1>1 DEF RepliesKnown, Starts, IsReply, On
<1>7. ThreadsKnown'
  <2>1. PICK maker \in [Fresh -> Deliveries \cup {None}] : MadeBy(maker)
    BY <1>0 DEF ThreadsKnown
  <2>2. MadeBy(maker)'
    BY <1>1, <2>1 DEF MadeBy, On, AllThreads
  <2> QED BY <2>2 DEF ThreadsKnown
<1>8. \A x \in Deliveries : call[x].at \in {"resuming", "starting", "running"} => call[x].conn \in Conns
  BY CallConn
<1>9. TurnsKnown'
  BY <1>1, <1>3, <1>8 DEF TurnsKnown
<1>10. IdleKnown'
  BY <1>0, <1>1, <1>3, <1>8 DEF IdleKnown, EndsAfter, StartedAfter, IsAnswer, IsEnd, On, Own
<1> QED BY <1>2, <1>4, <1>5, <1>6, <1>7, <1>9, <1>10 DEF AppServerInv

\* The steps of runTurn.
LEMMA StartedInv == ASSUME AppServerInv, NEW d \in Deliveries, Started(d) PROVE AppServerInv'
<1> USE NameAssumption
<1>0. TypeOK /\ RowsKnown /\ ConnectionKnown /\ CallsKnown /\ RequestsKnown /\ RepliesKnown
      /\ ThreadsKnown /\ WaitersKnown /\ TurnsKnown /\ IdleKnown /\ OutcomesKnown
  BY DEF AppServerInv
<1> DEFINE c == [call[d] EXCEPT !.at = "running", !.reply = "none"]
<1>1. /\ call[d].at = "starting" /\ call[d].reply = "started"
      /\ call' = [call EXCEPT ![d] = c]
      /\ waiter' = ListensTo(d)
      /\ UNCHANGED <<row, adapter, conn, wire, requests, turn, finished, used, faults, others>>
  BY DEF Started
<1>2. waiter' = waiter
  BY <1>0, <1>1 DEF ListensTo, TypeOK
<1>c. call[d] \in Call /\ call \in [Deliveries -> Call]
  BY <1>0 DEF TypeOK
<1>3. c \in Call
  BY <1>c DEF Call, Replies
<1>4. c.at = "running" /\ c.reply = "none" /\ c.thread = call[d].thread /\ c.conn = call[d].conn /\ c.outcome = call[d].outcome
  BY <1>c DEF Call
<1> HIDE DEF c
<1>5. call'[d] = c /\ (\A e \in Deliveries : e # d => call'[e] = call[e]) /\ call' \in [Deliveries -> Call]
  BY <1>1, <1>c, <1>3
<1>6. TypeOK'
  BY <1>0, <1>1, <1>2, <1>5, SameFaults, TypesFrom DEF TypeOK
<1>7. RowsKnown' /\ ConnectionKnown' /\ OutcomesKnown'
  BY <1>0, <1>1, <1>4, <1>5 DEF RowsKnown, ConnectionKnown, OutcomesKnown, DeliveredIsDone, Alive
<1>8. CallsKnown'
  BY <1>0, <1>1, <1>4, <1>5 DEF CallsKnown, Alive
<1>9. \A x \in Deliveries, t \in AllThreads \cup {None} : Starts(x, t) => x # d /\ Starts(x, t)'
  BY <1>1, <1>5 DEF Starts
<1>10. RequestsKnown'
  BY <1>0, <1>1, <1>9, RequestTypes DEF RequestsKnown
<1>11. RepliesKnown'
  BY <1>0, <1>1, <1>9, MessageTypes DEF RepliesKnown, On, IsReply
<1>12. ThreadsKnown'
  <2>1. PICK maker \in [Fresh -> Deliveries \cup {None}] : MadeBy(maker)
    BY <1>0 DEF ThreadsKnown
  <2>2. MadeBy(maker)'
    BY <1>1, <1>4, <1>5, <2>1 DEF MadeBy, On, AllThreads
  <2> QED BY <2>2 DEF ThreadsKnown
<1>13. WaitersKnown'
  BY <1>0, <1>1, <1>2, <1>4, <1>5 DEF WaitersKnown
<1>14. TurnsKnown'
  BY <1>0, <1>1, <1>4, <1>5 DEF TurnsKnown, EndsAfter, IsEnd, On
<1>15. IdleKnown'
  BY <1>0, <1>1, <1>4, <1>5 DEF IdleKnown, EndsAfter, StartedAfter, IsAnswer, IsEnd, On, Own
<1> QED BY <1>6, <1>7, <1>8, <1>10, <1>11, <1>12, <1>13, <1>14, <1>15 DEF AppServerInv

LEMMA RunTurnInv == ASSUME AppServerInv, NEW d \in Deliveries, RunTurn(d) PROVE AppServerInv'
<1> USE NameAssumption
<1>0. TypeOK /\ RowsKnown /\ ConnectionKnown /\ CallsKnown /\ RequestsKnown /\ RepliesKnown
      /\ ThreadsKnown /\ WaitersKnown /\ TurnsKnown /\ IdleKnown /\ OutcomesKnown
  BY DEF AppServerInv
<1> DEFINE t == call[d].thread
           c == [call[d] EXCEPT !.at = "starting", !.reply = "none"]
           q == [delivery |-> d, conn |-> call[d].conn, method |-> "turn", thread |-> t]
<1>c. call[d] \in Call /\ call \in [Deliveries -> Call]
  BY <1>0 DEF TypeOK
<1>1. /\ call[d].at = "resuming" /\ call[d].reply = "idle" /\ requests' = requests \cup {q}
      /\ waiter' = ListensTo(d)
      /\ UNCHANGED <<row, adapter, conn, wire, turn, finished, used, faults, others>>
  BY DEF RunTurn
<1>2. t \in AllThreads /\ call[d].outcome = "none"
  BY <1>0, <1>1, <1>c, CallTypes DEF CallsKnown
<1>k. call[d].conn \in Conns /\ call[d].conn = adapter.connection /\ adapter.connection # None
  BY <1>1, CallConn DEF Alive
<1>3. waiter[t] = None
  <2>1. \A e \in Deliveries : waiter[t] # e
    <3> SUFFICES ASSUME NEW e \in Deliveries, waiter[t] = e PROVE FALSE
      OBVIOUS
    <3>1. call[e].thread = t /\ call[e].at \in {"starting", "running"}
      BY <1>0, <1>2 DEF WaitersKnown
    <3>2. e = d
      BY <1>0, <1>2, <3>1, OneCall DEF AllThreads
    <3> QED BY <1>1, <3>1, <3>2
  <2> QED BY <1>0, <1>2, <2>1 DEF TypeOK
<1>4. call' = [call EXCEPT ![d] = c]
  <2>1. call' = [e \in Deliveries |-> IF e = d THEN c ELSE call[e]]
    BY <1>3 DEF RunTurn
  <2> QED BY <1>c, <2>1
<1>5. waiter'[t] = d /\ \A u \in AllThreads : u # t => waiter'[u] = waiter[u]
  BY <1>1, <1>2 DEF ListensTo
<1>6. waiter' \in [AllThreads -> Deliveries \cup {None}]
  BY <1>0, <1>1 DEF ListensTo, TypeOK
<1>7. c \in Call
  BY <1>c DEF Call, Replies
<1>8. c.at = "starting" /\ c.reply = "none" /\ c.thread = t /\ c.conn = call[d].conn /\ c.outcome = "none"
  BY <1>c, <1>2 DEF Call
<1>9. q \in Request /\ q.delivery = d /\ q.conn = adapter.connection /\ q.method = "turn" /\ q.thread = t
  BY <1>2, <1>k DEF Request
<1> HIDE DEF c, q
<1>10. call'[d] = c /\ (\A e \in Deliveries : e # d => call'[e] = call[e]) /\ call' \in [Deliveries -> Call]
  BY <1>4, <1>c, <1>7
<1> HIDE DEF t
<1>11. TypeOK'
  <2>1. requests' \subseteq Request
    BY <1>0, <1>1, <1>9 DEF TypeOK
  <2> QED BY <1>0, <1>1, <1>6, <1>10, <2>1, SameFaults, TypesFrom DEF TypeOK
<1>12. RowsKnown' /\ ConnectionKnown' /\ OutcomesKnown'
  BY <1>0, <1>1, <1>8, <1>10 DEF RowsKnown, ConnectionKnown, OutcomesKnown, DeliveredIsDone, Alive
<1>13. CallsKnown'
  BY <1>0, <1>1, <1>2, <1>8, <1>10 DEF CallsKnown, Alive, t
<1>14. \A x \in Deliveries, u \in AllThreads \cup {None} : Starts(x, u) => x # d /\ Starts(x, u)'
  BY <1>1, <1>10 DEF Starts
<1>15. Starts(d, t)'
  BY <1>8, <1>10 DEF Starts, t
<1>16. RequestsKnown'
  <2> SUFFICES ASSUME NEW r \in requests'
               PROVE  /\ r.method = "resume" => r.delivery \notin New /\ r.thread = ThreadOf[r.delivery]
                      /\ r.method = "thread" => r.delivery \in New /\ r.thread = None
                      /\ r.method = "turn" =>
                           adapter.connection = None \/ (r.conn = adapter.connection /\ Starts(r.delivery, r.thread)')
    BY <1>1 DEF RequestsKnown
  <2>1. CASE r = q
    <3>1. call'[d].at = "starting" /\ call'[d].reply = "none" /\ call'[d].thread = t
      BY <1>8, <1>10
    <3> QED BY <1>9, <2>1, <3>1 DEF Starts
  <2>2. CASE r \in requests
    BY <1>0, <1>14, <2>2, RequestTypes DEF RequestsKnown
  <2> QED BY <1>1, <2>1, <2>2
<1>17. RepliesKnown'
  <2>1. \A n \in Conns : \A i \in On(n) : IsReply(n, i, "turn") =>
          wire[n][i].delivery # d /\ Starts(wire[n][i].delivery, wire[n][i].thread)'
    <3> SUFFICES ASSUME NEW n \in Conns, NEW i \in On(n), IsReply(n, i, "turn")
                 PROVE  wire[n][i].delivery # d /\ Starts(wire[n][i].delivery, wire[n][i].thread)'
      OBVIOUS
    <3>1. wire[n][i].delivery \in Deliveries /\ wire[n][i].thread \in AllThreads \cup {None}
      BY <1>0, MessageTypes DEF IsReply
    <3>2. Starts(wire[n][i].delivery, wire[n][i].thread)
      BY <1>0 DEF RepliesKnown
    <3> QED BY <1>1, <1>14, <3>1, <3>2
  <2> QED BY <1>0, <1>1, <1>9, <2>1 DEF RepliesKnown, On, IsReply
<1>18. ThreadsKnown'
  <2>1. PICK maker \in [Fresh -> Deliveries \cup {None}] : MadeBy(maker)
    BY <1>0 DEF ThreadsKnown
  <2>2. MadeBy(maker)'
    BY <1>1, <1>8, <1>9, <1>10, <2>1 DEF MadeBy, On, AllThreads, t
  <2> QED BY <2>2 DEF ThreadsKnown
<1>19. WaitersKnown'
  <2>1. \A e \in Deliveries : e # d => call[e].thread # t
    BY <1>0, <1>2, OneCall DEF AllThreads, t
  <2>2. \A e \in Deliveries : call[e].at \in {"starting", "running"} => call[e].thread \in AllThreads
    BY <1>0, CallTypes DEF CallsKnown, TypeOK
  <2>3. \A u \in AllThreads, e \in Deliveries : waiter'[u] = e =>
          call'[e].thread = u /\ call'[e].at \in {"starting", "running"} /\ call'[e].outcome = "none"
    BY <1>0, <1>1, <1>2, <1>5, <1>8, <1>10 DEF WaitersKnown
  <2>4. \A e \in Deliveries : call'[e].at \in {"starting", "running"} /\ call'[e].outcome = "none" =>
          waiter'[call'[e].thread] = e
    BY <1>0, <1>1, <1>2, <1>5, <1>8, <1>10, <2>1, <2>2 DEF WaitersKnown
  <2> QED BY <2>3, <2>4 DEF WaitersKnown
<1>20. TurnsKnown'
  BY <1>0, <1>1, <1>8, <1>10 DEF TurnsKnown, EndsAfter, IsEnd, On
<1>21. IdleKnown'
  <2>1. Own(t) => ~EndsAfter(call[d].conn, 0, t) /\ (conn[call[d].conn] = "open" => turn[t] = None)
    BY <1>0, <1>1 DEF IdleKnown, t
  <2>2. Own(t) => \A i \in On(call[d].conn) : ~IsEnd(call[d].conn, i, t)
    BY <2>1 DEF EndsAfter, On
  <2> QED BY <1>0, <1>1, <1>8, <1>10, <2>1, <2>2 DEF IdleKnown, EndsAfter, StartedAfter, IsAnswer, IsEnd, On, Own
<1> QED BY <1>11, <1>12, <1>13, <1>16, <1>17, <1>18, <1>19, <1>20, <1>21 DEF AppServerInv

\* The messages of a wire after a message was added to it.
LEMMA AddedFacts ==
  ASSUME NEW S, NEW m, AddedTo(S, m)
  PROVE  /\ \A k \in Conns : \A i \in On(k) : i \in On(k)' /\ wire'[k][i] = wire[k][i]
         /\ \A k \in Conns : \A i \in On(k)' :
              \/ i \in On(k)
              \/ k \in S /\ conn[k] = "open" /\ wire'[k][i] = m /\ i = Len(wire[k]) + 1 /\ \A j \in On(k) : j < i
         /\ \A k \in Conns : \A i, j \in On(k)' : i \in Nat /\ (i \notin On(k) => j \in On(k) \/ j = i)
         /\ \A k \in Conns : k \in S => Len(wire[k]) + 1 \in On(k)'
BY DEF AddedTo, On

\* An answer disturbs neither the calls nor what is known of the other messages.
LEMMA ReplyKeeps ==
  ASSUME AppServerInv, NEW r \in requests, NEW m \in Message, TypeOK',
         m.kind = "reply", m.delivery = r.delivery, m.method = r.method, m.reply = "started" => m.method = "turn",
         AddedTo(IF conn[r.conn] = "open" THEN {r.conn} ELSE {}, m), requests' = requests \ {r},
         m.reply = "idle" => m.method # "turn" /\ m.thread \in AllThreads,
         m.method \in {"resume", "turn"} => m.thread = r.thread,
         m.method = "thread" => m.thread \in Fresh \cup {None},
         m.thread \in Fresh => m.thread \in used' /\ (m.thread \in used => m.thread = r.thread),
         used \subseteq used',
         \A t \in AllThreads : turn'[t] # None => turn[t] # None \/ t = r.thread,
         UNCHANGED <<row, call, waiter, adapter, conn, finished>>
  PROVE  /\ RowsKnown' /\ ConnectionKnown' /\ CallsKnown' /\ RequestsKnown' /\ RepliesKnown' /\ ThreadsKnown'
         /\ WaitersKnown' /\ OutcomesKnown'
<1> USE NameAssumption
<1>0. TypeOK /\ RowsKnown /\ ConnectionKnown /\ CallsKnown /\ RequestsKnown /\ RepliesKnown
      /\ ThreadsKnown /\ WaitersKnown /\ TurnsKnown /\ IdleKnown /\ OutcomesKnown
  BY DEF AppServerInv
<1> DEFINE S == IF conn[r.conn] = "open" THEN {r.conn} ELSE {}
<1>r. /\ r.delivery \in Deliveries /\ r.conn \in Conns
      /\ r = [delivery |-> r.delivery, conn |-> r.conn, method |-> r.method, thread |-> r.thread]
  BY <1>0, RequestTypes
<1>s. \A k \in S : k = r.conn /\ k \in Conns /\ conn[k] = "open" /\ Alive(k) /\ k = adapter.connection /\ adapter.connection # None
  BY <1>0, <1>r, ConnNames DEF ConnectionKnown
<1> HIDE DEF S
<1>a. AddedTo(S, m)
  BY DEF S
<1>1. /\ \A k \in Conns : \A i \in On(k) : i \in On(k)' /\ wire'[k][i] = wire[k][i]
      /\ \A k \in Conns : \A i \in On(k)' :
           \/ i \in On(k)
           \/ k \in S /\ conn[k] = "open" /\ wire'[k][i] = m /\ i = Len(wire[k]) + 1 /\ \A j \in On(k) : j < i
      /\ \A k \in Conns : \A i, j \in On(k)' : i \in Nat /\ (i \notin On(k) => j \in On(k) \/ j = i)
  BY <1>a, AddedFacts
<1>2. RowsKnown' /\ CallsKnown' /\ WaitersKnown' /\ OutcomesKnown'
  BY <1>0 DEF RowsKnown, CallsKnown, WaitersKnown, OutcomesKnown, DeliveredIsDone, Alive
<1>3. ConnectionKnown'
  <2>1. \A k \in Conns : wire'[k] # <<>> => Alive(k)
    BY <1>0, <1>a, <1>s DEF ConnectionKnown, AddedTo
  <2> QED BY <1>0, <2>1 DEF ConnectionKnown, Alive
<1>4. RequestsKnown'
  BY <1>0 DEF RequestsKnown, Starts
<1>5. RepliesKnown'
  <2>1. ASSUME NEW k \in Conns, NEW i \in On(k)'
        PROVE  /\ IsReply(k, i, "resume")' => wire'[k][i].delivery \notin New /\ wire'[k][i].thread = ThreadOf[wire'[k][i].delivery]
               /\ IsReply(k, i, "thread")' => wire'[k][i].delivery \in New /\ wire'[k][i].thread \in Fresh \cup {None}
               /\ wire'[k][i].kind = "reply" /\ wire'[k][i].reply = "started" => wire'[k][i].method = "turn"
               /\ wire'[k][i].kind = "reply" /\ wire'[k][i].reply = "idle" => wire'[k][i].thread # None
               /\ wire'[k][i].kind = "completed" /\ wire'[k][i].status = "completed" =>
                    wire'[k][i].by \in finished \cup {Other}
    <3>1. CASE i \in On(k)
      BY <1>0, <1>1, <2>1, <3>1 DEF RepliesKnown, IsReply
    <3>2. CASE i \notin On(k)
      <4>1. wire'[k][i] = m
        BY <1>1, <2>1, <3>2
      <4> QED BY <1>0, <4>1 DEF RequestsKnown, IsReply, AllThreads
    <3> QED BY <3>1, <3>2
  <2>2. ASSUME NEW k \in Conns, NEW i \in On(k)', IsReply(k, i, "turn")'
        PROVE  /\ Starts(wire'[k][i].delivery, wire'[k][i].thread) /\ wire'[k][i].reply # "idle"
               /\ \A x \in requests' : x.method = "turn" => x.delivery # wire'[k][i].delivery
               /\ i \in On(k) => IsReply(k, i, "turn")
               /\ i \notin On(k) => r.method = "turn" /\ wire'[k][i].delivery = r.delivery
    <3>1. CASE i \in On(k)
      BY <1>0, <1>1, <2>2, <3>1 DEF RepliesKnown, IsReply
    <3>2. CASE i \notin On(k)
      <4>1. wire'[k][i] = m /\ m.method = "turn" /\ r.method = "turn" /\ adapter.connection # None
        BY <1>1, <1>s, <2>2, <3>2 DEF IsReply
      <4>2. r.conn = adapter.connection /\ Starts(r.delivery, r.thread)
        BY <1>0, <4>1 DEF RequestsKnown
      <4>3. ASSUME NEW x \in requests', x.method = "turn", x.delivery = r.delivery PROVE FALSE
        <5>1. x.conn = adapter.connection /\ Starts(x.delivery, x.thread)
          BY <1>0, <4>1, <4>3 DEF RequestsKnown
        <5>2. x = [delivery |-> x.delivery, conn |-> x.conn, method |-> x.method, thread |-> x.thread]
          BY <1>0, <4>3, RequestTypes
        <5>3. x.thread = r.thread
          BY <4>2, <4>3, <5>1 DEF Starts
        <5> QED BY <1>r, <4>1, <4>2, <4>3, <5>1, <5>2, <5>3
      <4> QED BY <3>2, <4>1, <4>2, <4>3
    <3> QED BY <3>1, <3>2
  <2>3. ASSUME NEW k \in Conns, NEW i \in On(k)', NEW j \in On(k)', IsReply(k, i, "turn")', IsReply(k, j, "turn")',
               wire'[k][j].delivery = wire'[k][i].delivery
        PROVE  j = i
    <3>1. CASE i \in On(k) /\ j \in On(k)
      BY <1>0, <1>1, <2>2, <2>3, <3>1 DEF RepliesKnown
    <3>2. CASE i \in On(k) /\ j \notin On(k)
      <4>1. r.method = "turn" /\ wire'[k][i].delivery = r.delivery
        BY <2>2, <2>3, <3>2
      <4> QED BY <1>0, <1>1, <2>2, <2>3, <3>2, <4>1 DEF RepliesKnown
    <3>3. CASE i \notin On(k) /\ j \in On(k)
      <4>1. r.method = "turn" /\ wire'[k][j].delivery = r.delivery
        BY <2>2, <2>3, <3>3
      <4> QED BY <1>0, <1>1, <2>2, <2>3, <3>3, <4>1 DEF RepliesKnown
    <3>4. CASE i \notin On(k) /\ j \notin On(k)
      BY <1>1, <3>4
    <3> QED BY <3>1, <3>2, <3>3, <3>4
  <2>4. \A x, u : Starts(x, u)' <=> Starts(x, u)
    BY DEF Starts
  <2> QED BY <2>1, <2>2, <2>3, <2>4 DEF RepliesKnown
<1>6. ThreadsKnown'
  <2>1. PICK maker \in [Fresh -> Deliveries \cup {None}] : MadeBy(maker)
    BY <1>0 DEF ThreadsKnown
  <2>2. CASE m.thread \in Fresh /\ m.thread \notin used
    <3> DEFINE made == [maker EXCEPT ![m.thread] = r.delivery]
    <3>1. made \in [Fresh -> Deliveries \cup {None}] /\ made[m.thread] = r.delivery
          /\ \A t \in Fresh : t # m.thread => made[t] = maker[t]
      BY <1>r, <2>2
    <3> HIDE DEF made
    <3>2. MadeBy(made)'
      <4> SUFFICES ASSUME NEW t \in Fresh
                   PROVE  /\ \A d \in Deliveries : call[d].thread = t => t \in used' /\ made[t] = d
                          /\ \A x \in requests' : x.thread = t => t \in used' /\ made[t] = x.delivery
                          /\ \A n \in Conns : \A i \in On(n)' :
                               wire'[n][i].thread = t =>
                                 t \in used' /\ (wire'[n][i].kind = "reply" => made[t] = wire'[n][i].delivery)
                          /\ turn'[t] # None => t \in used'
        BY DEF MadeBy
      <4>1. CASE t = m.thread
        BY <1>1, <2>1, <2>2, <3>1, <4>1 DEF MadeBy, AllThreads
      <4>2. CASE t # m.thread
        BY <1>1, <2>1, <2>2, <3>1, <4>2 DEF MadeBy, AllThreads
      <4> QED BY <4>1, <4>2
    <3> QED BY <3>1, <3>2 DEF ThreadsKnown
  <2>3. CASE ~(m.thread \in Fresh /\ m.thread \notin used)
    <3>1. MadeBy(maker)'
      BY <1>1, <2>1, <2>3 DEF MadeBy, AllThreads
    <3> QED BY <3>1 DEF ThreadsKnown
  <2> QED BY <2>2, <2>3
<1> QED BY <1>2, <1>3, <1>4, <1>5, <1>6

\* The server answers a request and starts no turn.
LEMMA ReplyInv ==
  ASSUME AppServerInv, NEW r \in requests, NEW m \in Message, TypeOK',
         m.kind = "reply", m.delivery = r.delivery, m.method = r.method, m.reply # "started",
         AddedTo(IF conn[r.conn] = "open" THEN {r.conn} ELSE {}, m), requests' = requests \ {r},
         m.reply = "idle" => m.method # "turn" /\ m.thread \in AllThreads /\ turn[m.thread] = None,
         m.method \in {"resume", "turn"} => m.thread = r.thread,
         m.method = "thread" => m.thread \in Fresh \cup {None},
         m.thread \in Fresh => m.thread \in used' /\ (m.thread \in used => m.thread = r.thread),
         used \subseteq used',
         UNCHANGED <<row, call, waiter, adapter, conn, turn, finished>>
  PROVE  AppServerInv'
<1> USE NameAssumption
<1>0. TypeOK /\ RowsKnown /\ ConnectionKnown /\ CallsKnown /\ RequestsKnown /\ RepliesKnown
      /\ ThreadsKnown /\ WaitersKnown /\ TurnsKnown /\ IdleKnown /\ OutcomesKnown
  BY DEF AppServerInv
<1> DEFINE S == IF conn[r.conn] = "open" THEN {r.conn} ELSE {}
<1>r. /\ r.delivery \in Deliveries /\ r.conn \in Conns
      /\ r = [delivery |-> r.delivery, conn |-> r.conn, method |-> r.method, thread |-> r.thread]
  BY <1>0, RequestTypes
<1>s. \A k \in S : k = r.conn /\ k \in Conns /\ conn[k] = "open" /\ Alive(k) /\ k = adapter.connection /\ adapter.connection # None
  BY <1>0, <1>r, ConnNames DEF ConnectionKnown
<1> HIDE DEF S
<1>a. AddedTo(S, m)
  BY DEF S
<1>1. /\ \A k \in Conns : \A i \in On(k) : i \in On(k)' /\ wire'[k][i] = wire[k][i]
      /\ \A k \in Conns : \A i \in On(k)' :
           \/ i \in On(k)
           \/ k \in S /\ conn[k] = "open" /\ wire'[k][i] = m /\ i = Len(wire[k]) + 1 /\ \A j \in On(k) : j < i
      /\ \A k \in Conns : \A i, j \in On(k)' : i \in Nat /\ (i \notin On(k) => j \in On(k) \/ j = i)
  BY <1>a, AddedFacts
<1>2. /\ RowsKnown' /\ ConnectionKnown' /\ CallsKnown' /\ RequestsKnown' /\ RepliesKnown' /\ ThreadsKnown'
      /\ WaitersKnown' /\ OutcomesKnown'
  BY ReplyKeeps
<1>c. \A x \in Deliveries : call[x].at \in {"resuming", "starting", "running"} => call[x].conn \in Conns
  BY CallConn
<1>7. \A k \in Conns : \A t, i : i \in On(k) \/ i = 0 => (EndsAfter(k, i, t)' <=> EndsAfter(k, i, t))
  BY <1>1 DEF EndsAfter, IsEnd
<1>8. \A k \in Conns : \A t, i : StartedAfter(k, i, t) => StartedAfter(k, i, t)'
  BY <1>1 DEF StartedAfter, IsAnswer
<1>9. TurnsKnown'
  <2>1. ASSUME NEW k \in Conns, conn[k] = "open", NEW i \in On(k)', wire'[k][i].kind = "reply", wire'[k][i].reply = "started"
        PROVE  \/ turn[wire'[k][i].thread] = wire'[k][i].delivery
               \/ \E j \in On(k)' : j > i /\ wire'[k][j].kind = "completed" /\ wire'[k][j].thread = wire'[k][i].thread
    <3>1. i \in On(k) /\ wire'[k][i] = wire[k][i]
      BY <1>1, <2>1
    <3>2. turn[wire[k][i].thread] = wire[k][i].delivery \/ EndsAfter(k, i, wire[k][i].thread)
      BY <1>0, <2>1, <3>1 DEF TurnsKnown
    <3> QED BY <1>1, <3>1, <3>2 DEF EndsAfter, IsEnd
  <2>2. ASSUME NEW d \in Deliveries,
               (call[d].at = "starting" /\ call[d].reply = "started") \/ call[d].at = "running",
               call[d].outcome = "none", conn[call[d].conn] = "open"
        PROVE  \/ turn[call[d].thread] = d
               \/ \E j \in On(call[d].conn)' : j > 0 /\ wire'[call[d].conn][j].kind = "completed"
                                            /\ wire'[call[d].conn][j].thread = call[d].thread
    <3>1. turn[call[d].thread] = d \/ EndsAfter(call[d].conn, 0, call[d].thread)
      BY <1>0, <2>2 DEF TurnsKnown
    <3>2. call[d].conn \in Conns
      BY <1>c, <2>2
    <3> QED BY <1>1, <3>1, <3>2 DEF EndsAfter, IsEnd
  <2> QED BY <2>1, <2>2 DEF TurnsKnown, EndsAfter, IsEnd, On
<1>10. IdleKnown'
  <2>1. ASSUME NEW k \in Conns, NEW t \in AllThreads \ OtherThreads, NEW i \in On(k)', IsAnswer(k, i, "idle", t)'
        PROVE  StartedAfter(k, i, t)' \/ (~EndsAfter(k, i, t)' /\ (conn[k] = "open" => turn[t] = None))
    <3>1. CASE i \in On(k)
      <4>1. IsAnswer(k, i, "idle", t)
        BY <1>1, <2>1, <3>1 DEF IsAnswer
      <4>2. StartedAfter(k, i, t) \/ (~EndsAfter(k, i, t) /\ (conn[k] = "open" => turn[t] = None))
        BY <1>0, <3>1, <4>1 DEF IdleKnown
      <4> QED BY <1>7, <1>8, <3>1, <4>2
    <3>2. CASE i \notin On(k)
      <4>1. wire'[k][i] = m /\ m.reply = "idle" /\ m.thread = t
        BY <1>1, <2>1, <3>2 DEF IsAnswer
      <4>2. ~EndsAfter(k, i, t)'
        BY <1>1, <3>2 DEF EndsAfter
      <4> QED BY <4>1, <4>2
    <3> QED BY <3>1, <3>2
  <2>2. \A d \in Deliveries :
          call[d].at = "resuming" /\ call[d].reply = "idle" /\ Own(call[d].thread) =>
            ~EndsAfter(call[d].conn, 0, call[d].thread)' /\ (conn[call[d].conn] = "open" => turn[call[d].thread] = None)
    BY <1>0, <1>7, <1>c DEF IdleKnown
  <2>3. ASSUME NEW d \in Deliveries, call[d].at \in {"starting", "running"}, Own(call[d].thread)
        PROVE  /\ \A i \in On(call[d].conn)' : IsEnd(call[d].conn, i, call[d].thread)' => wire'[call[d].conn][i].by = d
               /\ conn[call[d].conn] = "open" => turn[call[d].thread] \in {None, d}
    BY <1>0, <1>1, <1>c, <2>3 DEF IdleKnown, IsEnd
  <2> QED BY <2>1, <2>2, <2>3 DEF IdleKnown, Own
<1> QED BY <1>2, <1>9, <1>10 DEF AppServerInv

\* The fields of an answer.
LEMMA ReplyFields ==
  ASSUME NEW r, NEW reply, NEW t
  PROVE  LET m == Reply(r, reply, t) IN
         m.kind = "reply" /\ m.delivery = r.delivery /\ m.method = r.method /\ m.reply = reply /\ m.thread = t
BY DEF Reply

\* A thread that was asked for has a place among the threads.
LEMMA AskedThread ==
  ASSUME AppServerInv, NEW r \in requests
  PROVE  /\ r.method = "resume" => r.thread \in Threads /\ r.thread \in AllThreads /\ r.thread \notin Fresh
         /\ r.method = "thread" => r.thread = None
         /\ None \notin Fresh
<1>1. r.delivery \in Deliveries
  BY RequestTypes DEF AppServerInv
<1> QED BY <1>1, DeliveryAssumption, ThreadAssumption, NameAssumption DEF AppServerInv, RequestsKnown, AllThreads

\* The server's answers: a refusal, thread/resume, thread/start.
LEMMA DeclinesInv == ASSUME AppServerInv, NEW r \in requests, Declines(r) PROVE AppServerInv'
<1>0. TypeOK /\ r.conn \in Conns /\ r.thread \in AllThreads \cup {None}
  BY RequestTypes DEF AppServerInv
<1>1. PICK e \in {"unreachable", "permanent", "error"} : Send(r.conn, Reply(r, e, r.thread))
  BY DEF Declines
<1> DEFINE m == Reply(r, e, r.thread)
<1>2. m \in Message
  BY <1>0, RequestTypes DEF Replies
<1>3. m.kind = "reply" /\ m.delivery = r.delivery /\ m.method = r.method /\ m.reply = e /\ m.thread = r.thread
  BY ReplyFields
<1> HIDE DEF m
<1>4. AddedTo(IF conn[r.conn] = "open" THEN {r.conn} ELSE {}, m)
  BY <1>0, <1>1, <1>2, SendFacts DEF m
<1>5. TypeOK'
  <2>1. wire' \in [Conns -> Seq(Message)] /\ faults' \in 0..MaxFaults
    BY <1>0, <1>4, FaultTypes DEF AddedTo, Declines
  <2>2. requests' \subseteq Request
    BY <1>0 DEF Declines, TypeOK
  <2> QED BY <1>0, <2>1, <2>2, TypesFrom DEF TypeOK, Declines
<1>6. r.thread \in Fresh => r.thread \in used
  <2>1. PICK maker \in [Fresh -> Deliveries \cup {None}] : MadeBy(maker)
    BY DEF AppServerInv, ThreadsKnown
  <2> QED BY <2>1 DEF MadeBy
<1> QED BY <1>2, <1>3, <1>4, <1>5, <1>6, AskedThread, ReplyInv DEF Declines

LEMMA ResumeInv == ASSUME AppServerInv, NEW r \in requests, Handles(r), r.method = "resume" PROVE AppServerInv'
<1>0. TypeOK /\ r.conn \in Conns /\ r.thread \in AllThreads \cup {None}
  BY RequestTypes DEF AppServerInv
<1> DEFINE e == IF turn[r.thread] = None THEN "idle" ELSE "active"
           m == Reply(r, e, r.thread)
<1>1. Send(r.conn, m) /\ UNCHANGED <<turn, used>> /\ requests' = requests \ {r}
      /\ UNCHANGED <<row, call, waiter, adapter, conn, finished, faults, others>>
  BY DEF Handles
<1>2. m \in Message
  BY <1>0, RequestTypes DEF Replies
<1>3. m.kind = "reply" /\ m.delivery = r.delivery /\ m.method = r.method /\ m.reply = e /\ m.thread = r.thread
  BY ReplyFields
<1> HIDE DEF m
<1>4. AddedTo(IF conn[r.conn] = "open" THEN {r.conn} ELSE {}, m)
  BY <1>0, <1>1, <1>2, SendFacts
<1>5. TypeOK'
  <2>1. wire' \in [Conns -> Seq(Message)]
    BY <1>4 DEF AddedTo
  <2>2. requests' \subseteq Request
    BY <1>0, <1>1 DEF TypeOK
  <2> QED BY <1>0, <1>1, <2>1, <2>2, SameFaults, TypesFrom DEF TypeOK
<1> QED BY <1>1, <1>2, <1>3, <1>4, <1>5, AskedThread, ReplyInv

LEMMA ThreadInv == ASSUME AppServerInv, NEW r \in requests, Handles(r), r.method = "thread" PROVE AppServerInv'
<1>0. TypeOK /\ r.conn \in Conns
  BY RequestTypes DEF AppServerInv
<1>1. PICK t \in Fresh \ used : used' = used \cup {t} /\ Send(r.conn, Reply(r, "idle", t))
  BY DEF Handles
<1> DEFINE m == Reply(r, "idle", t)
<1>2. turn' = turn /\ requests' = requests \ {r} /\ UNCHANGED <<row, call, waiter, adapter, conn, finished, faults, others>>
  BY DEF Handles
<1>t. t \in AllThreads
  BY DEF AllThreads
<1>3. m \in Message
  BY <1>0, <1>t, RequestTypes DEF Replies
<1>4. m.kind = "reply" /\ m.delivery = r.delivery /\ m.method = r.method /\ m.reply = "idle" /\ m.thread = t
  BY ReplyFields
<1> HIDE DEF m
<1>5. AddedTo(IF conn[r.conn] = "open" THEN {r.conn} ELSE {}, m)
  BY <1>0, <1>1, <1>3, SendFacts DEF m
<1>6. TypeOK'
  <2>1. wire' \in [Conns -> Seq(Message)]
    BY <1>5 DEF AddedTo
  <2>2. requests' \subseteq Request /\ used' \subseteq Fresh
    BY <1>0, <1>1, <1>2 DEF TypeOK
  <2> QED BY <1>0, <1>2, <2>1, <2>2, SameFaults, TypesFrom DEF TypeOK
<1>7. turn[t] = None
  <2>1. PICK maker \in [Fresh -> Deliveries \cup {None}] : MadeBy(maker)
    BY DEF AppServerInv, ThreadsKnown
  <2> QED BY <1>1, <2>1 DEF MadeBy
<1> QED BY <1>1, <1>2, <1>t, <1>3, <1>4, <1>5, <1>6, <1>7, ReplyInv

\* The server starts a turn: the thread was idle, and the answer goes to the call that
\* asked, if its connection still is.
LEMMA StartTurnInv == ASSUME AppServerInv, NEW r \in requests, Handles(r), r.method = "turn" PROVE AppServerInv'
<1> USE NameAssumption
<1>0. TypeOK /\ RowsKnown /\ ConnectionKnown /\ CallsKnown /\ RequestsKnown /\ RepliesKnown
      /\ ThreadsKnown /\ WaitersKnown /\ TurnsKnown /\ IdleKnown /\ OutcomesKnown
  BY DEF AppServerInv
<1>r. r.delivery \in Deliveries /\ r.conn \in Conns /\ r.thread \in AllThreads \cup {None}
  BY <1>0, RequestTypes
<1> DEFINE m == Reply(r, "started", r.thread)
           S == IF conn[r.conn] = "open" THEN {r.conn} ELSE {}
           t == r.thread
<1>1. /\ turn[t] = None /\ turn' = [turn EXCEPT ![t] = r.delivery] /\ Send(r.conn, m)
      /\ requests' = requests \ {r} /\ UNCHANGED <<row, call, waiter, adapter, conn, finished, used, faults, others>>
  BY DEF Handles
<1>2. m \in Message
  BY <1>0, <1>r, RequestTypes DEF Replies
<1>3. m.kind = "reply" /\ m.delivery = r.delivery /\ m.method = "turn" /\ m.reply = "started" /\ m.thread = t
  BY ReplyFields
<1> HIDE DEF m
<1>a. AddedTo(S, m)
  BY <1>0, <1>r, <1>1, <1>2, SendFacts
<1>s. \A k \in Conns : conn[k] = "open" => Alive(k) /\ k = adapter.connection /\ adapter.connection # None
  BY <1>0, ConnNames DEF ConnectionKnown
<1>4. adapter.connection # None => r.conn = adapter.connection /\ Starts(r.delivery, t)
  BY <1>0 DEF RequestsKnown
<1>5. adapter.connection # None => t \in AllThreads /\ call[r.delivery].thread = t /\ call[r.delivery].at = "starting"
  BY <1>0, <1>4, <1>r DEF Starts, CallsKnown
<1> HIDE DEF S
<1>6. TypeOK'
  <2>1. wire' \in [Conns -> Seq(Message)]
    BY <1>a DEF AddedTo
  <2>2. requests' \subseteq Request /\ turn' \in [AllThreads -> Deliveries \cup {Other, None}]
    BY <1>0, <1>1, <1>r DEF TypeOK
  <2> QED BY <1>0, <1>1, <2>1, <2>2, SameFaults, TypesFrom DEF TypeOK
<1>7. \A u \in AllThreads : turn'[u] = IF u = t THEN r.delivery ELSE turn[u]
  BY <1>0, <1>1 DEF TypeOK
<1>8. /\ RowsKnown' /\ ConnectionKnown' /\ CallsKnown' /\ RequestsKnown' /\ RepliesKnown' /\ ThreadsKnown'
      /\ WaitersKnown' /\ OutcomesKnown'
  <2>1. t \in Fresh => t \in used
    <3>1. PICK maker \in [Fresh -> Deliveries \cup {None}] : MadeBy(maker)
      BY <1>0 DEF ThreadsKnown
    <3> QED BY <3>1 DEF MadeBy
  <2> QED BY <1>1, <1>2, <1>3, <1>a, <1>6, <1>7, <2>1, ReplyKeeps DEF S
<1>9. /\ \A k \in Conns : \A i \in On(k) : i \in On(k)' /\ wire'[k][i] = wire[k][i]
      /\ \A k \in Conns : \A i \in On(k)' :
           \/ i \in On(k)
           \/ k \in S /\ conn[k] = "open" /\ wire'[k][i] = m /\ i = Len(wire[k]) + 1 /\ \A j \in On(k) : j < i
      /\ \A k \in Conns : \A i, j \in On(k)' : i \in Nat /\ (i \notin On(k) => j \in On(k) \/ j = i)
      /\ \A k \in Conns : k \in S => Len(wire[k]) + 1 \in On(k)'
  BY <1>a, AddedFacts
<1>10. \A k \in S : conn[k] = "open" /\ k = r.conn
  BY DEF S
<1>c. \A x \in Deliveries : call[x].at \in {"resuming", "starting", "running"} => call[x].conn \in Conns
  BY CallConn
<1>11. \A k \in Conns : \A u, i : i \in On(k) \/ i = 0 => (EndsAfter(k, i, u)' <=> EndsAfter(k, i, u))
  BY <1>3, <1>9 DEF EndsAfter, IsEnd
<1>12. \A k \in Conns : \A u, i : StartedAfter(k, i, u) => StartedAfter(k, i, u)'
  BY <1>9 DEF StartedAfter, IsAnswer
<1>13. TurnsKnown'
  <2>0. \A x \in Deliveries, u \in AllThreads : turn[u] = x => turn'[u] = x
    BY <1>1, <1>7
  <2>1. ASSUME NEW k \in Conns, conn[k] = "open", NEW i \in On(k)', wire'[k][i].kind = "reply", wire'[k][i].reply = "started"
        PROVE  \/ turn'[wire'[k][i].thread] = wire'[k][i].delivery
               \/ \E j \in On(k)' : j > i /\ wire'[k][j].kind = "completed" /\ wire'[k][j].thread = wire'[k][i].thread
    <3>1. CASE i \in On(k)
      <4>1. wire'[k][i] = wire[k][i]
        BY <1>9, <3>1
      <4>2. turn[wire[k][i].thread] = wire[k][i].delivery \/ EndsAfter(k, i, wire[k][i].thread)
        BY <1>0, <2>1, <3>1, <4>1 DEF TurnsKnown
      <4>3. wire[k][i].delivery \in Deliveries /\ wire[k][i].thread \in AllThreads
        <5>1. IsReply(k, i, "turn")
          BY <1>0, <2>1, <3>1, <4>1 DEF RepliesKnown, IsReply
        <5>2. wire[k][i].delivery \in Deliveries /\ Starts(wire[k][i].delivery, wire[k][i].thread)
          BY <1>0, <3>1, <5>1, MessageTypes DEF RepliesKnown, IsReply
        <5>3. wire[k][i].thread \in AllThreads \cup {None}
          BY <1>0, <3>1, MessageTypes
        <5> QED BY <1>0, <5>2, <5>3 DEF Starts, CallsKnown
      <4> QED BY <1>9, <2>0, <3>1, <4>1, <4>2, <4>3 DEF EndsAfter, IsEnd
    <3>2. CASE i \notin On(k)
      <4>1. wire'[k][i] = m /\ t \in AllThreads
        BY <1>5, <1>9, <1>s, <2>1, <3>2
      <4> QED BY <1>3, <1>7, <4>1
    <3> QED BY <3>1, <3>2
  <2>2. ASSUME NEW d \in Deliveries,
               (call[d].at = "starting" /\ call[d].reply = "started") \/ call[d].at = "running",
               call[d].outcome = "none", conn[call[d].conn] = "open"
        PROVE  \/ turn'[call[d].thread] = d
               \/ \E j \in On(call[d].conn)' : j > 0 /\ wire'[call[d].conn][j].kind = "completed"
                                            /\ wire'[call[d].conn][j].thread = call[d].thread
    <3>1. turn[call[d].thread] = d \/ EndsAfter(call[d].conn, 0, call[d].thread)
      BY <1>0, <2>2 DEF TurnsKnown
    <3>2. call[d].conn \in Conns /\ call[d].thread \in AllThreads
      BY <1>0, <1>c, <2>2, CallTypes DEF CallsKnown, TypeOK
    <3> QED BY <1>1, <1>9, <2>0, <3>1, <3>2 DEF EndsAfter, IsEnd
  <2> QED BY <1>1, <2>1, <2>2 DEF TurnsKnown, EndsAfter, IsEnd, On
<1>14. IdleKnown'
  <2>1. ASSUME NEW k \in Conns, NEW u \in AllThreads \ OtherThreads, NEW i \in On(k)', IsAnswer(k, i, "idle", u)'
        PROVE  StartedAfter(k, i, u)' \/ (~EndsAfter(k, i, u)' /\ (conn[k] = "open" => turn'[u] = None))
    <3>1. i \in On(k) /\ IsAnswer(k, i, "idle", u)
      BY <1>3, <1>9, <2>1 DEF IsAnswer
    <3>2. StartedAfter(k, i, u) \/ (~EndsAfter(k, i, u) /\ (conn[k] = "open" => turn[u] = None))
      BY <1>0, <3>1 DEF IdleKnown
    <3>3. CASE u = t /\ conn[k] = "open"
      <4>1. k \in S
        BY <1>4, <1>s, <3>3 DEF S
      <4>2. Len(wire[k]) + 1 \in On(k)' /\ wire'[k][Len(wire[k]) + 1] = m /\ Len(wire[k]) + 1 > i
        BY <1>a, <1>9, <4>1, <3>1 DEF AddedTo, On
      <4> QED BY <1>3, <3>3, <4>2 DEF StartedAfter, IsAnswer
    <3>4. CASE ~(u = t /\ conn[k] = "open")
      BY <1>7, <1>11, <1>12, <3>1, <3>2, <3>4
    <3> QED BY <3>3, <3>4
  <2>2. \A d \in Deliveries :
          call[d].at \in {"resuming", "starting", "running"} /\ call[d].thread = t /\ t # None /\ conn[call[d].conn] = "open" =>
            d = r.delivery /\ call[d].at = "starting"
    BY <1>0, <1>5, <1>c, <1>s, <1>r, OneCall
  <2>3. ASSUME NEW d \in Deliveries, call[d].at = "resuming", call[d].reply = "idle", Own(call[d].thread)
        PROVE  ~EndsAfter(call[d].conn, 0, call[d].thread)' /\ (conn[call[d].conn] = "open" => turn'[call[d].thread] = None)
    <3>1. ~EndsAfter(call[d].conn, 0, call[d].thread) /\ (conn[call[d].conn] = "open" => turn[call[d].thread] = None)
      BY <1>0, <2>3 DEF IdleKnown
    <3>2. call[d].conn \in Conns /\ call[d].thread \in AllThreads /\ call[d].thread # None
      BY <1>0, <1>c, <2>3, CallTypes DEF CallsKnown, TypeOK
    <3> QED BY <1>1, <1>7, <1>11, <2>2, <2>3, <3>1, <3>2
  <2>4. ASSUME NEW d \in Deliveries, call[d].at \in {"starting", "running"}, Own(call[d].thread)
        PROVE  /\ \A i \in On(call[d].conn)' : IsEnd(call[d].conn, i, call[d].thread)' => wire'[call[d].conn][i].by = d
               /\ conn[call[d].conn] = "open" => turn'[call[d].thread] \in {None, d}
    <3>1. call[d].conn \in Conns /\ call[d].thread \in AllThreads /\ call[d].thread # None
      BY <1>0, <1>c, <2>4, CallTypes DEF CallsKnown, TypeOK
    <3>2. \A i \in On(call[d].conn)' : IsEnd(call[d].conn, i, call[d].thread)' => wire'[call[d].conn][i].by = d
      BY SMTT(30), <1>0, <1>1, <1>3, <1>9, <2>4, <3>1 DEF IdleKnown, IsEnd
    <3>3. conn[call[d].conn] = "open" => turn[call[d].thread] \in {None, d}
      BY <1>0, <2>4 DEF IdleKnown
    <3> QED BY <1>7, <2>2, <2>4, <3>1, <3>2, <3>3
  <2> QED BY <1>1, <2>1, <2>3, <2>4 DEF IdleKnown, Own
<1> QED BY <1>6, <1>8, <1>13, <1>14 DEF AppServerInv

\* Whatever the server handles.
LEMMA HandlesInv == ASSUME AppServerInv, NEW r \in requests, Handles(r) PROVE AppServerInv'
<1>1. r.method \in {"resume", "thread", "turn"}
  BY RequestTypes DEF AppServerInv
<1> QED BY <1>1, ResumeInv, ThreadInv, StartTurnInv

\* The end of a turn is put on every open connection.
LEMMA TurnEndsInv == ASSUME AppServerInv, NEW t \in AllThreads, TurnEnds(t) PROVE AppServerInv'
<1> USE NameAssumption
<1>0. TypeOK /\ RowsKnown /\ ConnectionKnown /\ CallsKnown /\ RequestsKnown /\ RepliesKnown
      /\ ThreadsKnown /\ WaitersKnown /\ TurnsKnown /\ IdleKnown /\ OutcomesKnown
  BY DEF AppServerInv
<1>1. PICK status \in {"completed", "failed"} :
        /\ wire' = [n \in Conns |-> IF Listens(n)
                      THEN Append(wire[n], [kind |-> "completed", thread |-> t, by |-> turn[t], status |-> status])
                      ELSE wire[n]]
        /\ finished' = IF status = "completed" THEN finished \cup ({turn[t]} \ {Other}) ELSE finished
  BY DEF TurnEnds
<1> DEFINE m == [kind |-> "completed", thread |-> t, by |-> turn[t], status |-> status]
           S == {n \in Conns : conn[n] = "open"}
<1>2. /\ turn[t] # None /\ turn' = [turn EXCEPT ![t] = None]
      /\ UNCHANGED <<row, call, waiter, adapter, conn, requests, used, faults, others>>
  BY DEF TurnEnds
<1>3. turn[t] \in Deliveries \cup {Other} /\ \A u \in AllThreads : turn'[u] = IF u = t THEN None ELSE turn[u]
  BY <1>0, <1>2 DEF TypeOK
<1>4. m \in Message /\ m.kind = "completed" /\ m.thread = t /\ m.by = turn[t] /\ m.status = status
  BY <1>3 DEF Message
<1>5. wire' = [k \in Conns |-> IF k \in S THEN Append(wire[k], m) ELSE wire[k]]
  BY <1>1 DEF Listens
<1>6. finished \subseteq finished' /\ (status = "completed" => turn[t] \in finished' \cup {Other}) /\ finished' \subseteq Deliveries
  BY <1>0, <1>1, <1>3 DEF TypeOK
<1> HIDE DEF m
<1>a. AddedTo(S, m)
  <2>1. S \in SUBSET Conns /\ \A k \in S : conn[k] = "open"
    OBVIOUS
  <2> HIDE DEF S
  <2> QED BY <1>0, <1>4, <1>5, <2>1, AppendFacts
<1>s. \A k \in S : k \in Conns /\ conn[k] = "open" /\ Alive(k) /\ k = adapter.connection
  BY <1>0, ConnNames DEF ConnectionKnown
<1>o. \A k \in Conns : conn[k] = "open" => k \in S
  OBVIOUS
<1> HIDE DEF S
<1>7. TypeOK'
  <2>1. wire' \in [Conns -> Seq(Message)]
    BY <1>a DEF AddedTo
  <2>2. turn' \in [AllThreads -> Deliveries \cup {Other, None}]
    BY <1>0, <1>2 DEF TypeOK
  <2> QED BY <1>0, <1>2, <1>6, <2>1, <2>2, SameFaults, TypesFrom DEF TypeOK
<1>9. /\ \A k \in Conns : \A i \in On(k) : i \in On(k)' /\ wire'[k][i] = wire[k][i]
      /\ \A k \in Conns : \A i \in On(k)' :
           \/ i \in On(k)
           \/ k \in S /\ conn[k] = "open" /\ wire'[k][i] = m /\ i = Len(wire[k]) + 1 /\ \A j \in On(k) : j < i
      /\ \A k \in Conns : \A i, j \in On(k)' : i \in Nat /\ (i \notin On(k) => j \in On(k) \/ j = i)
      /\ \A k \in Conns : k \in S => Len(wire[k]) + 1 \in On(k)'
  BY <1>a, AddedFacts
<1>10. RowsKnown' /\ CallsKnown' /\ WaitersKnown' /\ RequestsKnown'
  BY <1>0, <1>2 DEF RowsKnown, CallsKnown, WaitersKnown, RequestsKnown, Starts, Alive
<1>11. OutcomesKnown'
  BY <1>0, <1>2, <1>6 DEF OutcomesKnown, DeliveredIsDone
<1>12. ConnectionKnown'
  <2>1. \A k \in Conns : wire'[k] # <<>> => Alive(k)
    BY <1>0, <1>a, <1>s DEF ConnectionKnown, AddedTo
  <2> QED BY <1>0, <1>2, <2>1 DEF ConnectionKnown, Alive
<1>13. \A k \in Conns : \A i \in On(k)' : wire'[k][i].kind = "reply" => i \in On(k) /\ wire'[k][i] = wire[k][i]
  BY <1>4, <1>9
<1>14. RepliesKnown'
  <2>1. \A k \in Conns : \A i \in On(k)' : wire'[k][i].kind = "completed" /\ wire'[k][i].status = "completed" =>
          wire'[k][i].by \in finished' \cup {Other}
    BY <1>0, <1>4, <1>6, <1>9 DEF RepliesKnown
  <2> QED BY <1>0, <1>2, <1>13, <2>1 DEF RepliesKnown, Starts, IsReply
<1>15. ThreadsKnown'
  <2>1. PICK maker \in [Fresh -> Deliveries \cup {None}] : MadeBy(maker)
    BY <1>0 DEF ThreadsKnown
  <2>2. MadeBy(maker)'
    <3> SUFFICES ASSUME NEW u \in Fresh
                 PROVE  /\ \A d \in Deliveries : call[d].thread = u => u \in used /\ maker[u] = d
                        /\ \A x \in requests : x.thread = u => u \in used /\ maker[u] = x.delivery
                        /\ \A n \in Conns : \A i \in On(n)' :
                             wire'[n][i].thread = u =>
                               u \in used /\ (wire'[n][i].kind = "reply" => maker[u] = wire'[n][i].delivery)
                        /\ turn'[u] # None => u \in used
      BY <1>2 DEF MadeBy
    <3>1. \A d \in Deliveries : call[d].thread = u => u \in used /\ maker[u] = d
      BY <2>1 DEF MadeBy
    <3>2. \A x \in requests : x.thread = u => u \in used /\ maker[u] = x.delivery
      BY <2>1 DEF MadeBy
    <3>3. turn[u] # None => u \in used
      BY <2>1 DEF MadeBy
    <3>4. ASSUME NEW n \in Conns, NEW i \in On(n)', wire'[n][i].thread = u
          PROVE  u \in used /\ (wire'[n][i].kind = "reply" => maker[u] = wire'[n][i].delivery)
      <4>1. CASE i \in On(n)
        BY <1>9, <2>1, <3>4, <4>1 DEF MadeBy
      <4>2. CASE i \notin On(n)
        BY <1>2, <1>4, <1>9, <3>3, <3>4, <4>2
      <4> QED BY <4>1, <4>2
    <3> QED BY <1>3, <3>1, <3>2, <3>3, <3>4 DEF AllThreads
  <2> QED BY <2>2 DEF ThreadsKnown
<1>c. \A x \in Deliveries : call[x].at \in {"resuming", "starting", "running"} => call[x].conn \in Conns
  BY CallConn
<1>e. \A k \in Conns : \A u, i : i \in On(k) \/ i = 0 => (EndsAfter(k, i, u) => EndsAfter(k, i, u)')
  BY <1>9 DEF EndsAfter, IsEnd
<1>f. \A k \in Conns : \A i : conn[k] = "open" /\ (i \in On(k) \/ i = 0) => EndsAfter(k, i, t)'
  <2> SUFFICES ASSUME NEW k \in Conns, NEW i, conn[k] = "open", i \in On(k) \/ i = 0
               PROVE  \E j \in On(k)' : j > i /\ IsEnd(k, j, t)'
    BY DEF EndsAfter
  <2>1. k \in S /\ Len(wire[k]) \in Nat /\ wire'[k][Len(wire[k]) + 1] = m
    BY <1>a, <1>o DEF AddedTo
  <2>2. Len(wire[k]) + 1 \in On(k)' /\ Len(wire[k]) + 1 > i
    BY <1>9, <2>1 DEF On
  <2> QED BY <1>4, <2>1, <2>2 DEF IsEnd
<1>g. \A k \in Conns : \A u, i : i \in On(k) \/ i = 0 =>
        (EndsAfter(k, i, u)' => EndsAfter(k, i, u) \/ (u = t /\ conn[k] = "open"))
  BY <1>4, <1>9 DEF EndsAfter, IsEnd
<1>h. \A k \in Conns : \A u, i : StartedAfter(k, i, u) => StartedAfter(k, i, u)'
  BY <1>9 DEF StartedAfter, IsAnswer
<1>16. TurnsKnown'
  <2>0. \A x \in Deliveries, u \in AllThreads : turn[u] = x => turn'[u] = x \/ u = t
    BY <1>3
  <2>1. ASSUME NEW k \in Conns, conn[k] = "open", NEW i \in On(k)', wire'[k][i].kind = "reply", wire'[k][i].reply = "started",
               NEW u, u = wire'[k][i].thread
        PROVE  turn'[u] = wire'[k][i].delivery \/ EndsAfter(k, i, u)'
    <3>1. i \in On(k) /\ wire'[k][i] = wire[k][i]
      BY <1>13, <2>1
    <3>2. turn[u] = wire[k][i].delivery \/ EndsAfter(k, i, u)
      BY <1>0, <2>1, <3>1 DEF TurnsKnown
    <3>3. CASE u = t
      BY <1>f, <2>1, <3>1, <3>3
    <3>4. CASE u # t
      <4>1. IsReply(k, i, "turn")
        BY <1>0, <2>1, <3>1 DEF RepliesKnown, IsReply
      <4>2. wire[k][i].delivery \in Deliveries /\ Starts(wire[k][i].delivery, u) /\ u \in AllThreads \cup {None}
        BY <1>0, <2>1, <3>1, <4>1, MessageTypes DEF RepliesKnown, IsReply
      <4>3. u \in AllThreads
        BY <1>0, <4>2 DEF Starts, CallsKnown
      <4> QED BY <1>e, <2>0, <3>1, <3>2, <3>4, <4>2, <4>3
    <3> QED BY <3>3, <3>4
  <2>2. ASSUME NEW d \in Deliveries,
               (call[d].at = "starting" /\ call[d].reply = "started") \/ call[d].at = "running",
               call[d].outcome = "none", conn[call[d].conn] = "open",
               NEW u, u = call[d].thread, NEW k, k = call[d].conn
        PROVE  turn'[u] = d \/ EndsAfter(k, 0, u)'
    <3>1. turn[u] = d \/ EndsAfter(k, 0, u)
      BY <1>0, <2>2 DEF TurnsKnown
    <3>2. k \in Conns /\ u \in AllThreads
      BY <1>0, <1>c, <2>2, CallTypes DEF CallsKnown, TypeOK
    <3> QED BY <1>e, <1>f, <2>0, <2>2, <3>1, <3>2
  <2> QED BY <1>2, <2>1, <2>2 DEF TurnsKnown, EndsAfter, IsEnd, On
<1>17. IdleKnown'
  <2>1. ASSUME NEW k \in Conns, NEW u \in AllThreads \ OtherThreads, NEW i \in On(k)', IsAnswer(k, i, "idle", u)'
        PROVE  StartedAfter(k, i, u)' \/ (~EndsAfter(k, i, u)' /\ (conn[k] = "open" => turn'[u] = None))
    <3>1. i \in On(k) /\ IsAnswer(k, i, "idle", u)
      BY <1>13, <2>1 DEF IsAnswer
    <3>2. StartedAfter(k, i, u) \/ (~EndsAfter(k, i, u) /\ (conn[k] = "open" => turn[u] = None))
      BY <1>0, <3>1 DEF IdleKnown
    <3> QED BY <1>2, <1>3, <1>g, <1>h, <3>1, <3>2
  <2>2. ASSUME NEW d \in Deliveries, call[d].at = "resuming", call[d].reply = "idle", NEW u, u = call[d].thread, Own(u),
               NEW k, k = call[d].conn
        PROVE  ~EndsAfter(k, 0, u)' /\ (conn[k] = "open" => turn'[u] = None)
    <3>1. ~EndsAfter(k, 0, u) /\ (conn[k] = "open" => turn[u] = None)
      BY <1>0, <2>2 DEF IdleKnown
    <3>2. k \in Conns /\ u \in AllThreads
      BY <1>0, <1>c, <2>2, CallTypes DEF CallsKnown, TypeOK
    <3> QED BY <1>2, <1>3, <1>g, <3>1, <3>2
  <2>3. ASSUME NEW d \in Deliveries, call[d].at \in {"starting", "running"}, NEW u, u = call[d].thread, Own(u),
               NEW k, k = call[d].conn
        PROVE  /\ \A i \in On(k)' : IsEnd(k, i, u)' => wire'[k][i].by = d
               /\ conn[k] = "open" => turn'[u] \in {None, d}
    <3>1. k \in Conns /\ u \in AllThreads
      BY <1>0, <1>c, <2>3, CallTypes DEF CallsKnown, TypeOK
    <3>2. (\A i \in On(k) : IsEnd(k, i, u) => wire[k][i].by = d) /\ (conn[k] = "open" => turn[u] \in {None, d})
      BY <1>0, <2>3 DEF IdleKnown
    <3>3. ASSUME NEW i \in On(k)', IsEnd(k, i, u)' PROVE wire'[k][i].by = d
      <4>1. CASE i \in On(k)
        BY <1>9, <3>1, <3>2, <3>3, <4>1 DEF IsEnd
      <4>2. CASE i \notin On(k)
        <5>1. wire'[k][i] = m /\ conn[k] = "open" /\ u = t
          BY <1>4, <1>9, <3>1, <3>3, <4>2 DEF IsEnd
        <5> QED BY <1>2, <1>4, <3>2, <5>1
      <4> QED BY <4>1, <4>2
    <3> QED BY <1>3, <3>1, <3>2, <3>3
  <2> QED BY <1>2, <2>1, <2>2, <2>3 DEF IdleKnown, Own, EndsAfter, IsEnd, On
<1> QED BY <1>7, <1>10, <1>11, <1>12, <1>14, <1>15, <1>16, <1>17 DEF AppServerInv

\* What a received message leaves on the wires.
Shifted(n) ==
  /\ wire' \in [Conns -> Seq(Message)]
  /\ 1 \in On(n)
  /\ \A k \in Conns : k # n => On(k) = {} /\ On(k)' = {} /\ wire'[k] = <<>>
  /\ \A i \in On(n)' : i \in Nat /\ i > 0 /\ i + 1 \in On(n) /\ wire'[n][i] = wire[n][i + 1]
  /\ \A u, i : i \in On(n)' \/ i = 0 => (EndsAfter(n, i, u)' <=> EndsAfter(n, i + 1, u))
  /\ \A u, i : i \in On(n)' => (StartedAfter(n, i, u)' <=> StartedAfter(n, i + 1, u))
  /\ \A u : EndsAfter(n, 0, u) => EndsAfter(n, 1, u) \/ IsEnd(n, 1, u)
  /\ \A u : EndsAfter(n, 1, u) => EndsAfter(n, 0, u)

\* Receiving a message takes the first off the wire of the live connection.
LEMMA ReceiveShifts ==
  ASSUME AppServerInv, NEW n \in Conns, Alive(n), wire[n] # <<>>, wire' = [wire EXCEPT ![n] = Tail(@)]
  PROVE  Shifted(n) /\ n = adapter.connection /\ Head(wire[n]) = wire[n][1]
<1>0. TypeOK /\ ConnectionKnown
  BY DEF AppServerInv
<1>1. n = adapter.connection /\ \A k \in Conns : k # n => wire[k] = <<>>
  BY <1>0 DEF ConnectionKnown
<1>2. /\ wire' \in [Conns -> Seq(Message)]
      /\ 1 \in On(n) /\ Head(wire[n]) = wire[n][1]
      /\ \A k \in Conns : k # n => wire'[k] = wire[k]
      /\ \A i \in Nat : i \in 1..Len(wire'[n]) <=> i > 0 /\ i + 1 \in On(n)
      /\ \A i \in 1..Len(wire'[n]) : wire'[n][i] = wire[n][i + 1]
  BY <1>0, TailFacts
<1>3. \A k \in Conns : k # n => On(k) = {} /\ On(k)' = {} /\ wire'[k] = <<>>
  BY <1>1, <1>2 DEF On
<1>4. On(n)' = 1..Len(wire'[n]) /\ Len(wire'[n]) \in Nat /\ Len(wire[n]) \in Nat /\ On(n) = 1..Len(wire[n])
  BY <1>0, <1>2 DEF On, TypeOK
<1>5. \A i \in On(n)' : i \in Nat /\ i > 0 /\ i + 1 \in On(n) /\ wire'[n][i] = wire[n][i + 1]
  BY <1>2, <1>4
<1>6. ASSUME NEW j \in On(n), j > 1
      PROVE  j - 1 \in On(n)' /\ wire'[n][j - 1] = wire[n][j]
  BY <1>2, <1>4, <1>6
<1>7. \A i \in On(n) : i \in Nat /\ i >= 1
  BY <1>4
<1>8. \A u, i : i \in On(n)' \/ i = 0 => (EndsAfter(n, i, u)' <=> EndsAfter(n, i + 1, u))
  <2> SUFFICES ASSUME NEW u, NEW i, i \in On(n)' \/ i = 0
               PROVE  (\E j \in On(n)' : j > i /\ IsEnd(n, j, u)') <=> (\E j \in On(n) : j > i + 1 /\ IsEnd(n, j, u))
    BY DEF EndsAfter
  <2>1. i \in Nat
    BY <1>5
  <2>2. ASSUME NEW j \in On(n)', j > i, IsEnd(n, j, u)'
        PROVE  j + 1 \in On(n) /\ j + 1 > i + 1 /\ IsEnd(n, j + 1, u)
    <3>1. j \in Nat /\ j + 1 \in On(n) /\ wire'[n][j] = wire[n][j + 1]
      BY <1>5
    <3>2. j + 1 > i + 1
      BY <2>1, <2>2, <3>1
    <3> QED BY <2>2, <3>1, <3>2 DEF IsEnd
  <2>3. ASSUME NEW j \in On(n), j > i + 1, IsEnd(n, j, u)
        PROVE  j - 1 \in On(n)' /\ j - 1 > i /\ IsEnd(n, j - 1, u)'
    <3>1. j \in Nat /\ j > 1 /\ j - 1 > i
      BY <1>7, <2>1, <2>3
    <3>2. j - 1 \in On(n)' /\ wire'[n][j - 1] = wire[n][j]
      BY <1>6, <3>1
    <3> QED BY <2>3, <3>1, <3>2 DEF IsEnd
  <2> QED BY <2>2, <2>3
<1>9. \A u, i : i \in On(n)' => (StartedAfter(n, i, u)' <=> StartedAfter(n, i + 1, u))
  <2> SUFFICES ASSUME NEW u, NEW i \in On(n)'
               PROVE  (\E j \in On(n)' : j > i /\ IsAnswer(n, j, "started", u)')
                        <=> (\E j \in On(n) : j > i + 1 /\ IsAnswer(n, j, "started", u))
    BY DEF StartedAfter
  <2>1. i \in Nat
    BY <1>5
  <2>2. ASSUME NEW j \in On(n)', j > i, IsAnswer(n, j, "started", u)'
        PROVE  j + 1 \in On(n) /\ j + 1 > i + 1 /\ IsAnswer(n, j + 1, "started", u)
    <3>1. j \in Nat /\ j + 1 \in On(n) /\ wire'[n][j] = wire[n][j + 1]
      BY <1>5
    <3>2. j + 1 > i + 1
      BY <2>1, <2>2, <3>1
    <3> QED BY <2>2, <3>1, <3>2 DEF IsAnswer
  <2>3. ASSUME NEW j \in On(n), j > i + 1, IsAnswer(n, j, "started", u)
        PROVE  j - 1 \in On(n)' /\ j - 1 > i /\ IsAnswer(n, j - 1, "started", u)'
    <3>1. j \in Nat /\ j > 1 /\ j - 1 > i
      BY <1>7, <2>1, <2>3
    <3>2. j - 1 \in On(n)' /\ wire'[n][j - 1] = wire[n][j]
      BY <1>6, <3>1
    <3> QED BY <2>3, <3>1, <3>2 DEF IsAnswer
  <2> QED BY <2>2, <2>3
<1>10. \A u : EndsAfter(n, 0, u) => EndsAfter(n, 1, u) \/ IsEnd(n, 1, u)
  BY <1>7 DEF EndsAfter
<1>11. \A u : EndsAfter(n, 1, u) => EndsAfter(n, 0, u)
  BY <1>7 DEF EndsAfter
<1> QED BY <1>1, <1>2, <1>3, <1>5, <1>8, <1>9, <1>10, <1>11 DEF Shifted

\* What does not depend on the message received.
LEMMA ReceiveKeeps ==
  ASSUME AppServerInv, NEW n \in Conns, Shifted(n), n = adapter.connection, Alive(n),
         UNCHANGED <<row, adapter, conn, requests, turn, finished, used, faults, others>>,
         \A d \in Deliveries : call'[d].at = call[d].at
  PROVE  RowsKnown' /\ ConnectionKnown'
<1>1. RowsKnown'
  BY DEF AppServerInv, RowsKnown
<1>2. ConnectionKnown'
  BY DEF AppServerInv, ConnectionKnown, Alive, Shifted
<1> QED BY <1>1, <1>2

\* OneCall, of the next state.
LEMMA OneCallNext ==
  TypeOK' /\ RowsKnown' /\ CallsKnown' /\ ThreadsKnown' =>
    \A d, e \in Deliveries : call'[d].thread # None /\ call'[d].thread = call'[e].thread => d = e
<1>1. (TypeOK /\ RowsKnown /\ CallsKnown /\ ThreadsKnown =>
    \A d, e \in Deliveries : call[d].thread # None /\ call[d].thread = call[e].thread => d = e)'
  BY OneCall, PTL
<1> QED BY <1>1

\* A message that changes no call is dropped, or an answer is taken by the call that
\* waits for it.
LEMMA ReceiveReplyInv ==
  ASSUME AppServerInv, NEW n \in Conns, Receive(n), wire[n][1].kind = "reply"
  PROVE  AppServerInv'
<1> USE NameAssumption
<1>0. TypeOK /\ RowsKnown /\ ConnectionKnown /\ CallsKnown /\ RequestsKnown /\ RepliesKnown
      /\ ThreadsKnown /\ WaitersKnown /\ TurnsKnown /\ IdleKnown /\ OutcomesKnown
  BY DEF AppServerInv
<1>1. /\ Alive(n) /\ wire[n] # <<>> /\ wire' = [wire EXCEPT ![n] = Tail(@)]
      /\ UNCHANGED <<row, adapter, conn, requests, turn, finished, used, faults, others>>
  BY DEF Receive
<1>v. row' = row /\ adapter' = adapter /\ conn' = conn /\ requests' = requests /\ turn' = turn /\ finished' = finished
      /\ used' = used /\ faults' = faults /\ others' = others
  BY <1>1
<1>2. Shifted(n) /\ n = adapter.connection /\ Head(wire[n]) = wire[n][1]
  BY <1>1, ReceiveShifts
<1> DEFINE m == wire[n][1]
           x == m.delivery
<1>3. 1 \in On(n) /\ x \in Deliveries /\ m.method \in {"resume", "thread", "turn"} /\ m.reply \in Replies
      /\ m.thread \in AllThreads \cup {None}
  BY <1>0, <1>2, MessageTypes DEF Shifted
<1>4. waiter' = waiter
      /\ call' = IF Pending(x, n, m.method) THEN [call EXCEPT ![x].reply = m.reply, ![x].thread = m.thread] ELSE call
  BY <1>2 DEF Receive
<1>l. waiter' = waiter
  BY <1>4
<1> DEFINE P == Pending(x, n, m.method)
           c == IF P THEN [call[x] EXCEPT !.reply = m.reply, !.thread = m.thread] ELSE call[x]
<1>5. call \in [Deliveries -> Call] /\ call[x] \in Call
  BY <1>0, <1>3 DEF TypeOK
<1>6. c \in Call
  BY <1>3, <1>5 DEF Call
<1>7. call' = [call EXCEPT ![x] = c]
  BY <1>3, <1>4, <1>5
<1>8. /\ c.at = call[x].at /\ c.conn = call[x].conn /\ c.outcome = call[x].outcome
      /\ P => c.reply = m.reply /\ c.thread = m.thread
      /\ ~P => c = call[x]
  BY <1>5 DEF Call
<1>9. P => /\ call[x].conn = n /\ call[x].reply = "none"
           /\ call[x].at = IF m.method = "turn" THEN "starting" ELSE "resuming"
  BY DEF Pending
<1> HIDE DEF P, c
<1>10. call'[x] = c /\ (\A e \in Deliveries : e # x => call'[e] = call[e]) /\ call' \in [Deliveries -> Call]
  BY <1>3, <1>5, <1>6, <1>7
<1>m. /\ m.method = "resume" => x \notin New /\ m.thread = ThreadOf[x]
      /\ m.method = "thread" => x \in New /\ m.thread \in Fresh \cup {None}
      /\ m.method = "turn" => /\ Starts(x, m.thread) /\ m.reply # "idle"
                              /\ \A r \in requests : r.method = "turn" => r.delivery # x
                              /\ \A j \in On(n) : IsReply(n, j, "turn") /\ wire[n][j].delivery = x => j = 1
      /\ m.reply = "started" => m.method = "turn"
      /\ m.reply = "idle" => m.thread # None
  BY <1>0, <1>3 DEF RepliesKnown, IsReply
<1>11. m.method = "turn" => c.thread = call[x].thread
  BY <1>8, <1>m DEF Starts
<1>a. \A e \in Deliveries : call'[e].at = call[e].at /\ call'[e].conn = call[e].conn /\ call'[e].outcome = call[e].outcome
        /\ (call[e].at \in {"starting", "running"} => call'[e].thread = call[e].thread)
  BY <1>8, <1>9, <1>10, <1>11
<1>w. wire' \in [Conns -> Seq(Message)]
  BY <1>2 DEF Shifted
<1>t. PICK maker \in [Fresh -> Deliveries \cup {None}] : MadeBy(maker)
  BY <1>0 DEF ThreadsKnown
<1>f. m.thread \in Fresh => m.thread \in used /\ maker[m.thread] = x
  BY <1>3, <1>t DEF MadeBy
<1>y. m.thread = None \/ m.thread \in AllThreads
  BY <1>3
<1>z. /\ On(n)' \subseteq Nat
      /\ \A k \in Conns : k # n => On(k) = {} /\ On(k)' = {}
      /\ \A i \in On(n)' : i \in Nat /\ i > 0 /\ i + 1 \in On(n) /\ i + 1 # 1 /\ wire'[n][i] = wire[n][i + 1]
  BY <1>2 DEF Shifted
<1>e. /\ \A u, i : i \in On(n)' \/ i = 0 => (EndsAfter(n, i, u)' <=> EndsAfter(n, i + 1, u))
      /\ \A u, i : i \in On(n)' => (StartedAfter(n, i, u)' <=> StartedAfter(n, i + 1, u))
      /\ \A u : EndsAfter(n, 0, u)' <=> EndsAfter(n, 1, u)
      /\ \A u : EndsAfter(n, 1, u) <=> EndsAfter(n, 0, u)
  <2>1. \A u : ~IsEnd(n, 1, u)
    BY DEF IsEnd
  <2> QED BY <1>2, <2>1 DEF Shifted
<1> HIDE DEF x, m
<1>12. TypeOK'
  BY <1>0, <1>v, <1>l, <1>10, <1>w, SameFaults, TypesFrom DEF TypeOK
<1>13. RowsKnown' /\ ConnectionKnown'
  BY <1>1, <1>v, <1>2, <1>a, ReceiveKeeps
<1>14. CallsKnown'
  <2>1. CASE P
    <3>1. c.at \in {"starting", "running"} \/ c.reply = "idle" => c.thread # None
      BY <1>0, <1>3, <1>8, <1>9, <1>11, <1>m, <2>1 DEF CallsKnown
    <3>2. c.thread # None => IF x \in New THEN c.thread \in used ELSE c.thread = ThreadOf[x]
      BY <1>0, <1>3, <1>8, <1>9, <1>11, <1>m, <1>f, <2>1 DEF CallsKnown
    <3> QED BY <1>0, <1>v, <1>3, <1>8, <1>9, <1>10, <2>1, <3>1, <3>2 DEF CallsKnown, Alive
  <2>2. CASE ~P
    <3>1. call' = call
      BY <1>4, <2>2 DEF P, m, x
    <3> QED BY <1>0, <1>v, <3>1 DEF CallsKnown, Alive
  <2> QED BY <2>1, <2>2
<1>15. \A e \in Deliveries, u \in AllThreads \cup {None} : Starts(e, u) /\ ~(e = x /\ m.method = "turn") => Starts(e, u)'
  <2> SUFFICES ASSUME NEW e \in Deliveries, NEW u \in AllThreads \cup {None}, Starts(e, u), ~(e = x /\ m.method = "turn")
               PROVE  call'[e] = call[e]
    BY DEF Starts
  <2>1. CASE e # x
    BY <1>10, <2>1
  <2>2. CASE e = x
    <3>1. ~P
      BY <1>9, <2>2 DEF Starts
    <3> QED BY <1>8, <1>10, <2>2, <3>1
  <2> QED BY <2>1, <2>2
<1>16. RequestsKnown'
  <2> SUFFICES ASSUME NEW r \in requests
               PROVE  /\ r.method = "resume" => r.delivery \notin New /\ r.thread = ThreadOf[r.delivery]
                      /\ r.method = "thread" => r.delivery \in New /\ r.thread = None
                      /\ r.method = "turn" =>
                           adapter.connection = None \/ (r.conn = adapter.connection /\ Starts(r.delivery, r.thread)')
    BY <1>v DEF RequestsKnown
  <2>1. r.delivery \in Deliveries /\ r.thread \in AllThreads \cup {None}
    BY <1>0, RequestTypes
  <2>2. r.method = "turn" => ~(r.delivery = x /\ m.method = "turn")
    BY <1>m
  <2> QED BY <1>0, <1>15, <2>1, <2>2 DEF RequestsKnown
<1>17. RepliesKnown'
  <2>1. ASSUME NEW i \in On(n)', IsReply(n, i, "turn")'
        PROVE  /\ IsReply(n, i + 1, "turn")
               /\ call'[wire'[n][i].delivery].at = "starting" /\ call'[wire'[n][i].delivery].reply = "none"
               /\ call'[wire'[n][i].delivery].thread = wire'[n][i].thread
    <3>1. i + 1 \in On(n) /\ i + 1 # 1 /\ wire'[n][i] = wire[n][i + 1]
      BY <1>z
    <3>2. IsReply(n, i + 1, "turn")
      BY <2>1, <3>1 DEF IsReply
    <3> DEFINE e == wire[n][i + 1].delivery
               u == wire[n][i + 1].thread
    <3>3. e \in Deliveries /\ u \in AllThreads \cup {None}
      BY <1>0, <3>1, <3>2, MessageTypes DEF IsReply
    <3>4. Starts(e, u)
      BY <1>0, <3>1, <3>2 DEF RepliesKnown
    <3>5. ~(e = x /\ m.method = "turn")
      BY <1>m, <3>1, <3>2
    <3>6. call'[e].at = "starting" /\ call'[e].reply = "none" /\ call'[e].thread = u
      <4> HIDE DEF e, u
      <4> QED BY <1>15, <3>3, <3>4, <3>5 DEF Starts
    <3> QED BY <3>1, <3>2, <3>6
  <2>2. ASSUME NEW i \in On(n)'
        PROVE  /\ IsReply(n, i, "resume")' => wire'[n][i].delivery \notin New /\ wire'[n][i].thread = ThreadOf[wire'[n][i].delivery]
               /\ IsReply(n, i, "thread")' => wire'[n][i].delivery \in New /\ wire'[n][i].thread \in Fresh \cup {None}
               /\ IsReply(n, i, "turn")' => wire'[n][i].reply # "idle"
                    /\ (\A r \in requests' : r.method = "turn" => r.delivery # wire'[n][i].delivery)
               /\ wire'[n][i].kind = "reply" /\ wire'[n][i].reply = "started" => wire'[n][i].method = "turn"
               /\ wire'[n][i].kind = "reply" /\ wire'[n][i].reply = "idle" => wire'[n][i].thread # None
               /\ wire'[n][i].kind = "completed" /\ wire'[n][i].status = "completed" =>
                    wire'[n][i].by \in finished' \cup {Other}
    <3>1. i + 1 \in On(n) /\ wire'[n][i] = wire[n][i + 1]
      BY <1>z
    <3> DEFINE w == wire[n][i + 1]
    <3>2. /\ IsReply(n, i + 1, "resume") => w.delivery \notin New /\ w.thread = ThreadOf[w.delivery]
          /\ IsReply(n, i + 1, "thread") => w.delivery \in New /\ w.thread \in Fresh \cup {None}
          /\ IsReply(n, i + 1, "turn") => w.reply # "idle"
               /\ (\A r \in requests : r.method = "turn" => r.delivery # w.delivery)
          /\ w.kind = "reply" /\ w.reply = "started" => w.method = "turn"
          /\ w.kind = "reply" /\ w.reply = "idle" => w.thread # None
          /\ w.kind = "completed" /\ w.status = "completed" => w.by \in finished \cup {Other}
      BY <1>0, <3>1 DEF RepliesKnown
    <3>3. \A method : IsReply(n, i, method)' <=> IsReply(n, i + 1, method)
      BY <3>1 DEF IsReply
    <3> QED BY <1>v, <3>1, <3>2, <3>3
  <2>3. ASSUME NEW i \in On(n)', NEW j \in On(n)', IsReply(n, i, "turn")', IsReply(n, j, "turn")',
               wire'[n][j].delivery = wire'[n][i].delivery
        PROVE  j = i
    <3>1. i + 1 \in On(n) /\ wire'[n][i] = wire[n][i + 1] /\ j + 1 \in On(n) /\ wire'[n][j] = wire[n][j + 1] /\ i \in Nat /\ j \in Nat
      BY <1>z
    <3>2. j + 1 = i + 1
      BY <1>0, <2>1, <2>3, <3>1 DEF RepliesKnown
    <3> QED BY <3>1, <3>2
  <2> QED BY <1>z, <2>1, <2>2, <2>3 DEF RepliesKnown, Starts
<1>18. ThreadsKnown'
  <2>1. \A u \in Fresh, d \in Deliveries : call'[d].thread = u => u \in used /\ maker[u] = d
    BY <1>3, <1>8, <1>10, <1>f, <1>t DEF MadeBy
  <2>2. \A u \in Fresh : \A k \in Conns : \A i \in On(k)' : wire'[k][i].thread = u =>
               u \in used /\ (wire'[k][i].kind = "reply" => maker[u] = wire'[k][i].delivery)
    BY <1>t, <1>z DEF MadeBy
  <2>3. \A u \in Fresh : (\A r \in requests : r.thread = u => u \in used /\ maker[u] = r.delivery) /\ (turn[u] # None => u \in used)
    BY <1>t DEF MadeBy
  <2>4. MadeBy(maker)'
    BY <1>v, <2>1, <2>2, <2>3 DEF MadeBy
  <2> QED BY <2>4 DEF ThreadsKnown
<1>19. WaitersKnown'
  <2>1. \A u \in AllThreads, d \in Deliveries : waiter'[u] = d =>
          call'[d].thread = u /\ call'[d].at \in {"starting", "running"} /\ call'[d].outcome = "none"
    BY <1>0, <1>l, <1>a DEF WaitersKnown
  <2>2. \A d \in Deliveries : call'[d].at \in {"starting", "running"} /\ call'[d].outcome = "none" =>
          waiter'[call'[d].thread] = d
    BY <1>0, <1>l, <1>a DEF WaitersKnown
  <2> QED BY <2>1, <2>2 DEF WaitersKnown
<1>u. \A d, e \in Deliveries : call'[d].thread # None /\ call'[d].thread = call'[e].thread => d = e
  BY <1>12, <1>13, <1>14, <1>18, OneCallNext
<1>c. \A d \in Deliveries : call[d].at \in {"resuming", "starting", "running"} => call[d].conn = n
  BY <1>2, CallConn
<1>20. TurnsKnown'
  <2>1. ASSUME conn[n] = "open", NEW i \in On(n)', wire'[n][i].kind = "reply", wire'[n][i].reply = "started",
               NEW u, u = wire'[n][i].thread
        PROVE  turn[u] = wire'[n][i].delivery \/ EndsAfter(n, i, u)'
    <3>1. i + 1 \in On(n) /\ wire'[n][i] = wire[n][i + 1]
      BY <1>z
    <3>2. turn[u] = wire[n][i + 1].delivery \/ EndsAfter(n, i + 1, u)
      BY <1>0, <2>1, <3>1 DEF TurnsKnown
    <3> QED BY <1>e, <3>1, <3>2
  <2>2. ASSUME NEW d \in Deliveries,
               (call'[d].at = "starting" /\ call'[d].reply = "started") \/ call'[d].at = "running",
               call'[d].outcome = "none", conn[n] = "open", NEW u, u = call'[d].thread
        PROVE  turn[u] = d \/ EndsAfter(n, 0, u)'
    <3>1. CASE call'[d] = call[d]
      <4>1. turn[u] = d \/ EndsAfter(n, 0, u)
        BY <1>0, <1>c, <2>2, <3>1 DEF TurnsKnown
      <4> QED BY <1>e, <4>1
    <3>2. CASE call'[d] # call[d]
      <4>1. d = x /\ P /\ m.method = "turn" /\ m.reply = "started" /\ u = m.thread
        BY <1>8, <1>9, <1>10, <2>2, <3>2
      <4>2. turn[u] = x \/ EndsAfter(n, 1, u)
        BY <1>0, <1>3, <2>2, <4>1 DEF TurnsKnown, m, x
      <4> QED BY <1>e, <4>1, <4>2
    <3> QED BY <3>1, <3>2
  <2>3. \A k \in Conns : \A i \in On(k)' : k = n
    BY <1>z
  <2>4. \A d \in Deliveries : call'[d].at \in {"starting", "running"} => call'[d].conn = n
    BY <1>a, <1>c
  <2>5. \A k \in Conns : conn'[k] = "open" => \A i \in On(k)' :
          wire'[k][i].kind = "reply" /\ wire'[k][i].reply = "started" =>
            \/ turn'[wire'[k][i].thread] = wire'[k][i].delivery
            \/ \E j \in On(k)' : j > i /\ wire'[k][j].kind = "completed" /\ wire'[k][j].thread = wire'[k][i].thread
    BY <1>v, <2>1, <2>3 DEF EndsAfter, IsEnd
  <2>6. \A d \in Deliveries :
          /\ (call'[d].at = "starting" /\ call'[d].reply = "started") \/ call'[d].at = "running"
          /\ call'[d].outcome = "none" /\ conn'[call'[d].conn] = "open"
          => \/ turn'[call'[d].thread] = d
             \/ \E j \in On(n)' : j > 0 /\ wire'[n][j].kind = "completed" /\ wire'[n][j].thread = call'[d].thread
    BY <1>v, <2>2, <2>4 DEF EndsAfter, IsEnd
  <2> QED BY <2>4, <2>5, <2>6 DEF TurnsKnown, EndsAfter, IsEnd, On
<1>21. IdleKnown'
  <2>1. ASSUME NEW u \in AllThreads \ OtherThreads, NEW i \in On(n)', IsAnswer(n, i, "idle", u)'
        PROVE  StartedAfter(n, i, u)' \/ (~EndsAfter(n, i, u)' /\ (conn[n] = "open" => turn[u] = None))
    <3>1. i + 1 \in On(n) /\ IsAnswer(n, i + 1, "idle", u)
      BY <1>z, <2>1 DEF IsAnswer
    <3>2. StartedAfter(n, i + 1, u) \/ (~EndsAfter(n, i + 1, u) /\ (conn[n] = "open" => turn[u] = None))
      BY <1>0, <3>1 DEF IdleKnown
    <3> QED BY <1>e, <3>2
  <2>2. ASSUME NEW d \in Deliveries, call'[d].at = "resuming", call'[d].reply = "idle", NEW u, u = call'[d].thread, Own(u)
        PROVE  ~EndsAfter(n, 0, u)' /\ (conn[n] = "open" => turn[u] = None)
    <3>1. CASE call'[d] = call[d]
      <4>1. ~EndsAfter(n, 0, u) /\ (conn[n] = "open" => turn[u] = None)
        BY <1>0, <1>c, <2>2, <3>1 DEF IdleKnown
      <4> QED BY <1>e, <4>1
    <3>2. CASE call'[d] # call[d]
      <4>1. d = x /\ P /\ m.reply = "idle" /\ u = m.thread /\ u # None
        BY <1>8, <1>9, <1>10, <1>m, <2>2, <3>2
      <4>2. u \in AllThreads \ OtherThreads /\ IsAnswer(n, 1, "idle", u)
        BY <1>3, <2>2, <4>1 DEF Own, IsAnswer, m
      <4>3. StartedAfter(n, 1, u) \/ (~EndsAfter(n, 1, u) /\ (conn[n] = "open" => turn[u] = None))
        BY <1>0, <1>3, <4>2 DEF IdleKnown
      <4>4. ~StartedAfter(n, 1, u)
        <5> SUFFICES ASSUME NEW j \in On(n), j > 1, IsAnswer(n, j, "started", u) PROVE FALSE
          BY DEF StartedAfter
        <5>1. IsReply(n, j, "turn")
          BY <1>0 DEF RepliesKnown, IsReply, IsAnswer
        <5>2. wire[n][j].delivery \in Deliveries /\ Starts(wire[n][j].delivery, u)
          BY <1>0, <5>1, MessageTypes DEF RepliesKnown, IsReply, IsAnswer
        <5>3. call'[wire[n][j].delivery].thread = u /\ call'[wire[n][j].delivery].at = "starting"
          BY <1>a, <5>2 DEF Starts
        <5>4. wire[n][j].delivery = d
          BY <1>u, <2>2, <4>1, <5>2, <5>3
        <5> QED BY <2>2, <5>3, <5>4
      <4> QED BY <1>e, <4>3, <4>4
    <3> QED BY <3>1, <3>2
  <2>3. ASSUME NEW d \in Deliveries, call'[d].at \in {"starting", "running"}, NEW u, u = call'[d].thread, Own(u)
        PROVE  /\ \A i \in On(n)' : IsEnd(n, i, u)' => wire'[n][i].by = d
               /\ conn[n] = "open" => turn[u] \in {None, d}
    <3>1. (\A i \in On(n) : IsEnd(n, i, u) => wire[n][i].by = d) /\ (conn[n] = "open" => turn[u] \in {None, d})
      BY <1>0, <1>a, <1>c, <2>3 DEF IdleKnown
    <3> QED BY <1>z, <3>1 DEF IsEnd
  <2>4. \A k \in Conns : \A i \in On(k)' : k = n
    BY <1>z
  <2>5. \A d \in Deliveries : call'[d].at \in {"resuming", "starting", "running"} => call'[d].conn = n
    BY <1>a, <1>c
  <2>6. \A k \in Conns : \A u \in AllThreads \ OtherThreads : \A i \in On(k)' : IsAnswer(k, i, "idle", u)' =>
          StartedAfter(k, i, u)' \/ (~EndsAfter(k, i, u)' /\ (conn'[k] = "open" => turn'[u] = None))
    BY <1>v, <2>1, <2>4
  <2>7. \A d \in Deliveries : call'[d].at = "resuming" /\ call'[d].reply = "idle" /\ call'[d].thread \notin OtherThreads =>
          /\ ~\E j \in On(n)' : j > 0 /\ wire'[n][j].kind = "completed" /\ wire'[n][j].thread = call'[d].thread
          /\ conn'[n] = "open" => turn'[call'[d].thread] = None
    BY <1>v, <2>2 DEF EndsAfter, IsEnd, Own
  <2>8. \A d \in Deliveries : call'[d].at \in {"starting", "running"} /\ call'[d].thread \notin OtherThreads =>
          /\ \A i \in On(n)' : wire'[n][i].kind = "completed" /\ wire'[n][i].thread = call'[d].thread => wire'[n][i].by = d
          /\ conn'[n] = "open" => turn'[call'[d].thread] \in {None, d}
    BY <1>v, <2>3 DEF IsEnd, Own
  <2> QED BY <2>5, <2>6, <2>7, <2>8 DEF IdleKnown, Own, EndsAfter, IsEnd, On
<1>22. OutcomesKnown'
  <2>1. \A d \in Deliveries : call[d].outcome = "completed" => call[d].at \in {"starting", "running"}
    BY <1>0 DEF CallsKnown
  <2>2. \A d \in Deliveries : call'[d].outcome = "completed" /\ Own(call'[d].thread) => d \in finished
    BY <1>0, <1>a, <2>1 DEF OutcomesKnown
  <2> QED BY <1>0, <1>v, <2>2 DEF OutcomesKnown, DeliveredIsDone, Own
<1> QED BY <1>12, <1>13, <1>14, <1>16, <1>17, <1>18, <1>19, <1>20, <1>21, <1>22 DEF AppServerInv

\* The end of a turn settles the completion that its thread's waiter stands for.
LEMMA ReceiveEndInv ==
  ASSUME AppServerInv, NEW n \in Conns, Receive(n), wire[n][1].kind = "completed"
  PROVE  AppServerInv'
<1> USE NameAssumption
<1>0. TypeOK /\ RowsKnown /\ ConnectionKnown /\ CallsKnown /\ RequestsKnown /\ RepliesKnown
      /\ ThreadsKnown /\ WaitersKnown /\ TurnsKnown /\ IdleKnown /\ OutcomesKnown
  BY DEF AppServerInv
<1>1. /\ Alive(n) /\ wire[n] # <<>> /\ wire' = [wire EXCEPT ![n] = Tail(@)]
      /\ UNCHANGED <<row, adapter, conn, requests, turn, finished, used, faults, others>>
  BY DEF Receive
<1>v. row' = row /\ adapter' = adapter /\ conn' = conn /\ requests' = requests /\ turn' = turn /\ finished' = finished
      /\ used' = used /\ faults' = faults /\ others' = others
  BY <1>1
<1>2. Shifted(n) /\ n = adapter.connection /\ Head(wire[n]) = wire[n][1]
  BY <1>1, ReceiveShifts
<1> DEFINE m == wire[n][1]
           t == m.thread
           A == Addressee(m)
<1>3. 1 \in On(n) /\ t \in AllThreads /\ m.by \in Deliveries \cup {Other} /\ m.status \in {"completed", "failed"}
  BY <1>0, <1>2, MessageTypes DEF Shifted
<1>4. /\ call' = [d \in Deliveries |-> IF d \in A THEN [call[d] EXCEPT !.outcome = m.status] ELSE call[d]]
      /\ waiter' = Unlisten(A)
  BY <1>2 DEF Receive
<1>5. \A d \in Deliveries : call[d] \in Call
  BY <1>0 DEF TypeOK
<1>6. \A d \in A : d \in Deliveries /\ waiter[t] = d /\ call[d].thread = t /\ call[d].at \in {"starting", "running"}
        /\ call[d].outcome = "none"
  BY <1>0, <1>3 DEF Addressee, WaitersKnown
<1>7. \A d \in Deliveries : waiter[t] = d => d \in A
  BY DEF Addressee
<1>8. ASSUME NEW d \in A
      PROVE  /\ call'[d] \in Call /\ call'[d].outcome = m.status
             /\ call'[d].at = call[d].at /\ call'[d].conn = call[d].conn /\ call'[d].thread = call[d].thread
             /\ call'[d].reply = call[d].reply
  <2> DEFINE c == [call[d] EXCEPT !.outcome = m.status]
  <2>1. call'[d] = c
    BY <1>4, <1>6
  <2>2. c \in Call
    BY <1>3, <1>5, <1>6 DEF Call
  <2>3. c.outcome = m.status /\ c.at = call[d].at /\ c.conn = call[d].conn /\ c.thread = call[d].thread /\ c.reply = call[d].reply
    BY <1>5, <1>6 DEF Call
  <2> HIDE DEF c
  <2> QED BY <2>1, <2>2, <2>3
<1>9. \A d \in Deliveries : d \notin A => call'[d] = call[d]
  BY <1>4
<1>10. \A u \in AllThreads : waiter'[u] = IF waiter[u] \in A THEN None ELSE waiter[u]
  BY <1>4 DEF Unlisten
<1>11. call' \in [Deliveries -> Call] /\ waiter' \in [AllThreads -> Deliveries \cup {None}]
  <2>1. \A d \in Deliveries : call'[d] \in Call
    BY <1>5, <1>8, <1>9
  <2>2. waiter' \in [AllThreads -> Deliveries \cup {None}]
    BY <1>0, <1>4 DEF Unlisten, TypeOK
  <2> HIDE DEF A
  <2>3. call' \in [Deliveries -> Call]
    BY <1>4, <2>1
  <2> QED BY <2>2, <2>3
<1>w. wire' \in [Conns -> Seq(Message)]
  BY <1>2 DEF Shifted
<1>a. \A d \in Deliveries : call'[d].at = call[d].at /\ call'[d].conn = call[d].conn /\ call'[d].thread = call[d].thread
        /\ call'[d].reply = call[d].reply /\ (call'[d].outcome = IF d \in A THEN m.status ELSE call[d].outcome)
  BY <1>8, <1>9
<1>z. /\ \A k \in Conns : k # n => On(k) = {} /\ On(k)' = {}
      /\ \A i \in On(n)' : i \in Nat /\ i > 0 /\ i + 1 \in On(n) /\ wire'[n][i] = wire[n][i + 1]
  BY <1>2 DEF Shifted
<1>k. \A k \in Conns : \A i \in On(k)' : k = n
  BY <1>z
<1>e. /\ \A u, i : i \in On(n)' \/ i = 0 => (EndsAfter(n, i, u)' <=> EndsAfter(n, i + 1, u))
      /\ \A u, i : i \in On(n)' => (StartedAfter(n, i, u)' <=> StartedAfter(n, i + 1, u))
      /\ \A u : EndsAfter(n, 0, u)' <=> EndsAfter(n, 1, u)
      /\ \A u : EndsAfter(n, 1, u) => EndsAfter(n, 0, u)
      /\ \A u : EndsAfter(n, 0, u) => EndsAfter(n, 1, u) \/ u = t
  <2>1. \A u : IsEnd(n, 1, u) => u = t
    BY DEF IsEnd
  <2> QED BY <1>2, <2>1 DEF Shifted
<1>b. m.status = "completed" => m.by \in finished \cup {Other}
  BY <1>0, <1>3 DEF RepliesKnown
<1>i. IsEnd(n, 1, t)
  BY DEF IsEnd
<1>y. m.by = wire[n][1].by
  OBVIOUS
<1> HIDE DEF m, t, A
<1>12. TypeOK'
  BY <1>0, <1>v, <1>11, <1>w, SameFaults, TypesFrom DEF TypeOK
<1>13. RowsKnown' /\ ConnectionKnown'
  BY <1>1, <1>2, <1>a, <1>v, ReceiveKeeps
<1>14. CallsKnown'
  BY <1>0, <1>6, <1>a, <1>v DEF CallsKnown, Alive
<1>15. \A e, u : e \in Deliveries => (Starts(e, u)' <=> Starts(e, u))
  BY <1>a DEF Starts
<1>16. RequestsKnown'
  <2> SUFFICES ASSUME NEW r \in requests
               PROVE  /\ r.method = "resume" => r.delivery \notin New /\ r.thread = ThreadOf[r.delivery]
                      /\ r.method = "thread" => r.delivery \in New /\ r.thread = None
                      /\ r.method = "turn" =>
                           adapter.connection = None \/ (r.conn = adapter.connection /\ Starts(r.delivery, r.thread)')
    BY <1>v DEF RequestsKnown
  <2>1. r.delivery \in Deliveries
    BY <1>0, RequestTypes
  <2> QED BY <1>0, <1>15, <2>1 DEF RequestsKnown
<1>17. RepliesKnown'
  <2>1. ASSUME NEW i \in On(n)', IsReply(n, i, "turn")'
        PROVE  /\ IsReply(n, i + 1, "turn")
               /\ call'[wire'[n][i].delivery].at = "starting" /\ call'[wire'[n][i].delivery].reply = "none"
               /\ call'[wire'[n][i].delivery].thread = wire'[n][i].thread
    <3>1. i + 1 \in On(n) /\ wire'[n][i] = wire[n][i + 1]
      BY <1>z
    <3>2. IsReply(n, i + 1, "turn")
      BY <2>1, <3>1 DEF IsReply
    <3>3. wire[n][i + 1].delivery \in Deliveries
      BY <1>0, <3>1, <3>2, MessageTypes DEF IsReply
    <3>4. Starts(wire[n][i + 1].delivery, wire[n][i + 1].thread)
      BY <1>0, <3>1, <3>2 DEF RepliesKnown
    <3> QED BY <1>a, <3>1, <3>2, <3>3, <3>4 DEF Starts
  <2>2. ASSUME NEW i \in On(n)'
        PROVE  /\ IsReply(n, i, "resume")' => wire'[n][i].delivery \notin New /\ wire'[n][i].thread = ThreadOf[wire'[n][i].delivery]
               /\ IsReply(n, i, "thread")' => wire'[n][i].delivery \in New /\ wire'[n][i].thread \in Fresh \cup {None}
               /\ IsReply(n, i, "turn")' => wire'[n][i].reply # "idle"
                    /\ (\A r \in requests' : r.method = "turn" => r.delivery # wire'[n][i].delivery)
               /\ wire'[n][i].kind = "reply" /\ wire'[n][i].reply = "started" => wire'[n][i].method = "turn"
               /\ wire'[n][i].kind = "reply" /\ wire'[n][i].reply = "idle" => wire'[n][i].thread # None
               /\ wire'[n][i].kind = "completed" /\ wire'[n][i].status = "completed" =>
                    wire'[n][i].by \in finished' \cup {Other}
    <3>1. i + 1 \in On(n) /\ wire'[n][i] = wire[n][i + 1]
      BY <1>z
    <3> DEFINE w == wire[n][i + 1]
    <3>2. /\ IsReply(n, i + 1, "resume") => w.delivery \notin New /\ w.thread = ThreadOf[w.delivery]
          /\ IsReply(n, i + 1, "thread") => w.delivery \in New /\ w.thread \in Fresh \cup {None}
          /\ IsReply(n, i + 1, "turn") => w.reply # "idle"
               /\ (\A r \in requests : r.method = "turn" => r.delivery # w.delivery)
          /\ w.kind = "reply" /\ w.reply = "started" => w.method = "turn"
          /\ w.kind = "reply" /\ w.reply = "idle" => w.thread # None
          /\ w.kind = "completed" /\ w.status = "completed" => w.by \in finished \cup {Other}
      BY <1>0, <3>1 DEF RepliesKnown
    <3>3. \A method : IsReply(n, i, method)' <=> IsReply(n, i + 1, method)
      BY <3>1 DEF IsReply
    <3> QED BY <1>v, <3>1, <3>2, <3>3
  <2>3. ASSUME NEW i \in On(n)', NEW j \in On(n)', IsReply(n, i, "turn")', IsReply(n, j, "turn")',
               wire'[n][j].delivery = wire'[n][i].delivery
        PROVE  j = i
    <3>1. i + 1 \in On(n) /\ wire'[n][i] = wire[n][i + 1] /\ j + 1 \in On(n) /\ wire'[n][j] = wire[n][j + 1] /\ i \in Nat /\ j \in Nat
      BY <1>z
    <3>2. j + 1 = i + 1
      BY <1>0, <2>1, <2>3, <3>1 DEF RepliesKnown
    <3> QED BY <3>1, <3>2
  <2> QED BY <1>z, <2>1, <2>2, <2>3 DEF RepliesKnown, Starts
<1>18. ThreadsKnown'
  <2>t. PICK maker \in [Fresh -> Deliveries \cup {None}] : MadeBy(maker)
    BY <1>0 DEF ThreadsKnown
  <2>1. \A u \in Fresh, d \in Deliveries : call'[d].thread = u => u \in used /\ maker[u] = d
    BY <1>a, <2>t DEF MadeBy
  <2>2. \A u \in Fresh : \A k \in Conns : \A i \in On(k)' : wire'[k][i].thread = u =>
               u \in used /\ (wire'[k][i].kind = "reply" => maker[u] = wire'[k][i].delivery)
    BY <2>t, <1>z DEF MadeBy
  <2>3. \A u \in Fresh : (\A r \in requests : r.thread = u => u \in used /\ maker[u] = r.delivery) /\ (turn[u] # None => u \in used)
    BY <2>t DEF MadeBy
  <2>4. MadeBy(maker)'
    BY <1>v, <2>1, <2>2, <2>3 DEF MadeBy
  <2> QED BY <2>4 DEF ThreadsKnown
<1>19. WaitersKnown'
  <2>1. \A u \in AllThreads, d \in Deliveries : waiter'[u] = d =>
          call'[d].thread = u /\ call'[d].at \in {"starting", "running"} /\ call'[d].outcome = "none"
    BY <1>0, <1>10, <1>a DEF WaitersKnown
  <2>2. \A d \in Deliveries : call'[d].at \in {"starting", "running"} /\ call'[d].outcome = "none" =>
          waiter'[call'[d].thread] = d
    <3> SUFFICES ASSUME NEW d \in Deliveries, call'[d].at \in {"starting", "running"}, call'[d].outcome = "none"
                 PROVE  waiter'[call'[d].thread] = d
      OBVIOUS
    <3>1. d \notin A /\ call[d].at \in {"starting", "running"} /\ call[d].outcome = "none"
      BY <1>3, <1>a
    <3>2. waiter[call[d].thread] = d /\ call[d].thread \in AllThreads
      BY <1>0, <1>5, <3>1, CallTypes DEF WaitersKnown, CallsKnown
    <3> QED BY <1>10, <1>a, <3>1, <3>2
  <2> QED BY <2>1, <2>2 DEF WaitersKnown
<1>c. \A d \in Deliveries : call[d].at \in {"resuming", "starting", "running"} => call[d].conn = n
  BY <1>2, CallConn
<1>20. TurnsKnown'
  <2>1. ASSUME conn[n] = "open", NEW i \in On(n)', wire'[n][i].kind = "reply", wire'[n][i].reply = "started",
               NEW u, u = wire'[n][i].thread
        PROVE  turn[u] = wire'[n][i].delivery \/ EndsAfter(n, i, u)'
    <3>1. i + 1 \in On(n) /\ wire'[n][i] = wire[n][i + 1]
      BY <1>z
    <3>2. turn[u] = wire[n][i + 1].delivery \/ EndsAfter(n, i + 1, u)
      BY <1>0, <2>1, <3>1 DEF TurnsKnown
    <3> QED BY <1>e, <3>1, <3>2
  <2>2. ASSUME NEW d \in Deliveries,
               (call'[d].at = "starting" /\ call'[d].reply = "started") \/ call'[d].at = "running",
               call'[d].outcome = "none", conn[n] = "open", NEW u, u = call'[d].thread
        PROVE  turn[u] = d \/ EndsAfter(n, 0, u)'
    <3>1. d \notin A /\ call[d].outcome = "none" /\ u = call[d].thread
      BY <1>3, <1>a, <2>2
    <3>2. turn[u] = d \/ EndsAfter(n, 0, u)
      BY <1>0, <1>a, <1>c, <2>2, <3>1 DEF TurnsKnown
    <3>3. u # t
      BY <1>0, <1>7, <1>a, <2>2, <3>1 DEF WaitersKnown
    <3> QED BY <1>e, <3>2, <3>3
  <2>4. \A d \in Deliveries : call'[d].at \in {"starting", "running"} => call'[d].conn = n
    BY <1>a, <1>c
  <2>5. \A k \in Conns : conn'[k] = "open" => \A i \in On(k)' :
          wire'[k][i].kind = "reply" /\ wire'[k][i].reply = "started" =>
            \/ turn'[wire'[k][i].thread] = wire'[k][i].delivery
            \/ \E j \in On(k)' : j > i /\ wire'[k][j].kind = "completed" /\ wire'[k][j].thread = wire'[k][i].thread
    BY <1>v, <1>k, <2>1 DEF EndsAfter, IsEnd
  <2>6. \A d \in Deliveries :
          /\ (call'[d].at = "starting" /\ call'[d].reply = "started") \/ call'[d].at = "running"
          /\ call'[d].outcome = "none" /\ conn'[call'[d].conn] = "open"
          => \/ turn'[call'[d].thread] = d
             \/ \E j \in On(n)' : j > 0 /\ wire'[n][j].kind = "completed" /\ wire'[n][j].thread = call'[d].thread
    BY <1>v, <2>2, <2>4 DEF EndsAfter, IsEnd
  <2> QED BY <2>4, <2>5, <2>6 DEF TurnsKnown, EndsAfter, IsEnd, On
<1>21. IdleKnown'
  <2>1. ASSUME NEW u \in AllThreads \ OtherThreads, NEW i \in On(n)', IsAnswer(n, i, "idle", u)'
        PROVE  StartedAfter(n, i, u)' \/ (~EndsAfter(n, i, u)' /\ (conn[n] = "open" => turn[u] = None))
    <3>1. i + 1 \in On(n) /\ IsAnswer(n, i + 1, "idle", u)
      BY <1>z, <2>1 DEF IsAnswer
    <3>2. StartedAfter(n, i + 1, u) \/ (~EndsAfter(n, i + 1, u) /\ (conn[n] = "open" => turn[u] = None))
      BY <1>0, <3>1 DEF IdleKnown
    <3> QED BY <1>e, <3>2
  <2>2. ASSUME NEW d \in Deliveries, call'[d].at = "resuming", call'[d].reply = "idle", NEW u, u = call'[d].thread, Own(u)
        PROVE  ~EndsAfter(n, 0, u)' /\ (conn[n] = "open" => turn[u] = None)
    <3>1. ~EndsAfter(n, 0, u) /\ (conn[n] = "open" => turn[u] = None)
      BY <1>0, <1>a, <1>c, <2>2 DEF IdleKnown
    <3> QED BY <1>e, <3>1
  <2>3. ASSUME NEW d \in Deliveries, call'[d].at \in {"starting", "running"}, NEW u, u = call'[d].thread, Own(u)
        PROVE  /\ \A i \in On(n)' : IsEnd(n, i, u)' => wire'[n][i].by = d
               /\ conn[n] = "open" => turn[u] \in {None, d}
    <3>1. (\A i \in On(n) : IsEnd(n, i, u) => wire[n][i].by = d) /\ (conn[n] = "open" => turn[u] \in {None, d})
      BY <1>0, <1>a, <1>c, <2>3 DEF IdleKnown
    <3> QED BY <1>z, <3>1 DEF IsEnd
  <2>5. \A d \in Deliveries : call'[d].at \in {"resuming", "starting", "running"} => call'[d].conn = n
    BY <1>a, <1>c
  <2>6. \A k \in Conns : \A u \in AllThreads \ OtherThreads : \A i \in On(k)' : IsAnswer(k, i, "idle", u)' =>
          StartedAfter(k, i, u)' \/ (~EndsAfter(k, i, u)' /\ (conn'[k] = "open" => turn'[u] = None))
    BY <1>v, <1>k, <2>1
  <2>7. \A d \in Deliveries : call'[d].at = "resuming" /\ call'[d].reply = "idle" /\ call'[d].thread \notin OtherThreads =>
          /\ ~\E j \in On(n)' : j > 0 /\ wire'[n][j].kind = "completed" /\ wire'[n][j].thread = call'[d].thread
          /\ conn'[n] = "open" => turn'[call'[d].thread] = None
    BY <1>v, <2>2 DEF EndsAfter, IsEnd, Own
  <2>8. \A d \in Deliveries : call'[d].at \in {"starting", "running"} /\ call'[d].thread \notin OtherThreads =>
          /\ \A i \in On(n)' : wire'[n][i].kind = "completed" /\ wire'[n][i].thread = call'[d].thread => wire'[n][i].by = d
          /\ conn'[n] = "open" => turn'[call'[d].thread] \in {None, d}
    BY <1>v, <2>3 DEF IsEnd, Own
  <2> QED BY <2>5, <2>6, <2>7, <2>8 DEF IdleKnown, Own, EndsAfter, IsEnd, On
<1>22. OutcomesKnown'
  <2>1. ASSUME NEW d \in Deliveries, call'[d].outcome = "completed", Own(call'[d].thread) PROVE d \in finished
    <3>1. CASE d \in A
      <4>1. call[d].thread = t /\ call[d].at \in {"starting", "running"} /\ call[d].conn = n /\ m.status = "completed"
        BY <1>6, <1>a, <1>c, <2>1, <3>1
      <4>2. m.by = d
        BY <1>0, <1>3, <1>a, <1>i, <1>y, <2>1, <4>1 DEF IdleKnown
      <4> QED BY <1>b, <4>1, <4>2
    <3>2. CASE d \notin A
      BY <1>0, <1>a, <2>1, <3>2 DEF OutcomesKnown
    <3> QED BY <3>1, <3>2
  <2> QED BY <1>0, <1>v, <2>1 DEF OutcomesKnown, DeliveredIsDone, Own
<1> QED BY <1>12, <1>13, <1>14, <1>16, <1>17, <1>18, <1>19, <1>20, <1>21, <1>22 DEF AppServerInv

\* Whatever is received.
LEMMA ReceiveInv == ASSUME AppServerInv, NEW n \in Conns, Receive(n) PROVE AppServerInv'
<1>1. wire[n][1].kind \in {"reply", "completed"}
  <2>1. Shifted(n)
    BY ReceiveShifts DEF Receive
  <2> QED BY <2>1, MessageTypes DEF Shifted, AppServerInv
<1> QED BY <1>1, ReceiveReplyInv, ReceiveEndInv

\* Nothing changes the invariant but a step.
LEMMA StutterInv == ASSUME AppServerInv, UNCHANGED vars PROVE AppServerInv'
<1>1. row' = row /\ call' = call /\ waiter' = waiter /\ adapter' = adapter /\ conn' = conn /\ wire' = wire
      /\ requests' = requests /\ turn' = turn /\ finished' = finished /\ used' = used /\ faults' = faults /\ others' = others
  BY DEF vars
<1>2. TypeOK' /\ RowsKnown' /\ ConnectionKnown' /\ CallsKnown' /\ RequestsKnown'
  BY <1>1 DEF AppServerInv, TypeOK, RowsKnown, ConnectionKnown, CallsKnown, RequestsKnown, Starts, Alive
<1>3. RepliesKnown' /\ WaitersKnown' /\ OutcomesKnown'
  BY <1>1 DEF AppServerInv, RepliesKnown, WaitersKnown, OutcomesKnown, DeliveredIsDone, Starts, IsReply, On
<1>4. ThreadsKnown'
  <2>1. PICK maker \in [Fresh -> Deliveries \cup {None}] : MadeBy(maker)
    BY DEF AppServerInv, ThreadsKnown
  <2>2. MadeBy(maker)'
    BY <1>1, <2>1 DEF MadeBy, On
  <2> QED BY <2>2 DEF ThreadsKnown
<1>5. TurnsKnown' /\ IdleKnown'
  BY <1>1 DEF AppServerInv, TurnsKnown, IdleKnown, EndsAfter, StartedAfter, IsEnd, IsAnswer, On, Own
<1> QED BY <1>2, <1>3, <1>4, <1>5 DEF AppServerInv

\* Every step keeps the invariant.
LEMMA StepInv == AppServerInv /\ [Next]_vars => AppServerInv'
<1> SUFFICES ASSUME AppServerInv, [Next]_vars PROVE AppServerInv'
  OBVIOUS
<1>1. CASE UNCHANGED vars
  BY <1>1, StutterInv
<1>2. ASSUME NEW d \in Deliveries,
             \/ Deliver(d) \/ RunTurn(d) \/ TurnsAway(d) \/ Started(d) \/ StartRefused(d)
             \/ Finishes(d) \/ AskTimesOut(d) \/ TurnTimesOut(d)
      PROVE  AppServerInv'
  BY <1>2, DeliverInv, RunTurnInv, TurnsAwayInv, StartedInv, StartRefusedInv, FinishesInv, AskTimesOutInv, TurnTimesOutInv
<1>3. CASE Opens \/ OpenFails
  BY <1>3, OpensInv, OpenFailsInv
<1>4. ASSUME NEW r \in requests, Handles(r) \/ Declines(r) PROVE AppServerInv'
  BY <1>4, HandlesInv, DeclinesInv
<1>5. ASSUME NEW t \in AllThreads, TurnEnds(t) PROVE AppServerInv'
  BY <1>5, TurnEndsInv
<1>6. ASSUME NEW t \in OtherThreads, OtherStarts(t) PROVE AppServerInv'
  BY <1>6, OtherStartsInv
<1>7. ASSUME NEW n \in Conns, Receive(n) \/ ConnFails(n) PROVE AppServerInv'
  BY <1>7, ReceiveInv, ConnFailsInv
<1>8. CASE ServerDies
  BY <1>8, ServerDiesInv
<1>9. CASE Stops
  BY <1>9, StopsInv
<1> QED BY <1>1, <1>2, <1>3, <1>4, <1>5, <1>6, <1>7, <1>8, <1>9 DEF Next

\* AppServerInv is an invariant of the adapter, its connections and the server.
THEOREM AppServerInvariant == Spec => []AppServerInv
BY InitInv, StepInv, PTL DEF Spec

\* The adapter, its connections and the server keep their types.
THEOREM AppServerTypes == Spec => []TypeOK
<1>1. AppServerInv => TypeOK
  BY DEF AppServerInv
<1> QED BY <1>1, AppServerInvariant, PTL

\* What is reported as delivered has had a turn that completed.
THEOREM DeliveriesAreDone == Spec => []DeliveredIsDone
<1>1. AppServerInv => DeliveredIsDone
  BY DEF AppServerInv, OutcomesKnown
<1> QED BY <1>1, AppServerInvariant, PTL

\* No call waits for a turn whose end it can no longer hear.
THEOREM CompletionsAreHeard == Spec => []NoMissedCompletion
<1>1. AppServerInv => NoMissedCompletion
  <2> SUFFICES ASSUME AppServerInv PROVE NoMissedCompletion
    OBVIOUS
  <2>1. \A t \in AllThreads, d \in Deliveries : waiter[t] = d =>
          call[d].thread = t /\ call[d].at \in {"starting", "running"} /\ call[d].outcome = "none"
    BY DEF AppServerInv, WaitersKnown
  <2>2. ASSUME NEW d \in Deliveries, call[d].at = "running", call[d].outcome = "none", conn[call[d].conn] = "open"
        PROVE  /\ waiter[call[d].thread] = d
               /\ \/ turn[call[d].thread] = d
                  \/ \E i \in 1..Len(wire[call[d].conn]) :
                       wire[call[d].conn][i].kind = "completed" /\ wire[call[d].conn][i].thread = call[d].thread
    <3>1. waiter[call[d].thread] = d
      BY <2>2 DEF AppServerInv, WaitersKnown
    <3>2. turn[call[d].thread] = d \/ EndsAfter(call[d].conn, 0, call[d].thread)
      BY <2>2 DEF AppServerInv, TurnsKnown
    <3> QED BY <3>1, <3>2 DEF EndsAfter, IsEnd, On
  <2> QED BY <2>1, <2>2 DEF NoMissedCompletion
<1> QED BY <1>1, AppServerInvariant, PTL
=============================================================================
