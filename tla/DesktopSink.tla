----------------------------- MODULE DesktopSink -----------------------------
(***************************************************************************)
(* CodexDesktopAdapter (src/sinks/codex-desktop.ts): deliveries to one     *)
(* conversation through the client of DesktopClient, with a durable        *)
(* receipt for each delivery identity.                                     *)
(*                                                                         *)
(* The queue calls again after a busy or unreachable answer and after a    *)
(* crash; two processes may share the state file.  A message that was sent *)
(* lives outside the process: it may reach the conversation after its call *)
(* failed or its process died.                                             *)
(***************************************************************************)
EXTENDS DesktopClient, Sequences

CONSTANTS
  Deliveries,  \* delivery identities
  Prompts,     \* their contents
  NoReceipt,
  MaxCrashes,  \* bound: processes that end and start again
  MaxCalls     \* bound: calls begun

ASSUME BoundAssumption == MaxCrashes \in Nat /\ MaxCalls \in Nat

VARIABLES
  receipts,   \* desktop_receipts
  job,        \* what each call is about
  messages,   \* sent and not yet taken by the application
  submitted,  \* the prompts the conversation got for each delivery
  crashes,    \* processes ended so far
  begun       \* calls begun so far

sinkVars == <<receipts, job, messages, submitted, crashes, begun>>
vars == <<clientVars, sinkVars>>

-----------------------------------------------------------------------------
Receipt == [prompt: Prompts, state: {"sending", "sent"}]

\* error: the state file is closed.
Answers == {"none", "ok", "true", "false", "busy", "unreachable", "permanent", "uncertain", "error"}

Job == [kind: {"deliver"}, delivery: Deliveries, prompt: Prompts, answer: Answers]
       \cup [kind: {"probe"}, answer: Answers]

ASSUME SentinelAssumption == NoReceipt \notin Receipt /\ None \notin Job

Message == [call: Calls, delivery: Deliveries, prompt: Prompts, epoch: 0..MaxEpoch]

\* Typing of the adapter and its client, and one receipt per identity.
TypeOK ==
  /\ ClientTypeOK
  /\ receipts \in [Deliveries -> Receipt \cup {NoReceipt}]
  /\ job \in [Calls -> Job \cup {None}]
  /\ messages \subseteq Message
  /\ submitted \in [Deliveries -> Seq(Prompts)]
  /\ crashes \in 0..MaxCrashes /\ begun \in 0..MaxCalls

Init ==
  /\ ClientInit
  /\ receipts = [d \in Deliveries |-> NoReceipt]
  /\ job = [c \in Calls |-> None]
  /\ messages = {}
  /\ submitted = [d \in Deliveries |-> <<>>]
  /\ crashes = 0 /\ begun = 0

-----------------------------------------------------------------------------
Says(c, answer) == job' = [job EXCEPT ![c].answer = answer]
Rest(c) == tool' = [tool EXCEPT ![c] = NoTool]
StateFileOpen(c) == client[ProcOf[c]].stage # "closed"

\* Mutant: a receipt left by a crash or a lost answer counts as sent.
SettledByAny(d, m) ==
  IF receipts[d] = NoReceipt THEN "none" ELSE IF receipts[d].prompt # m THEN "permanent" ELSE "ok"

\* What an existing receipt answers: other content, sent, or refused.
SettledBy(d, m) ==
  IF receipts[d] = NoReceipt THEN "none"
  ELSE IF receipts[d].prompt # m THEN "permanent"
  ELSE IF receipts[d].state = "sent" THEN "ok" ELSE "uncertain"

\* deliverToThread, up to the read of the conversation.  The daemon stops the
\* queue before it closes the adapter.
Deliver(c, d, m) ==
  LET known == SettledBy(d, m) IN
  /\ tool[c].at = "idle" /\ ~Closed(ProcOf[c]) /\ begun < MaxCalls
  /\ begun' = begun + 1
  /\ job' = [job EXCEPT ![c] = [kind |-> "deliver", delivery |-> d, prompt |-> m, answer |-> known]]
  /\ IF known # "none" THEN UNCHANGED <<client, tool>> ELSE StartTool(c, "read_thread")
  /\ UNCHANGED <<epoch, registration, receipts, messages, submitted, crashes>>

Probe(c) ==
  /\ tool[c].at = "idle" /\ ~Closed(ProcOf[c]) /\ begun < MaxCalls
  /\ begun' = begun + 1
  /\ job' = [job EXCEPT ![c] = [kind |-> "probe", answer |-> "none"]]
  /\ StartTool(c, "read_thread")
  /\ UNCHANGED <<epoch, registration, receipts, messages, submitted, crashes>>

HasRead(c) == tool[c].at = "done" /\ tool[c].name = "read_thread"

ProbeAnswers(c) ==
  /\ HasRead(c) /\ job[c].kind = "probe"
  /\ \E matches \in BOOLEAN : Says(c, IF tool[c].ok /\ matches THEN "true" ELSE "false")
  /\ Rest(c)
  /\ UNCHANGED <<epoch, registration, client, receipts, messages, submitted, crashes, begun>>

\* The conversation cannot be read, is another or is busy, the state file is closed,
\* or another owner wrote a receipt meanwhile.
Refuse(c) ==
  /\ HasRead(c) /\ job[c].kind = "deliver"
  /\ \/ ~tool[c].ok /\ Says(c, "unreachable")
     \/ tool[c].ok /\ Says(c, "permanent")
     \/ tool[c].ok /\ Says(c, "busy")
     \/ tool[c].ok /\ ~StateFileOpen(c) /\ Says(c, "error")
  /\ Rest(c)
  /\ UNCHANGED <<epoch, registration, client, receipts, messages, submitted, crashes, begun>>

\* INSERT OR IGNORE changes a row.
Claimable(c) == receipts[job[c].delivery] = NoReceipt

\* The message leaves with the request, if there is one.
Leaves(c) ==
  messages' = messages \cup
    {[call |-> x, delivery |-> job[x].delivery, prompt |-> job[x].prompt, epoch |-> tool'[x].gen.epoch] :
       x \in {y \in {c} : tool'[y].gen # None /\ tool'[y].name = "send_message"}}

\* An idle conversation: the receipt is written first, then the message sent, at
\* once or after a refresh the client is in.
Claim(c) ==
  /\ HasRead(c) /\ tool[c].ok /\ job[c].kind = "deliver" /\ StateFileOpen(c) /\ Claimable(c)
  /\ receipts' = [receipts EXCEPT ![job[c].delivery] = [prompt |-> job[c].prompt, state |-> "sending"]]
  /\ StartTool(c, "send_message")
  /\ Leaves(c)
  /\ UNCHANGED <<epoch, registration, job, submitted, crashes, begun>>

\* The application takes a message.  Its answer finds the call, or nobody.
Takes ==
  \E m \in messages :
    /\ m.epoch = epoch
    /\ messages' = messages \ {m}
    /\ submitted' = [submitted EXCEPT ![m.delivery] = Append(@, m.prompt)]
    /\ tool' = IF /\ tool[m.call].at \in {"trying", "again"} /\ Doing(m.call) = "send_message"
                  /\ job[m.call].delivery = m.delivery
               THEN [tool EXCEPT ![m.call].got = TRUE] ELSE tool
    /\ UNCHANGED <<epoch, registration, client, receipts, job, crashes, begun>>

Confirmed(c) == tool[c].ok /\ StateFileOpen(c)

\* The end of deliverToThread.
SendEnds(c) ==
  /\ tool[c].at = "done" /\ Doing(c) = "send_message"
  /\ IF Confirmed(c)
     THEN Says(c, "ok") /\ receipts' = [receipts EXCEPT ![job[c].delivery].state = "sent"]
     ELSE Says(c, "uncertain") /\ UNCHANGED receipts
  /\ Rest(c)
  /\ UNCHANGED <<epoch, registration, client, messages, submitted, crashes, begun>>

-----------------------------------------------------------------------------
\* The steps of the client.  A write that waited leaves when it goes on.
Continue(c) == (Resume(c) \/ Failed(c)) /\ Leaves(c) /\ UNCHANGED <<receipts, job, submitted, crashes, begun>>
Answer(c) == Answered(c) /\ UNCHANGED sinkVars

Refresh(p) == (FlightStarts(p) \/ Lock(p) \/ Selects(p) \/ RefreshFails(p) \/ Writes(p)) /\ UNCHANGED sinkVars
Close(p) == (CloseBegins(p) \/ GenerationCloses(p) \/ CloseReturns(p)) /\ UNCHANGED sinkVars

\* The application restarts with another pipe; what it had not taken is gone.
AppRestarts ==
  /\ epoch < MaxEpoch
  /\ epoch' = epoch + 1
  /\ messages' = {}
  /\ UNCHANGED <<registration, client, tool, receipts, job, submitted, crashes, begun>>

\* A process ends, with or without close(), and another takes its place: the
\* receipts, the registration and what was sent remain.
Restart(p) ==
  /\ crashes < MaxCrashes
  /\ crashes' = crashes + 1
  /\ client' = [client EXCEPT ![p] = FreshClient]
  /\ tool' = [c \in Calls |-> IF ProcOf[c] = p THEN NoTool ELSE tool[c]]
  /\ job' = [c \in Calls |-> IF ProcOf[c] = p THEN None ELSE job[c]]
  /\ UNCHANGED <<epoch, registration, receipts, messages, submitted, begun>>

Next ==
  \/ \E c \in Calls, d \in Deliveries, m \in Prompts : Deliver(c, d, m)
  \/ \E c \in Calls : \/ Probe(c) \/ ProbeAnswers(c) \/ Refuse(c) \/ Claim(c) \/ SendEnds(c)
                      \/ Continue(c) \/ Answer(c)
  \/ \E p \in Procs : Refresh(p) \/ Close(p) \/ Restart(p)
  \/ Takes \/ AppRestarts

Spec == Init /\ [][Next]_vars

-----------------------------------------------------------------------------
\* The conversation gets the prompt of a delivery at most once, over lost answers,
\* refreshes, restarts on either side and two owners of the state file.
AtMostOnce == \A d \in Deliveries : Len(submitted[d]) <= 1

\* A delivery answered as done, or with a receipt that says so, is in the conversation
\* with the content its receipt stands for.
DoneIsDone ==
  /\ \A c \in Calls : job[c] # None => (job[c].answer = "ok" =>
       submitted[job[c].delivery] = <<job[c].prompt>>)
  /\ \A d \in Deliveries : receipts[d] # NoReceipt /\ receipts[d].state = "sent" =>
       submitted[d] = <<receipts[d].prompt>>
=============================================================================
