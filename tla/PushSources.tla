----------------------------- MODULE PushSources -----------------------------
(***************************************************************************)
(* The sources that are sent their events: Slack's envelopes               *)
(* (src/sources/slack/source.ts), and the requests of GitHub and of other  *)
(* webhooks (src/sources/github/source.ts, src/sources/webhook/source.ts), *)
(* which arrive through the relay smee, the routes of the API or the       *)
(* ingress of its own.  Signatures are taken to be right; what a webhook   *)
(* source captures while its mapping is written is left out.               *)
(***************************************************************************)
EXTENDS SourceManager

CONSTANTS
  Workers,  \* envelopes and requests that may be at work at once
  Pushed,   \* the events that are sent
  Ignored   \* those among them that no event is made of

ASSUME PushAssumption == Ignored \subseteq Pushed /\ Pushed \subseteq Events

VARIABLES
  work,     \* the envelopes and requests at work
  answered  \* events acknowledged, or answered with 200

pushVars == <<work, answered>>

NoWork == [event |-> None, inst |-> None, at |-> "free", via |-> "none"]

Takes(w, e, i, place, via) ==
  /\ work[w] = NoWork /\ e \notin answered
  /\ work' = [work EXCEPT ![w] = [event |-> e, inst |-> i, at |-> place, via |-> via]]
  /\ UNCHANGED <<answered, queued, upsets>>

Ends(w) == work' = [work EXCEPT ![w] = NoWork]

-----------------------------------------------------------------------------
(* Slack sends an envelope, to any connected instance, until it is acknowledged. *)

Envelope(w, e, i) ==
  /\ kind = "slack" /\ Active(i)
  /\ Takes(w, e, i, IF e \in Ignored THEN "acking" ELSE "naming", "socket")

\* The names are resolved: the event is emitted, and only then acknowledged.
NamedEarly(w) ==
  /\ kind = "slack" /\ work[w].at = "naming"
  /\ \/ /\ EmitsAll(work[w].event)
        /\ work' = [work EXCEPT ![w].at = "acking"] /\ UNCHANGED upsets
     \/ EmitThrows(work[w].event) /\ work' = [work EXCEPT ![w].at = "acking"]
  /\ UNCHANGED answered
Named(w) ==
  /\ kind = "slack" /\ work[w].at = "naming"
  /\ \/ /\ EmitsAll(work[w].event)
        /\ work' = [work EXCEPT ![w].at = "acking"] /\ UNCHANGED upsets
     \/ EmitThrows(work[w].event) /\ Ends(w)
  /\ UNCHANGED answered

\* The acknowledgement arrives, or its socket is gone.
Acks(w) ==
  /\ work[w].at = "acking"
  /\ \/ answered' = answered \cup {work[w].event} /\ UNCHANGED upsets
     \/ Upset /\ UNCHANGED answered
  /\ Ends(w)
  /\ UNCHANGED queued

-----------------------------------------------------------------------------
(* Requests. *)

\* A GitHub instance serves nothing once it is stopped; the other does not ask.
Serves(i) == i # None /\ (Active(i) \/ kind = "webhook")

\* The relay hands a message to the instance that listens to its channel.
Relayed(w, e, i) ==
  /\ kind \in {"github", "webhook"} /\ Active(i)
  /\ Takes(w, e, i, "verifying", "smee")

\* The API's routes look the source up before they read the body, the ingress of its
\* own after it.
Posted(w, e) ==
  /\ kind \in {"github", "webhook"} /\ live # None
  /\ Takes(w, e, live, "reading", "http")

PostedToIngress(w, e) ==
  /\ kind = "github"
  /\ Takes(w, e, None, "reading", "http")

\* handleWebhook, up to the verification of the signature.
Read(w) ==
  LET i == IF work[w].inst = None THEN live ELSE work[w].inst IN
  /\ work[w].at = "reading"
  /\ IF Serves(i) THEN work' = [work EXCEPT ![w].at = "verifying", ![w].inst = i] ELSE Ends(w)
  /\ UNCHANGED <<answered, queued, upsets>>

\* From the verification on: the source is looked at once more.
VerifiedUnasked(w) ==
  /\ work[w].at = "verifying" /\ Ends(w)
  /\ IF work[w].event \in Ignored THEN UNCHANGED queued ELSE EmitsAll(work[w].event)
  /\ answered' = answered \cup {work[w].event}
  /\ UNCHANGED upsets
Verified(w) ==
  /\ work[w].at = "verifying" /\ Ends(w)
  /\ IF ~Serves(work[w].inst) THEN UNCHANGED <<queued, answered>>
     ELSE /\ IF work[w].event \in Ignored THEN UNCHANGED queued ELSE EmitsAll(work[w].event)
          /\ answered' = answered \cup {work[w].event}
  /\ UNCHANGED upsets

\* The router throws: 500 over HTTP, and the end of the daemon behind the relay, where
\* nobody handles the rejection.
Throws(w, via) ==
  /\ work[w].at = "verifying" /\ work[w].via = via
  /\ Serves(work[w].inst) /\ work[w].event \notin Ignored
  /\ EmitThrows(work[w].event)
  /\ UNCHANGED answered

Refused(w) == Throws(w, "http") /\ Ends(w)

-----------------------------------------------------------------------------
PushUnused(i) == \A w \in Workers : work[w].inst # i

PushDies == work' = [w \in Workers |-> NoWork] /\ UNCHANGED answered

PushInit == work = [w \in Workers |-> NoWork] /\ answered = {}

PushTypeOK ==
  /\ work \in [Workers -> [event: Pushed \cup {None}, inst: Instances \cup {None},
                           at: {"free", "naming", "acking", "reading", "verifying"},
                           via: {"none", "socket", "smee", "http"}]]
  /\ answered \subseteq Pushed
=============================================================================
