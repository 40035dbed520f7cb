----------------------------- MODULE GmailSource -----------------------------
(***************************************************************************)
(* GmailImapSource (src/sources/gmail/source.ts): the loop of an instance  *)
(* that connects, catches up and then waits for notifications, each of     *)
(* which runs fetchNew beside those already running, and the watermark     *)
(* that is kept in the record of the source.                               *)
(*                                                                         *)
(* A message is <<epoch, uid>>: a mailbox that is made anew has another    *)
(* uidValidity and counts from 1.  An event is named after its message.    *)
(***************************************************************************)
EXTENDS SourceManager

CONSTANTS
  Fetches,  \* runs of fetchNew that may be under way at once
  MaxMail,  \* bound: messages of a mailbox
  MaxEpoch  \* bound: mailboxes

Uids == 1..MaxMail
Messages == (1..MaxEpoch) \X Uids

ASSUME GmailAssumption ==
  Messages \subseteq Events /\ MaxMail \in Nat /\ MaxEpoch \in Nat \ {0} /\ None \notin Nat

VARIABLES
  mailbox,  \* what the server has: its epoch, the messages 1..last
  mark,     \* the watermark of the record
  watch,    \* the loop of an instance, its connection and its copy of the watermark
  fetch,    \* the runs of fetchNew
  skipped,  \* history: messages that were there when the watch began, or that failed
  outlived  \* history: a run of fetchNew ended after its mailbox did

gmailVars == <<mailbox, mark, watch, fetch, skipped, outlived>>

NoMark == [epoch |-> 0, seen |-> None]
NoWatch == [at |-> "off", open |-> FALSE, notified |-> FALSE, mark |-> NoMark]
NoFetch == [inst |-> None, next |-> 1, upto |-> 0, top |-> 0, epoch |-> 0, main |-> FALSE]

Moves(i, place) == watch' = [watch EXCEPT ![i].at = place]

\* persistState: only a source that still has a record has a watermark.
Saves(m) == mark' = IF record THEN m ELSE mark

-----------------------------------------------------------------------------
(* The mail server. *)

Arrives ==
  /\ mailbox.last < MaxMail
  /\ mailbox' = [mailbox EXCEPT !.last = @ + 1]
  /\ watch' = [i \in Instances |-> [watch[i] EXCEPT
       !.notified = @ \/ (watch[i].open /\ watch[i].at \in {"catching", "idle"})]]
  /\ UNCHANGED <<mark, fetch, skipped, outlived, upsets>>

Recreated ==
  /\ Upset /\ mailbox.epoch < MaxEpoch
  /\ mailbox' = [epoch |-> mailbox.epoch + 1, last |-> 0]
  /\ watch' = [i \in Instances |-> [watch[i] EXCEPT !.open = FALSE, !.notified = FALSE]]
  /\ UNCHANGED <<mark, fetch, skipped, outlived>>

Drops(i) ==
  /\ Upset /\ watch[i].open
  /\ watch' = [watch EXCEPT ![i].open = FALSE, ![i].notified = FALSE]
  /\ UNCHANGED <<mailbox, mark, fetch, skipped, outlived>>

-----------------------------------------------------------------------------
(* The loop. *)

\* The options are there, and with them the client that a stop can log out; a stop
\* that came before has found none.
Connects(i) ==
  /\ watch[i].at = "options"
  /\ watch' = [watch EXCEPT ![i].at = "connecting", ![i].open = TRUE]
  /\ UNCHANGED <<mailbox, mark, fetch, skipped, outlived, upsets>>

NoToken(i) ==
  /\ watch[i].at = "options" /\ Upset
  /\ Moves(i, "sleeping")
  /\ UNCHANGED <<mailbox, mark, fetch, skipped, outlived>>

\* The watermark after the mailbox was opened: of another mailbox, or none yet, it
\* becomes the end of this one.
StartsAnew(i) == watch[i].mark.seen = None \/ watch[i].mark.epoch # mailbox.epoch

OpenedMark(i) == IF StartsAnew(i) THEN [epoch |-> mailbox.epoch, seen |-> mailbox.last] ELSE watch[i].mark

FetchNewFromSeen(i, f, seen, main) ==
  /\ fetch[f].inst = None
  /\ fetch' = [fetch EXCEPT ![f] = [inst |-> i, next |-> seen, upto |-> mailbox.last,
                                    top |-> seen, epoch |-> mailbox.epoch, main |-> main]]
FetchNew(i, f, seen, main) ==
  /\ fetch[f].inst = None
  /\ fetch' = [fetch EXCEPT ![f] = [inst |-> i, next |-> seen + 1, upto |-> mailbox.last,
                                    top |-> seen, epoch |-> mailbox.epoch, main |-> main]]

\* connectAndWatch from the open mailbox to the catch-up.
Opens(i, f) ==
  /\ watch[i].at = "connecting" /\ watch[i].open
  /\ watch' = [watch EXCEPT ![i].at = "catching", ![i].mark = OpenedMark(i)]
  /\ IF StartsAnew(i)
     THEN /\ Saves(OpenedMark(i))
          /\ skipped' = skipped \cup ({mailbox.epoch} \X (1..mailbox.last))
     ELSE UNCHANGED <<mark, skipped>>
  /\ FetchNew(i, f, OpenedMark(i).seen, TRUE)
  /\ UNCHANGED <<mailbox, outlived, upsets>>

\* 'exists': nobody listens before the catch-up is over.
Notified(i) ==
  /\ watch[i].notified /\ watch[i].open
  /\ watch' = [watch EXCEPT ![i].notified = FALSE]
  /\ IF watch[i].at = "idle" THEN \E f \in Fetches : FetchNew(i, f, watch[i].mark.seen, FALSE)
     ELSE UNCHANGED fetch
  /\ UNCHANGED <<mailbox, mark, skipped, outlived, upsets>>

\* The connection is closed: it could not be opened, or the watch is over.
Reconnects(i) ==
  /\ watch[i].at \in {"connecting", "idle"} /\ ~watch[i].open
  /\ Moves(i, "sleeping")
  /\ UNCHANGED <<mailbox, mark, fetch, skipped, outlived, upsets>>

Wakes(i) ==
  /\ watch[i].at = "sleeping"
  /\ Moves(i, IF Active(i) THEN "options" ELSE "ended")
  /\ UNCHANGED <<mailbox, mark, fetch, skipped, outlived, upsets>>

-----------------------------------------------------------------------------
(* fetchNew. *)

Frees(f) == fetch' = [fetch EXCEPT ![f] = NoFetch]

\* The next message: emitted, passed over as seen, or given up if it cannot be parsed or
\* the router throws.
Hands(f) ==
  LET r == fetch[f]  e == <<r.epoch, r.next>> IN
  /\ r.inst # None /\ r.next <= r.upto
  /\ IF r.next <= watch[r.inst].mark.seen
     THEN /\ fetch' = [fetch EXCEPT ![f].next = @ + 1]
          /\ UNCHANGED <<queued, skipped, upsets>>
     ELSE /\ fetch' = [fetch EXCEPT ![f].next = @ + 1, ![f].top = r.next]
          /\ \/ EmitsAll(e) /\ UNCHANGED <<skipped, upsets>>
             \/ EmitThrows(e) /\ skipped' = skipped \cup {e}
  /\ UNCHANGED <<mailbox, mark, watch, outlived>>

\* Over: the watermark moves up to the last message handed on, and a catch-up ends.
MarkedUpToEnd(f) == [epoch |-> watch[fetch[f].inst].mark.epoch, seen |-> mailbox.last]
MarkedUp(f) == [epoch |-> watch[fetch[f].inst].mark.epoch, seen |-> fetch[f].top]

FetchEnds(f) ==
  LET r == fetch[f]  i == r.inst  up == r.top > watch[i].mark.seen IN
  /\ i # None /\ r.next > r.upto
  /\ watch' = [watch EXCEPT ![i].mark = IF up THEN MarkedUp(f) ELSE @,
                            ![i].at = IF r.main THEN "idle" ELSE @]
  /\ IF up THEN Saves(MarkedUp(f)) ELSE UNCHANGED mark
  /\ outlived' = (outlived \/ r.epoch # watch[i].mark.epoch)
  /\ Frees(f)
  /\ UNCHANGED <<mailbox, skipped, upsets>>

\* It fails: its connection is closed, or the server refuses.  With it fails the loop's
\* connection, if it was the catch-up.
FetchFails(f) ==
  LET r == fetch[f] IN
  /\ r.inst # None
  /\ IF watch[r.inst].open THEN Upset ELSE UNCHANGED upsets
  /\ watch' = IF r.main THEN [watch EXCEPT ![r.inst].at = "sleeping", ![r.inst].open = FALSE] ELSE watch
  /\ Frees(f)
  /\ UNCHANGED <<mailbox, mark, skipped, outlived>>

-----------------------------------------------------------------------------
(* The instance's part of what the manager does. *)

\* start: the loop begins, with the watermark of the record.
GmailStarts(i) ==
  /\ watch' = [watch EXCEPT ![i] = [NoWatch EXCEPT !.at = "options", !.mark = mark]]
  /\ UNCHANGED <<mailbox, mark, fetch, skipped, outlived>>

\* stop: the client, if there is one, is logged out.
GmailStops(i) ==
  /\ watch' = [watch EXCEPT ![i].open = FALSE, ![i].notified = FALSE]
  /\ UNCHANGED <<mailbox, mark, fetch, skipped, outlived>>

LoopEnded(i) == watch[i].at = "ended"
GmailUnused(i) == watch[i].at \in {"off", "ended"} /\ \A f \in Fetches : fetch[f].inst # i

GmailForgets == mark' = NoMark /\ UNCHANGED <<mailbox, watch, fetch, skipped, outlived>>

GmailDies ==
  /\ watch' = [i \in Instances |-> NoWatch]
  /\ fetch' = [f \in Fetches |-> NoFetch]
  /\ UNCHANGED <<mailbox, mark, skipped, outlived>>

GmailInit ==
  /\ mailbox = [epoch |-> 1, last |-> 0] /\ mark = NoMark
  /\ watch = [i \in Instances |-> NoWatch]
  /\ fetch = [f \in Fetches |-> NoFetch]
  /\ skipped = {} /\ outlived = FALSE

Mark == [epoch: 0..MaxEpoch, seen: (0..MaxMail) \cup {None}]

GmailTypeOK ==
  /\ mailbox \in [epoch: 1..MaxEpoch, last: 0..MaxMail] /\ mark \in Mark
  /\ watch \in [Instances -> [at: {"off", "options", "connecting", "catching", "idle", "sleeping", "ended"},
                              open: BOOLEAN, notified: BOOLEAN, mark: Mark]]
  /\ fetch \in [Fetches -> [inst: Instances \cup {None}, next: 1..(MaxMail + 1), upto: 0..MaxMail,
                            top: 0..MaxMail, epoch: 0..MaxEpoch, main: BOOLEAN]]
  /\ skipped \subseteq Messages
=============================================================================
