------------------------------- MODULE Sources -------------------------------
(***************************************************************************)
(* One source of any kind: its record, the instances the manager has made  *)
(* of it, the mail server, Slack or webhooks at its other end, and the     *)
(* router behind it.  The daemon may die and start again at any time.      *)
(***************************************************************************)
EXTENDS GmailSource, PushSources

vars == <<sharedVars, gmailVars, pushVars>>

\* What an instance does is over: its name can be used again.
Unused(i) == GmailUnused(i) /\ PushUnused(i)

Starts(c) ==
  /\ \E i \in Instances :
       /\ Unused(i) /\ StartOne(c, i)
       /\ IF kind = "gmail" THEN GmailStarts(i) ELSE UNCHANGED gmailVars
  /\ UNCHANGED <<queued, upsets, pushVars>>

Stops(c) ==
  /\ StopOne(c)
  /\ IF kind = "gmail" /\ live # None THEN GmailStops(live) ELSE UNCHANGED gmailVars
  /\ UNCHANGED <<queued, upsets, pushVars>>

\* A stop awaits the end of the loop.
StopsDone(c) ==
  /\ StopReturns(c)
  /\ kind = "gmail" => LoopEnded(call[c].inst)
  /\ UNCHANGED <<queued, upsets, gmailVars, pushVars>>

\* The watermark goes with the record.
Removes(c) == Delete(c) /\ GmailForgets /\ UNCHANGED <<queued, upsets, pushVars>>

StartThrows(c) == kind # "gmail" /\ StartFails(c) /\ Upset /\ UNCHANGED <<queued, gmailVars, pushVars>>

Works(c) ==
  \/ Starts(c) \/ Stops(c) \/ StopsDone(c) \/ Removes(c) \/ StartThrows(c)
  \/ (StartNone(c) \/ StartReturns(c)) /\ UNCHANGED <<queued, upsets, gmailVars, pushVars>>

Asked(c) ==
  /\ \/ kind \in {"gmail", "slack"} /\ SetUp
     \/ kind \in {"github", "webhook"} /\ Begin(c, "setup")
     \/ \E op \in {"restart", "remove"} : Begin(c, op)
  /\ UNCHANGED <<queued, gmailVars, pushVars>>

Dies(c) == Reboot(c) /\ GmailDies /\ PushDies

Crash(c) == Upset /\ Dies(c) /\ UNCHANGED queued
Rejected(w, c) == Throws(w, "smee") /\ Dies(c)

Loop(i) ==
  /\ kind = "gmail"
  /\ Connects(i) \/ (\E f \in Fetches : Opens(i, f)) \/ Reconnects(i) \/ Wakes(i)
  /\ UNCHANGED <<managerVars, queued, pushVars>>

Hears(i) == kind = "gmail" /\ Notified(i) /\ UNCHANGED <<managerVars, queued, pushVars>>

Fetching(f) ==
  /\ kind = "gmail"
  /\ Hands(f) \/ ((FetchEnds(f) \/ FetchFails(f)) /\ UNCHANGED queued)
  /\ UNCHANGED <<managerVars, pushVars>>

Mail ==
  /\ kind = "gmail"
  /\ Arrives \/ Recreated \/ \E i \in Instances : Drops(i) \/ NoToken(i)
  /\ UNCHANGED <<managerVars, queued, pushVars>>

Push ==
  /\ \E w \in Workers :
       \/ \E e \in Pushed : PostedToIngress(w, e) \/ Posted(w, e)
                            \/ \E i \in Instances : Envelope(w, e, i) \/ Relayed(w, e, i)
       \/ Named(w) \/ Acks(w) \/ Read(w) \/ Verified(w) \/ Refused(w)
  /\ UNCHANGED <<managerVars, gmailVars>>

Init == ManagerInit /\ GmailInit /\ PushInit

Next ==
  \/ \E c \in Calls : Asked(c) \/ Works(c) \/ Crash(c) \/ \E w \in Workers : Rejected(w, c)
  \/ \E i \in Instances : Loop(i) \/ Hears(i)
  \/ \E f \in Fetches : Fetching(f)
  \/ Mail \/ Push

Spec == Init /\ [][Next]_vars

\* The event loop runs what is ready, and the mail server answers.
Fairness ==
  /\ \A c \in Calls : WF_vars(Works(c))
  /\ \A i \in Instances : WF_vars(Loop(i)) /\ WF_vars(Hears(i))
  /\ \A f \in Fetches : WF_vars(Fetching(f))

LiveSpec == Spec /\ Fairness

-----------------------------------------------------------------------------
\* The values of the variables.
TypeOK == ManagerTypeOK /\ GmailTypeOK /\ PushTypeOK

\* What Slack has an acknowledgement for, or the sender of a webhook a 200, is queued for
\* every route it matches, whatever was stopped, removed or repeated meanwhile: neither
\* sends it again.
AnsweredIsQueued == \A e \in answered \ Ignored : Matching[e] \X {e} \subseteq queued

\* No message is under the watermark that was not queued for every route it matches,
\* but those that were in the mailbox when the watch began and those that failed: a
\* restart or a reconnection begins after it, whichever instance wrote it, however many
\* runs of fetchNew overlapped.  (Unless one outlived its mailbox.)
WatermarkIsSafe ==
  mark.seen # None /\ ~outlived =>
    \A u \in 1..mark.seen : LET e == <<mark.epoch, u>> IN
      e \in skipped \/ Matching[e] \X {e} \subseteq queued

\* Once the last instance of a GitHub source is stopped, what it had taken before comes
\* to nothing, whether it read its request or verified it at the time.  (One whose start
\* failed is not stopped: the code leaves it active.)
StoppedIsSilent ==
  [][kind = "github" /\ (\A i \in Instances : ~Active(i)) => queued' = queued]_vars

\* A message that arrives behind the watermark is queued for its routes in the end, as
\* long as the connection holds.
MailIsHanded ==
  \A e \in Messages :
    (mark.seen # None /\ mark.epoch = e[1] /\ mailbox.epoch = e[1] /\ mark.seen < e[2] /\ e[2] <= mailbox.last)
      ~> (Matching[e] \X {e} \subseteq queued)
=============================================================================
