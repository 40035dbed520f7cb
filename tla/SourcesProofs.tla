---------------------------- MODULE SourcesProofs ----------------------------
(***************************************************************************)
(* Theorems about a source under its manager, for all calls, instances,    *)
(* mailboxes, fetches, requests and bounds: what is answered is queued,    *)
(* the watermark passes over nothing, and a stopped source is silent.      *)
(***************************************************************************)
EXTENDS Sources, TLAPS

-----------------------------------------------------------------------------
(* The strengthening: what the watermarks and fetches of Gmail know. *)

Handed(e) == e \in skipped \/ Matching[e] \X {e} \subseteq queued

\* All a watermark passes was handed on.
Passed(m) == m.seen # None => \A u \in 1..m.seen : Handed(<<m.epoch, u>>)

Running(f) == fetch[f].inst # None

\* A loop that has caught up is at the mailbox that is there, while its connection is.
WatchKnows(i) ==
  /\ watch[i].mark.seen # None => watch[i].mark.epoch \in 1..mailbox.epoch
  /\ watch[i].at \in {"catching", "idle"} => watch[i].mark.seen # None
  /\ watch[i].at \in {"catching", "idle"} /\ watch[i].open => watch[i].mark.epoch = mailbox.epoch

\* A fetch has handed on what it has gone past, unless its mailbox is over; a loop that
\* catches up does so by one fetch.
FetchKnows(f) ==
  Running(f) =>
    /\ watch[fetch[f].inst].mark.seen # None
    /\ fetch[f].epoch \in 1..watch[fetch[f].inst].mark.epoch
    /\ fetch[f].top < fetch[f].next
    /\ fetch[f].main => /\ watch[fetch[f].inst].at = "catching"
                        /\ \A g \in Fetches : fetch[g].inst = fetch[f].inst /\ fetch[g].main => g = f
    /\ ~outlived /\ fetch[f].epoch = watch[fetch[f].inst].mark.epoch =>
         \A u \in 1..(fetch[f].next - 1) : Handed(<<fetch[f].epoch, u>>)

AllPassed == ~outlived => Passed(mark) /\ \A i \in Instances : Passed(watch[i].mark)

MailInv ==
  /\ mark.seen # None => mark.epoch \in 1..mailbox.epoch
  /\ \A i \in Instances : WatchKnows(i)
  /\ \A f \in Fetches : FetchKnows(f)
  /\ AllPassed

-----------------------------------------------------------------------------
(* What envelopes and requests know. *)

Settled(e) == e \in Ignored \/ Matching[e] \X {e} \subseteq queued

WorkKnows(w) ==
  /\ work[w].at # "free" => work[w].event \in Pushed
  /\ work[w].at = "acking" => Settled(work[w].event)

PushInv == (\A w \in Workers : WorkKnows(w)) /\ \A e \in answered : Settled(e)

SourcesInv == TypeOK /\ MailInv /\ PushInv

-----------------------------------------------------------------------------
(* The router. *)

LEMMA Emits ==
  ASSUME NEW e \in Events, EmitsAll(e) \/ EmitThrows(e), ManagerTypeOK
  PROVE  /\ queued \subseteq queued' /\ queued' \subseteq Routes \X Events
         /\ EmitsAll(e) => Matching[e] \X {e} \subseteq queued'
<1>1. Matching[e] \subseteq Routes /\ queued \subseteq Routes \X Events
  BY ManagerAssumption DEF ManagerTypeOK
<1>2. Matching[e] \X {e} \subseteq Routes \X Events
  BY <1>1
<1>3. CASE EmitsAll(e)
  BY <1>1, <1>2, <1>3 DEF EmitsAll
<1>4. CASE EmitThrows(e)
  <2>1. PICK some \in SUBSET Matching[e] : some # Matching[e] /\ queued' = queued \cup (some \X {e})
    BY <1>4 DEF EmitThrows
  <2>2. some \X {e} \subseteq Routes \X Events
    BY <1>1, <2>1
  <2>3. EmitsAll(e) => Matching[e] \X {e} \subseteq queued'
    BY DEF EmitsAll
  <2> QED BY <1>1, <2>1, <2>2, <2>3
<1> QED BY <1>3, <1>4

LEMMA MoreHanded ==
  ASSUME queued \subseteq queued', skipped \subseteq skipped'
  PROVE  /\ \A e : Handed(e) => Handed(e)'
         /\ \A m : Passed(m) => Passed(m)'
<1>1. \A e : Handed(e) => Handed(e)'
  BY DEF Handed
<1>2. ASSUME NEW m, Passed(m)
      PROVE  Passed(m)'
  BY <1>1, <1>2 DEF Passed
<1> QED BY <1>1, <1>2

LEMMA PushStays ==
  ASSUME PushInv, PushTypeOK, UNCHANGED pushVars, queued \subseteq queued'
  PROVE  PushInv' /\ PushTypeOK'
<1>1. \A e : Settled(e) => Settled(e)'
  BY DEF Settled
<1> QED BY <1>1 DEF PushInv, PushTypeOK, WorkKnows, pushVars

-----------------------------------------------------------------------------
(* The manager. *)

CallPlaces == [op: {"none", "boot", "setup", "restart", "remove"},
               at: {"none", "stop", "stopping", "stopped", "starting"},
               inst: Instances \cup {None}]

LEMMA CallGoes ==
  ASSUME ManagerTypeOK, NEW c \in Calls, NEW place \in {"none", "stop", "stopping", "stopped", "starting"},
         NEW i \in Instances \cup {None}, Goes(c, place, i)
  PROVE  call' \in [Calls -> CallPlaces]
  BY ZenonT(30) DEF ManagerTypeOK, Goes, CallPlaces

LEMMA InstBecomes ==
  ASSUME ManagerTypeOK, NEW i, NEW s \in {"unused", "starting", "running", "stopping", "stopped", "failed"},
         inst' = [inst EXCEPT ![i] = s]
  PROVE  inst' \in [Instances -> {"unused", "starting", "running", "stopping", "stopped", "failed"}]
  BY DEF ManagerTypeOK

LEMMA ManagerKeeps ==
  ASSUME ManagerTypeOK, queued' = queued, NEW c \in Calls,
         \/ SetUp \/ (\E op \in {"setup", "restart", "remove"} : Begin(c, op))
         \/ StopOne(c) \/ StopReturns(c) \/ Delete(c)
         \/ (\E i \in Instances : StartOne(c, i)) \/ StartNone(c) \/ StartReturns(c) \/ StartFails(c) \/ Reboot(c)
  PROVE  ManagerTypeOK'
<1>1. /\ kind \in Kinds /\ record \in BOOLEAN /\ live \in Instances \cup {None}
      /\ call \in [Calls -> CallPlaces] /\ queued \subseteq Routes \X Events
      /\ inst \in [Instances -> {"unused", "starting", "running", "stopping", "stopped", "failed"}]
  BY DEF ManagerTypeOK, CallPlaces
<1>2. NoCall \in CallPlaces /\ call[c].inst \in Instances \cup {None}
  BY <1>1 DEF NoCall, CallPlaces
<1>3. SUFFICES /\ kind' \in Kinds /\ record' \in BOOLEAN /\ live' \in Instances \cup {None}
               /\ call' \in [Calls -> CallPlaces]
               /\ inst' \in [Instances -> {"unused", "starting", "running", "stopping", "stopped", "failed"}]
  BY <1>1 DEF ManagerTypeOK, CallPlaces
<1>4. CASE SetUp
  BY <1>1, <1>4 DEF SetUp
<1>5. ASSUME NEW op \in {"setup", "restart", "remove"}, Begin(c, op)
      PROVE  /\ kind' \in Kinds /\ record' \in BOOLEAN /\ live' \in Instances \cup {None}
             /\ call' \in [Calls -> CallPlaces]
             /\ inst' \in [Instances -> {"unused", "starting", "running", "stopping", "stopped", "failed"}]
  <2>1. [op |-> op, at |-> "stop", inst |-> None] \in CallPlaces
    BY DEF CallPlaces
  <2> QED BY <1>1, <1>5, <2>1 DEF Begin
<1>6. CASE StopOne(c)
  <2>1. CASE live = None
    BY <1>1, <1>6, <2>1, CallGoes DEF StopOne
  <2>2. CASE live # None
    BY <1>1, <1>6, <2>2, CallGoes, InstBecomes DEF StopOne
  <2> QED BY <2>1, <2>2
<1>7. CASE StopReturns(c)
  BY <1>1, <1>7, CallGoes, InstBecomes DEF StopReturns
<1>8. CASE Delete(c)
  BY <1>1, <1>2, <1>8 DEF Delete
<1>9. ASSUME NEW i \in Instances, StartOne(c, i)
      PROVE  /\ kind' \in Kinds /\ record' \in BOOLEAN /\ live' \in Instances \cup {None}
             /\ call' \in [Calls -> CallPlaces]
             /\ inst' \in [Instances -> {"unused", "starting", "running", "stopping", "stopped", "failed"}]
  BY <1>1, <1>9, CallGoes, InstBecomes DEF StartOne
<1>10. CASE StartNone(c)
  BY <1>1, <1>2, <1>10 DEF StartNone
<1>11. CASE StartReturns(c)
  BY <1>1, <1>2, <1>11, InstBecomes DEF StartReturns
<1>12. CASE StartFails(c)
  BY <1>1, <1>2, <1>12, InstBecomes DEF StartFails
<1>13. CASE Reboot(c)
  <2>1. [op |-> "boot", at |-> "stopped", inst |-> None] \in CallPlaces
    BY DEF CallPlaces
  <2> QED BY <1>1, <1>2, <1>13, <2>1 DEF Reboot
<1> QED BY <1>4, <1>5, <1>6, <1>7, <1>8, <1>9, <1>10, <1>11, <1>12, <1>13
-----------------------------------------------------------------------------
(* The values of Gmail's variables. *)

Watch == [at: {"off", "options", "connecting", "catching", "idle", "sleeping", "ended"},
          open: BOOLEAN, notified: BOOLEAN, mark: Mark]

Fetch == [inst: Instances \cup {None}, next: 1..(MaxMail + 1), upto: 0..MaxMail,
          top: 0..MaxMail, epoch: 0..MaxEpoch, main: BOOLEAN]

LEMMA GmailTypes ==
  ASSUME GmailTypeOK
  PROVE  /\ mailbox \in [epoch: 1..MaxEpoch, last: 0..MaxMail] /\ mark \in Mark
         /\ watch \in [Instances -> Watch] /\ fetch \in [Fetches -> Fetch] /\ skipped \subseteq Messages
         /\ mailbox.epoch \in 1..MaxEpoch /\ mailbox.last \in 0..MaxMail
         /\ \A i \in Instances : watch[i] \in Watch
         /\ \A f \in Fetches : fetch[f] \in Fetch
  BY DEF GmailTypeOK, Watch, Fetch

LEMMA WatchHas ==
  ASSUME NEW w \in Watch
  PROVE  /\ w.at \in {"off", "options", "connecting", "catching", "idle", "sleeping", "ended"}
         /\ w.open \in BOOLEAN /\ w.notified \in BOOLEAN /\ w.mark \in Mark
         /\ w.mark.epoch \in 0..MaxEpoch /\ w.mark.seen \in (0..MaxMail) \cup {None}
  BY DEF Watch, Mark

LEMMA FetchHas ==
  ASSUME NEW r \in Fetch
  PROVE  /\ r.inst \in Instances \cup {None} /\ r.next \in 1..(MaxMail + 1) /\ r.upto \in 0..MaxMail
         /\ r.top \in 0..MaxMail /\ r.epoch \in 0..MaxEpoch /\ r.main \in BOOLEAN
  BY DEF Fetch

LEMMA NothingYet ==
  /\ NoMark \in Mark /\ NoMark.seen = None
  /\ NoWatch \in Watch /\ NoWatch.at = "off" /\ NoWatch.open = FALSE /\ NoWatch.mark = NoMark
  /\ NoFetch \in Fetch /\ NoFetch.inst = None
  BY GmailAssumption DEF NoMark, NoWatch, NoFetch, Mark, Watch, Fetch

\* A fetch that goes on as its instance moves: the watermark does not go back, and a
\* catch-up remains one.
LEMMA FetchStays ==
  ASSUME GmailTypeOK, GmailTypeOK', NEW f \in Fetches, FetchKnows(f), fetch'[f] = fetch[f],
         Running(f) =>
           /\ watch'[fetch[f].inst].mark.seen # None
           /\ watch[fetch[f].inst].mark.epoch <= watch'[fetch[f].inst].mark.epoch
           /\ fetch[f].main => watch'[fetch[f].inst].at = "catching",
         \A g \in Fetches : fetch'[g] = fetch[g] \/ ~(fetch'[g].main /\ fetch'[g].inst = fetch[f].inst /\ fetch[f].main),
         outlived => outlived', queued \subseteq queued', skipped \subseteq skipped'
  PROVE  FetchKnows(f)'
<1>1. PICK r \in Fetch : r = fetch[f]
  BY GmailTypes
<1>2. SUFFICES ASSUME r.inst # None
               PROVE  FetchKnows(f)'
  BY <1>1 DEF FetchKnows, Running
<1>3. PICK i \in Instances : i = r.inst
  BY <1>1, <1>2, FetchHas
<1>4. /\ watch[i].mark.epoch \in 0..MaxEpoch /\ watch'[i].mark.epoch \in 0..MaxEpoch
      /\ watch[i].mark.epoch <= watch'[i].mark.epoch /\ watch'[i].mark.seen # None
      /\ r.main => watch'[i].at = "catching"
  <2>1. watch[i] \in Watch /\ watch'[i] \in Watch
    BY GmailTypes DEF GmailTypeOK, Watch
  <2> QED BY <1>1, <1>2, <1>3, <2>1, WatchHas DEF Running
<1>5. /\ r.epoch \in 1..watch[i].mark.epoch /\ r.top < r.next
      /\ r.main => \A g \in Fetches : fetch[g].inst = i /\ fetch[g].main => g = f
      /\ ~outlived /\ r.epoch = watch[i].mark.epoch => \A u \in 1..(r.next - 1) : Handed(<<r.epoch, u>>)
  BY <1>1, <1>2, <1>3 DEF FetchKnows, Running
<1>6. r.epoch \in 1..watch'[i].mark.epoch
  BY <1>4, <1>5, GmailAssumption
<1>7. r.main => \A g \in Fetches : fetch'[g].inst = i /\ fetch'[g].main => g = f
  BY <1>1, <1>3, <1>5
<1>8. ~outlived' /\ r.epoch = watch'[i].mark.epoch => \A u \in 1..(r.next - 1) : Handed(<<r.epoch, u>>)'
  <2>1. r.epoch = watch'[i].mark.epoch => r.epoch = watch[i].mark.epoch
    BY <1>4, <1>5, GmailAssumption
  <2> QED BY <1>5, <2>1, MoreHanded
<1>9. fetch'[f] = r /\ r.inst = i
  BY <1>1, <1>3
<1> QED BY <1>4, <1>5, <1>6, <1>7, <1>8, <1>9 DEF FetchKnows, Running

\* The router and its history may grow beside Gmail.
LEMMA MailStays ==
  ASSUME GmailTypeOK, MailInv, UNCHANGED <<mailbox, mark, watch, fetch, outlived>>,
         queued \subseteq queued', skipped \subseteq skipped', skipped' \subseteq Messages
  PROVE  GmailTypeOK' /\ MailInv'
<1>1. GmailTypeOK'
  BY DEF GmailTypeOK
<1>2. AllPassed'
  BY MoreHanded DEF MailInv, AllPassed
<1>3. ASSUME NEW f \in Fetches
      PROVE  FetchKnows(f)'
  <2>1. FetchKnows(f)
    BY DEF MailInv
  <2>2. Running(f) => watch[fetch[f].inst].mark.epoch <= watch'[fetch[f].inst].mark.epoch
    <3>1. Running(f) => fetch[f].inst \in Instances
      BY GmailTypes, FetchHas DEF Running
    <3>2. Running(f) => watch[fetch[f].inst].mark.epoch \in 0..MaxEpoch
      BY <3>1, GmailTypes, WatchHas
    <3> QED BY <3>2, GmailAssumption
  <2> QED BY <1>1, <2>1, <2>2, FetchStays DEF FetchKnows
<1>4. \A i \in Instances : WatchKnows(i)'
  BY DEF MailInv, WatchKnows
<1> QED BY <1>1, <1>2, <1>3, <1>4 DEF MailInv

LEMMA WatchBecomes ==
  ASSUME GmailTypeOK, NEW i \in Instances, NEW w \in Watch, watch' = [watch EXCEPT ![i] = w]
  PROVE  /\ watch' \in [Instances -> Watch] /\ watch'[i] = w
         /\ \A j \in Instances \ {i} : watch'[j] = watch[j]
  BY GmailTypes

\* Loops move without their watermarks and catch-ups.
LEMMA LoopsMove ==
  ASSUME GmailTypeOK, MailInv, mailbox' \in [epoch: 1..MaxEpoch, last: 0..MaxMail],
         watch' \in [Instances -> Watch],
         \A i \in Instances :
           /\ watch'[i].mark = watch[i].mark
           /\ watch'[i].at \in {"catching", "idle"} => watch'[i].at = watch[i].at
           /\ watch'[i].at \in {"catching", "idle"} /\ watch'[i].open => watch[i].open /\ mailbox'.epoch = mailbox.epoch
           /\ watch[i].at = "catching" => watch'[i].at = "catching",
         mailbox.epoch <= mailbox'.epoch,
         UNCHANGED <<mark, fetch, skipped, outlived, queued>>
  PROVE  GmailTypeOK' /\ MailInv'
<1>1. GmailTypeOK'
  BY DEF GmailTypeOK, Watch
<1>2. mailbox.epoch \in 1..MaxEpoch /\ mailbox'.epoch \in 1..MaxEpoch
  BY GmailTypes
<1>3. ASSUME NEW i \in Instances
      PROVE  WatchKnows(i)'
  <2>1. WatchKnows(i) /\ watch[i].mark.epoch \in 0..MaxEpoch
    BY GmailTypes, WatchHas DEF MailInv
  <2> QED BY <1>2, <2>1, GmailAssumption DEF WatchKnows
<1>4. ASSUME NEW f \in Fetches
      PROVE  FetchKnows(f)'
  <2>1. FetchKnows(f) /\ fetch[f] \in Fetch
    BY GmailTypes DEF MailInv
  <2>2. ASSUME Running(f)
        PROVE  /\ watch'[fetch[f].inst].mark.seen # None
               /\ watch[fetch[f].inst].mark.epoch <= watch'[fetch[f].inst].mark.epoch
               /\ fetch[f].main => watch'[fetch[f].inst].at = "catching"
    <3>1. PICK i \in Instances : i = fetch[f].inst
      BY <2>1, <2>2, FetchHas DEF Running
    <3>2. watch[i].mark.epoch \in 0..MaxEpoch
      BY GmailTypes, WatchHas
    <3> QED BY <2>1, <2>2, <3>1, <3>2, GmailAssumption DEF FetchKnows
  <2> QED BY <1>1, <2>1, <2>2, FetchStays
<1>5. mark'.seen # None => mark'.epoch \in 1..mailbox'.epoch
  <2>1. mark.epoch \in 0..MaxEpoch
    BY GmailTypes DEF Mark
  <2> QED BY <1>2, <2>1, GmailAssumption DEF MailInv
<1>6. AllPassed'
  BY MoreHanded DEF MailInv, AllPassed
<1> QED BY <1>1, <1>3, <1>4, <1>5, <1>6 DEF MailInv

\* One loop does, or is without a fetch for its catch-up.
LEMMA LoopMoves ==
  ASSUME GmailTypeOK, MailInv, NEW i \in Instances, NEW w \in Watch, watch' = [watch EXCEPT ![i] = w],
         w.mark = watch[i].mark,
         w.at \in {"catching", "idle"} => w.at = watch[i].at,
         w.open => watch[i].open \/ w.at \notin {"catching", "idle"},
         watch[i].at = "catching" => w.at = "catching",
         UNCHANGED <<mailbox, mark, fetch, skipped, outlived, queued>>
  PROVE  GmailTypeOK' /\ MailInv'
<1>1. /\ watch' \in [Instances -> Watch] /\ watch'[i] = w
      /\ \A j \in Instances \ {i} : watch'[j] = watch[j]
  BY WatchBecomes
<1>2. mailbox.epoch \in 1..MaxEpoch /\ mailbox' \in [epoch: 1..MaxEpoch, last: 0..MaxMail]
  BY GmailTypes
<1>3. mailbox.epoch <= mailbox'.epoch
  BY <1>2, GmailAssumption
<1> QED BY <1>1, <1>2, <1>3, LoopsMove
-----------------------------------------------------------------------------
(* The loop and the mail server. *)

LEMMA LoopPlaces ==
  ASSUME GmailTypeOK, MailInv, queued' = queued, NEW i \in Instances,
         Connects(i) \/ NoToken(i) \/ Reconnects(i) \/ Wakes(i) \/ Drops(i) \/ GmailStops(i)
  PROVE  GmailTypeOK' /\ MailInv'
<1> DEFINE moved(place) == [watch[i] EXCEPT !.at = place]
<1>1. watch \in [Instances -> Watch] /\ watch[i] \in Watch
  BY GmailTypes
<1>2. ASSUME NEW place \in {"options", "connecting", "sleeping", "ended"}
      PROVE  /\ moved(place) \in Watch /\ moved(place).at = place
             /\ moved(place).mark = watch[i].mark /\ moved(place).open = watch[i].open
             /\ Moves(i, place) => watch' = [watch EXCEPT ![i] = moved(place)]
  BY <1>1 DEF Watch, Moves
<1> HIDE DEF moved
<1>3. CASE Connects(i)
  <2> DEFINE w == [watch[i] EXCEPT !.at = "connecting", !.open = TRUE]
  <2>1. w \in Watch /\ w.at = "connecting" /\ w.mark = watch[i].mark
    BY <1>1 DEF Watch
  <2>2. watch' = [watch EXCEPT ![i] = w]
    BY <1>1, <1>3 DEF Connects
  <2> HIDE DEF w
  <2> QED BY <1>3, <2>1, <2>2, LoopMoves DEF Connects
<1>4. CASE NoToken(i)
  BY <1>2, <1>4, LoopMoves DEF NoToken
<1>5. CASE Reconnects(i)
  BY <1>2, <1>5, LoopMoves DEF Reconnects
<1>6. CASE Wakes(i)
  <2>1. PICK place \in {"options", "ended"} : Moves(i, place)
    BY <1>6 DEF Wakes
  <2> QED BY <1>2, <1>6, <2>1, LoopMoves DEF Wakes
<1>7. CASE Drops(i) \/ GmailStops(i)
  <2> DEFINE w == [watch[i] EXCEPT !.open = FALSE, !.notified = FALSE]
  <2>1. w \in Watch /\ w.at = watch[i].at /\ w.mark = watch[i].mark /\ w.open = FALSE
    BY <1>1 DEF Watch
  <2>2. watch' = [watch EXCEPT ![i] = w]
    BY <1>1, <1>7 DEF Drops, GmailStops
  <2> HIDE DEF w
  <2> QED BY <1>7, <2>1, <2>2, LoopMoves DEF Drops, GmailStops
<1> QED BY <1>3, <1>4, <1>5, <1>6, <1>7

LEMMA ServerMoves ==
  ASSUME GmailTypeOK, MailInv, queued' = queued, Arrives \/ Recreated
  PROVE  GmailTypeOK' /\ MailInv'
<1>1. /\ watch \in [Instances -> Watch] /\ mailbox \in [epoch: 1..MaxEpoch, last: 0..MaxMail]
      /\ mailbox.epoch \in 1..MaxEpoch /\ mailbox.last \in 0..MaxMail
  BY GmailTypes
<1>2. CASE Arrives
  <2>1. mailbox' \in [epoch: 1..MaxEpoch, last: 0..MaxMail] /\ mailbox'.epoch = mailbox.epoch
    BY <1>1, <1>2, GmailAssumption DEF Arrives
  <2>2. ASSUME NEW i \in Instances
        PROVE  /\ watch'[i] \in Watch /\ watch'[i].mark = watch[i].mark /\ watch'[i].at = watch[i].at
               /\ watch'[i].open = watch[i].open
    <3> DEFINE heard == watch[i].notified \/ (watch[i].open /\ watch[i].at \in {"catching", "idle"})
               w == [watch[i] EXCEPT !.notified = heard]
    <3>1. heard \in BOOLEAN /\ watch[i] \in Watch
      BY <1>1 DEF Watch
    <3>2. watch'[i] = w
      BY <1>2 DEF Arrives
    <3> HIDE DEF heard
    <3>3. w \in Watch /\ w.mark = watch[i].mark /\ w.at = watch[i].at /\ w.open = watch[i].open
      BY <3>1 DEF Watch
    <3> QED BY <3>2, <3>3
  <2>3. watch' \in [Instances -> Watch]
    BY <1>2, <2>2 DEF Arrives
  <2>4. mailbox.epoch <= mailbox'.epoch
    BY <1>1, <2>1, GmailAssumption
  <2> QED BY <1>2, <2>1, <2>2, <2>3, <2>4, LoopsMove DEF Arrives
<1>3. CASE Recreated
  <2>1. mailbox' \in [epoch: 1..MaxEpoch, last: 0..MaxMail] /\ mailbox.epoch <= mailbox'.epoch
    <3>1. mailbox' = [epoch |-> mailbox.epoch + 1, last |-> 0] /\ mailbox.epoch < MaxEpoch
      BY <1>3 DEF Recreated
    <3>2. mailbox.epoch + 1 \in 1..MaxEpoch /\ 0 \in 0..MaxMail /\ mailbox.epoch <= mailbox.epoch + 1
      BY <1>1, <3>1, GmailAssumption
    <3> QED BY <3>1, <3>2
  <2>2. ASSUME NEW i \in Instances
        PROVE  /\ watch'[i] \in Watch /\ watch'[i].mark = watch[i].mark /\ watch'[i].at = watch[i].at
               /\ watch'[i].open = FALSE
    <3> DEFINE w == [watch[i] EXCEPT !.open = FALSE, !.notified = FALSE]
    <3>1. watch'[i] = w
      BY <1>3 DEF Recreated
    <3>2. w \in Watch /\ w.mark = watch[i].mark /\ w.at = watch[i].at /\ w.open = FALSE
      BY <1>1 DEF Watch
    <3> QED BY <3>1, <3>2
  <2>3. watch' \in [Instances -> Watch]
    BY <1>3, <2>2 DEF Recreated
  <2> QED BY <1>3, <2>1, <2>2, <2>3, LoopsMove DEF Recreated
<1> QED BY <1>2, <1>3

-----------------------------------------------------------------------------
(* Fetches. *)

LEMMA FetchBecomes ==
  ASSUME GmailTypeOK, NEW f \in Fetches, NEW r \in Fetch, fetch' = [fetch EXCEPT ![f] = r]
  PROVE  /\ fetch' \in [Fetches -> Fetch] /\ fetch'[f] = r
         /\ \A g \in Fetches \ {f} : fetch'[g] = fetch[g]
  BY GmailTypes

\* A fetch begins behind its instance's watermark, of the mailbox that is there.
LEMMA FetchBegins ==
  ASSUME GmailTypeOK, NEW i \in Instances, NEW f \in Fetches, NEW seen \in 0..MaxMail, NEW main \in BOOLEAN,
         FetchNew(i, f, seen, main)
  PROVE  /\ ~Running(f) /\ fetch' \in [Fetches -> Fetch]
         /\ \A g \in Fetches \ {f} : fetch'[g] = fetch[g]
         /\ fetch'[f].inst = i /\ fetch'[f].next = seen + 1 /\ fetch'[f].top = seen
         /\ fetch'[f].epoch = mailbox.epoch /\ fetch'[f].main = main
<1> DEFINE r == [inst |-> i, next |-> seen + 1, upto |-> mailbox.last,
                 top |-> seen, epoch |-> mailbox.epoch, main |-> main]
<1>1. mailbox.epoch \in 1..MaxEpoch /\ mailbox.last \in 0..MaxMail
  BY GmailTypes
<1>2. r \in Fetch
  BY <1>1, GmailAssumption DEF Fetch
<1>3. /\ r.inst = i /\ r.next = seen + 1 /\ r.top = seen /\ r.epoch = mailbox.epoch /\ r.main = main
  OBVIOUS
<1>4. fetch' = [fetch EXCEPT ![f] = r] /\ ~Running(f)
  BY DEF FetchNew, Running
<1> HIDE DEF r
<1> QED BY <1>2, <1>3, <1>4, FetchBecomes

\* What is known after an instance has begun a fetch and has perhaps another watermark.
LEMMA FetchStarts ==
  ASSUME GmailTypeOK, GmailTypeOK', MailInv, NEW i \in Instances, NEW f \in Fetches, NEW seen \in 0..MaxMail,
         NEW main \in BOOLEAN, FetchNew(i, f, seen, main),
         mailbox' = mailbox, outlived' = outlived, queued \subseteq queued', skipped \subseteq skipped',
         \A j \in Instances \ {i} : watch'[j] = watch[j],
         NEW m, watch'[i].mark = m, m.seen = seen, m.epoch = mailbox.epoch,
         watch[i].mark.seen # None => watch[i].mark.epoch <= mailbox.epoch,
         ~outlived => Passed(m)',
         watch[i].at = "catching" => watch'[i].at = "catching",
         main => watch[i].at # "catching" /\ watch'[i].at = "catching"
  PROVE  \A g \in Fetches : FetchKnows(g)'
<1>1. /\ ~Running(f)
      /\ \A g \in Fetches \ {f} : fetch'[g] = fetch[g]
      /\ fetch'[f].inst = i /\ fetch'[f].next = seen + 1 /\ fetch'[f].top = seen
      /\ fetch'[f].epoch = mailbox.epoch /\ fetch'[f].main = main
  BY FetchBegins
<1>2. mailbox.epoch \in 1..MaxEpoch /\ seen # None
  BY GmailTypes, GmailAssumption
<1>3. ASSUME NEW g \in Fetches, g # f
      PROVE  FetchKnows(g)'
  <2>1. FetchKnows(g) /\ fetch[g] \in Fetch /\ fetch'[g] = fetch[g]
    BY <1>1, <1>3, GmailTypes DEF MailInv
  <2>2. ASSUME Running(g)
        PROVE  /\ watch'[fetch[g].inst].mark.seen # None
               /\ watch[fetch[g].inst].mark.epoch <= watch'[fetch[g].inst].mark.epoch
               /\ fetch[g].main => watch'[fetch[g].inst].at = "catching"
    <3>1. PICK j \in Instances : j = fetch[g].inst
      BY <2>1, <2>2, FetchHas DEF Running
    <3>2. watch[j].mark.epoch \in 0..MaxEpoch /\ watch[j].mark.seen # None
          /\ (fetch[g].main => watch[j].at = "catching")
      BY <2>1, <2>2, <3>1, GmailTypes, WatchHas DEF FetchKnows
    <3>3. CASE j = i
      BY <1>2, <3>1, <3>2, <3>3
    <3>4. CASE j # i
      BY <3>1, <3>2, <3>4, GmailAssumption
    <3> QED BY <3>3, <3>4
  <2>3. \A h \in Fetches : fetch'[h] = fetch[h] \/ ~(fetch'[h].main /\ fetch'[h].inst = fetch[g].inst /\ fetch[g].main)
    <3>1. ~(main /\ i = fetch[g].inst /\ fetch[g].main)
      <4>1. i # None
        BY ManagerAssumption
      <4> QED BY <2>1, <4>1 DEF FetchKnows, Running
    <3> QED BY <1>1, <3>1
  <2> QED BY <2>1, <2>2, <2>3, FetchStays
<1>4. FetchKnows(f)'
  <2>1. main => \A g \in Fetches : fetch'[g].inst = i /\ fetch'[g].main => g = f
    <3>1. ASSUME main, NEW g \in Fetches, g # f, fetch'[g].inst = i, fetch'[g].main
          PROVE  FALSE
      <4>1. FetchKnows(g) /\ fetch[g].inst = i /\ fetch[g].main
        BY <1>1, <3>1 DEF MailInv
      <4>2. i # None
        BY ManagerAssumption
      <4> QED BY <3>1, <4>1, <4>2 DEF FetchKnows, Running
    <3> QED BY <3>1
  <2>2. ~outlived => \A u \in 1..seen : Handed(<<mailbox.epoch, u>>)'
    BY <1>2 DEF Passed
  <2>3. fetch'[f].next - 1 = seen /\ fetch'[f].top < fetch'[f].next /\ fetch'[f].epoch \in 1..watch'[i].mark.epoch
    BY <1>1, <1>2, GmailAssumption
  <2> QED BY <1>1, <1>2, <2>1, <2>2, <2>3 DEF FetchKnows
<1> QED BY <1>3, <1>4
\* The watermarks after one of them moved.
LEMMA MarksKeep ==
  ASSUME MailInv, NEW i \in Instances, NEW m, watch'[i].mark = m, \A j \in Instances \ {i} : watch'[j] = watch[j],
         mark' = mark \/ mark' = m, mailbox' = mailbox, outlived => outlived',
         queued \subseteq queued', skipped \subseteq skipped',
         m.seen # None => m.epoch \in 1..mailbox.epoch, ~outlived' => Passed(m)'
  PROVE  AllPassed' /\ (mark'.seen # None => mark'.epoch \in 1..mailbox'.epoch)
<1>1. ~outlived' => Passed(mark)'
  <2>1. CASE mark' = mark
    BY <2>1, MoreHanded DEF MailInv, AllPassed
  <2>2. CASE mark' = m
    BY <2>2 DEF Passed, Handed
  <2> QED BY <2>1, <2>2
<1>2. ASSUME NEW j \in Instances, ~outlived'
      PROVE  Passed(watch[j].mark)'
  <2>1. CASE j = i
    BY <1>2, <2>1 DEF Passed, Handed
  <2>2. CASE j # i
    BY <1>2, <2>2, MoreHanded DEF MailInv, AllPassed
  <2> QED BY <2>1, <2>2
<1> QED BY <1>1, <1>2 DEF MailInv, AllPassed

LEMMA OtherWatches ==
  ASSUME MailInv, NEW i \in Instances, \A j \in Instances \ {i} : watch'[j] = watch[j], mailbox' = mailbox, WatchKnows(i)'
  PROVE  \A j \in Instances : WatchKnows(j)'
  BY DEF MailInv, WatchKnows

LEMMA OpensKeeps ==
  ASSUME GmailTypeOK, MailInv, queued' = queued, NEW i \in Instances, NEW f \in Fetches, Opens(i, f)
  PROVE  GmailTypeOK' /\ MailInv'
<1>1. PICK m : m = OpenedMark(i)
  OBVIOUS
<1>2. watch[i] \in Watch /\ mailbox.epoch \in 1..MaxEpoch /\ mailbox.last \in 0..MaxMail /\ WatchKnows(i)
  BY GmailTypes DEF MailInv
<1>3. m \in Mark /\ m.epoch = mailbox.epoch /\ m.seen \in 0..MaxMail
  <2>1. CASE StartsAnew(i)
    <3>1. m = [epoch |-> mailbox.epoch, seen |-> mailbox.last]
      BY <1>1, <2>1 DEF OpenedMark
    <3> QED BY <1>2, <3>1, GmailAssumption DEF Mark
  <2>2. CASE ~StartsAnew(i)
    BY <1>1, <1>2, <2>2, WatchHas DEF OpenedMark, StartsAnew
  <2> QED BY <2>1, <2>2
<1>4. m.seen # None
  BY <1>3, GmailAssumption
<1> DEFINE w == [watch[i] EXCEPT !.at = "catching", !.mark = m]
<1>5. w \in Watch /\ w.at = "catching" /\ w.mark = m /\ w.open = watch[i].open
  BY <1>2, <1>3 DEF Watch
<1>6. watch' = [watch EXCEPT ![i] = w]
  BY <1>1, GmailTypes DEF Opens
<1> HIDE DEF w
<1>7. /\ watch' \in [Instances -> Watch] /\ watch'[i] = w
      /\ \A j \in Instances \ {i} : watch'[j] = watch[j]
  BY <1>5, <1>6, WatchBecomes
<1>8. FetchNew(i, f, m.seen, TRUE) /\ mailbox' = mailbox /\ outlived' = outlived /\ watch[i].at = "connecting"
  BY <1>1 DEF Opens
<1>9. fetch' \in [Fetches -> Fetch]
  BY <1>3, <1>8, FetchBegins
<1>10. skipped \subseteq skipped' /\ skipped' \subseteq Messages
       /\ (StartsAnew(i) => {mailbox.epoch} \X (1..mailbox.last) \subseteq skipped')
  <2>1. {mailbox.epoch} \X (1..mailbox.last) \subseteq Messages
    BY <1>2, GmailAssumption DEF Messages, Uids
  <2> QED BY <2>1, GmailTypes DEF Opens
<1>11. mark' = mark \/ mark' = m
  BY <1>1 DEF Opens, Saves
<1>12. GmailTypeOK'
  BY <1>3, <1>7, <1>8, <1>9, <1>10, <1>11 DEF GmailTypeOK, Watch, Fetch
<1>13. ~outlived => Passed(m)'
  <2>1. CASE StartsAnew(i)
    <3>1. m.seen = mailbox.last
      BY <1>1, <2>1 DEF OpenedMark
    <3> QED BY <1>3, <1>10, <2>1, <3>1 DEF Passed, Handed
  <2>2. CASE ~StartsAnew(i)
    <3>1. m = watch[i].mark
      BY <1>1, <2>2 DEF OpenedMark
    <3> QED BY <1>10, <3>1, MoreHanded DEF MailInv, AllPassed
  <2> QED BY <2>1, <2>2
<1>14. WatchKnows(i)'
  BY <1>2, <1>3, <1>4, <1>5, <1>7, <1>8, GmailAssumption DEF WatchKnows
<1>15. \A g \in Fetches : FetchKnows(g)'
  <2>1. watch[i].mark.seen # None => watch[i].mark.epoch <= mailbox.epoch
    BY <1>2, WatchHas, GmailAssumption DEF WatchKnows
  <2> QED BY <1>3, <1>5, <1>7, <1>8, <1>10, <1>12, <1>13, <2>1, FetchStarts
<1>16. AllPassed' /\ (mark'.seen # None => mark'.epoch \in 1..mailbox'.epoch)
  <2>1. m.seen # None => m.epoch \in 1..mailbox.epoch
    BY <1>2, <1>3, GmailAssumption
  <2> QED BY <1>5, <1>7, <1>8, <1>10, <1>11, <1>13, <2>1, MarksKeep
<1> QED BY <1>7, <1>8, <1>12, <1>14, <1>15, <1>16, OtherWatches DEF MailInv

LEMMA NotifiedKeeps ==
  ASSUME GmailTypeOK, MailInv, queued' = queued, NEW i \in Instances, Notified(i)
  PROVE  GmailTypeOK' /\ MailInv'
<1>1. watch[i] \in Watch /\ mailbox.epoch \in 1..MaxEpoch /\ WatchKnows(i)
  BY GmailTypes DEF MailInv
<1> DEFINE w == [watch[i] EXCEPT !.notified = FALSE]
<1>2. w \in Watch /\ w.at = watch[i].at /\ w.mark = watch[i].mark /\ w.open = watch[i].open
  BY <1>1 DEF Watch
<1>3. watch' = [watch EXCEPT ![i] = w]
  BY DEF Notified
<1> HIDE DEF w
<1>4. UNCHANGED <<mailbox, mark, skipped, outlived>>
  BY DEF Notified
<1>5. CASE watch[i].at # "idle"
  BY <1>2, <1>3, <1>4, <1>5, LoopMoves DEF Notified
<1>6. CASE watch[i].at = "idle"
  <2>1. PICK f \in Fetches : FetchNew(i, f, watch[i].mark.seen, FALSE)
    BY <1>6 DEF Notified
  <2>2. /\ watch' \in [Instances -> Watch] /\ watch'[i] = w
        /\ \A j \in Instances \ {i} : watch'[j] = watch[j]
    BY <1>2, <1>3, WatchBecomes
  <2>3. PICK m : m = watch[i].mark
    OBVIOUS
  <2>4. m \in Mark /\ m.seen \in 0..MaxMail /\ m.epoch = mailbox.epoch /\ m.epoch \in 1..mailbox.epoch
    BY <1>1, <1>6, <2>3, WatchHas, GmailAssumption DEF WatchKnows, Notified
  <2>5. GmailTypeOK'
    <3>1. fetch' \in [Fetches -> Fetch]
      BY <2>1, <2>3, <2>4, FetchBegins
    <3> QED BY <1>4, <2>2, <3>1, GmailTypes DEF GmailTypeOK, Watch, Fetch
  <2>6. ~outlived => Passed(m)'
    BY <1>4, <2>3, MoreHanded DEF MailInv, AllPassed
  <2>7. \A g \in Fetches : FetchKnows(g)'
    <3>1. m.epoch <= mailbox.epoch
      BY <1>1, <2>4, GmailAssumption
    <3> QED BY <1>2, <1>4, <1>6, <2>1, <2>2, <2>3, <2>4, <2>5, <2>6, <3>1, FetchStarts
  <2>8. WatchKnows(i)'
    BY <1>1, <1>2, <1>4, <2>2 DEF WatchKnows
  <2>9. AllPassed' /\ (mark'.seen # None => mark'.epoch \in 1..mailbox'.epoch)
    BY <1>2, <1>4, <2>2, <2>3, <2>4, <2>6, MarksKeep
  <2> QED BY <1>4, <2>2, <2>5, <2>7, <2>8, <2>9, OtherWatches DEF MailInv
<1> QED BY <1>5, <1>6

\* A fetch goes on by a message that was handed on.
LEMMA FetchGoesOn ==
  ASSUME GmailTypeOK, GmailTypeOK', MailInv, NEW f \in Fetches, Running(f), NEW r \in Fetch,
         fetch' = [fetch EXCEPT ![f] = r],
         r.inst = fetch[f].inst, r.epoch = fetch[f].epoch, r.main = fetch[f].main,
         r.next = fetch[f].next + 1, r.top <= fetch[f].next,
         UNCHANGED <<mailbox, mark, watch, outlived>>, queued \subseteq queued', skipped \subseteq skipped',
         NEW e, e = <<fetch[f].epoch, fetch[f].next>>,
         ~outlived /\ fetch[f].epoch = watch[fetch[f].inst].mark.epoch => Handed(e)'
  PROVE  MailInv'
<1>1. fetch' \in [Fetches -> Fetch] /\ fetch'[f] = r /\ \A g \in Fetches \ {f} : fetch'[g] = fetch[g]
  BY FetchBecomes
<1>2. fetch[f] \in Fetch /\ FetchKnows(f)
  BY GmailTypes DEF MailInv
<1>3. PICK i \in Instances : i = fetch[f].inst
  BY <1>2, FetchHas DEF Running
<1>4. /\ fetch[f].next \in 1..(MaxMail + 1) /\ r.top \in 0..MaxMail
      /\ r.next - 1 = fetch[f].next /\ r.top < r.next
  BY <1>2, FetchHas, GmailAssumption
<1>5. FetchKnows(f)'
  <2>1. r.main => \A g \in Fetches : fetch'[g].inst = i /\ fetch'[g].main => g = f
    BY <1>1, <1>2, <1>3 DEF FetchKnows
  <2>2. ~outlived /\ r.epoch = watch[i].mark.epoch => \A u \in 1..(r.next - 1) : Handed(<<r.epoch, u>>)'
    <3>1. ASSUME ~outlived, r.epoch = watch[i].mark.epoch, NEW u \in 1..(r.next - 1)
          PROVE  Handed(<<r.epoch, u>>)'
      <4>1. CASE u = fetch[f].next
        BY <1>3, <3>1, <4>1 DEF Handed
      <4>2. CASE u # fetch[f].next
        <5>1. u \in 1..(fetch[f].next - 1)
          BY <1>4, <4>2, GmailAssumption
        <5> QED BY <1>2, <1>3, <3>1, <5>1, MoreHanded DEF FetchKnows
      <4> QED BY <4>1, <4>2
    <3> QED BY <3>1
  <2> QED BY <1>1, <1>2, <1>3, <1>4, <2>1, <2>2 DEF FetchKnows, Running
<1>6. ASSUME NEW g \in Fetches, g # f
      PROVE  FetchKnows(g)'
  <2>1. FetchKnows(g) /\ fetch[g] \in Fetch /\ fetch'[g] = fetch[g]
    BY <1>1, <1>6, GmailTypes DEF MailInv
  <2>2. Running(g) => watch[fetch[g].inst].mark.epoch <= watch'[fetch[g].inst].mark.epoch
    <3>1. Running(g) => watch[fetch[g].inst].mark.epoch \in 0..MaxEpoch
      BY <2>1, GmailTypes, FetchHas, WatchHas DEF Running
    <3> QED BY <3>1, GmailAssumption
  <2>3. \A h \in Fetches : fetch'[h] = fetch[h] \/ ~(fetch'[h].main /\ fetch'[h].inst = fetch[g].inst /\ fetch[g].main)
    BY <1>1, <1>2, <1>3, <1>6 DEF FetchKnows
  <2> QED BY <2>1, <2>2, <2>3, FetchStays DEF FetchKnows
<1>7. AllPassed'
  BY MoreHanded DEF MailInv, AllPassed
<1> QED BY <1>5, <1>6, <1>7 DEF MailInv, WatchKnows
LEMMA HandsKeeps ==
  ASSUME ManagerTypeOK, GmailTypeOK, MailInv, NEW f \in Fetches, Hands(f)
  PROVE  /\ GmailTypeOK' /\ MailInv'
         /\ queued \subseteq queued' /\ queued' \subseteq Routes \X Events
<1>1. PICK r \in Fetch : r = fetch[f]
  BY GmailTypes
<1>2. Running(f) /\ r.inst # None /\ r.next <= r.upto
  BY <1>1 DEF Hands, Running
<1>3. PICK i \in Instances : i = r.inst
  BY <1>1, <1>2, FetchHas
<1>4. /\ r.next \in 1..MaxMail /\ r.upto \in 0..MaxMail /\ r.top \in 0..MaxMail /\ r.epoch \in 1..MaxEpoch
      /\ r.top < r.next /\ r.next + 1 \in 1..(MaxMail + 1)
  <2>1. r.epoch \in 1..watch[i].mark.epoch /\ r.top < r.next
    BY <1>1, <1>2, <1>3 DEF MailInv, FetchKnows
  <2>2. watch[i].mark.epoch \in 0..MaxEpoch
    BY GmailTypes, WatchHas
  <2> QED BY <1>2, <2>1, <2>2, FetchHas, GmailAssumption
<1>5. PICK e : e = <<r.epoch, r.next>>
  OBVIOUS
<1>6. e \in Events /\ e \in Messages
  BY <1>4, <1>5, GmailAssumption DEF Messages, Uids
<1>7. UNCHANGED <<mailbox, mark, watch, outlived>> /\ fetch \in [Fetches -> Fetch]
  BY GmailTypes DEF Hands
<1>8. CASE r.next <= watch[i].mark.seen
  <2> DEFINE r2 == [r EXCEPT !.next = r.next + 1]
  <2>1. /\ r2 \in Fetch /\ r2.inst = r.inst /\ r2.epoch = r.epoch /\ r2.main = r.main
        /\ r2.next = r.next + 1 /\ r2.top = r.top
    BY <1>4 DEF Fetch
  <2>2. fetch' = [fetch EXCEPT ![f] = r2] /\ UNCHANGED <<queued, skipped>>
    BY <1>1, <1>3, <1>7, <1>8 DEF Hands
  <2> HIDE DEF r2
  <2>3. GmailTypeOK'
    BY <1>7, <2>1, <2>2, FetchBecomes DEF GmailTypeOK, Fetch
  <2>4. ~outlived /\ r.epoch = watch[i].mark.epoch => Handed(e)'
    <3>1. ASSUME ~outlived, r.epoch = watch[i].mark.epoch
          PROVE  Handed(e)
      <4>1. watch[i].mark.seen \in 0..MaxMail
        <5>1. watch[i].mark.seen # None
          BY <1>1, <1>2, <1>3 DEF MailInv, FetchKnows
        <5> QED BY <5>1, GmailTypes, WatchHas
      <4>2. r.next \in 1..watch[i].mark.seen /\ watch[i].mark.seen # None
        BY <1>4, <1>8, <4>1, GmailAssumption
      <4> QED BY <1>5, <3>1, <4>2 DEF MailInv, AllPassed, Passed
    <3> QED BY <2>2, <3>1, MoreHanded
  <2>5. r2.top <= r.next
    BY <1>4, <2>1, GmailAssumption
  <2>6. MailInv'
    BY <1>1, <1>2, <1>3, <1>5, <1>7, <2>1, <2>2, <2>3, <2>4, <2>5, FetchGoesOn
  <2> QED BY <2>2, <2>3, <2>6 DEF ManagerTypeOK
<1>9. CASE ~(r.next <= watch[i].mark.seen)
  <2> DEFINE r2 == [r EXCEPT !.next = r.next + 1, !.top = r.next]
  <2>1. /\ r2 \in Fetch /\ r2.inst = r.inst /\ r2.epoch = r.epoch /\ r2.main = r.main
        /\ r2.next = r.next + 1 /\ r2.top = r.next
    <3>1. r.next \in 0..MaxMail /\ r.next + 1 \in 1..(MaxMail + 1)
      BY <1>4, GmailAssumption
    <3> QED BY <3>1 DEF Fetch
  <2>2. fetch' = [fetch EXCEPT ![f] = r2]
    BY <1>1, <1>3, <1>7, <1>9 DEF Hands
  <2> HIDE DEF r2
  <2>3. \/ EmitsAll(e) /\ UNCHANGED skipped
        \/ EmitThrows(e) /\ skipped' = skipped \cup {e}
    BY <1>1, <1>3, <1>5, <1>9 DEF Hands
  <2>4. /\ queued \subseteq queued' /\ queued' \subseteq Routes \X Events
        /\ EmitsAll(e) => Matching[e] \X {e} \subseteq queued'
    BY <1>6, <2>3, Emits
  <2>5. Handed(e)' /\ skipped \subseteq skipped' /\ skipped' \subseteq Messages
    BY <1>6, <2>3, <2>4, GmailTypes DEF Handed
  <2>6. GmailTypeOK'
    BY <1>7, <2>1, <2>2, <2>5, FetchBecomes DEF GmailTypeOK, Fetch
  <2>7. r2.top <= r.next
    BY <1>4, <2>1, GmailAssumption
  <2>8. MailInv'
    BY <1>1, <1>2, <1>3, <1>5, <1>7, <2>1, <2>2, <2>4, <2>5, <2>6, <2>7, FetchGoesOn
  <2> QED BY <2>4, <2>6, <2>8
<1> QED BY <1>8, <1>9

\* A fetch is over, and its instance's watermark and place are what they are then.
LEMMA FetchIsOver ==
  ASSUME GmailTypeOK, MailInv, NEW f \in Fetches, Frees(f), NEW i \in Instances, i = fetch[f].inst,
         NEW w \in Watch, watch' = [watch EXCEPT ![i] = w],
         w.mark.seen # None, w.mark.epoch = watch[i].mark.epoch,
         w.at = watch[i].at \/ (fetch[f].main /\ w.at \in {"idle", "sleeping"}),
         w.open => watch[i].open,
         mark' = mark \/ mark' = w.mark, outlived => outlived',
         ~outlived' => Passed(w.mark),
         UNCHANGED <<mailbox, skipped, queued>>
  PROVE  GmailTypeOK' /\ MailInv'
<1>1. /\ watch' \in [Instances -> Watch] /\ watch'[i] = w
      /\ \A j \in Instances \ {i} : watch'[j] = watch[j]
  BY WatchBecomes
<1>2. /\ fetch' \in [Fetches -> Fetch] /\ fetch'[f] = NoFetch
      /\ \A g \in Fetches \ {f} : fetch'[g] = fetch[g]
  BY NothingYet, FetchBecomes DEF Frees
<1>3. /\ mailbox.epoch \in 1..MaxEpoch /\ watch[i] \in Watch /\ WatchKnows(i) /\ FetchKnows(f)
      /\ watch[i].mark.epoch \in 0..MaxEpoch /\ w.mark \in Mark
  BY GmailTypes, WatchHas DEF MailInv
<1>4. Running(f) /\ watch[i].mark.seen # None /\ (fetch[f].main => watch[i].at = "catching")
  BY <1>3, ManagerAssumption DEF FetchKnows, Running
<1>5. GmailTypeOK'
  BY <1>1, <1>2, <1>3 DEF GmailTypeOK, Watch, Fetch
<1>6. WatchKnows(i)'
  BY <1>1, <1>3, <1>4 DEF WatchKnows
<1>7. ASSUME NEW g \in Fetches
      PROVE  FetchKnows(g)'
  <2>1. CASE g = f
    BY <1>2, <2>1, NothingYet DEF FetchKnows, Running
  <2>2. CASE g # f
    <3>1. FetchKnows(g) /\ fetch[g] \in Fetch /\ fetch'[g] = fetch[g]
      BY <1>2, <2>2, GmailTypes DEF MailInv
    <3>2. ASSUME Running(g)
          PROVE  /\ watch'[fetch[g].inst].mark.seen # None
                 /\ watch[fetch[g].inst].mark.epoch <= watch'[fetch[g].inst].mark.epoch
                 /\ fetch[g].main => watch'[fetch[g].inst].at = "catching"
      <4>1. PICK j \in Instances : j = fetch[g].inst
        BY <3>1, <3>2, FetchHas DEF Running
      <4>2. /\ watch[j].mark.epoch \in 0..MaxEpoch /\ watch[j].mark.seen # None
            /\ fetch[g].main => watch[j].at = "catching" /\ ~(j = i /\ fetch[f].main)
        BY <2>2, <3>1, <3>2, <4>1, GmailTypes, WatchHas DEF FetchKnows
      <4>3. CASE j = i
        BY <1>1, <1>3, <4>1, <4>2, <4>3, GmailAssumption
      <4>4. CASE j # i
        BY <1>1, <4>1, <4>2, <4>4, GmailAssumption
      <4> QED BY <4>3, <4>4
    <3>3. \A h \in Fetches : fetch'[h] = fetch[h] \/ ~(fetch'[h].main /\ fetch'[h].inst = fetch[g].inst /\ fetch[g].main)
      BY <1>2, NothingYet DEF NoFetch
    <3> QED BY <1>5, <3>1, <3>2, <3>3, FetchStays
  <2> QED BY <2>1, <2>2
<1>8. AllPassed' /\ (mark'.seen # None => mark'.epoch \in 1..mailbox'.epoch)
  <2>1. PICK m : m = w.mark
    OBVIOUS
  <2>2. ~outlived' => Passed(m)'
    BY <2>1, MoreHanded
  <2>3. m.seen # None => m.epoch \in 1..mailbox.epoch
    BY <1>3, <1>4, <2>1 DEF WatchKnows
  <2> QED BY <1>1, <2>1, <2>2, <2>3, MarksKeep
<1> QED BY <1>1, <1>5, <1>6, <1>7, <1>8, OtherWatches DEF MailInv

LEMMA FetchEndsKeeps ==
  ASSUME GmailTypeOK, MailInv, queued' = queued, NEW f \in Fetches, FetchEnds(f)
  PROVE  GmailTypeOK' /\ MailInv'
<1>1. PICK r \in Fetch : r = fetch[f]
  BY GmailTypes
<1>2. PICK i \in Instances : i = r.inst
  BY <1>1, FetchHas DEF FetchEnds
<1>3. Running(f) /\ FetchKnows(f) /\ watch[i] \in Watch /\ watch \in [Instances -> Watch]
  BY <1>1, <1>2, GmailTypes, ManagerAssumption DEF MailInv, Running
<1>4. watch[i].mark.seen \in 0..MaxMail /\ watch[i].mark.epoch \in 0..MaxEpoch /\ watch[i].mark \in Mark
      /\ watch[i].mark.seen # None
  BY <1>1, <1>2, <1>3, WatchHas DEF FetchKnows
<1> DEFINE up == r.top > watch[i].mark.seen
           m == IF up THEN MarkedUp(f) ELSE watch[i].mark
           a == IF r.main THEN "idle" ELSE watch[i].at
           w == [watch[i] EXCEPT !.mark = m, !.at = a]
<1>5. m \in Mark /\ m.seen # None /\ m.epoch = watch[i].mark.epoch
  <2>1. MarkedUp(f) \in Mark /\ MarkedUp(f).seen = r.top /\ MarkedUp(f).epoch = watch[i].mark.epoch
    BY <1>1, <1>2, <1>4, FetchHas DEF MarkedUp, Mark
  <2>2. r.top \in 0..MaxMail /\ r.top # None
    BY FetchHas, GmailAssumption
  <2> QED BY <1>4, <2>1, <2>2
<1>6. watch' = [watch EXCEPT ![i] = w]
  BY <1>1, <1>2, <1>3 DEF FetchEnds
<1>7. mark' = mark \/ mark' = m
  BY <1>1, <1>2 DEF FetchEnds, Saves
<1>8. ~outlived' => Passed(m)
  <2>1. CASE up
    <3>1. m.seen = r.top /\ m.epoch = watch[i].mark.epoch
      BY <1>1, <1>2, <2>1 DEF MarkedUp
    <3>2. ~outlived' => ~outlived /\ r.epoch = watch[i].mark.epoch
      BY <1>1, <1>2 DEF FetchEnds
    <3>3. r.top \in 0..MaxMail /\ r.next \in 1..(MaxMail + 1) /\ r.top < r.next
      BY <1>1, <1>3, FetchHas DEF FetchKnows
    <3>4. 1..r.top \subseteq 1..(r.next - 1)
      BY <3>3, GmailAssumption
    <3>5. ~outlived' => \A u \in 1..(r.next - 1) : Handed(<<r.epoch, u>>)
      BY <1>1, <1>2, <1>3, <3>2 DEF FetchKnows
    <3> QED BY <3>1, <3>2, <3>4, <3>5 DEF Passed
  <2>2. CASE ~up
    BY <2>2 DEF MailInv, AllPassed, FetchEnds
  <2> QED BY <2>1, <2>2
<1>9. a \in {"off", "options", "connecting", "catching", "idle", "sleeping", "ended"}
      /\ (a = watch[i].at \/ (r.main /\ a = "idle"))
  BY <1>3, WatchHas
<1> HIDE DEF m, a
<1>10. w \in Watch /\ w.at = a /\ w.mark = m /\ w.open = watch[i].open
  BY <1>3, <1>5, <1>9 DEF Watch
<1> HIDE DEF w
<1>11. Frees(f) /\ UNCHANGED <<mailbox, skipped, queued>> /\ (outlived => outlived')
  BY DEF FetchEnds
<1> QED BY <1>1, <1>2, <1>5, <1>6, <1>7, <1>8, <1>9, <1>10, <1>11, FetchIsOver

LEMMA FetchFailsKeeps ==
  ASSUME GmailTypeOK, MailInv, queued' = queued, NEW f \in Fetches, FetchFails(f)
  PROVE  GmailTypeOK' /\ MailInv'
<1>1. PICK r \in Fetch : r = fetch[f]
  BY GmailTypes
<1>2. PICK i \in Instances : i = r.inst
  BY <1>1, FetchHas DEF FetchFails
<1>3. Running(f) /\ FetchKnows(f) /\ watch[i] \in Watch /\ watch \in [Instances -> Watch]
  BY <1>1, <1>2, GmailTypes, ManagerAssumption DEF MailInv, Running
<1>4. watch[i].mark.seen # None
  BY <1>1, <1>2, <1>3 DEF FetchKnows
<1> DEFINE w == IF r.main THEN [watch[i] EXCEPT !.at = "sleeping", !.open = FALSE] ELSE watch[i]
<1>5. /\ w \in Watch /\ w.mark = watch[i].mark
      /\ w.at = watch[i].at \/ (r.main /\ w.at = "sleeping")
      /\ w.open => watch[i].open
  <2>1. [watch[i] EXCEPT !.at = "sleeping", !.open = FALSE] \in Watch
    BY <1>3 DEF Watch
  <2> QED BY <1>3, <2>1 DEF Watch
<1>6. watch' = [watch EXCEPT ![i] = w]
  <2>1. CASE r.main
    BY <1>1, <1>2, <1>3, <2>1 DEF FetchFails
  <2>2. CASE ~r.main
    BY <1>1, <1>2, <1>3, <2>2 DEF FetchFails
  <2> QED BY <2>1, <2>2
<1> HIDE DEF w
<1>7. Frees(f) /\ UNCHANGED <<mailbox, mark, skipped, outlived, queued>>
  BY DEF FetchFails
<1>8. ~outlived' => Passed(w.mark)
  BY <1>5, <1>7 DEF MailInv, AllPassed
<1> QED BY <1>1, <1>2, <1>4, <1>5, <1>6, <1>7, <1>8, FetchIsOver
-----------------------------------------------------------------------------
(* The instance's part of what the manager does. *)

LEMMA GmailStartsKeeps ==
  ASSUME GmailTypeOK, MailInv, queued' = queued, NEW i \in Instances, GmailUnused(i), GmailStarts(i)
  PROVE  GmailTypeOK' /\ MailInv'
<1> DEFINE w == [NoWatch EXCEPT !.at = "options", !.mark = mark]
<1>1. w \in Watch /\ w.at = "options" /\ w.mark = mark /\ w.open = FALSE
  BY NothingYet, GmailTypes DEF Watch
<1>2. watch' = [watch EXCEPT ![i] = w] /\ UNCHANGED <<mailbox, mark, fetch, skipped, outlived>>
  BY DEF GmailStarts
<1> HIDE DEF w
<1>3. /\ watch' \in [Instances -> Watch] /\ watch'[i] = w
      /\ \A j \in Instances \ {i} : watch'[j] = watch[j]
  BY <1>1, <1>2, WatchBecomes
<1>4. GmailTypeOK'
  BY <1>2, <1>3 DEF GmailTypeOK, Watch
<1>5. WatchKnows(i)'
  BY <1>1, <1>2, <1>3 DEF MailInv, WatchKnows
<1>6. ASSUME NEW f \in Fetches
      PROVE  FetchKnows(f)'
  <2>1. FetchKnows(f) /\ fetch[f] \in Fetch /\ fetch[f].inst # i
    BY GmailTypes DEF MailInv, GmailUnused
  <2>2. ASSUME Running(f)
        PROVE  /\ watch'[fetch[f].inst].mark.seen # None
               /\ watch[fetch[f].inst].mark.epoch <= watch'[fetch[f].inst].mark.epoch
               /\ fetch[f].main => watch'[fetch[f].inst].at = "catching"
    <3>1. PICK j \in Instances \ {i} : j = fetch[f].inst
      BY <2>1, <2>2, FetchHas DEF Running
    <3>2. watch[j].mark.epoch \in 0..MaxEpoch /\ watch'[j] = watch[j]
      BY <1>3, <3>1, GmailTypes, WatchHas
    <3> QED BY <2>1, <2>2, <3>1, <3>2, GmailAssumption DEF FetchKnows
  <2> QED BY <1>2, <1>4, <2>1, <2>2, FetchStays
<1>7. PICK m : m = mark
  OBVIOUS
<1>8. AllPassed' /\ (mark'.seen # None => mark'.epoch \in 1..mailbox'.epoch)
  <2>1. ~outlived' => Passed(m)'
    BY <1>2, <1>7, MoreHanded DEF MailInv, AllPassed
  <2>2. m.seen # None => m.epoch \in 1..mailbox.epoch
    BY <1>7 DEF MailInv
  <2> QED BY <1>1, <1>2, <1>3, <1>7, <2>1, <2>2, MarksKeep
<1> QED BY <1>2, <1>3, <1>4, <1>5, <1>6, <1>8, OtherWatches DEF MailInv

LEMMA GmailForgetsKeeps ==
  ASSUME GmailTypeOK, MailInv, queued' = queued, GmailForgets
  PROVE  GmailTypeOK' /\ MailInv'
<1>1. mark' = NoMark /\ UNCHANGED <<mailbox, watch, fetch, skipped, outlived>>
  BY DEF GmailForgets
<1>2. GmailTypeOK'
  BY <1>1, NothingYet DEF GmailTypeOK
<1>3. Passed(mark)' /\ mark'.seen = None
  BY <1>1, NothingYet DEF Passed
<1>4. AllPassed'
  BY <1>1, <1>3, MoreHanded DEF MailInv, AllPassed
<1>5. \A f \in Fetches : FetchKnows(f)'
  BY <1>1, MoreHanded DEF MailInv, FetchKnows, Running
<1> QED BY <1>1, <1>2, <1>3, <1>4, <1>5 DEF MailInv, WatchKnows

LEMMA GmailDiesKeeps ==
  ASSUME GmailTypeOK, MailInv, queued \subseteq queued', GmailDies
  PROVE  GmailTypeOK' /\ MailInv'
<1>1. /\ \A i \in Instances : watch'[i] = NoWatch
      /\ \A f \in Fetches : fetch'[f] = NoFetch
      /\ watch' \in [Instances -> Watch] /\ fetch' \in [Fetches -> Fetch]
      /\ UNCHANGED <<mailbox, mark, skipped, outlived>>
  BY NothingYet DEF GmailDies
<1>2. GmailTypeOK'
  BY <1>1 DEF GmailTypeOK, Watch, Fetch
<1>3. AllPassed'
  <2>1. ~outlived' => Passed(mark)'
    BY <1>1, MoreHanded DEF MailInv, AllPassed
  <2>2. \A i \in Instances : Passed(watch[i].mark)'
    BY <1>1, NothingYet DEF Passed
  <2> QED BY <2>1, <2>2 DEF AllPassed
<1> QED BY <1>1, <1>2, <1>3, NothingYet DEF MailInv, WatchKnows, FetchKnows, Running

-----------------------------------------------------------------------------
(* Envelopes and requests. *)

Work == [event: Pushed \cup {None}, inst: Instances \cup {None},
         at: {"free", "naming", "acking", "reading", "verifying"},
         via: {"none", "socket", "smee", "http"}]

LEMMA WorkHas ==
  ASSUME PushTypeOK, NEW w \in Workers
  PROVE  /\ work \in [Workers -> Work] /\ work[w] \in Work
         /\ work[w].event \in Pushed \cup {None} /\ work[w].inst \in Instances \cup {None}
         /\ answered \subseteq Pushed
  BY DEF PushTypeOK, Work

LEMMA WorkMoves ==
  ASSUME PushInv, PushTypeOK, NEW w \in Workers, NEW x \in Work, work' = [work EXCEPT ![w] = x],
         queued \subseteq queued',
         x.at # "free" => x.event \in Pushed, x.at = "acking" => Settled(x.event)',
         answered' \subseteq Pushed, \A e \in answered' \ answered : Settled(e)'
  PROVE  PushInv' /\ PushTypeOK'
<1>1. \A e : Settled(e) => Settled(e)'
  BY DEF Settled
<1>2. /\ work' \in [Workers -> Work] /\ work'[w] = x
      /\ \A v \in Workers \ {w} : work'[v] = work[v]
  BY WorkHas
<1>3. PushTypeOK'
  BY <1>2 DEF PushTypeOK, Work
<1>4. ASSUME NEW v \in Workers
      PROVE  WorkKnows(v)'
  <2>1. CASE v = w
    BY <1>2, <2>1 DEF WorkKnows, Settled
  <2>2. CASE v # w
    BY <1>1, <1>2, <2>2 DEF PushInv, WorkKnows
  <2> QED BY <2>1, <2>2
<1>5. \A e \in answered' : Settled(e)'
  BY <1>1 DEF PushInv
<1> QED BY <1>3, <1>4, <1>5 DEF PushInv

LEMMA NoWorkType == NoWork \in Work /\ NoWork.at = "free"
  BY DEF NoWork, Work

LEMMA EndsFree ==
  ASSUME PushInv, PushTypeOK, NEW w \in Workers, Ends(w), queued \subseteq queued',
         answered' \subseteq Pushed, \A e \in answered' \ answered : Settled(e)'
  PROVE  PushInv' /\ PushTypeOK'
  BY NoWorkType, WorkMoves DEF Ends

LEMMA TakesKeeps ==
  ASSUME PushInv, PushTypeOK, NEW w \in Workers, NEW e \in Pushed, NEW i \in Instances \cup {None},
         NEW place \in {"naming", "acking", "reading", "verifying"}, NEW via \in {"socket", "smee", "http"},
         place = "acking" => e \in Ignored, Takes(w, e, i, place, via)
  PROVE  PushInv' /\ PushTypeOK' /\ queued' = queued
<1> DEFINE x == [event |-> e, inst |-> i, at |-> place, via |-> via]
<1>1. x \in Work /\ x.at = place /\ x.event = e
  BY DEF Work
<1>2. work' = [work EXCEPT ![w] = x] /\ answered' = answered /\ queued' = queued /\ answered \subseteq Pushed
  BY DEF Takes, PushTypeOK
<1> HIDE DEF x
<1>3. x.at = "acking" => Settled(x.event)'
  BY <1>1 DEF Settled
<1> QED BY <1>1, <1>2, <1>3, WorkMoves

\* What is at work has an event, which a route may match.
LEMMA WorkEvent ==
  ASSUME PushInv, PushTypeOK, NEW w \in Workers, work[w].at # "free"
  PROVE  work[w].event \in Pushed /\ work[w].event \in Events
  BY PushAssumption DEF PushInv, WorkKnows

\* Requests and envelopes change the database only while an instance serves them.
Wakeful == kind = "slack" \/ kind = "gmail" \/ \E i \in Instances : Serves(i)

Grown == queued \subseteq queued' /\ queued' \subseteq Routes \X Events /\ (queued' # queued => Wakeful)

LEMMA Unmoved ==
  ASSUME ManagerTypeOK, queued' = queued
  PROVE  Grown
  BY DEF Grown, ManagerTypeOK

LEMMA NamedKeeps ==
  ASSUME ManagerTypeOK, PushInv, PushTypeOK, NEW w \in Workers, Named(w)
  PROVE  PushInv' /\ PushTypeOK' /\ Grown
<1>1. PICK e : e = work[w].event
  OBVIOUS
<1>2. e \in Pushed /\ e \in Events /\ kind = "slack" /\ answered' = answered /\ answered \subseteq Pushed
  BY <1>1, WorkEvent, WorkHas DEF Named
<1>3. EmitsAll(e) \/ EmitThrows(e)
  BY <1>1 DEF Named
<1>4. Grown /\ (EmitsAll(e) => Settled(e)')
  BY <1>2, <1>3, Emits DEF Grown, Wakeful, Settled
<1>5. CASE EmitsAll(e) /\ work' = [work EXCEPT ![w].at = "acking"]
  <2>1. PICK x \in Work : x = [work[w] EXCEPT !.at = "acking"] /\ x.at = "acking" /\ x.event = e
    <3> DEFINE y == [work[w] EXCEPT !.at = "acking"]
    <3>1. y \in Work /\ y.at = "acking" /\ y.event = e
      BY <1>1, WorkHas DEF Work
    <3>2. y = [work[w] EXCEPT !.at = "acking"]
      OBVIOUS
    <3> HIDE DEF y
    <3> QED BY <3>1, <3>2
  <2>2. work' = [work EXCEPT ![w] = x]
    BY <1>5, <2>1, WorkHas
  <2>3. Settled(x.event)'
    BY <1>4, <1>5, <2>1 DEF Settled
  <2> QED BY <1>2, <1>4, <2>1, <2>2, <2>3, WorkMoves DEF Grown
<1>6. CASE EmitThrows(e) /\ Ends(w)
  BY <1>2, <1>4, <1>6, EndsFree DEF Grown
<1> QED BY <1>1, <1>5, <1>6 DEF Named

LEMMA AcksKeeps ==
  ASSUME ManagerTypeOK, PushInv, PushTypeOK, NEW w \in Workers, Acks(w)
  PROVE  PushInv' /\ PushTypeOK' /\ Grown
<1>1. PICK e : e = work[w].event
  OBVIOUS
<1>2. e \in Pushed /\ Settled(e) /\ answered \subseteq Pushed /\ queued' = queued /\ Ends(w)
  BY <1>1, WorkEvent, WorkHas DEF Acks, PushInv, WorkKnows
<1>3. answered' = answered \/ answered' = answered \cup {e}
  BY <1>1 DEF Acks
<1>4. Settled(e)'
  BY <1>2 DEF Settled
<1> QED BY <1>2, <1>3, <1>4, EndsFree, Unmoved

LEMMA ReadKeeps ==
  ASSUME ManagerTypeOK, PushInv, PushTypeOK, NEW w \in Workers, Read(w)
  PROVE  PushInv' /\ PushTypeOK' /\ Grown
<1>1. UNCHANGED <<answered, queued>> /\ answered \subseteq Pushed /\ work[w].at = "reading"
  BY WorkHas DEF Read
<1>2. PICK i \in Instances \cup {None} : i = IF work[w].inst = None THEN live ELSE work[w].inst
  BY WorkHas DEF ManagerTypeOK
<1>3. CASE Serves(i)
  <2> DEFINE x == [work[w] EXCEPT !.at = "verifying", !.inst = i]
  <2>1. x \in Work /\ x.at = "verifying" /\ x.event = work[w].event
    BY <1>2, WorkHas DEF Work
  <2>2. work' = [work EXCEPT ![w] = x]
    BY <1>2, <1>3, WorkHas DEF Read
  <2> HIDE DEF x
  <2> QED BY <1>1, <2>1, <2>2, WorkEvent, WorkMoves, Unmoved
<1>4. CASE ~Serves(i)
  BY <1>1, <1>2, <1>4, EndsFree, Unmoved DEF Read
<1> QED BY <1>3, <1>4

LEMMA VerifiedKeeps ==
  ASSUME ManagerTypeOK, PushInv, PushTypeOK, NEW w \in Workers, Verified(w)
  PROVE  PushInv' /\ PushTypeOK' /\ Grown
<1>1. PICK e : e = work[w].event
  OBVIOUS
<1>2. e \in Pushed /\ e \in Events /\ answered \subseteq Pushed /\ Ends(w)
  BY <1>1, WorkEvent, WorkHas DEF Verified
<1>3. CASE ~Serves(work[w].inst)
  BY <1>2, <1>3, EndsFree, Unmoved DEF Verified
<1>4. CASE Serves(work[w].inst)
  <2>1. answered' = answered \cup {e} /\ Wakeful
    BY <1>1, <1>4, WorkHas DEF Verified, Wakeful, Serves
  <2>2. CASE e \in Ignored
    <3>1. queued' = queued /\ Settled(e)'
      BY <1>1, <1>4, <2>2 DEF Verified, Settled
    <3> QED BY <1>2, <2>1, <3>1, EndsFree, Unmoved
  <2>3. CASE e \notin Ignored
    <3>1. EmitsAll(e)
      BY <1>1, <1>4, <2>3 DEF Verified
    <3>2. Grown /\ Settled(e)'
      BY <1>2, <2>1, <3>1, Emits DEF Grown, Settled
    <3> QED BY <1>2, <2>1, <3>2, EndsFree DEF Grown
  <2> QED BY <2>2, <2>3
<1> QED BY <1>3, <1>4

LEMMA ThrowsGrows ==
  ASSUME ManagerTypeOK, PushInv, PushTypeOK, NEW w \in Workers, NEW via, Throws(w, via)
  PROVE  Grown
<1>1. work[w].event \in Events /\ EmitThrows(work[w].event) /\ Serves(work[w].inst)
  BY WorkEvent DEF Throws
<1>2. Wakeful
  BY <1>1, WorkHas DEF Wakeful, Serves
<1> QED BY <1>1, <1>2, Emits DEF Grown

LEMMA PushKeeps ==
  ASSUME ManagerTypeOK, PushInv, PushTypeOK, Push
  PROVE  PushInv' /\ PushTypeOK' /\ Grown
<1>1. ASSUME NEW w \in Workers, NEW e \in Pushed, PostedToIngress(w, e) \/ Posted(w, e)
      PROVE  PushInv' /\ PushTypeOK' /\ Grown
  <2>1. PICK i \in Instances \cup {None} : Takes(w, e, i, "reading", "http")
    BY <1>1 DEF PostedToIngress, Posted, ManagerTypeOK
  <2> QED BY <2>1, TakesKeeps, Unmoved
<1>2. ASSUME NEW w \in Workers, NEW e \in Pushed, NEW i \in Instances, Envelope(w, e, i)
      PROVE  PushInv' /\ PushTypeOK' /\ Grown
  BY <1>2, TakesKeeps, Unmoved DEF Envelope
<1>3. ASSUME NEW w \in Workers, NEW e \in Pushed, NEW i \in Instances, Relayed(w, e, i)
      PROVE  PushInv' /\ PushTypeOK' /\ Grown
  BY <1>3, TakesKeeps, Unmoved DEF Relayed
<1>4. ASSUME NEW w \in Workers, Refused(w)
      PROVE  PushInv' /\ PushTypeOK' /\ Grown
  <2>1. Grown /\ Ends(w) /\ answered' = answered /\ answered \subseteq Pushed
    BY <1>4, ThrowsGrows, WorkHas DEF Refused, Throws
  <2> QED BY <2>1, EndsFree DEF Grown
<1> QED BY <1>1, <1>2, <1>3, <1>4, NamedKeeps, AcksKeeps, ReadKeeps, VerifiedKeeps DEF Push
-----------------------------------------------------------------------------
(* The steps. *)

\* What every step keeps: the invariant, and the database of a source that is at rest.
Kept == SourcesInv' /\ Grown

LEMMA WorksKeeps ==
  ASSUME SourcesInv, NEW c \in Calls, Works(c)
  PROVE  Kept
<1>1. ManagerTypeOK /\ GmailTypeOK /\ MailInv /\ PushTypeOK /\ PushInv
  BY DEF SourcesInv, TypeOK
<1>2. ASSUME queued' = queued, UNCHANGED pushVars, ManagerTypeOK', GmailTypeOK' /\ MailInv'
      PROVE  Kept
  BY <1>1, <1>2, PushStays, Unmoved DEF Kept, SourcesInv, TypeOK
<1>3. ASSUME UNCHANGED gmailVars, queued' = queued
      PROVE  GmailTypeOK' /\ MailInv'
  BY <1>1, <1>3, MailStays DEF gmailVars, GmailTypeOK
<1>4. CASE Starts(c)
  <2>1. PICK i \in Instances : Unused(i) /\ StartOne(c, i) /\ IF kind = "gmail" THEN GmailStarts(i) ELSE UNCHANGED gmailVars
    BY <1>4 DEF Starts
  <2>2. queued' = queued /\ UNCHANGED pushVars /\ ManagerTypeOK'
    BY <1>1, <1>4, <2>1, ManagerKeeps DEF Starts
  <2>3. GmailTypeOK' /\ MailInv'
    BY <1>1, <1>3, <2>1, <2>2, GmailStartsKeeps DEF Unused
  <2> QED BY <1>2, <2>2, <2>3
<1>5. CASE Stops(c)
  <2>1. queued' = queued /\ UNCHANGED pushVars /\ ManagerTypeOK'
    BY <1>1, <1>5, ManagerKeeps DEF Stops
  <2>2. GmailTypeOK' /\ MailInv'
    <3>1. CASE kind = "gmail" /\ live # None
      <4>1. live \in Instances /\ GmailStops(live)
        BY <1>1, <1>5, <3>1 DEF Stops, ManagerTypeOK
      <4> QED BY <1>1, <2>1, <4>1, LoopPlaces
    <3>2. CASE ~(kind = "gmail" /\ live # None)
      BY <1>3, <1>5, <2>1, <3>2 DEF Stops
    <3> QED BY <3>1, <3>2
  <2> QED BY <1>2, <2>1, <2>2
<1>6. CASE StopsDone(c)
  BY <1>1, <1>2, <1>3, <1>6, ManagerKeeps DEF StopsDone
<1>7. CASE Removes(c)
  BY <1>1, <1>2, <1>7, ManagerKeeps, GmailForgetsKeeps DEF Removes
<1>8. CASE StartThrows(c)
  BY <1>1, <1>2, <1>3, <1>8, ManagerKeeps DEF StartThrows
<1>9. CASE (StartNone(c) \/ StartReturns(c)) /\ UNCHANGED <<queued, upsets, gmailVars, pushVars>>
  BY <1>1, <1>2, <1>3, <1>9, ManagerKeeps
<1> QED BY <1>4, <1>5, <1>6, <1>7, <1>8, <1>9 DEF Works

LEMMA AskedKeeps ==
  ASSUME SourcesInv, NEW c \in Calls, Asked(c)
  PROVE  Kept
<1>1. ManagerTypeOK /\ GmailTypeOK /\ MailInv /\ PushTypeOK /\ PushInv
  BY DEF SourcesInv, TypeOK
<1>2. UNCHANGED <<queued, gmailVars, pushVars>>
  BY DEF Asked
<1>3. ManagerTypeOK'
  BY <1>1, <1>2, ManagerKeeps DEF Asked
<1>4. GmailTypeOK' /\ MailInv'
  BY <1>1, <1>2, MailStays DEF gmailVars, GmailTypeOK
<1> QED BY <1>1, <1>2, <1>3, <1>4, PushStays, Unmoved DEF Kept, SourcesInv, TypeOK

\* The daemon is over, with or without what a request had added.
LEMMA DiesKeeps ==
  ASSUME SourcesInv, NEW c \in Calls, Dies(c), Grown
  PROVE  Kept
<1>1. ManagerTypeOK /\ GmailTypeOK /\ MailInv /\ PushTypeOK /\ PushInv
  BY DEF SourcesInv, TypeOK
<1>2. ManagerTypeOK'
  <2>1. NoCall \in CallPlaces /\ [op |-> "boot", at |-> "stopped", inst |-> None] \in CallPlaces
    BY DEF NoCall, CallPlaces
  <2> QED BY <1>1, <2>1 DEF ManagerTypeOK, CallPlaces, Dies, Reboot, Grown
<1>3. GmailTypeOK' /\ MailInv'
  BY <1>1, GmailDiesKeeps DEF Dies, Grown
<1>4. PushTypeOK' /\ PushInv'
  <2>1. /\ \A w \in Workers : work'[w] = NoWork
        /\ work' \in [Workers -> Work] /\ answered' = answered
    BY NoWorkType DEF Dies, PushDies
  <2>2. PushTypeOK'
    BY <1>1, <2>1 DEF PushTypeOK, Work
  <2>3. \A e \in answered' : Settled(e)'
    BY <1>1, <2>1 DEF PushInv, Settled, Grown
  <2> QED BY <2>1, <2>2, <2>3, NoWorkType DEF PushInv, WorkKnows
<1> QED BY <1>2, <1>3, <1>4 DEF Kept, SourcesInv, TypeOK

\* Gmail's own steps.
LEMMA GmailKeeps ==
  ASSUME SourcesInv,
         \/ \E i \in Instances : Loop(i) \/ Hears(i)
         \/ \E f \in Fetches : Fetching(f)
         \/ Mail
  PROVE  Kept
<1>1. ManagerTypeOK /\ GmailTypeOK /\ MailInv /\ PushTypeOK /\ PushInv
  BY DEF SourcesInv, TypeOK
<1>2. ASSUME UNCHANGED <<managerVars, pushVars>>, GmailTypeOK', MailInv', queued \subseteq queued',
             queued' \subseteq Routes \X Events, queued' # queued => kind = "gmail"
      PROVE  Kept
  <2>1. ManagerTypeOK'
    BY <1>1, <1>2 DEF ManagerTypeOK, managerVars
  <2> QED BY <1>1, <1>2, <2>1, PushStays DEF Kept, Grown, Wakeful, SourcesInv, TypeOK
<1>3. queued \subseteq Routes \X Events
  BY <1>1 DEF ManagerTypeOK
<1>4. ASSUME NEW i \in Instances, Loop(i)
      PROVE  Kept
  <2>1. UNCHANGED <<managerVars, pushVars>> /\ queued' = queued
    BY <1>4 DEF Loop
  <2>2. GmailTypeOK' /\ MailInv'
    BY <1>1, <1>4, <2>1, LoopPlaces, OpensKeeps DEF Loop
  <2> QED BY <1>2, <1>3, <2>1, <2>2
<1>5. ASSUME NEW i \in Instances, Hears(i)
      PROVE  Kept
  BY <1>1, <1>2, <1>3, <1>5, NotifiedKeeps DEF Hears
<1>6. ASSUME NEW f \in Fetches, Fetching(f)
      PROVE  Kept
  <2>1. CASE Hands(f)
    BY <1>1, <1>2, <1>6, <2>1, HandsKeeps DEF Fetching
  <2>2. CASE (FetchEnds(f) \/ FetchFails(f)) /\ UNCHANGED queued
    BY <1>1, <1>2, <1>3, <1>6, <2>2, FetchEndsKeeps, FetchFailsKeeps DEF Fetching
  <2> QED BY <1>6, <2>1, <2>2 DEF Fetching
<1>7. CASE Mail
  <2>1. UNCHANGED <<managerVars, pushVars>> /\ queued' = queued
    BY <1>7 DEF Mail
  <2>2. GmailTypeOK' /\ MailInv'
    BY <1>1, <1>7, <2>1, LoopPlaces, ServerMoves DEF Mail
  <2> QED BY <1>2, <1>3, <2>1, <2>2
<1> QED BY <1>4, <1>5, <1>6, <1>7

LEMMA NextKeeps ==
  ASSUME SourcesInv, Next
  PROVE  Kept
<1>1. ManagerTypeOK /\ GmailTypeOK /\ MailInv /\ PushTypeOK /\ PushInv
  BY DEF SourcesInv, TypeOK
<1>2. ASSUME NEW c \in Calls, Crash(c)
      PROVE  Kept
  BY <1>1, <1>2, Unmoved, DiesKeeps DEF Crash
<1>3. ASSUME NEW c \in Calls, NEW w \in Workers, Rejected(w, c)
      PROVE  Kept
  BY <1>1, <1>3, ThrowsGrows, DiesKeeps DEF Rejected
<1>4. CASE Push
  <2>1. UNCHANGED <<managerVars, gmailVars>> /\ PushInv' /\ PushTypeOK' /\ Grown
    BY <1>1, <1>4, PushKeeps DEF Push
  <2>2. ManagerTypeOK'
    BY <1>1, <2>1 DEF ManagerTypeOK, managerVars, Grown
  <2>3. GmailTypeOK' /\ MailInv'
    BY <1>1, <2>1, MailStays DEF gmailVars, GmailTypeOK, Grown
  <2> QED BY <2>1, <2>2, <2>3 DEF Kept, SourcesInv, TypeOK
<1> QED BY <1>2, <1>3, <1>4, AskedKeeps, WorksKeeps, GmailKeeps DEF Next

LEMMA SourcesStart ==
  ASSUME Init
  PROVE  SourcesInv
<1>1. ManagerTypeOK
  <2>1. NoCall \in CallPlaces /\ [op |-> "boot", at |-> "stopped", inst |-> None] \in CallPlaces
    BY DEF NoCall, CallPlaces
  <2> QED BY <2>1 DEF Init, ManagerInit, ManagerTypeOK, CallPlaces
<1>2. /\ \A i \in Instances : watch[i] = NoWatch
      /\ \A f \in Fetches : fetch[f] = NoFetch
      /\ watch \in [Instances -> Watch] /\ fetch \in [Fetches -> Fetch]
      /\ mailbox = [epoch |-> 1, last |-> 0] /\ mark = NoMark /\ skipped = {}
  BY NothingYet DEF Init, GmailInit
<1>3. GmailTypeOK
  <2>1. mailbox \in [epoch: 1..MaxEpoch, last: 0..MaxMail]
    BY <1>2, GmailAssumption
  <2> QED BY <1>2, <2>1, NothingYet DEF GmailTypeOK, Watch, Fetch
<1>4. MailInv
  BY <1>2, NothingYet DEF MailInv, WatchKnows, FetchKnows, Running, AllPassed, Passed
<1>5. PushTypeOK /\ PushInv
  <2>1. work \in [Workers -> Work] /\ (\A w \in Workers : work[w] = NoWork) /\ answered = {}
    BY NoWorkType DEF Init, PushInit
  <2> QED BY <2>1, NoWorkType DEF PushTypeOK, Work, PushInv, WorkKnows
<1> QED BY <1>1, <1>3, <1>4, <1>5 DEF SourcesInv, TypeOK

LEMMA SourcesSteps ==
  ASSUME SourcesInv, [Next]_vars
  PROVE  Kept
<1>1. CASE Next
  BY <1>1, NextKeeps
<1>2. CASE UNCHANGED vars
  <2>1. UNCHANGED <<managerVars, gmailVars, pushVars>> /\ queued' = queued
    BY <1>2 DEF vars, sharedVars
  <2>2. ManagerTypeOK' /\ GmailTypeOK' /\ MailInv'
    BY <2>1, MailStays DEF SourcesInv, TypeOK, ManagerTypeOK, managerVars, gmailVars, GmailTypeOK
  <2> QED BY <2>1, <2>2, PushStays, Unmoved DEF Kept, SourcesInv, TypeOK
<1> QED BY <1>1, <1>2

-----------------------------------------------------------------------------
(* The theorems. *)

LEMMA SourcesHold == Spec => []SourcesInv
<1>1. Init => SourcesInv
  BY SourcesStart
<1>2. SourcesInv /\ [Next]_vars => SourcesInv'
  BY SourcesSteps DEF Kept
<1> QED BY <1>1, <1>2, PTL DEF Spec

\* The variables keep their types.
THEOREM SourcesTypes == Spec => []TypeOK
<1>1. SourcesInv => TypeOK
  BY DEF SourcesInv
<1> QED BY <1>1, SourcesHold, PTL

\* What is acknowledged to Slack, or answered with 200, is queued for every route it
\* matches, through stops, removals, restarts and deaths.
THEOREM AnswersAreQueued == Spec => []AnsweredIsQueued
<1>1. SourcesInv => AnsweredIsQueued
  BY DEF SourcesInv, PushInv, Settled, AnsweredIsQueued
<1> QED BY <1>1, SourcesHold, PTL

\* The watermark of the record passes over no message that was not handed on, for any
\* number of instances and fetches that overlap.
THEOREM WatermarksAreSafe == Spec => []WatermarkIsSafe
<1>1. SourcesInv => WatermarkIsSafe
  BY DEF SourcesInv, MailInv, AllPassed, Passed, Handed, WatermarkIsSafe
<1> QED BY <1>1, SourcesHold, PTL

\* A GitHub source without an instance that serves adds nothing to the database.
THEOREM StoppedIsSilentAlways == Spec => StoppedIsSilent
<1>1. ASSUME SourcesInv, [Next]_vars, kind = "github", \A i \in Instances : ~Active(i)
      PROVE  queued' = queued
  <2>1. Grown
    BY <1>1, SourcesSteps DEF Kept
  <2>2. ~Wakeful
    BY <1>1 DEF Wakeful, Serves
  <2> QED BY <2>1, <2>2 DEF Grown
<1>2. SourcesInv /\ [Next]_vars => [kind = "github" /\ (\A i \in Instances : ~Active(i)) => queued' = queued]_vars
  BY <1>1
<1> QED BY <1>2, SourcesHold, PTL DEF Spec, StoppedIsSilent
=============================================================================
