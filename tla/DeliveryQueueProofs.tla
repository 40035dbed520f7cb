------------------------- MODULE DeliveryQueueProofs -------------------------
(***************************************************************************)
(* Theorems about DeliveryQueue for all routes, keys and bounds: its       *)
(* invariants, that a settled row stays settled, and that the queue        *)
(* implements DeliveryContract.                                            *)
(***************************************************************************)
EXTENDS DeliveryQueue, TLAPS

\* Shorthand for the facts about the constants.
LEMMA ConstantFacts ==
  /\ Routes # {} /\ Events # {}
  /\ ThreadKey \in [Routes -> Keys]
  /\ MaxAttempts \in Nat /\ MaxAttempts > 0
  /\ MaxRows \in Nat /\ MaxFaults \in Nat
  BY RoutesAssumption, KeyAssumption, BoundAssumption

\* What an INSERT writes is a row, and so is the value of a missing row.
LEMMA NewRowType ==
  ASSUME NEW st \in Status, NEW r \in Routes, NEW e \in Events,
         NEW p \in SUBSET Events, NEW replay \in BOOLEAN
  PROVE  NewRow(st, r, e, p, replay) \in Row
  BY ConstantFacts DEF NewRow, Row

LEMMA NoRowType == NoRow \in Row /\ NoRow.status = "absent"
<1>1. (CHOOSE r \in Routes : TRUE) \in Routes /\ (CHOOSE e \in Events : TRUE) \in Events
  BY ConstantFacts
<1>2. "absent" \in Status /\ {} \in SUBSET Events /\ FALSE \in BOOLEAN
  BY DEF Status
<1>3. NoRow \in Row
  BY <1>1, <1>2, NewRowType DEF NoRow
<1> QED BY <1>3 DEF NoRow, NewRow

\* Writing a settled or waiting status with other fields of their types keeps a
\* row a row.
LEMMA StatusNames ==
  /\ {"absent", "queued", "held", "delivering", "delivered", "failed",
      "skipped-duplicate", "coalesced"} = Status
  BY DEF Status, Pending, Settled

LEMMA BeginPassType ==
  ASSUME TypeOK, NEW table, BeginPass(table)
  PROVE  /\ ticking' \in BOOLEAN /\ step' \in Steps
         /\ ready' \subseteq Ids /\ todo' \subseteq Ids
         /\ claimed' \subseteq Keys /\ batch' \in 0..MaxRows
         /\ step' = "scan"
  BY ConstantFacts DEF BeginPass, ListReady, Steps

LEMMA IdsFacts == \A d : d \in Ids <=> d \in 0..MaxRows /\ d # 0
  BY ConstantFacts DEF Ids

LEMMA InitType == Init => TypeOK
<1> SUFFICES ASSUME Init PROVE TypeOK
  OBVIOUS
<1>1. route \in [Routes -> RouteState]
  BY DEF Init, RouteState
<1>2. rows \in [Ids -> Row]
  BY NoRowType DEF Init
<1>3. nextId \in 1..(MaxRows + 1) /\ batch \in 0..MaxRows /\ faults \in 0..MaxFaults
  BY ConstantFacts DEF Init
<1> QED BY <1>1, <1>2, <1>3 DEF Init, TypeOK, Steps

LEMMA NextType == TypeOK /\ [Next]_vars => TypeOK'
<1> SUFFICES ASSUME TypeOK, [Next]_vars PROVE TypeOK'
  OBVIOUS
<1> USE ConstantFacts, StatusNames
<1>1. CASE TimerTick
  BY <1>1, BeginPassType DEF TypeOK, TimerTick, store, jobs
<1>2. CASE EndPass
  BY <1>2 DEF TypeOK, EndPass, store, pass, jobs
<1>3. ASSUME NEW d \in Ids, ClaimAlone(d) PROVE TypeOK'
  <2>1. KeyOf(d) \in Keys
    BY DEF TypeOK, KeyOf, Row
  <2>2. todo' \subseteq Ids /\ batch' \in 0..MaxRows /\ batch' \in Ids
    BY <1>3, IdsFacts DEF TypeOK, ClaimAlone
  <2> QED BY <1>3, <2>1, <2>2 DEF TypeOK, ClaimAlone, store, jobs, Steps
<1>4. ASSUME NEW d \in Ids, NEW c \in Ids, ClaimDigest(d, c) PROVE TypeOK'
  <2>1. KeyOf(d) \in Keys
    BY DEF TypeOK, KeyOf, Row
  <2>2. {rows[x].event : x \in Siblings(d) \cup {d}} \subseteq Events
    BY DEF TypeOK, Siblings, Row
  <2>3. rows' \in [Ids -> Row]
    BY <1>4, <2>2 DEF TypeOK, ClaimDigest, Row
  <2>4. todo' \subseteq Ids /\ batch' \in 0..MaxRows /\ batch' \in Ids
    BY <1>4, IdsFacts DEF TypeOK, ClaimDigest
  <2> QED BY <1>4, <2>1, <2>3, <2>4 DEF TypeOK, ClaimDigest, jobs, Steps
<1>5. CASE Merge
  <2>1. batch \in Ids \/ batch = 0
    BY DEF TypeOK, Ids
  <2>2. ASSUME NEW x \in Ids
        PROVE  [rows[x] EXCEPT !.status = "coalesced", !.into = batch] \in Row
    BY ZenonT(30), <2>1 DEF TypeOK, Row
  <2>3. rows' \in [Ids -> Row]
    BY <1>5, <2>2 DEF TypeOK, Merge
  <2> QED BY <1>5, <2>3 DEF TypeOK, Merge, pass, jobs, Steps
<1>6. CASE Dispatch
  <2>0. batch \in Ids
    BY <1>6 DEF TypeOK, Dispatch
  <2>1. KeyOf(batch) \in Keys
    BY <2>0 DEF TypeOK, KeyOf, Row
  <2>2. rows' \in [Ids -> Row]
    BY <1>6, <2>0 DEF TypeOK, Dispatch, Row
  <2>3. calls' \subseteq Call
    BY <1>6, <2>0, <2>1 DEF TypeOK, Dispatch, Call
  <2> QED BY <1>6, <2>1, <2>2, <2>3 DEF TypeOK, Dispatch, pass, Steps
<1>7. CASE EndScan
  BY <1>7 DEF TypeOK, EndScan, store, jobs, Steps
<1>8. CASE RejectUnrendered
  <2>0. batch \in Ids
    BY <1>8 DEF TypeOK, RejectUnrendered
  <2>1. rows' \in [Ids -> Row]
    BY <1>8, <2>0 DEF TypeOK, RejectUnrendered, Row
  <2> QED BY <1>8, <2>1 DEF TypeOK, RejectUnrendered, jobs, Steps
<1>9. ASSUME NEW c \in calls,
             Deliver(c) \/ FailPermanently(c) \/ HoldForRetry(c) \/ FailAttempt(c)
      PROVE TypeOK'
  <2>1. c.row \in Ids /\ rows[c.row] \in Row
    BY DEF TypeOK, Call
  <2>2. /\ [rows[c.row] EXCEPT !.status = "delivered", !.recent = TRUE] \in Row
        /\ [rows[c.row] EXCEPT !.status = "failed", !.recent = FALSE] \in Row
    BY <2>1 DEF Row
  <2>3. OneMore(rows[c.row].attempts) \in 0..MaxAttempts
    BY <2>1 DEF Row, OneMore
  <2>4. [rows[c.row] EXCEPT !.status = "held", !.recent = FALSE, !.backoff = TRUE,
                            !.attempts = OneMore(@)] \in Row
    BY <2>1, <2>3 DEF Row
  <2>5. ASSUME NEW row \in Row PROVE Update(c.row, row) \in [Ids -> Row]
    BY <2>1 DEF TypeOK, Update
  <2>6. rows' \in [Ids -> Row]
    BY <1>9, <2>2, <2>4, <2>5
    DEF Deliver, FailPermanently, HoldForRetry, FailAttempt, MarkFailed, MarkHeld
  <2>7. faults' \in 0..MaxFaults
    BY <1>9 DEF TypeOK, Deliver, FailPermanently, HoldForRetry, FailAttempt, Fault
  <2>8. Answered(c)
    BY <1>9 DEF Deliver, FailPermanently, HoldForRetry, FailAttempt
  <2> QED BY <2>6, <2>7, <2>8 DEF TypeOK, Answered, pass
<1>10. ASSUME NEW k \in Keys, ReleaseKey(k) PROVE TypeOK'
  BY <1>10 DEF TypeOK, ReleaseKey, store, pass
<1>11. ASSUME NEW r \in Routes, NEW e \in Events, NEW replay \in BOOLEAN,
              Insert(r, e, replay)
       PROVE  TypeOK'
  <2>1. nextId \in Ids /\ nextId' \in 1..(MaxRows + 1)
    BY <1>11 DEF TypeOK, Insert, Ids
  <2>2. /\ NewRow("skipped-duplicate", r, e, {}, FALSE) \in Row
        /\ NewRow("queued", r, e, {}, replay) \in Row
        /\ NewRow("queued", r, e, {e}, replay) \in Row
    BY <1>11, NewRowType DEF Status, Pending, Settled
  <2>3. rows' \in [Ids -> Row]
    BY <1>11, <2>1, <2>2 DEF TypeOK, Insert
  <2>4. /\ ticking' \in BOOLEAN /\ step' \in Steps
        /\ ready' \subseteq Ids /\ todo' \subseteq Ids
        /\ claimed' \subseteq Keys /\ batch' \in 0..MaxRows
        /\ step' \in {"reject", "merge", "dispatch"} => batch' \in Ids
    <3>1. CASE BeginPass(rows')
      BY <3>1, BeginPassType
    <3>2. CASE UNCHANGED <<ticking, step, pass>>
      BY <3>2 DEF TypeOK, pass
    <3>3. CASE batch' = nextId /\ step' = "reject" /\ UNCHANGED <<ticking, ready, todo, claimed>>
      BY <3>3, <2>1, IdsFacts DEF TypeOK, Steps
    <3> QED BY <1>11, <3>1, <3>2, <3>3 DEF Insert
  <2> QED BY <1>11, <2>1, <2>3, <2>4 DEF TypeOK, Insert, jobs
<1>12. CASE Request
  <2>1. ASSUME NEW r \in Routes, NEW e \in Events, Enqueue(r, e) PROVE TypeOK'
    BY <2>1, <1>11 DEF Enqueue, Insert
  <2>2. ASSUME NEW d \in Ids, Replay(d) PROVE TypeOK'
    <3>1. rows[d].route \in Routes /\ rows[d].event \in Events
      BY DEF TypeOK, Row
    <3> QED BY <2>2, <3>1, <1>11 DEF Replay, Insert
  <2>3. ASSUME NEW r \in Routes, CreateRoute(r) PROVE TypeOK'
    BY <2>3 DEF TypeOK, CreateRoute, ChangeRoute, RouteState, pass, jobs
  <2>4. ASSUME NEW r \in Routes, RemoveRoute(r) PROVE TypeOK'
    BY <2>4, NoRowType DEF TypeOK, RemoveRoute, ChangeRoute, RouteState, pass, jobs
  <2>5. ASSUME NEW r \in Routes, NEW s \in {"enabled", "disabled"}, SetEnabled(r, s)
        PROVE TypeOK'
    BY <2>5 DEF TypeOK, SetEnabled, ChangeRoute, RouteState, pass, jobs
  <2> QED BY <1>12, <2>1, <2>2, <2>3, <2>4, <2>5 DEF Request
<1>13. CASE Clock
  <2>1. PICK d \in Ids : BackoffExpires(d) \/ MinutePasses(d)
    BY <1>13 DEF Clock
  <2>2. /\ [rows[d] EXCEPT !.backoff = FALSE] \in Row
        /\ [rows[d] EXCEPT !.recent = FALSE] \in Row
    BY ZenonT(30) DEF TypeOK, Row
  <2>3. rows' \in [Ids -> Row]
    BY <2>1, <2>2 DEF TypeOK, BackoffExpires, MinutePasses
  <2> QED BY <2>1, <2>3 DEF TypeOK, BackoffExpires, MinutePasses, pass, jobs
<1>14. CASE Boot
  <2>1. ASSUME NEW d \in Ids
        PROVE  [rows[d] EXCEPT !.status = "queued", !.recent = FALSE] \in Row
    BY ZenonT(30) DEF TypeOK, Row
  <2>2. rows' \in [Ids -> Row]
    BY <1>14, <2>1 DEF TypeOK, Boot
  <2> QED BY <1>14, <2>2, BeginPassType DEF TypeOK, Boot, jobs
<1>15. CASE Stop
  <2>1. faults' \in 0..MaxFaults
    BY <1>15 DEF TypeOK, Stop, Fault
  <2> QED BY <1>15, <2>1 DEF TypeOK, Stop, store, pass, jobs
<1>16. CASE Crash \/ Exit
  <2>1. faults' \in 0..MaxFaults
    BY <1>16 DEF TypeOK, Crash, Exit, Fault
  <2>2. 0 \in 0..MaxRows
    OBVIOUS
  <2> QED BY <1>16, <2>1, <2>2 DEF TypeOK, Crash, Exit, Die, store, Steps
<1>17. CASE UNCHANGED vars
  BY <1>17 DEF TypeOK, vars, store, pass, jobs
<1> QED
  BY <1>1, <1>2, <1>3, <1>4, <1>5, <1>6, <1>7, <1>8, <1>9, <1>10, <1>12, <1>13,
     <1>14, <1>15, <1>16, <1>17
  DEF Next, Handler, Answer

-----------------------------------------------------------------------------
(* The inductive invariant. *)

\* The conjuncts of QueueInv that are not the type invariant.
Strengthening == /\ CallsTracked /\ PassConsistent /\ DownIsEmpty
                 /\ OneTurnPerThread /\ DeliveringHasCall /\ CarrierKept

LEMMA InitInv == Init => Strengthening
<1> SUFFICES ASSUME Init PROVE Strengthening
  OBVIOUS
<1>1. \A d \in Ids : rows[d].status = "absent"
  BY NoRowType DEF Init
<1> QED
  BY <1>1 DEF Init, Strengthening, CallsTracked, PassConsistent, DownIsEmpty,
     OneTurnPerThread, DeliveringHasCall, CarrierKept, Pending

\* A pass begins with nothing claimed and with waiting rows only.
LEMMA BeginPassConsistent ==
  ASSUME BeginPass(rows')
  PROVE  PassConsistent'
  BY DEF BeginPass, ListReady, PassConsistent, Siblings

\* An action that touches neither rows nor jobs keeps the facts about them.
LEMMA RowsAndJobsFramed ==
  ASSUME Strengthening, UNCHANGED <<rows, nextId, calls, inFlight>>, up' = up
  PROVE  CallsTracked' /\ OneTurnPerThread' /\ DeliveringHasCall' /\ CarrierKept'
  BY DEF Strengthening, CallsTracked, OneTurnPerThread, DeliveringHasCall, CarrierKept, KeyOf

\* Between handlers a pass holds no snapshot, so its facts hold of any table.
LEMMA IdlePassConsistent ==
  ASSUME step' = "idle", ready' = {}, todo' = {}, claimed' = {}
  PROVE  PassConsistent'
  BY DEF PassConsistent

LEMMA ScanSteps ==
  ASSUME TypeOK, Strengthening, TypeOK',
         TimerTick \/ EndPass \/ EndScan \/ \E d \in Ids : ClaimAlone(d)
  PROVE  Strengthening'
<1>1. CASE TimerTick
  <2>1. BeginPass(rows')
    BY <1>1 DEF TimerTick, store
  <2> QED BY <1>1, <2>1, BeginPassConsistent, RowsAndJobsFramed
          DEF TimerTick, store, jobs, Strengthening, DownIsEmpty
<1>2. CASE EndPass
  BY <1>2, RowsAndJobsFramed, IdlePassConsistent
  DEF EndPass, store, pass, jobs, Strengthening, DownIsEmpty, PassConsistent, KeyOf, Siblings
<1>3. CASE EndScan
  BY <1>3, RowsAndJobsFramed, IdlePassConsistent
  DEF EndScan, store, jobs, Strengthening, DownIsEmpty
<1>4. ASSUME NEW d \in Ids, ClaimAlone(d) PROVE Strengthening'
  <2>1. PassConsistent'
    <3>1. /\ d \in todo /\ d \in ready /\ KeyOf(d) \notin claimed \cup inFlight
          /\ rows[d].status \in Pending
      BY <1>4 DEF ClaimAlone, NextUp, Dispatchable, Strengthening, PassConsistent
    <3>2. /\ batch' = d /\ step' = "dispatch" /\ ready' = ready /\ rows' = rows
          /\ inFlight' = inFlight /\ claimed' = claimed \cup {KeyOf(d)}
          /\ route' = route
      BY <1>4 DEF ClaimAlone, store, jobs
    <3>3. \A x \in ready' : Dispatchable(x)' => x \in todo'
      <4> SUFFICES ASSUME NEW x \in ready', Dispatchable(x)' PROVE x \in todo'
        OBVIOUS
      <4>1. x \in Ids /\ KeyOf(x) # KeyOf(d) /\ Dispatchable(x)
        BY <3>2 DEF Dispatchable, KeyOf, TypeOK
      <4>2. x \in todo /\ d <= x /\ x # d
        BY <1>4, <3>2, <4>1 DEF ClaimAlone, NextUp, Strengthening, PassConsistent
      <4> QED BY <1>4, <4>1, <4>2, IdsFacts DEF ClaimAlone
    <3>4. todo' \subseteq ready'
      BY <1>4 DEF ClaimAlone, Strengthening, PassConsistent
    <3>5. \A x \in ready' : KeyOf(x)' \notin claimed' => rows'[x].status \in Pending
      BY <3>2 DEF Strengthening, PassConsistent, KeyOf
    <3> QED BY <3>1, <3>2, <3>3, <3>4, <3>5 DEF PassConsistent, KeyOf
  <2> QED BY <1>4, <2>1, RowsAndJobsFramed
          DEF ClaimAlone, store, jobs, Strengthening, DownIsEmpty
<1> QED BY <1>1, <1>2, <1>3, <1>4

LEMMA DigestStep ==
  ASSUME TypeOK, Strengthening, TypeOK',
         NEW d \in Ids, NEW carrier \in Ids, ClaimDigest(d, carrier)
  PROVE  Strengthening'
<1>1. \A x \in Ids : /\ rows'[x].status = rows[x].status
                     /\ rows'[x].route = rows[x].route
                     /\ rows'[x].into = rows[x].into
                     /\ KeyOf(x)' = KeyOf(x)
  BY DEF ClaimDigest, TypeOK, Row, KeyOf
<1>2. KeyOf(carrier) = KeyOf(d) /\ carrier \in ready
  BY DEF ClaimDigest, Siblings, KeyOf
<1>3. CallsTracked' /\ OneTurnPerThread' /\ DeliveringHasCall' /\ DownIsEmpty'
  BY <1>1 DEF ClaimDigest, jobs, Strengthening, CallsTracked, OneTurnPerThread,
              DeliveringHasCall, DownIsEmpty, TypeOK, Call
<1>4. CarrierKept'
  BY <1>1, IdsFacts DEF ClaimDigest, Strengthening, CarrierKept, TypeOK, Row
<1>5. Siblings(carrier)' \subseteq ({d} \cup Siblings(d)) \ {carrier}
  BY <1>1, <1>2 DEF ClaimDigest, Siblings, TypeOK
<1>6. d < carrier
  <2>1. Dispatchable(carrier)
    BY <1>2 DEF ClaimDigest, NextUp, Dispatchable, Siblings
  <2>2. d <= carrier /\ d # carrier
    BY <1>2, <2>1 DEF ClaimDigest, NextUp, Siblings, Strengthening, PassConsistent
  <2> QED BY <2>2, IdsFacts
<1>7. PassConsistent'
  <2>1. \A x \in ready : KeyOf(x) \notin claimed => rows[x].status \in Pending
    BY DEF Strengthening, PassConsistent
  <2>2. KeyOf(d) \notin claimed \cup inFlight /\ d \in ready
    BY DEF ClaimDigest, NextUp, Dispatchable, Strengthening, PassConsistent
  <2>3. \A x \in Siblings(d) \cup {d} : KeyOf(x) = KeyOf(d) /\ rows[x].status \in Pending
    BY <2>1, <2>2 DEF Siblings, KeyOf
  <2>4. \A x \in Siblings(carrier)' : x < carrier /\ rows'[x].status \in Pending
    BY <1>1, <1>5, <1>6, <2>3, IdsFacts DEF ClaimDigest, TypeOK, Siblings
  <2>5. todo' \subseteq ready'
    BY DEF ClaimDigest, Strengthening, PassConsistent
  <2>6. \A x \in ready' : Dispatchable(x)' => x \in todo'
    <3> SUFFICES ASSUME NEW x \in ready', Dispatchable(x)' PROVE x \in todo'
      OBVIOUS
    <3>1. x \in Ids /\ KeyOf(x) # KeyOf(d) /\ Dispatchable(x)
      BY <1>1 DEF Dispatchable, ClaimDigest, TypeOK, jobs
    <3>2. x \in todo /\ d <= x /\ x # d
      BY <3>1 DEF ClaimDigest, NextUp, Strengthening, PassConsistent
    <3> QED BY <3>1, <3>2, IdsFacts DEF ClaimDigest
  <2>7. batch' = carrier /\ step' = "merge" /\ ready' = ready /\ inFlight' = inFlight
        /\ claimed' = claimed \cup {KeyOf(d)}
    BY DEF ClaimDigest, jobs
  <2>8. \A x \in ready' : KeyOf(x)' \notin claimed' => rows'[x].status \in Pending
    BY <1>1, <2>1, <2>7 DEF TypeOK
  <2>9. Siblings(batch)' = Siblings(carrier)'
    BY <2>7 DEF Siblings
  <2>10. KeyOf(batch)' = KeyOf(d) /\ rows'[batch'].status \in Pending /\ carrier \in ready
    BY <1>1, <1>2, <2>3, <2>7 DEF KeyOf, ClaimDigest
  <2> QED BY <2>2, <2>4, <2>5, <2>6, <2>7, <2>8, <2>9, <2>10 DEF PassConsistent
<1> QED BY <1>3, <1>4, <1>7 DEF Strengthening

LEMMA MergeStep ==
  ASSUME TypeOK, Strengthening, TypeOK', Merge
  PROVE  Strengthening'
<1>1. /\ batch \in Ids /\ batch \notin Siblings(batch) /\ Siblings(batch) \subseteq Ids
      /\ \A x \in Siblings(batch) : x < batch /\ rows[x].status \in Pending
                                    /\ rows[x].route = rows[batch].route
  BY DEF Merge, TypeOK, Strengthening, PassConsistent, Siblings
<1>2. \A x \in Ids : /\ rows'[x].route = rows[x].route
                     /\ KeyOf(x)' = KeyOf(x)
                     /\ x \notin Siblings(batch) => rows'[x] = rows[x]
                     /\ x \in Siblings(batch) => /\ rows'[x].status = "coalesced"
                                                 /\ rows'[x].into = batch
  BY DEF Merge, TypeOK, Row, KeyOf
<1>3. UNCHANGED <<nextId, up, calls, inFlight, ready, todo, claimed, batch, route, ticking>>
      /\ step' = "dispatch"
  BY DEF Merge, pass, jobs
<1>4. CallsTracked'
  <2>1. \A d \in Ids : d >= nextId' => rows'[d].status = "absent"
    BY <1>1, <1>2, <1>3 DEF Strengthening, CallsTracked, Pending
  <2>2. \A c \in calls : c.row \in Ids /\ c.row \notin Siblings(batch)
    BY <1>1 DEF Strengthening, CallsTracked, Pending, TypeOK, Call
  <2> QED BY <1>2, <1>3, <2>1, <2>2 DEF Strengthening, CallsTracked
<1>5. OneTurnPerThread' /\ DeliveringHasCall' /\ DownIsEmpty'
  <2>1. \A d \in Ids : rows'[d].status = "delivering" => rows[d].status = "delivering"
    BY <1>2
  <2>2. OneTurnPerThread'
    BY <1>2, <1>3, <2>1 DEF Strengthening, OneTurnPerThread
  <2>3. DeliveringHasCall'
    BY <1>2, <1>3, <2>1 DEF Strengthening, DeliveringHasCall
  <2>4. DownIsEmpty'
    <3>1. up
      BY DEF Merge
    <3> QED BY <1>3, <3>1 DEF DownIsEmpty
  <2> QED BY <2>2, <2>3, <2>4
<1>6. CarrierKept'
  <2> SUFFICES ASSUME NEW d \in Ids, rows'[d].status = "coalesced"
               PROVE  LET c == rows'[d].into IN
                      /\ c > d
                      /\ rows'[c].status \notin {"absent", "skipped-duplicate"}
                      /\ rows'[c].route = rows'[d].route
    BY DEF CarrierKept
  <2>1. CASE d \in Siblings(batch)
    <3>1. rows'[batch] = rows[batch] /\ rows[batch].status \in Pending
      BY <1>1, <1>2 DEF Strengthening, PassConsistent, Merge
    <3> QED BY <1>1, <1>2, <2>1, <3>1, IdsFacts DEF Pending
  <2>2. CASE d \notin Siblings(batch)
    <3>1. rows'[d] = rows[d]
      BY <1>2, <2>2
    <3>2. /\ rows[d].into > d /\ rows[d].into \in Ids
          /\ rows[rows[d].into].status \notin {"absent", "skipped-duplicate"}
          /\ rows[rows[d].into].route = rows[d].route
      BY <3>1, IdsFacts DEF Strengthening, CarrierKept, TypeOK, Row
    <3> QED BY <1>2, <3>1, <3>2
  <2> QED BY <2>1, <2>2
<1>7. PassConsistent'
  <2>1. KeyOf(batch) \in claimed \ inFlight /\ batch \in ready /\ rows[batch].status \in Pending
    BY DEF Merge, Strengthening, PassConsistent
  <2>2. \A x \in Siblings(batch) : KeyOf(x) \in claimed
    BY <1>1, <2>1 DEF KeyOf
  <2>3. \A x \in ready : x \in Ids /\ (Dispatchable(x)' <=> Dispatchable(x))
    BY <1>2, <1>3 DEF Dispatchable, TypeOK
  <2>4. \A x \in ready' : Dispatchable(x)' => x \in todo'
    BY <1>3, <2>3 DEF Strengthening, PassConsistent
  <2>5. \A x \in ready' : KeyOf(x)' \notin claimed' => rows'[x].status \in Pending
    BY <1>2, <1>3, <2>2, <2>3 DEF Strengthening, PassConsistent
  <2>6. KeyOf(batch)' \in claimed' \ inFlight' /\ rows'[batch'].status \in Pending
    BY <1>1, <1>2, <1>3, <2>1 DEF KeyOf
  <2> QED BY <1>3, <2>1, <2>4, <2>5, <2>6 DEF Strengthening, PassConsistent
<1> QED BY <1>4, <1>5, <1>6, <1>7 DEF Strengthening

LEMMA DispatchStep ==
  ASSUME TypeOK, Strengthening, TypeOK', Dispatch
  PROVE  Strengthening'
<1>1. /\ batch \in Ids /\ rows[batch].status \in Pending
      /\ KeyOf(batch) \in claimed \ inFlight /\ batch \in ready
  BY DEF Dispatch, TypeOK, Strengthening, PassConsistent
<1>2. \A x \in Ids : /\ rows'[x].route = rows[x].route
                     /\ rows'[x].into = rows[x].into
                     /\ KeyOf(x)' = KeyOf(x)
                     /\ x # batch => rows'[x].status = rows[x].status
  BY <1>1 DEF Dispatch, TypeOK, Row, KeyOf
<1>3. /\ rows'[batch].status \in {"failed", "delivering"}
      /\ rows'[batch].status = "failed" => calls' = calls
      /\ rows'[batch].status = "delivering" =>
           calls' = calls \cup {[row |-> batch, key |-> KeyOf(batch)]}
  BY <1>1 DEF Dispatch, TypeOK, Row
<1>4. /\ UNCHANGED <<nextId, up, ready, todo, claimed, batch, route, ticking>>
      /\ step' = "scan" /\ inFlight' = inFlight \cup {KeyOf(batch)} /\ up
  BY DEF Dispatch, pass
<1>5. batch < nextId
  BY <1>1, IdsFacts DEF Strengthening, CallsTracked, Pending, TypeOK
<1>6. \A c \in calls : c.key # KeyOf(batch) /\ c.row # batch /\ c.row \in Ids
  BY <1>1 DEF Strengthening, CallsTracked, Pending, TypeOK, Call
<1>7. CallsTracked'
  <2>1. \A d \in Ids : d >= nextId' => rows'[d].status = "absent"
    BY <1>2, <1>4, <1>5, IdsFacts DEF Strengthening, CallsTracked, TypeOK
  <2>2. ASSUME NEW c \in calls
        PROVE  /\ c.key \in inFlight' /\ c.row < nextId'
               /\ \/ rows'[c.row].status = "absent"
                  \/ rows'[c.row].status = "delivering" /\ KeyOf(c.row)' = c.key
    BY <1>2, <1>4, <1>6 DEF Strengthening, CallsTracked
  <2>3. ASSUME rows'[batch].status = "delivering",
               NEW c, c = [row |-> batch, key |-> KeyOf(batch)]
        PROVE  /\ c.key \in inFlight' /\ c.row < nextId'
               /\ rows'[c.row].status = "delivering" /\ KeyOf(c.row)' = c.key
    BY <1>1, <1>2, <1>4, <1>5, <2>3
  <2> QED BY <1>3, <2>1, <2>2, <2>3 DEF CallsTracked
<1>8. OneTurnPerThread'
  <2>1. \A c1, c2 \in calls' : c1.key = c2.key => c1 = c2
    BY <1>3, <1>6 DEF Strengthening, OneTurnPerThread
  <2>2. \A d \in Ids : rows[d].status = "delivering" => KeyOf(d) # KeyOf(batch)
    BY <1>4, <1>6 DEF Strengthening, DeliveringHasCall
  <2>3. \A d1, d2 \in Ids :
          rows'[d1].status = "delivering" /\ rows'[d2].status = "delivering"
            /\ KeyOf(d1)' = KeyOf(d2)' => d1 = d2
    BY <1>1, <1>2, <2>2 DEF Strengthening, OneTurnPerThread
  <2> QED BY <2>1, <2>3 DEF OneTurnPerThread
<1>9. DeliveringHasCall' /\ DownIsEmpty'
  <2>1. ASSUME NEW d \in Ids, rows'[d].status = "delivering"
        PROVE  \E c \in calls' : c.row = d /\ c.key = KeyOf(d)'
    <3>1. CASE d = batch
      <4> DEFINE c == [row |-> batch, key |-> KeyOf(batch)]
      <4>1. c \in calls' /\ c.row = d /\ c.key = KeyOf(d)'
        BY <1>1, <1>2, <1>3, <2>1, <3>1
      <4> QED BY <4>1
    <3>2. CASE d # batch
      BY <1>2, <1>3, <1>4, <2>1, <3>2 DEF Strengthening, DeliveringHasCall
    <3> QED BY <3>1, <3>2
  <2> QED BY <1>4, <2>1 DEF DeliveringHasCall, DownIsEmpty
<1>10. CarrierKept'
  <2> SUFFICES ASSUME NEW d \in Ids, rows'[d].status = "coalesced"
               PROVE  LET c == rows'[d].into IN
                      /\ c > d
                      /\ rows'[c].status \notin {"absent", "skipped-duplicate"}
                      /\ rows'[c].route = rows'[d].route
    BY DEF CarrierKept
  <2>1. rows[d].status = "coalesced"
    BY <1>2, <1>3
  <2>2. /\ rows[d].into > d /\ rows[d].into \in Ids
        /\ rows[rows[d].into].status \notin {"absent", "skipped-duplicate"}
        /\ rows[rows[d].into].route = rows[d].route
    BY <2>1, IdsFacts DEF Strengthening, CarrierKept, TypeOK, Row
  <2> QED BY <1>2, <1>3, <2>2
<1>11. PassConsistent'
  <2>1. \A x \in ready : x \in Ids /\ (Dispatchable(x)' => Dispatchable(x))
    BY <1>2, <1>4 DEF Dispatchable, TypeOK
  <2>2. \A x \in ready' : Dispatchable(x)' => x \in todo'
    BY <1>4, <2>1 DEF Strengthening, PassConsistent
  <2>3. \A x \in ready' : KeyOf(x)' \notin claimed' => rows'[x].status \in Pending
    BY <1>1, <1>2, <1>4, <2>1 DEF Strengthening, PassConsistent
  <2> QED BY <1>4, <2>2, <2>3 DEF Strengthening, PassConsistent
<1> QED BY <1>7, <1>8, <1>9, <1>10, <1>11 DEF Strengthening

\* Between handlers a pass holds no snapshot.
LEMMA IdlePassIsEmpty ==
  ASSUME Strengthening, step = "idle"
  PROVE  ready = {} /\ todo = {} /\ claimed = {}
  BY DEF Strengthening, PassConsistent

\* An answer writes the row of its call and nothing else.
LEMMA AnswerStep ==
  ASSUME TypeOK, Strengthening, TypeOK', NEW c \in calls, Answered(c),
         \A d \in Ids \ {c.row} : rows'[d] = rows[d],
         rows'[c.row].route = rows[c.row].route,
         rows[c.row].status = "absent" => rows'[c.row] = rows[c.row],
         rows[c.row].status # "absent" =>
            rows'[c.row].status \in {"delivered", "failed", "held"}
  PROVE  Strengthening'
<1>1. c.row \in Ids /\ (rows[c.row].status = "absent" \/ rows[c.row].status = "delivering")
  BY DEF TypeOK, Call, Strengthening, CallsTracked
<1>2. \A d \in Ids : KeyOf(d)' = KeyOf(d) /\ rows'[d].route = rows[d].route
  BY DEF KeyOf
<1>3. /\ UNCHANGED <<nextId, up, ready, todo, claimed, batch, route, ticking, step, inFlight>>
      /\ calls' = calls \ {c} /\ up /\ step = "idle"
  BY DEF Answered, pass
<1>4. \A d \in Ids : rows'[d].status = "delivering" => d # c.row /\ rows[d].status = "delivering"
  BY <1>1
<1>5. \A o \in calls : o # c =>
        o.row \in Ids /\ (o.row # c.row \/ rows[c.row].status = "absent")
  <2> SUFFICES ASSUME NEW o \in calls, o # c
               PROVE  o.row \in Ids /\ (o.row # c.row \/ rows[c.row].status = "absent")
    OBVIOUS
  <2>1. o.row \in Ids
    BY DEF TypeOK, Call
  <2>2. o.key # c.key
    BY DEF Strengthening, OneTurnPerThread
  <2>3. ASSUME o.row = c.row, rows[c.row].status = "delivering" PROVE FALSE
    BY <2>2, <2>3 DEF Strengthening, CallsTracked
  <2> QED BY <1>1, <2>1, <2>3
<1>6. CallsTracked'
  <2>1. \A d \in Ids : d >= nextId' => rows'[d].status = "absent"
    BY <1>1, <1>3, IdsFacts DEF Strengthening, CallsTracked
  <2>2. \A o \in calls' : /\ o.key \in inFlight' /\ o.row < nextId'
                          /\ \/ rows'[o.row].status = "absent"
                             \/ rows'[o.row].status = "delivering" /\ KeyOf(o.row)' = o.key
    BY <1>1, <1>2, <1>3, <1>5 DEF Strengthening, CallsTracked
  <2> QED BY <2>1, <2>2 DEF CallsTracked
<1>7. OneTurnPerThread'
  BY <1>2, <1>3, <1>4 DEF Strengthening, OneTurnPerThread
<1>8. DeliveringHasCall' /\ DownIsEmpty'
  <2>1. ASSUME NEW d \in Ids, rows'[d].status = "delivering"
        PROVE  \E o \in calls' : o.row = d /\ o.key = KeyOf(d)'
    <3>1. PICK o \in calls : o.row = d /\ o.key = KeyOf(d)
      BY <1>3, <1>4, <2>1 DEF Strengthening, DeliveringHasCall
    <3>2. o \in calls'
      BY <1>3, <1>4, <2>1, <3>1
    <3> QED BY <1>2, <3>1, <3>2
  <2> QED BY <1>3, <2>1 DEF DeliveringHasCall, DownIsEmpty
<1>9. CarrierKept'
  <2> SUFFICES ASSUME NEW d \in Ids, rows'[d].status = "coalesced"
               PROVE  LET k == rows'[d].into IN
                      /\ k > d
                      /\ rows'[k].status \notin {"absent", "skipped-duplicate"}
                      /\ rows'[k].route = rows'[d].route
    BY DEF CarrierKept
  <2>1. d # c.row /\ rows'[d] = rows[d]
    BY <1>1
  <2>2. /\ rows[d].into > d /\ rows[d].into \in Ids
        /\ rows[rows[d].into].status \notin {"absent", "skipped-duplicate"}
        /\ rows[rows[d].into].route = rows[d].route
    BY <2>1, IdsFacts DEF Strengthening, CarrierKept, TypeOK, Row
  <2> QED BY <1>2, <2>1, <2>2
<1>10. PassConsistent'
  BY <1>3, IdlePassIsEmpty, IdlePassConsistent
<1> QED BY <1>6, <1>7, <1>8, <1>9, <1>10 DEF Strengthening

LEMMA AnswerSteps ==
  ASSUME TypeOK, Strengthening, TypeOK', NEW c \in calls,
         Deliver(c) \/ FailPermanently(c) \/ HoldForRetry(c) \/ FailAttempt(c)
  PROVE  Strengthening'
<1>1. c.row \in Ids /\ rows[c.row] \in Row
  BY DEF TypeOK, Call
<1>2. ASSUME NEW row, rows' = Update(c.row, row), row.route = rows[c.row].route,
             row.status \in {"delivered", "failed", "held"}, Answered(c)
      PROVE  Strengthening'
  <2>1. \A d \in Ids \ {c.row} : rows'[d] = rows[d]
    BY <1>1, <1>2 DEF Update, TypeOK
  <2>2. rows'[c.row] = IF rows[c.row].status = "absent" THEN rows[c.row] ELSE row
    BY <1>1, <1>2 DEF Update, TypeOK
  <2> QED BY <1>2, <2>1, <2>2, AnswerStep
<1>3. Answered(c)
  BY DEF Deliver, FailPermanently, HoldForRetry, FailAttempt
<1>4. CASE Deliver(c)
  <2>1. /\ [rows[c.row] EXCEPT !.status = "delivered", !.recent = TRUE].route = rows[c.row].route
        /\ [rows[c.row] EXCEPT !.status = "delivered", !.recent = TRUE].status = "delivered"
    BY <1>1 DEF Row
  <2> QED BY <1>2, <1>3, <1>4, <2>1 DEF Deliver
<1>5. CASE MarkFailed(c.row)
  <2>1. /\ [rows[c.row] EXCEPT !.status = "failed", !.recent = FALSE].route = rows[c.row].route
        /\ [rows[c.row] EXCEPT !.status = "failed", !.recent = FALSE].status = "failed"
    BY <1>1 DEF Row
  <2> QED BY <1>2, <1>3, <1>5, <2>1 DEF MarkFailed
<1>6. CASE MarkHeld(c.row)
  <2> DEFINE held == [rows[c.row] EXCEPT !.status = "held", !.recent = FALSE,
                                         !.backoff = TRUE, !.attempts = OneMore(@)]
  <2>1. held.route = rows[c.row].route /\ held.status = "held"
    BY <1>1 DEF Row
  <2>2. rows' = Update(c.row, held)
    BY <1>6 DEF MarkHeld
  <2> QED BY <1>2, <1>3, <2>1, <2>2
<1> QED BY <1>4, <1>5, <1>6 DEF FailPermanently, HoldForRetry, FailAttempt

LEMMA ReleaseStep ==
  ASSUME TypeOK, Strengthening, TypeOK', NEW k \in Keys, ReleaseKey(k)
  PROVE  Strengthening'
<1>1. /\ UNCHANGED <<rows, nextId, up, ready, todo, claimed, batch, step, calls, ticking>>
      /\ step = "idle" /\ up
  BY DEF ReleaseKey, store, pass
<1>2. \A c \in calls : c.key \in inFlight'
  BY DEF ReleaseKey, Strengthening, CallsTracked
<1>3. CallsTracked'
  BY <1>1, <1>2 DEF Strengthening, CallsTracked, KeyOf
<1>4. OneTurnPerThread' /\ DeliveringHasCall' /\ CarrierKept'
  BY <1>1 DEF Strengthening, OneTurnPerThread, DeliveringHasCall, CarrierKept, KeyOf
<1>5. DownIsEmpty'
  BY <1>1 DEF DownIsEmpty
<1> QED BY <1>1, <1>3, <1>4, <1>5, IdlePassIsEmpty, IdlePassConsistent DEF Strengthening

\* A row inserted under a new identity, waiting or skipped.
LEMMA InsertStep ==
  ASSUME TypeOK, Strengthening, TypeOK',
         NEW r \in Routes, NEW e \in Events, NEW replay \in BOOLEAN, Insert(r, e, replay)
  PROVE  Strengthening'
<1>1. nextId \in Ids /\ nextId' = nextId + 1 /\ up /\ step = "idle"
      /\ UNCHANGED <<route, up, calls, inFlight>>
  BY IdsFacts DEF TypeOK, Insert, jobs, Ids
<1>2. rows'[nextId].status \in {"queued", "skipped-duplicate"}
  BY <1>1 DEF Insert, NewRow, TypeOK
<1>3. \A d \in Ids \ {nextId} : rows'[d] = rows[d] /\ KeyOf(d)' = KeyOf(d)
  BY <1>1 DEF Insert, TypeOK, KeyOf
<1>4. rows[nextId].status = "absent"
  BY <1>1, IdsFacts DEF Strengthening, CallsTracked
<1>5. CallsTracked'
  <2>1. \A d \in Ids : d >= nextId' => rows'[d].status = "absent"
    <3> SUFFICES ASSUME NEW d \in Ids, d >= nextId' PROVE rows'[d].status = "absent"
      OBVIOUS
    <3>1. d # nextId /\ d >= nextId
      BY <1>1, IdsFacts
    <3> QED BY <1>3, <3>1 DEF Strengthening, CallsTracked
  <2>2. ASSUME NEW c \in calls
        PROVE  /\ c.key \in inFlight' /\ c.row < nextId'
               /\ \/ rows'[c.row].status = "absent"
                  \/ rows'[c.row].status = "delivering" /\ KeyOf(c.row)' = c.key
    <3>1. c.row \in Ids /\ c.row # nextId /\ c.row < nextId'
      BY <1>1, IdsFacts DEF TypeOK, Call, Strengthening, CallsTracked
    <3> QED BY <1>1, <1>3, <3>1 DEF Strengthening, CallsTracked
  <2> QED BY <1>1, <2>1, <2>2 DEF CallsTracked
<1>6. \A d \in Ids : rows'[d].status = "delivering" => d # nextId /\ rows[d].status = "delivering"
  BY <1>2, <1>3
<1>7. OneTurnPerThread'
  BY <1>1, <1>3, <1>6 DEF Strengthening, OneTurnPerThread
<1>8. DeliveringHasCall' /\ DownIsEmpty'
  <2>1. \A d \in Ids : rows'[d].status = "delivering" =>
          \E c \in calls' : c.row = d /\ c.key = KeyOf(d)'
    BY <1>1, <1>3, <1>6 DEF Strengthening, DeliveringHasCall
  <2> QED BY <1>1, <2>1 DEF DeliveringHasCall, DownIsEmpty
<1>9. CarrierKept'
  <2> SUFFICES ASSUME NEW d \in Ids, rows'[d].status = "coalesced"
               PROVE  LET k == rows'[d].into IN
                      /\ k > d
                      /\ rows'[k].status \notin {"absent", "skipped-duplicate"}
                      /\ rows'[k].route = rows'[d].route
    BY DEF CarrierKept
  <2>1. d # nextId /\ rows'[d] = rows[d]
    BY <1>2, <1>3
  <2>2. /\ rows[d].into > d /\ rows[d].into \in Ids
        /\ rows[rows[d].into].status \notin {"absent", "skipped-duplicate"}
        /\ rows[rows[d].into].route = rows[d].route
    BY <2>1, IdsFacts DEF Strengthening, CarrierKept, TypeOK, Row
  <2>3. rows'[rows[d].into] = rows[rows[d].into]
    BY <1>3, <1>4, <2>2
  <2> QED BY <2>1, <2>2, <2>3
<1>10. PassConsistent'
  <2>1. ready = {} /\ todo = {} /\ claimed = {}
    BY <1>1, IdlePassIsEmpty
  <2>2. CASE BeginPass(rows')
    BY <2>2, BeginPassConsistent
  <2>3. CASE UNCHANGED <<ticking, step, pass>>
    BY <1>1, <2>1, <2>3, IdlePassConsistent DEF pass
  <2>4. CASE /\ rows' = [rows EXCEPT ![nextId] = NewRow("queued", r, e, {}, replay)]
             /\ batch' = nextId /\ step' = "reject"
             /\ UNCHANGED <<ticking, ready, todo, claimed>>
    <3>1. rows'[nextId].status \in Pending
      BY <1>1, <2>4 DEF NewRow, TypeOK, Pending
    <3> QED BY <2>1, <2>4, <3>1 DEF PassConsistent
  <2> QED BY <2>2, <2>3, <2>4 DEF Insert
<1> QED BY <1>5, <1>7, <1>8, <1>9, <1>10 DEF Strengthening

\* The row of a template error is failed; no pass is running its loop.
LEMMA RejectStep ==
  ASSUME TypeOK, Strengthening, TypeOK', RejectUnrendered
  PROVE  Strengthening'
<1>1. /\ UNCHANGED <<route, nextId, up, ticking, ready, todo, claimed, calls, inFlight>>
      /\ step' = "idle" /\ up /\ batch \in Ids /\ rows[batch].status \in Pending
      /\ ready = {} /\ todo = {} /\ claimed = {}
  BY DEF RejectUnrendered, jobs, TypeOK, Strengthening, PassConsistent
<1>2. \A d \in Ids : /\ rows'[d].route = rows[d].route /\ rows'[d].into = rows[d].into
                     /\ KeyOf(d)' = KeyOf(d)
                     /\ d # batch => rows'[d].status = rows[d].status
                     /\ d = batch => rows'[d].status = "failed"
  BY <1>1 DEF RejectUnrendered, TypeOK, Row, KeyOf
<1>3. CallsTracked'
  <2>1. \A c \in calls : c.row \in Ids /\ c.row # batch
    BY <1>1 DEF Strengthening, CallsTracked, Pending, TypeOK, Call
  <2> QED BY <1>1, <1>2, <2>1 DEF Strengthening, CallsTracked, Pending
<1>4. \A d \in Ids : rows'[d].status = "delivering" => rows[d].status = "delivering"
  BY <1>2
<1>5. OneTurnPerThread' /\ DownIsEmpty'
  BY <1>1, <1>2, <1>4 DEF Strengthening, OneTurnPerThread, DownIsEmpty
<1>6. DeliveringHasCall'
  BY <1>1, <1>2, <1>4 DEF Strengthening, DeliveringHasCall
<1>7. CarrierKept'
  BY <1>2, IdsFacts DEF Strengthening, CarrierKept, TypeOK, Row
<1>8. PassConsistent'
  BY <1>1, IdlePassConsistent DEF RejectUnrendered
<1> QED BY <1>3, <1>5, <1>6, <1>7, <1>8 DEF Strengthening

LEMMA RemoveStep ==
  ASSUME TypeOK, Strengthening, TypeOK', NEW r \in Routes, RemoveRoute(r)
  PROVE  Strengthening'
<1>1. /\ UNCHANGED <<nextId, up, ticking, ready, todo, claimed, step, calls, inFlight>>
      /\ step = "idle" /\ up
  BY DEF RemoveRoute, ChangeRoute, pass, jobs
<1>2. \A d \in Ids : \/ rows'[d].status = "absent" /\ rows[d].route = r
                     \/ rows'[d] = rows[d] /\ rows[d].route # r /\ KeyOf(d)' = KeyOf(d)
  BY NoRowType DEF RemoveRoute, KeyOf
<1>3. CallsTracked'
  BY <1>1, <1>2, IdsFacts DEF Strengthening, CallsTracked, TypeOK, Call
<1>4. OneTurnPerThread'
  BY <1>1, <1>2 DEF Strengthening, OneTurnPerThread
<1>5. DeliveringHasCall' /\ DownIsEmpty'
  BY <1>1, <1>2 DEF Strengthening, DeliveringHasCall, DownIsEmpty
<1>6. CarrierKept'
  <2> SUFFICES ASSUME NEW d \in Ids, rows'[d].status = "coalesced"
               PROVE  LET k == rows'[d].into IN
                      /\ k > d
                      /\ rows'[k].status \notin {"absent", "skipped-duplicate"}
                      /\ rows'[k].route = rows'[d].route
    BY DEF CarrierKept
  <2>1. rows'[d] = rows[d] /\ rows[d].route # r
    BY <1>2
  <2>2. /\ rows[d].into > d /\ rows[d].into \in Ids
        /\ rows[rows[d].into].status \notin {"absent", "skipped-duplicate"}
        /\ rows[rows[d].into].route = rows[d].route
    BY <2>1, IdsFacts DEF Strengthening, CarrierKept, TypeOK, Row
  <2>3. rows'[rows[d].into] = rows[rows[d].into]
    BY <1>2, <2>1, <2>2
  <2> QED BY <2>1, <2>2, <2>3
<1> QED BY <1>1, <1>3, <1>4, <1>5, <1>6, IdlePassIsEmpty, IdlePassConsistent DEF Strengthening

LEMMA ClockStep ==
  ASSUME TypeOK, Strengthening, TypeOK', Clock
  PROVE  Strengthening'
<1>1. PICK d \in Ids : BackoffExpires(d) \/ MinutePasses(d)
  BY DEF Clock
<1>2. /\ UNCHANGED <<nextId, up, ticking, ready, todo, claimed, step, calls, inFlight>>
      /\ step = "idle"
  BY <1>1 DEF BackoffExpires, MinutePasses, pass, jobs
<1>3. \A x \in Ids : /\ rows'[x].route = rows[x].route
                     /\ rows'[x].status = rows[x].status
                     /\ rows'[x].into = rows[x].into
                     /\ KeyOf(x)' = KeyOf(x)
  BY <1>1 DEF BackoffExpires, MinutePasses, TypeOK, Row, KeyOf
<1>4. CallsTracked' /\ OneTurnPerThread' /\ DeliveringHasCall' /\ DownIsEmpty'
  BY <1>2, <1>3
  DEF Strengthening, CallsTracked, OneTurnPerThread, DeliveringHasCall, DownIsEmpty, TypeOK, Call
<1>5. CarrierKept'
  BY <1>3, IdsFacts DEF Strengthening, CarrierKept, TypeOK, Row
<1> QED BY <1>2, <1>4, <1>5, IdlePassIsEmpty, IdlePassConsistent DEF Strengthening

\* A start finds no calls and leaves no row delivering.
LEMMA BootStep ==
  ASSUME TypeOK, Strengthening, TypeOK', Boot
  PROVE  Strengthening'
<1>1. /\ calls' = {} /\ inFlight' = {} /\ up' /\ UNCHANGED nextId
      /\ calls = {}
  BY DEF Boot, jobs, Strengthening, DownIsEmpty
<1>2. \A x \in Ids : /\ rows'[x].route = rows[x].route
                     /\ rows'[x].into = rows[x].into
                     /\ rows[x].status = "delivering" => rows'[x].status = "queued"
                     /\ rows[x].status # "delivering" => rows'[x].status = rows[x].status
  <2> SUFFICES ASSUME NEW x \in Ids
               PROVE  /\ rows'[x].route = rows[x].route
                      /\ rows'[x].into = rows[x].into
                      /\ rows[x].status = "delivering" => rows'[x].status = "queued"
                      /\ rows[x].status # "delivering" => rows'[x].status = rows[x].status
    OBVIOUS
  <2> DEFINE back == [rows[x] EXCEPT !.status = "queued", !.recent = FALSE]
  <2>1. back.route = rows[x].route /\ back.into = rows[x].into /\ back.status = "queued"
    BY DEF TypeOK, Row
  <2>2. rows'[x] = IF rows[x].status = "delivering" THEN back ELSE rows[x]
    BY DEF Boot
  <2> QED BY <2>1, <2>2
<1>3. CallsTracked' /\ OneTurnPerThread' /\ DeliveringHasCall' /\ DownIsEmpty'
  BY <1>1, <1>2
  DEF Strengthening, CallsTracked, OneTurnPerThread, DeliveringHasCall, DownIsEmpty
<1>4. CarrierKept'
  BY <1>2, IdsFacts DEF Strengthening, CarrierKept, TypeOK, Row
<1> QED BY <1>3, <1>4, BeginPassConsistent DEF Boot, Strengthening

LEMMA OtherSteps ==
  ASSUME TypeOK, Strengthening, TypeOK',
         \/ \E r \in Routes : CreateRoute(r)
         \/ \E r \in Routes, s \in {"enabled", "disabled"} : SetEnabled(r, s)
         \/ Stop \/ Crash \/ Exit
         \/ UNCHANGED vars
  PROVE  Strengthening'
<1>1. CASE \/ \E r \in Routes : CreateRoute(r)
           \/ \E r \in Routes, s \in {"enabled", "disabled"} : SetEnabled(r, s)
           \/ Stop
  <2>1. /\ UNCHANGED <<rows, nextId, up, ticking, ready, todo, claimed, step, calls, inFlight>>
        /\ step = "idle"
    BY <1>1 DEF CreateRoute, SetEnabled, ChangeRoute, Stop, store, pass, jobs
  <2>2. DownIsEmpty'
    BY <2>1 DEF Strengthening, DownIsEmpty
  <2> QED BY <2>1, <2>2, RowsAndJobsFramed, IdlePassIsEmpty, IdlePassConsistent DEF Strengthening
<1>2. CASE Crash \/ Exit
  <2>1. Die
    BY <1>2 DEF Crash, Exit
  <2>2. UNCHANGED <<rows, nextId>> /\ calls' = {} /\ inFlight' = {} /\ ~up' /\ step' = "idle"
        /\ ~ticking'
    BY <2>1 DEF Die, store
  <2>3. CallsTracked' /\ OneTurnPerThread' /\ CarrierKept'
    BY <2>2 DEF Strengthening, CallsTracked, OneTurnPerThread, CarrierKept, KeyOf
  <2>4. DeliveringHasCall' /\ DownIsEmpty'
    BY <2>2 DEF DeliveringHasCall, DownIsEmpty
  <2>5. PassConsistent'
    BY <2>1, IdlePassConsistent DEF Die
  <2> QED BY <2>3, <2>4, <2>5 DEF Strengthening
<1>3. CASE UNCHANGED vars
  BY <1>3, RowsAndJobsFramed
  DEF vars, store, pass, jobs, Strengthening, DownIsEmpty, PassConsistent, KeyOf, Siblings,
      Dispatchable
<1> QED BY <1>1, <1>2, <1>3

LEMMA NextInv == TypeOK /\ Strengthening /\ [Next]_vars => Strengthening'
<1> SUFFICES ASSUME TypeOK, Strengthening, [Next]_vars PROVE Strengthening'
  OBVIOUS
<1>1. TypeOK'
  BY NextType
<1>2. CASE Handler
  BY <1>1, <1>2, ScanSteps, DigestStep, MergeStep, DispatchStep, RejectStep DEF Handler
<1>3. CASE Answer
  BY <1>1, <1>3, AnswerSteps DEF Answer
<1>4. CASE Request
  <2>1. ASSUME NEW d \in Ids, Replay(d) PROVE Strengthening'
    <3>1. rows[d].route \in Routes /\ rows[d].event \in Events
      BY DEF TypeOK, Row
    <3> QED BY <1>1, <2>1, <3>1, InsertStep DEF Replay
  <2>2. ASSUME NEW r \in Routes, NEW e \in Events, Enqueue(r, e) PROVE Strengthening'
    BY <1>1, <2>2, InsertStep DEF Enqueue
  <2> QED BY <1>1, <1>4, <2>1, <2>2, RemoveStep, OtherSteps DEF Request
<1>5. CASE TimerTick \/ EndPass
  BY <1>1, <1>5, ScanSteps
<1>6. ASSUME NEW k \in Keys, ReleaseKey(k) PROVE Strengthening'
  BY <1>1, <1>6, ReleaseStep
<1>7. CASE Clock \/ Boot
  BY <1>1, <1>7, ClockStep, BootStep
<1>8. CASE Stop \/ Crash \/ Exit \/ UNCHANGED vars
  BY <1>1, <1>8, OtherSteps
<1> QED BY <1>2, <1>3, <1>4, <1>5, <1>6, <1>7, <1>8 DEF Next

-----------------------------------------------------------------------------
(* The theorems. *)

\* The inductive invariant holds in every reachable state, for any set of
\* routes, any sharing of threads and any bounds.
THEOREM QueueInvariant == Spec => []QueueInv
<1>1. Init => QueueInv
  BY InitType, InitInv DEF QueueInv, Strengthening
<1>2. QueueInv /\ [Next]_vars => QueueInv'
  BY NextType, NextInv DEF QueueInv, Strengthening
<1> QED BY <1>1, <1>2, PTL DEF Spec

\* Every variable of the queue keeps its type.
THEOREM TypeCorrect == Spec => []TypeOK
<1>1. QueueInv => TypeOK
  BY DEF QueueInv
<1> QED BY <1>1, QueueInvariant, PTL

\* Never two turns in flight on one thread from this daemon.
THEOREM ThreadExclusion == Spec => []OneTurnPerThread
<1>1. QueueInv => OneTurnPerThread
  BY DEF QueueInv
<1> QED BY <1>1, QueueInvariant, PTL

\* While the daemon runs, a row is delivering only as long as its adapter call
\* is open.
THEOREM NoneStranded == Spec => []DeliveringHasCall
<1>1. QueueInv => DeliveringHasCall
  BY DEF QueueInv
<1> QED BY <1>1, QueueInvariant, PTL

\* The carrier of a coalesced row stays, newer and on the same route.
THEOREM CarriersKept == Spec => []CarrierKept
<1>1. QueueInv => CarrierKept
  BY DEF QueueInv
<1> QED BY <1>1, QueueInvariant, PTL

\* What a step does to the row of a settled delivery.
LEMMA SettledStep ==
  ASSUME QueueInv, [Next]_vars, NEW d \in Ids, rows[d].status \in Settled
  PROVE  rows'[d].status = rows[d].status \/ route'[rows[d].route] = "removed"
<1> USE DEF QueueInv
<1>1. /\ rows[d].status \notin Pending /\ rows[d].status # "delivering"
      /\ rows[d].status # "absent" /\ d \in DOMAIN rows
  BY DEF TypeOK, Settled, Pending
<1>2. CASE Handler
  <2>1. CASE Merge
    <3>1. d \notin Siblings(batch)
      BY <1>1, <2>1 DEF Merge, PassConsistent
    <3> QED BY <2>1, <3>1 DEF Merge
  <2>2. CASE Dispatch \/ RejectUnrendered
    <3>1. d # batch
      BY <1>1, <2>2 DEF Dispatch, RejectUnrendered, PassConsistent
    <3>2. rows'[d] = rows[d]
      BY <2>2, <3>1 DEF Dispatch, RejectUnrendered, TypeOK
    <3> QED BY <3>2
  <2>3. ASSUME NEW x \in Ids, NEW carrier \in Ids, ClaimDigest(x, carrier)
        PROVE  rows'[d].status = rows[d].status
    BY <2>3 DEF ClaimDigest, TypeOK, Row
  <2>4. ASSUME NEW x \in Ids, ClaimAlone(x) PROVE rows' = rows
    BY <2>4 DEF ClaimAlone, store
  <2>5. CASE EndScan
    BY <2>5 DEF EndScan, store
  <2> QED BY <1>2, <2>1, <2>2, <2>3, <2>4, <2>5 DEF Handler
<1>3. CASE Answer
  <2>1. PICK c \in calls : Deliver(c) \/ FailPermanently(c) \/ HoldForRetry(c) \/ FailAttempt(c)
    BY <1>3 DEF Answer
  <2>2. c.row \in Ids /\ c.row # d
    BY <1>1 DEF TypeOK, Call, CallsTracked
  <2>3. \A row : Update(c.row, row)[d] = rows[d]
    BY <2>2 DEF Update, TypeOK
  <2> QED BY <2>1, <2>3
          DEF Deliver, FailPermanently, HoldForRetry, FailAttempt, MarkFailed, MarkHeld
<1>4. ASSUME NEW r \in Routes, NEW e \in Events, NEW replay \in BOOLEAN, Insert(r, e, replay)
      PROVE  rows'[d] = rows[d]
  <2>1. d # nextId
    BY <1>1, IdsFacts DEF CallsTracked, TypeOK
  <2> QED BY <1>4, <2>1 DEF Insert, TypeOK
<1>5. CASE Request
  <2>1. ASSUME NEW x \in Ids, Replay(x) PROVE rows'[d] = rows[d]
    <3>1. rows[x].route \in Routes /\ rows[x].event \in Events
      BY DEF TypeOK, Row
    <3> QED BY <1>4, <2>1, <3>1 DEF Replay
  <2>2. ASSUME NEW r \in Routes, NEW e \in Events, Enqueue(r, e) PROVE rows'[d] = rows[d]
    BY <1>4, <2>2 DEF Enqueue
  <2>3. ASSUME NEW r \in Routes, CreateRoute(r) \/ \E s \in {"enabled", "disabled"} : SetEnabled(r, s)
        PROVE  rows' = rows
    BY <2>3 DEF CreateRoute, SetEnabled
  <2>4. ASSUME NEW r \in Routes, RemoveRoute(r)
        PROVE  rows'[d] = rows[d] \/ route'[rows[d].route] = "removed"
    BY <2>4 DEF RemoveRoute, ChangeRoute, TypeOK
  <2> QED BY <1>5, <2>1, <2>2, <2>3, <2>4 DEF Request
<1>6. CASE Clock
  <2>1. PICK x \in Ids : BackoffExpires(x) \/ MinutePasses(x)
    BY <1>6 DEF Clock
  <2> QED BY <2>1 DEF BackoffExpires, MinutePasses, TypeOK, Row
<1>7. CASE Boot
  BY <1>1, <1>7 DEF Boot
<1>8. CASE TimerTick \/ EndPass \/ (\E k \in Keys : ReleaseKey(k)) \/ Stop \/ Crash \/ Exit
           \/ UNCHANGED vars
  <2>1. rows' = rows
    BY <1>8 DEF TimerTick, EndPass, ReleaseKey, Stop, Crash, Exit, Die, vars, store
  <2> QED BY <2>1
<1> QED BY <1>2, <1>3, <1>5, <1>6, <1>7, <1>8 DEF Next

\* A late answer, a retry, a crash or a restart never reopens a settled row.
THEOREM SettledForGood == Spec => SettledIsFinal
<1>1. QueueInv /\ [Next]_vars =>
        [\A d \in Ids : rows[d].status \in Settled =>
           \/ rows'[d].status = rows[d].status
           \/ route'[rows[d].route] = "removed"]_vars
  BY SettledStep
<1> QED BY <1>1, QueueInvariant, PTL DEF Spec, SettledIsFinal

-----------------------------------------------------------------------------
(* The order of a thread. *)

\* What a pass that begins has read.
LEMMA BeginServesOldest ==
  ASSUME BeginPass(rows')
  PROVE  PassServesOldest'
  BY DEF BeginPass, PassServesOldest, ListReady

\* Between passes there is nothing to be said.
LEMMA RestServesOldest ==
  ASSUME step' \in {"idle", "reject"}
  PROVE  PassServesOldest'
  BY DEF PassServesOldest

\* The row that is claimed is older than all that are ready for its thread: the pass
\* has yet to visit those, because their key was free.
LEMMA ClaimedIsAhead ==
  ASSUME QueueInv, PassServesOldest, step = "scan", NEW d \in Ids, NextUp(d),
         NEW x \in ListReady(rows), x # d, KeyOf(x) = KeyOf(d), route[rows[x].route] = "enabled"
  PROVE  d < x
<1>1. x \in ready /\ x \in Ids
  BY DEF PassServesOldest, ListReady
<1>2. Dispatchable(x)
  BY DEF NextUp, Dispatchable
<1>3. x \in todo
  BY <1>1, <1>2 DEF QueueInv, PassConsistent
<1> QED BY <1>1, <1>2, <1>3, IdsFacts, ConstantFacts DEF NextUp

LEMMA ClaimServesOldest ==
  ASSUME QueueInv, PassServesOldest, NEW d \in Ids,
         ClaimAlone(d) \/ \E carrier \in Ids : ClaimDigest(d, carrier)
  PROVE  PassServesOldest'
<1>1. step = "scan" /\ NextUp(d) /\ d \in ready
  BY DEF ClaimAlone, ClaimDigest, NextUp, QueueInv, PassConsistent
<1>2. CASE ClaimAlone(d)
  <2>1. UNCHANGED <<rows, route, ready>> /\ batch' = d /\ step' = "dispatch"
    BY <1>2 DEF ClaimAlone, store
  <2>2. Ahead(d, d)
    BY <1>1, ClaimedIsAhead DEF Ahead
  <2>3. Ahead(batch, batch)'
    BY <2>1, <2>2 DEF Ahead, ListReady, KeyOf
  <2>4. ListReady(rows)' \subseteq ready'
    BY <1>1, <2>1 DEF PassServesOldest, ListReady
  <2> QED BY <2>1, <2>3, <2>4 DEF PassServesOldest
<1>3. ASSUME NEW carrier \in Ids, ClaimDigest(d, carrier)
      PROVE  PassServesOldest'
  <2>1. UNCHANGED <<route, ready>> /\ batch' = carrier /\ step' = "merge"
    BY <1>3 DEF ClaimDigest
  <2>2. \A x \in Ids : /\ rows'[x].status = rows[x].status
                       /\ rows'[x].backoff = rows[x].backoff
                       /\ rows'[x].route = rows[x].route
    BY <1>3 DEF ClaimDigest, QueueInv, TypeOK, Row
  <2>3. ListReady(rows)' = ListReady(rows) /\ ListReady(rows) \subseteq Ids
    BY <2>2 DEF ListReady
  <2>4. carrier # d /\ rows[carrier].route = rows[d].route
    BY <1>3 DEF ClaimDigest, Siblings
  <2>5. d \in Siblings(batch)'
    BY <1>1, <2>1, <2>2, <2>4 DEF Siblings
  <2>6. ASSUME NEW x \in ListReady(rows)' \ {d, carrier},
               KeyOf(x)' = KeyOf(carrier)', route'[rows'[x].route] = "enabled"
        PROVE  d < x
    <3>1. x \in ListReady(rows) /\ x # d /\ x \in Ids
      BY <2>3, <2>6
    <3>2. KeyOf(x) = KeyOf(d) /\ route[rows[x].route] = "enabled"
      BY <2>1, <2>2, <2>4, <2>6, <3>1 DEF KeyOf
    <3> QED BY <1>1, <3>1, <3>2, ClaimedIsAhead
  <2>7. Ahead(d, batch)'
    BY <2>1, <2>6 DEF Ahead, KeyOf
  <2> QED BY <1>1, <2>1, <2>3, <2>5, <2>7 DEF PassServesOldest
<1> QED BY <1>2, <1>3

LEMMA MergeServesOldest ==
  ASSUME QueueInv, PassServesOldest, Merge
  PROVE  PassServesOldest'
<1>1. batch \in Ids /\ Siblings(batch) \subseteq Ids /\ step = "merge"
  BY DEF Merge, QueueInv, TypeOK, Siblings
<1>2. UNCHANGED <<route, ready, batch>> /\ step' = "dispatch"
  BY DEF Merge, pass
<1>3. \A x \in Ids : /\ rows'[x].route = rows[x].route
                     /\ x \notin Siblings(batch) => rows'[x] = rows[x]
                     /\ x \in Siblings(batch) => /\ rows'[x].status = "coalesced"
                                                 /\ rows'[x].into = batch
  BY <1>1 DEF Merge, QueueInv, TypeOK, Row
<1>4. ListReady(rows)' \subseteq ListReady(rows)
  BY <1>3 DEF ListReady, Pending
<1>5. PICK h \in Siblings(batch) : Ahead(h, batch)
  BY <1>1 DEF PassServesOldest
<1>6. Ahead(h, batch)'
  <2>1. ListReady(rows) \subseteq Ids
    BY DEF ListReady
  <2>2. \A x \in Ids : KeyOf(x)' = KeyOf(x) /\ route'[rows'[x].route] = route[rows[x].route]
    BY <1>2, <1>3 DEF KeyOf
  <2>3. \A x \in ListReady(rows)' : x \in ListReady(rows) /\ x \in Ids
    BY <1>4, <2>1
  <2>4. KeyOf(batch)' = KeyOf(batch)
    BY <1>1, <1>2, <2>2 DEF KeyOf
  <2>5. ASSUME NEW x \in ListReady(rows)' \ {h, batch},
               KeyOf(x)' = KeyOf(batch)', route'[rows'[x].route] = "enabled"
        PROVE  h < x
    BY <1>5, <2>2, <2>3, <2>4, <2>5 DEF Ahead
  <2> QED BY <1>2, <2>5 DEF Ahead
<1>7. rows'[h].status = "coalesced" /\ rows'[h].into = batch' /\ h \in Ids
  BY <1>1, <1>2, <1>3, <1>5
<1> QED BY <1>1, <1>2, <1>4, <1>6, <1>7 DEF PassServesOldest

LEMMA DispatchServesOldest ==
  ASSUME QueueInv, PassServesOldest, Dispatch
  PROVE  PassServesOldest'
<1>1. batch \in Ids /\ ready' = ready /\ step = "dispatch" /\ step' = "scan"
  BY DEF Dispatch, QueueInv, TypeOK, pass
<1>2. \A x \in Ids : x # batch => rows'[x] = rows[x]
  BY <1>1 DEF Dispatch, QueueInv, TypeOK
<1>3. rows'[batch].status \in {"failed", "delivering"}
  BY <1>1 DEF Dispatch, QueueInv, TypeOK, Row
<1>4. ListReady(rows)' \subseteq ListReady(rows)
  BY <1>2, <1>3 DEF ListReady, Pending
<1> QED BY <1>1, <1>4 DEF PassServesOldest

LEMMA NextServesOldest ==
  ASSUME QueueInv, PassServesOldest, [Next]_vars
  PROVE  PassServesOldest'
<1>1. CASE Handler
  <2>1. CASE EndScan \/ RejectUnrendered
    BY <2>1, RestServesOldest DEF EndScan, RejectUnrendered
  <2> QED BY <1>1, <2>1, ClaimServesOldest, MergeServesOldest, DispatchServesOldest DEF Handler
<1>2. CASE EndPass \/ Answer \/ (\E k \in Keys : ReleaseKey(k)) \/ Clock \/ Stop \/ Crash \/ Exit
  <2>1. step' = "idle"
    BY <1>2 DEF EndPass, Answer, Deliver, FailPermanently, HoldForRetry, FailAttempt, Answered,
       ReleaseKey, Clock, BackoffExpires, MinutePasses, Stop, Crash, Exit, Die
  <2> QED BY <2>1, RestServesOldest
<1>3. CASE TimerTick \/ Boot
  <2>1. BeginPass(rows')
    BY <1>3 DEF TimerTick, Boot, store
  <2> QED BY <2>1, BeginServesOldest
<1>4. ASSUME NEW r, NEW e, NEW replay, Insert(r, e, replay) PROVE PassServesOldest'
  <2>1. step' \in {"idle", "reject"} \/ BeginPass(rows')
    BY <1>4 DEF Insert
  <2> QED BY <2>1, BeginServesOldest, RestServesOldest
<1>5. CASE Request
  <2>1. ASSUME NEW r \in Routes,
               CreateRoute(r) \/ RemoveRoute(r) \/ \E s \in {"enabled", "disabled"} : SetEnabled(r, s)
        PROVE  PassServesOldest'
    <3>1. step' = "idle"
      BY <2>1 DEF CreateRoute, RemoveRoute, SetEnabled, ChangeRoute
    <3> QED BY <3>1, RestServesOldest
  <2> QED BY <1>4, <1>5, <2>1 DEF Request, Enqueue, Replay
<1>6. CASE UNCHANGED vars
  BY <1>6 DEF vars, store, pass, PassServesOldest, ListReady, Siblings, Ahead, KeyOf
<1> QED BY <1>1, <1>2, <1>3, <1>5, <1>6 DEF Next

LEMMA AlwaysServesOldest == Spec => []PassServesOldest
<1>1. Init => PassServesOldest
  BY DEF Init, PassServesOldest
<1>2. QueueInv /\ PassServesOldest /\ [Next]_vars => PassServesOldest'
  BY NextServesOldest
<1> QED BY <1>1, <1>2, QueueInvariant, PTL DEF Spec

\* Only Dispatch begins to send a row.
LEMMA OnlyDispatchSends ==
  ASSUME QueueInv, [Next]_vars, NEW b \in Ids,
         rows[b].status # "delivering", rows'[b].status = "delivering"
  PROVE  Dispatch /\ b = batch
<1> USE DEF QueueInv
<1>1. CASE Handler
  <2>1. ASSUME NEW d \in Ids, NEW carrier \in Ids, ClaimDigest(d, carrier)
        PROVE  FALSE
    BY <2>1 DEF ClaimDigest, TypeOK, Row
  <2>2. ASSUME NEW d \in Ids, ClaimAlone(d) \/ EndScan PROVE FALSE
    BY <2>2 DEF ClaimAlone, EndScan, store
  <2>3. CASE Merge \/ RejectUnrendered
    BY <2>3 DEF Merge, RejectUnrendered, TypeOK, Row
  <2>4. CASE Dispatch
    BY <2>4 DEF Dispatch, TypeOK
  <2> QED BY <1>1, <2>1, <2>2, <2>3, <2>4 DEF Handler
<1>2. CASE Answer
  <2>1. PICK c \in calls : Deliver(c) \/ FailPermanently(c) \/ HoldForRetry(c) \/ FailAttempt(c)
    BY <1>2 DEF Answer
  <2>2. ASSUME NEW row, rows' = Update(c.row, row), row.status # "delivering"
        PROVE  FALSE
    BY <2>2 DEF Update, TypeOK
  <2>3. c.row \in Ids /\ rows[c.row] \in Row
    BY DEF TypeOK, Call
  <2>4. /\ [rows[c.row] EXCEPT !.status = "delivered", !.recent = TRUE].status = "delivered"
        /\ [rows[c.row] EXCEPT !.status = "failed", !.recent = FALSE].status = "failed"
        /\ [rows[c.row] EXCEPT !.status = "held", !.recent = FALSE, !.backoff = TRUE,
                               !.attempts = OneMore(@)].status = "held"
    BY <2>3 DEF Row
  <2> QED BY <2>1, <2>2, <2>4
          DEF Deliver, FailPermanently, HoldForRetry, FailAttempt, MarkFailed, MarkHeld
<1>3. ASSUME NEW r, NEW e, NEW replay, Insert(r, e, replay) PROVE FALSE
  <2>1. CASE b = nextId
    BY <1>3, <2>1 DEF Insert, NewRow, TypeOK
  <2>2. CASE b # nextId
    BY <1>3, <2>2 DEF Insert, TypeOK
  <2> QED BY <2>1, <2>2
<1>4. CASE Request
  <2>1. ASSUME NEW r \in Routes, CreateRoute(r) \/ \E s \in {"enabled", "disabled"} : SetEnabled(r, s)
        PROVE  FALSE
    BY <2>1 DEF CreateRoute, SetEnabled
  <2>2. ASSUME NEW r \in Routes, RemoveRoute(r) PROVE FALSE
    BY <2>2, NoRowType DEF RemoveRoute
  <2> QED BY <1>3, <1>4, <2>1, <2>2 DEF Request, Enqueue, Replay
<1>5. CASE Clock
  BY <1>5 DEF Clock, BackoffExpires, MinutePasses, TypeOK, Row
<1>6. CASE Boot
  BY <1>6 DEF Boot
<1>7. CASE TimerTick \/ EndPass \/ (\E k \in Keys : ReleaseKey(k)) \/ Stop \/ Crash \/ Exit
           \/ UNCHANGED vars
  BY <1>7 DEF TimerTick, EndPass, ReleaseKey, Stop, Crash, Exit, Die, vars, store
<1> QED BY <1>1, <1>2, <1>4, <1>5, <1>6, <1>7 DEF Next

\* A thread is served from its oldest ready row, alone or in a digest, whatever other
\* routes share the thread and whatever answers come between two passes.
THEOREM OldestIsServed == Spec => OldestReadyFirst
<1> DEFINE Served(b) ==
      \E h \in {b} \cup {x \in Ids : rows[x].status = "coalesced" /\ rows[x].into = b} :
        \A d \in ListReady(rows) \ {b} :
          (KeyOf(d) = KeyOf(b) /\ route[rows[d].route] = "enabled") => h < d
<1>1. ASSUME QueueInv, PassServesOldest, [Next]_vars
      PROVE  [\A b \in Ids : (rows[b].status # "delivering" /\ rows'[b].status = "delivering")
                => Served(b)]_vars
  <2>1. ASSUME NEW b \in Ids, rows[b].status # "delivering", rows'[b].status = "delivering"
        PROVE  Served(b)
    <3>1. step = "dispatch" /\ b = batch
      BY <1>1, <2>1, OnlyDispatchSends DEF Dispatch
    <3>2. PICK h \in {b} \cup {x \in Ids : rows[x].status = "coalesced" /\ rows[x].into = b} :
                 Ahead(h, b)
      BY <1>1, <3>1 DEF PassServesOldest
    <3>3. h = b \/ h \notin ListReady(rows)
      BY <3>2 DEF ListReady, Pending
    <3> QED BY <3>2, <3>3 DEF Ahead
  <2> QED BY <2>1
<1> QED BY <1>1, QueueInvariant, AlwaysServesOldest, PTL DEF Spec, OldestReadyFirst

-----------------------------------------------------------------------------
(* The queue implements its contract. *)

LEMMA PhaseFacts ==
  ASSUME NEW row
  PROVE  /\ row.status = "absent" => Phase(row) = "none"
         /\ row.status \in Pending => Phase(row) = "waiting"
         /\ row.status = "delivering" => Phase(row) = "sending"
         /\ row.status = "delivered" => Phase(row) = "delivered"
         /\ row.status = "failed" => Phase(row) = "failed"
         /\ row.status = "skipped-duplicate" => Phase(row) = "skipped"
         /\ row.status = "coalesced" => Phase(row) = "merged"
  BY DEF Phase, Pending

\* A step after which every row has the status and the route it had stutters.
LEMMA SameRowsStutter ==
  ASSUME \A d \in Ids : rows'[d].status = rows[d].status /\ rows'[d].route = rows[d].route,
         nextId' = nextId
  PROVE  UNCHANGED Contract!contractVars
<1>1. \A d \in Ids : Phase(rows'[d]) = Phase(rows[d])
  BY DEF Phase
<1> QED BY <1>1 DEF Contract!contractVars

\* One row moves from one status to another.
LEMMA OneRowMoves ==
  ASSUME NEW b \in Ids, nextId' = nextId,
         \A d \in Ids : rows'[d].route = rows[d].route,
         \A d \in Ids \ {b} : rows'[d].status = rows[d].status
  PROVE  Contract!Move(b, Phase(rows[b]), Phase(rows'[b]))
<1>1. \A d \in Ids \ {b} : Phase(rows'[d]) = Phase(rows[d])
  BY DEF Phase
<1> QED BY <1>1 DEF Contract!Move

LEMMA ContractInit == Init => Contract!Init
<1> SUFFICES ASSUME Init PROVE Contract!Init
  OBVIOUS
<1>1. \A d \in Ids : Phase(rows[d]) = "none" /\ rows[d].route = Contract!Nowhere
  BY NoRowType, PhaseFacts DEF Init, NoRow, NewRow, Contract!Nowhere
<1> QED BY <1>1 DEF Init, Contract!Init, Contract!Deliveries, Ids

LEMMA ContractNext == QueueInv /\ [Next]_vars => [Contract!Next]_(Contract!contractVars)
<1> SUFFICES ASSUME QueueInv, [Next]_vars
             PROVE  Contract!Next \/ UNCHANGED Contract!contractVars
  OBVIOUS
<1> USE DEF QueueInv
<1>0. Contract!Deliveries = Ids
  BY DEF Contract!Deliveries, Ids
<1>1. CASE Merge
  <2>1. /\ batch \in Ids /\ batch \notin Siblings(batch) /\ Siblings(batch) \subseteq Ids
        /\ \A x \in Siblings(batch) \cup {batch} : rows[x].status \in Pending
        /\ \A x \in Siblings(batch) : x < batch /\ rows[x].route = rows[batch].route
    BY <1>1 DEF Merge, TypeOK, PassConsistent, Siblings
  <2>2. nextId' = nextId
        /\ \A x \in Ids : /\ rows'[x].route = rows[x].route
                          /\ x \notin Siblings(batch) => rows'[x] = rows[x]
                          /\ x \in Siblings(batch) => rows'[x].status = "coalesced"
    BY <1>1 DEF Merge, TypeOK, Row
  <2>3. \A x \in Ids : Phase(rows'[x]) = IF x \in Siblings(batch) THEN "merged" ELSE Phase(rows[x])
    BY <2>2, PhaseFacts
  <2>4. \A x \in Siblings(batch) \cup {batch} : Phase(rows[x]) = "waiting"
    BY <2>1, PhaseFacts
  <2>5. CASE Siblings(batch) # {}
    <3>1. Contract!Fold(Siblings(batch), batch)
      BY <1>0, <2>1, <2>2, <2>3, <2>4, <2>5 DEF Contract!Fold
    <3> QED BY <1>0, <2>1, <3>1 DEF Contract!Next
  <2>6. CASE Siblings(batch) = {}
    BY <2>2, <2>6, SameRowsStutter
  <2> QED BY <2>5, <2>6
<1>2. CASE Dispatch
  <2>1. batch \in Ids /\ rows[batch].status \in Pending /\ KeyOf(batch) \notin inFlight
    BY <1>2 DEF Dispatch, TypeOK, PassConsistent
  <2>2. /\ nextId' = nextId
        /\ \A d \in Ids : rows'[d].route = rows[d].route
        /\ \A d \in Ids \ {batch} : rows'[d].status = rows[d].status
        /\ rows'[batch].status \in {"failed", "delivering"}
    BY <1>2, <2>1 DEF Dispatch, TypeOK, Row
  <2>3. Contract!Move(batch, "waiting", Phase(rows'[batch]))
    BY <2>1, <2>2, OneRowMoves, PhaseFacts
  <2>4. \A d \in Ids : rows[d].status = "delivering" => KeyOf(d) # KeyOf(batch)
    BY <1>2, <2>1 DEF Dispatch, DeliveringHasCall, CallsTracked
  <2>5. \A d \in Ids : Phase(rows[d]) = "sending" => rows[d].status = "delivering"
    BY PhaseFacts DEF TypeOK, Row, Status, Settled
  <2>6. CASE rows'[batch].status = "failed"
    BY <1>0, <2>1, <2>3, <2>6, PhaseFacts DEF Contract!Refuse, Contract!Next
  <2>7. CASE rows'[batch].status = "delivering"
    <3>1. Contract!Send(batch)
      BY <1>0, <2>1, <2>3, <2>4, <2>5, <2>7, PhaseFacts DEF Contract!Send, KeyOf
    <3> QED BY <1>0, <2>1, <3>1 DEF Contract!Next
  <2> QED BY <2>2, <2>6, <2>7
<1>3. CASE RejectUnrendered
  <2>1. batch \in Ids /\ rows[batch].status \in Pending
    BY <1>3 DEF RejectUnrendered, TypeOK, PassConsistent
  <2>2. /\ nextId' = nextId
        /\ \A d \in Ids : rows'[d].route = rows[d].route
        /\ \A d \in Ids \ {batch} : rows'[d].status = rows[d].status
        /\ rows'[batch].status = "failed"
    BY <1>3, <2>1 DEF RejectUnrendered, TypeOK, Row
  <2>3. Contract!Refuse(batch)
    BY <2>1, <2>2, OneRowMoves, PhaseFacts DEF Contract!Refuse
  <2> QED BY <1>0, <2>1, <2>3 DEF Contract!Next
<1>4. CASE Answer
  <2>1. PICK c \in calls : Deliver(c) \/ FailPermanently(c) \/ HoldForRetry(c) \/ FailAttempt(c)
    BY <1>4 DEF Answer
  <2>2. c.row \in Ids /\ nextId' = nextId
        /\ (rows[c.row].status = "absent" \/ rows[c.row].status = "delivering")
    BY <2>1 DEF TypeOK, Call, CallsTracked, Deliver, FailPermanently, HoldForRetry,
                FailAttempt, Answered
  <2>3. ASSUME NEW row, rows' = Update(c.row, row), row.route = rows[c.row].route,
               row.status \in {"delivered", "failed", "held"}
        PROVE  Contract!Next \/ UNCHANGED Contract!contractVars
    <3>1. \A d \in Ids \ {c.row} : rows'[d] = rows[d]
      BY <2>2, <2>3 DEF Update, TypeOK
    <3>2. rows'[c.row] = IF rows[c.row].status = "absent" THEN rows[c.row] ELSE row
      BY <2>2, <2>3 DEF Update, TypeOK
    <3>3. CASE rows[c.row].status = "absent"
      BY <2>2, <3>1, <3>2, <3>3, SameRowsStutter
    <3>4. CASE rows[c.row].status = "delivering"
      <4>1. Contract!Move(c.row, "sending", Phase(row))
        BY <2>2, <2>3, <3>1, <3>2, <3>4, OneRowMoves, PhaseFacts
      <4>2. Phase(row) \in {"delivered", "failed", "waiting"}
        BY <2>3, PhaseFacts DEF Pending
      <4> QED BY <1>0, <2>2, <4>1, <4>2 DEF Contract!Finish, Contract!Next
    <3> QED BY <2>2, <3>3, <3>4
  <2>4. rows[c.row] \in Row
    BY <2>2 DEF TypeOK
  <2>5. CASE Deliver(c)
    <3>1. /\ [rows[c.row] EXCEPT !.status = "delivered", !.recent = TRUE].route = rows[c.row].route
          /\ [rows[c.row] EXCEPT !.status = "delivered", !.recent = TRUE].status = "delivered"
      BY <2>4 DEF Row
    <3> QED BY <2>3, <2>5, <3>1 DEF Deliver
  <2>6. CASE MarkFailed(c.row)
    <3>1. /\ [rows[c.row] EXCEPT !.status = "failed", !.recent = FALSE].route = rows[c.row].route
          /\ [rows[c.row] EXCEPT !.status = "failed", !.recent = FALSE].status = "failed"
      BY <2>4 DEF Row
    <3> QED BY <2>3, <2>6, <3>1 DEF MarkFailed
  <2>7. CASE MarkHeld(c.row)
    <3> DEFINE held == [rows[c.row] EXCEPT !.status = "held", !.recent = FALSE,
                                           !.backoff = TRUE, !.attempts = OneMore(@)]
    <3>1. held.route = rows[c.row].route /\ held.status = "held"
      BY <2>4 DEF Row
    <3>2. rows' = Update(c.row, held)
      BY <2>7 DEF MarkHeld
    <3> QED BY <2>3, <3>1, <3>2
  <2> QED BY <2>1, <2>5, <2>6, <2>7 DEF FailPermanently, HoldForRetry, FailAttempt
<1>5. ASSUME NEW r \in Routes, NEW e \in Events, NEW replay \in BOOLEAN, Insert(r, e, replay)
      PROVE  Contract!Next
  <2>1. nextId \in Ids /\ nextId' = nextId + 1
    BY <1>5 DEF Insert, TypeOK, Ids
  <2>2. rows'[nextId].status \in {"queued", "skipped-duplicate"} /\ rows'[nextId].route = r
        /\ \A d \in Ids \ {nextId} : rows'[d] = rows[d]
    BY <1>5, <2>1 DEF Insert, NewRow, TypeOK
  <2>3. Phase(rows'[nextId]) \in {"waiting", "skipped"}
    BY <2>2, PhaseFacts DEF Pending
  <2>4. Contract!Accept(r)
    BY <1>0, <2>1, <2>2, <2>3 DEF Contract!Accept
  <2> QED BY <2>4 DEF Contract!Next
<1>6. CASE Request
  <2>1. ASSUME NEW x \in Ids, Replay(x) PROVE Contract!Next
    <3>1. rows[x].route \in Routes /\ rows[x].event \in Events
      BY DEF TypeOK, Row
    <3> QED BY <1>5, <2>1, <3>1 DEF Replay
  <2>2. ASSUME NEW r \in Routes, NEW e \in Events, Enqueue(r, e) PROVE Contract!Next
    BY <1>5, <2>2 DEF Enqueue
  <2>3. ASSUME NEW r \in Routes, CreateRoute(r) \/ \E s \in {"enabled", "disabled"} : SetEnabled(r, s)
        PROVE  UNCHANGED Contract!contractVars
    <3>1. rows' = rows /\ nextId' = nextId
      BY <2>3 DEF CreateRoute, SetEnabled, ChangeRoute
    <3> QED BY <3>1, SameRowsStutter
  <2>4. ASSUME NEW r \in Routes, RemoveRoute(r) PROVE Contract!Next
    <3>1. nextId' = nextId
          /\ \A d \in Ids : rows'[d] = IF rows[d].route = r THEN NoRow ELSE rows[d]
      BY <2>4 DEF RemoveRoute, ChangeRoute
    <3>2. Phase(NoRow) = "none" /\ NoRow.route = Contract!Nowhere
      BY NoRowType, PhaseFacts DEF NoRow, NewRow, Contract!Nowhere
    <3>3. Contract!Drop(r)
      BY <1>0, <3>1, <3>2 DEF Contract!Drop
    <3> QED BY <3>3 DEF Contract!Next
  <2> QED BY <1>6, <2>1, <2>2, <2>3, <2>4 DEF Request
<1>7. CASE Boot
  <2>1. nextId' = nextId
        /\ \A d \in Ids : /\ rows'[d].route = rows[d].route
                          /\ rows[d].status = "delivering" => rows'[d].status = "queued"
                          /\ rows[d].status # "delivering" => rows'[d] = rows[d]
    BY <1>7 DEF Boot, TypeOK, Row
  <2>2. \A d \in Ids : Phase(rows[d]) = "sending" <=> rows[d].status = "delivering"
    BY PhaseFacts DEF TypeOK, Row, Status, Settled
  <2>3. \A d \in Ids : Phase(rows'[d]) = IF Phase(rows[d]) = "sending" THEN "waiting" ELSE Phase(rows[d])
    BY <2>1, <2>2, PhaseFacts DEF Pending
  <2>4. Contract!Recover
    BY <1>0, <2>1, <2>3 DEF Contract!Recover
  <2> QED BY <2>4 DEF Contract!Next
<1>8. CASE Clock
  <2>1. PICK x \in Ids : BackoffExpires(x) \/ MinutePasses(x)
    BY <1>8 DEF Clock
  <2>2. nextId' = nextId
        /\ \A d \in Ids : rows'[d].status = rows[d].status /\ rows'[d].route = rows[d].route
    BY <2>1 DEF BackoffExpires, MinutePasses, TypeOK, Row
  <2> QED BY <2>2, SameRowsStutter
<1>9. ASSUME NEW x \in Ids, NEW carrier \in Ids, ClaimDigest(x, carrier)
      PROVE  UNCHANGED Contract!contractVars
  <2>1. nextId' = nextId
        /\ \A d \in Ids : rows'[d].status = rows[d].status /\ rows'[d].route = rows[d].route
    BY <1>9 DEF ClaimDigest, TypeOK, Row
  <2> QED BY <2>1, SameRowsStutter
<1>10. CASE \/ TimerTick \/ EndPass \/ EndScan \/ (\E k \in Keys : ReleaseKey(k))
            \/ (\E d \in Ids : ClaimAlone(d)) \/ Stop \/ Crash \/ Exit \/ UNCHANGED vars
  <2>1. rows' = rows /\ nextId' = nextId
    BY <1>10 DEF TimerTick, EndPass, EndScan, ReleaseKey, ClaimAlone, Stop, Crash, Exit, Die,
                 vars, store
  <2> QED BY <2>1, SameRowsStutter
<1> QED BY <1>1, <1>2, <1>3, <1>4, <1>6, <1>7, <1>8, <1>9, <1>10 DEF Next, Handler

\* Every behaviour of the queue is, through the refinement mapping, a behaviour
\* of the contract.
THEOREM QueueKeepsContract == Spec => KeepsContract
<1>1. Init => Contract!Init
  BY ContractInit
<1>2. QueueInv /\ [Next]_vars => [Contract!Next]_(Contract!contractVars)
  BY ContractNext
<1> QED BY <1>1, <1>2, QueueInvariant, PTL DEF Spec, KeepsContract, Contract!Spec
=============================================================================
