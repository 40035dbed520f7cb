---------------------------- MODULE ReleaseProofs ----------------------------
(***************************************************************************)
(* Theorems about the review host and the release decisions for all lanes, *)
(* pull requests, verdicts and merges: what is ready or released was       *)
(* reviewed, and a wake is delivered by one call at a time.                *)
(***************************************************************************)
EXTENDS Release, TLAPS

\* Shorthand for the facts about asks.
LEMMA AskFacts ==
  ASSUME NEW a \in Asks
  PROVE  /\ a.request \in Requests /\ a.lane \in Lanes /\ a.role \in Roles
         /\ a.pr \in PRs /\ a.id \in Identity
  BY AskAssumption

-----------------------------------------------------------------------------
(* The strengthening. *)

\* A call is the only one for its request, and its row is held for it.
CallsHold ==
  \A c \in calls :
    /\ wakes[c.ask.request] # NoRow
    /\ wakes[c.ask.request].ask = c.ask
    /\ wakes[c.ask.request].held /\ ~wakes[c.ask.request].delivered
    /\ \A other \in calls : other.ask.request = c.ask.request => other = c

\* v is on record: the role it speaks for signed it, of a wake that was delivered.
OnRecord(p, v) ==
  \E s \in signed :
    /\ s.by = v.role /\ s.decision = v.decision
    /\ s.ask.role = v.role /\ s.ask.pr = p /\ s.ask.id = v.id
    /\ wakes[s.ask.request] # NoRow
    /\ wakes[s.ask.request].ask = s.ask /\ wakes[s.ask.request].delivered

VerdictsOnRecord == \A p \in PRs : \A v \in cand[p].verdicts : OnRecord(p, v)

ReadyIsApproved ==
  \A p \in PRs : cand[p].state = "merge-ready" => \A role \in Roles : Approved(cand[p], role)

\* What a decision and an intent rest on.
Justified(m) ==
  /\ merged[m] # Nothing
  /\ merged[m].pull /\ merged[m].operator
  /\ Reviewed(PROf[m], merged[m].id)

DecisionsJustified ==
  \A r \in Repos : \A d \in todo[r] : d.kind = "intent" => Justified(d.merge)

IntentsJustified ==
  \A m \in Merges : intent[m] # "none" => Justified(m) /\ m \notin Consumed

ConsumedStay == \A m \in Consumed : disposition[m] = "bootstrap-consumed"

LanesLoaded == calls # {} => lanes # NoLanes

HostInv == HostTypeOK /\ CallsHold /\ LanesLoaded /\ VerdictsOnRecord /\ ReadyIsApproved

ReleaseInv ==
  TypeOK /\ HostInv /\ DecisionsJustified /\ IntentsJustified /\ ConsumedStay

-----------------------------------------------------------------------------
(* Candidates. *)

\* The events of a candidate: those without an identity, and verdicts.
Event == AllPlainEvents \cup [type: {"verdict"}, verdict: Verdict]

LEMMA EventKinds ==
  ASSUME NEW e \in Event
  PROVE  e.type \in {"verdict", "checks", "findings", "evidence", "blocked", "not-worth-merging"}
  BY DEF Event, AllPlainEvents

LEMMA VerdictTyped ==
  ASSUME NEW e \in Event, e.type = "verdict"
  PROVE  e.verdict \in Verdict
<1>1. e \notin AllPlainEvents
  BY DEF AllPlainEvents
<1> QED BY <1>1 DEF Event

LEMMA ChecksTyped ==
  ASSUME NEW e \in Event, e.type = "checks"
  PROVE  e.checks \in CheckStates
<1>1. e \in {[type |-> "checks", checks |-> k] : k \in CheckStates}
  BY DEF Event, AllPlainEvents
<1> QED BY <1>1

\* No event takes a candidate out of its type.
LEMMA AdvanceType ==
  ASSUME NEW c \in CandidateRecord, NEW e \in Event
  PROVE  Advance(c, e) \in CandidateRecord
<1> USE DEF CandidateRecord, States, CheckStates
<1>1. ASSUME NEW d \in CandidateRecord PROVE promote(d) \in CandidateRecord
  BY <1>1 DEF promote
<1>2. ASSUME NEW d \in CandidateRecord PROVE block(d) \in CandidateRecord
  BY <1>2 DEF block
<1>3. CASE Stuck(c, e.type)
  BY <1>3 DEF Advance
<1>4. CASE ~Stuck(c, e.type) /\ e.type = "verdict"
  <2>1. e.verdict \in Verdict
    BY <1>4, VerdictTyped
  <2>2. [c EXCEPT !.verdicts = {v \in @ : v.role # e.verdict.role} \cup {e.verdict}]
          \in CandidateRecord
    BY <2>1
  <2> QED BY <1>1, <1>4, <2>2 DEF Advance
<1>5. CASE ~Stuck(c, e.type) /\ e.type = "checks"
  <2>1. e.checks \in CheckStates
    BY <1>5, ChecksTyped
  <2>2. [c EXCEPT !.checks = e.checks] \in CandidateRecord
    BY <2>1
  <2> QED BY <1>1, <1>2, <1>5, <2>2 DEF Advance
<1>6. CASE ~Stuck(c, e.type) /\ e.type = "findings"
  <2>1. /\ [c EXCEPT !.findings = TRUE] \in CandidateRecord
        /\ [c EXCEPT !.findings = FALSE] \in CandidateRecord
    OBVIOUS
  <2> QED BY <1>1, <1>2, <1>6, <2>1 DEF Advance
<1>7. CASE ~Stuck(c, e.type) /\ e.type \in {"evidence", "blocked", "not-worth-merging"}
  BY <1>2, <1>7 DEF Advance
<1> QED BY <1>3, <1>4, <1>5, <1>6, <1>7, EventKinds

\* No event changes the revision, and a verdict only adds itself.
LEMMA AdvanceVerdicts ==
  ASSUME NEW c \in CandidateRecord, NEW e \in Event
  PROVE  /\ Advance(c, e).id = c.id
         /\ Advance(c, e).verdicts \subseteq
              c.verdicts \cup (IF e.type = "verdict" THEN {e.verdict} ELSE {})
<1> USE DEF CandidateRecord
<1>1. ASSUME NEW d \in CandidateRecord
      PROVE  promote(d).id = d.id /\ promote(d).verdicts = d.verdicts
  BY <1>1 DEF promote
<1>2. ASSUME NEW d \in CandidateRecord
      PROVE  block(d).id = d.id /\ block(d).verdicts = d.verdicts
  BY <1>2 DEF block
<1>3. CASE Stuck(c, e.type)
  BY <1>3 DEF Advance
<1>4. CASE ~Stuck(c, e.type) /\ e.type = "verdict"
  <2>1. e.verdict \in Verdict
    BY <1>4, VerdictTyped
  <2> DEFINE d == [c EXCEPT !.verdicts = {v \in @ : v.role # e.verdict.role} \cup {e.verdict}]
  <2>2. d \in CandidateRecord
    BY <2>1
  <2>3. d.id = c.id /\ d.verdicts \subseteq c.verdicts \cup {e.verdict}
    OBVIOUS
  <2>4. Advance(c, e) = promote(d)
    BY <1>4 DEF Advance
  <2> HIDE DEF d
  <2> QED BY <1>1, <1>4, <2>2, <2>3, <2>4
<1>5. CASE ~Stuck(c, e.type) /\ e.type = "checks"
  <2>1. e.checks \in CheckStates
    BY <1>5, ChecksTyped
  <2>2. [c EXCEPT !.checks = e.checks] \in CandidateRecord
    BY <2>1
  <2> QED BY <1>1, <1>2, <1>5, <2>2 DEF Advance
<1>6. CASE ~Stuck(c, e.type) /\ e.type = "findings"
  <2>1. /\ [c EXCEPT !.findings = TRUE] \in CandidateRecord
        /\ [c EXCEPT !.findings = FALSE] \in CandidateRecord
    OBVIOUS
  <2> QED BY <1>1, <1>2, <1>6, <2>1 DEF Advance
<1>7. CASE ~Stuck(c, e.type) /\ e.type \in {"evidence", "blocked", "not-worth-merging"}
  BY <1>2, <1>7 DEF Advance
<1> QED BY <1>3, <1>4, <1>5, <1>6, <1>7, EventKinds

BothApproved(c) == \A role \in Roles : Approved(c, role)

\* promote makes a candidate ready only on both approvals.
LEMMA PromoteReady ==
  ASSUME NEW c \in CandidateRecord
  PROVE  promote(c).state = "merge-ready" => BothApproved(promote(c))
<1>1. CASE canReady(c)
  <2>1. BothApproved(c)
    BY <1>1 DEF canReady, BothApproved
  <2>2. promote(c).verdicts = c.verdicts /\ promote(c).id = c.id
    BY <1>1 DEF promote, CandidateRecord
  <2> QED BY <2>1, <2>2 DEF BothApproved, Approved
<1>2. CASE ~canReady(c)
  BY <1>2 DEF promote, CandidateRecord
<1> QED BY <1>1, <1>2

\* A ready candidate has both approvals, whatever happens to it.
LEMMA AdvanceReady ==
  ASSUME NEW c \in CandidateRecord, NEW e \in Event,
         c.state = "merge-ready" => BothApproved(c)
  PROVE  Advance(c, e).state = "merge-ready" => BothApproved(Advance(c, e))
<1> USE DEF CandidateRecord
<1>1. ASSUME NEW d \in CandidateRecord PROVE block(d).state # "merge-ready"
  BY <1>1 DEF block
<1>2. CASE Stuck(c, e.type)
  BY <1>2 DEF Advance
<1>3. CASE ~Stuck(c, e.type) /\ e.type = "verdict"
  <2>1. e.verdict \in Verdict
    BY <1>3, VerdictTyped
  <2>2. [c EXCEPT !.verdicts = {v \in @ : v.role # e.verdict.role} \cup {e.verdict}]
          \in CandidateRecord
    BY <2>1
  <2> QED BY <1>3, <2>2, PromoteReady DEF Advance
<1>4. CASE ~Stuck(c, e.type) /\ e.type = "checks"
  <2>1. e.checks \in CheckStates
    BY <1>4, ChecksTyped
  <2>2. [c EXCEPT !.checks = e.checks] \in CandidateRecord
    BY <2>1
  <2> QED BY <1>1, <1>4, <2>2, PromoteReady DEF Advance
<1>5. CASE ~Stuck(c, e.type) /\ e.type = "findings"
  <2>1. /\ [c EXCEPT !.findings = TRUE] \in CandidateRecord
        /\ [c EXCEPT !.findings = FALSE] \in CandidateRecord
    OBVIOUS
  <2> QED BY <1>1, <1>5, <2>1, PromoteReady DEF Advance
<1>6. CASE ~Stuck(c, e.type) /\ e.type \in {"evidence", "blocked", "not-worth-merging"}
  BY <1>1, <1>6 DEF Advance
<1> QED BY <1>2, <1>3, <1>4, <1>5, <1>6, EventKinds

-----------------------------------------------------------------------------
(* Wakes. *)

LEMMA RowType ==
  ASSUME NEW a \in Asks, NEW d \in BOOLEAN, NEW h \in BOOLEAN
  PROVE  /\ [ask |-> a, delivered |-> d, held |-> h] \in Row
         /\ [ask |-> a, delivered |-> d, held |-> h] # NoRow
  BY RowAssumption DEF Row

\* The row of a request stays a row.
LEMMA Marked ==
  ASSUME NEW row \in Row
  PROVE  /\ [row EXCEPT !.delivered = TRUE, !.held = FALSE] \in Row
         /\ [row EXCEPT !.delivered = TRUE, !.held = FALSE].ask = row.ask
         /\ [row EXCEPT !.held = FALSE] \in Row
         /\ [row EXCEPT !.held = FALSE].ask = row.ask
  BY DEF Row

\* The row of a request that has one.
LEMMA HasRow ==
  ASSUME HostTypeOK, NEW q \in Requests, wakes[q] # NoRow
  PROVE  wakes[q] \in Row
  BY DEF HostTypeOK

\* A call's row, spelled out.
LEMMA CallRow ==
  ASSUME HostTypeOK, CallsHold, NEW c \in calls
  PROVE  /\ c \in Call /\ c.ask \in Asks /\ c.ask.request \in Requests
         /\ wakes[c.ask.request] = [ask |-> c.ask, delivered |-> FALSE, held |-> TRUE]
<1>1. c \in Call /\ c.ask \in Asks
  BY DEF HostTypeOK, Call
<1>2. c.ask.request \in Requests
  BY <1>1, AskFacts
<1>3. wakes[c.ask.request] \in Row
  BY <1>2, HasRow DEF CallsHold
<1> QED BY <1>1, <1>2, <1>3 DEF CallsHold, Row

\* What the actions on wakes and calls do to them.
LEMMA WakeSteps ==
  ASSUME HostTypeOK, CallsHold,
         \/ \E a \in Asks : Wake(a)
         \/ \E c \in calls : Receive(c) \/ MarkDelivered(c) \/ ReleaseClaim(c) \/ Die(c)
  PROVE  /\ wakes' \in [Requests -> Row \cup {NoRow}] /\ calls' \subseteq Call
         /\ CallsHold'
         /\ \A q \in Requests : wakes[q] # NoRow /\ wakes[q].delivered =>
              wakes'[q] # NoRow /\ wakes'[q].ask = wakes[q].ask /\ wakes'[q].delivered
<1> USE DEF HostTypeOK
<1>1. CASE \E a \in Asks : Wake(a)
  <2>1. PICK a \in Asks : Wake(a)
    BY <1>1
  <2> DEFINE row == [ask |-> a, delivered |-> FALSE, held |-> TRUE]
             call == [ask |-> a, received |-> FALSE]
  <2>2. a.request \in Requests
    BY AskFacts
  <2>3. row \in Row /\ row # NoRow /\ call \in Call
    BY RowType DEF Call
  <2>4. wakes' = [wakes EXCEPT ![a.request] = row] /\ calls' = calls \cup {call}
    BY <2>1 DEF Wake
  <2>5. \A c \in calls : c.ask.request # a.request
    BY <2>1 DEF Wake, Claim, CallsHold
  <2>6. ASSUME NEW c \in calls'
        PROVE  /\ wakes'[c.ask.request] # NoRow
               /\ wakes'[c.ask.request].ask = c.ask
               /\ wakes'[c.ask.request].held /\ ~wakes'[c.ask.request].delivered
               /\ \A other \in calls' : other.ask.request = c.ask.request => other = c
    <3>1. CASE c = call
      BY <2>2, <2>3, <2>4, <2>5, <3>1
    <3>2. CASE c \in calls
      <4>1. c.ask.request \in Requests /\ c.ask.request # a.request
        BY <2>5, <3>2, CallRow
      <4>2. wakes'[c.ask.request] = wakes[c.ask.request]
        BY <2>4, <4>1
      <4>3. wakes[c.ask.request].ask = c.ask
            /\ wakes[c.ask.request].held /\ ~wakes[c.ask.request].delivered
            /\ wakes[c.ask.request] # NoRow
            /\ \A other \in calls : other.ask.request = c.ask.request => other = c
        BY <3>2 DEF CallsHold
      <4> QED BY <2>4, <4>1, <4>2, <4>3
    <3> QED BY <2>4, <2>6, <3>1, <3>2
  <2>7. CallsHold'
    BY <2>6 DEF CallsHold
  <2>8. wakes[a.request] = NoRow \/ ~wakes[a.request].delivered
    BY <2>1 DEF Wake, Claim
  <2> HIDE DEF row, call
  <2> QED BY <2>2, <2>3, <2>4, <2>7, <2>8
<1>2. CASE \E c \in calls : Receive(c)
  <2>1. PICK c \in calls : Receive(c)
    BY <1>2
  <2>2. c \in Call
    BY CallRow
  <2> DEFINE call == [c EXCEPT !.received = TRUE]
  <2>3. call \in Call /\ call.ask = c.ask
    BY <2>2 DEF Call
  <2>4. wakes' = wakes /\ calls' = (calls \ {c}) \cup {call}
    BY <2>1 DEF Receive
  <2> HIDE DEF call
  <2>5. CallsHold'
    BY <2>3, <2>4 DEF CallsHold
  <2> QED BY <2>3, <2>4, <2>5
<1>3. CASE \E c \in calls : MarkDelivered(c) \/ ReleaseClaim(c) \/ Die(c)
  <2>1. PICK c \in calls : MarkDelivered(c) \/ ReleaseClaim(c) \/ Die(c)
    BY <1>3
  <2> DEFINE q == c.ask.request
  <2>2. /\ q \in Requests /\ c.ask \in Asks
        /\ wakes[q] = [ask |-> c.ask, delivered |-> FALSE, held |-> TRUE]
    BY CallRow
  <2>3. calls' = calls \ {c}
    BY <2>1 DEF MarkDelivered, ReleaseClaim, Die
  <2>4. /\ wakes' \in [Requests -> Row \cup {NoRow}]
        /\ \A x \in Requests \ {q} : wakes'[x] = wakes[x]
    <3>0. wakes[q] \in Row
      BY <2>2, RowType
    <3>1. CASE MarkDelivered(c)
      <4>1. wakes' = [wakes EXCEPT ![q] = [@ EXCEPT !.delivered = TRUE, !.held = FALSE]]
        BY <3>1 DEF MarkDelivered
      <4>2. [wakes[q] EXCEPT !.delivered = TRUE, !.held = FALSE] \in Row
            /\ [wakes[q] EXCEPT !.delivered = TRUE, !.held = FALSE].ask = wakes[q].ask
        BY <3>0, Marked
      <4> QED BY <2>2, <4>1, <4>2
    <3>2. CASE ReleaseClaim(c)
      <4>1. wakes' = [wakes EXCEPT ![q] = [@ EXCEPT !.held = FALSE]]
        BY <2>2, <3>2 DEF ReleaseClaim
      <4>2. [wakes[q] EXCEPT !.held = FALSE] \in Row
            /\ [wakes[q] EXCEPT !.held = FALSE].ask = wakes[q].ask
        BY <3>0, Marked
      <4> QED BY <2>2, <4>1, <4>2
    <3>3. CASE Die(c)
      BY <3>3 DEF Die
    <3> QED BY <2>1, <3>1, <3>2, <3>3
  <2>5. \A k \in calls' : k.ask.request # q /\ k.ask.request \in Requests
    BY <2>3, CallRow DEF CallsHold
  <2>6. \A k \in calls' : wakes'[k.ask.request] = wakes[k.ask.request]
    BY <2>4, <2>5
  <2>7. CallsHold'
    BY <2>3, <2>6 DEF CallsHold
  <2>8. ~wakes[q].delivered
    BY <2>2
  <2> HIDE DEF q
  <2> QED BY <2>2, <2>3, <2>4, <2>7, <2>8
<1> QED BY <1>1, <1>2, <1>3

-----------------------------------------------------------------------------
(* The review host keeps HostInv. *)

\* A step on the wakes keeps what was said and what is on record.
DeliveredStays ==
  /\ \A q \in Requests : wakes[q] # NoRow /\ wakes[q].delivered =>
       wakes'[q] # NoRow /\ wakes'[q].ask = wakes[q].ask /\ wakes'[q].delivered
  /\ signed \subseteq signed'

LEMMA SignedRequest ==
  ASSUME HostTypeOK, NEW s \in signed
  PROVE  s \in SignedVerdict /\ s.ask \in Asks /\ s.ask.request \in Requests
<1>1. s \in SignedVerdict /\ s.ask \in Asks
  BY DEF HostTypeOK, SignedVerdict
<1> QED BY <1>1, AskFacts

LEMMA RecordStays ==
  ASSUME HostTypeOK, DeliveredStays, NEW p, NEW v, OnRecord(p, v)
  PROVE  OnRecord(p, v)'
<1>1. PICK s \in signed :
        /\ s.by = v.role /\ s.decision = v.decision
        /\ s.ask.role = v.role /\ s.ask.pr = p /\ s.ask.id = v.id
        /\ wakes[s.ask.request] # NoRow
        /\ wakes[s.ask.request].ask = s.ask /\ wakes[s.ask.request].delivered
  BY DEF OnRecord
<1>2. s \in signed' /\ s.ask.request \in Requests
  BY SignedRequest DEF DeliveredStays
<1>3. wakes'[s.ask.request] # NoRow
      /\ wakes'[s.ask.request].ask = s.ask /\ wakes'[s.ask.request].delivered
  BY <1>1, <1>2 DEF DeliveredStays
<1> QED BY <1>1, <1>2, <1>3 DEF OnRecord

LEMMA ReviewedStays ==
  ASSUME HostTypeOK, DeliveredStays, NEW p, NEW id, Reviewed(p, id)
  PROVE  Reviewed(p, id)'
<1> SUFFICES ASSUME NEW role \in Roles
             PROVE  \E v \in signed' :
                      /\ v.by = role /\ v.decision = "approve"
                      /\ v.ask.role = role /\ v.ask.pr = p /\ v.ask.id = id
                      /\ wakes'[v.ask.request] # NoRow
                      /\ wakes'[v.ask.request].ask = v.ask /\ wakes'[v.ask.request].delivered
  BY DEF Reviewed
<1>1. PICK v \in signed :
        /\ v.by = role /\ v.decision = "approve"
        /\ v.ask.role = role /\ v.ask.pr = p /\ v.ask.id = id
        /\ wakes[v.ask.request] # NoRow
        /\ wakes[v.ask.request].ask = v.ask /\ wakes[v.ask.request].delivered
  BY DEF Reviewed
<1>2. v \in signed' /\ v.ask.request \in Requests
  BY SignedRequest DEF DeliveredStays
<1>3. wakes'[v.ask.request] # NoRow
      /\ wakes'[v.ask.request].ask = v.ask /\ wakes'[v.ask.request].delivered
  BY <1>1, <1>2 DEF DeliveredStays
<1> QED BY <1>1, <1>2, <1>3

\* A candidate that was approved by both roles was reviewed.
LEMMA ApprovedIsReviewed ==
  ASSUME VerdictsOnRecord, NEW p \in PRs, BothApproved(cand[p])
  PROVE  Reviewed(p, cand[p].id)
<1> SUFFICES ASSUME NEW role \in Roles
             PROVE  \E s \in signed :
                      /\ s.by = role /\ s.decision = "approve"
                      /\ s.ask.role = role /\ s.ask.pr = p /\ s.ask.id = cand[p].id
                      /\ wakes[s.ask.request] # NoRow
                      /\ wakes[s.ask.request].ask = s.ask /\ wakes[s.ask.request].delivered
  BY DEF Reviewed
<1>1. PICK v \in cand[p].verdicts :
        v.role = role /\ v.decision = "approve" /\ v.id = cand[p].id
  BY DEF BothApproved, Approved
<1>2. OnRecord(p, v)
  BY DEF VerdictsOnRecord
<1> QED BY <1>1, <1>2 DEF OnRecord

\* Candidates that do not change keep their part when the wakes move on.
LEMMA CandidatesStay ==
  ASSUME HostTypeOK, VerdictsOnRecord, ReadyIsApproved, DeliveredStays, UNCHANGED cand
  PROVE  VerdictsOnRecord' /\ ReadyIsApproved'
<1>1. VerdictsOnRecord'
  <2> SUFFICES ASSUME NEW p \in PRs, NEW v \in cand[p].verdicts PROVE OnRecord(p, v)'
    BY DEF VerdictsOnRecord
  <2>1. OnRecord(p, v)
    BY DEF VerdictsOnRecord
  <2> QED BY <2>1, RecordStays
<1>2. ReadyIsApproved'
  BY DEF ReadyIsApproved, Approved
<1> QED BY <1>1, <1>2

\* A change of one candidate, that adds no verdict off the record and does not make it
\* ready without approvals.
LEMMA CandidateMoves ==
  ASSUME HostInv, NEW p \in PRs, NEW c \in CandidateRecord,
         \A v \in c.verdicts : OnRecord(p, v),
         c.state = "merge-ready" => BothApproved(c),
         cand' = [cand EXCEPT ![p] = c],
         \A r \in PRs : events'[r] \in 0..MaxEvents[r],
         UNCHANGED <<lanes, wakes, calls, inbox, signed>>
  PROVE  HostInv'
<1> USE DEF HostInv
<1>1. HostTypeOK'
  BY DEF HostTypeOK
<1>2. CallsHold' /\ LanesLoaded'
  BY DEF CallsHold, LanesLoaded
<1>3. ASSUME NEW q, NEW v, OnRecord(q, v) PROVE OnRecord(q, v)'
  BY <1>3 DEF OnRecord
<1>4. cand'[p] = c /\ \A q \in PRs : q # p => cand'[q] = cand[q]
  BY DEF HostTypeOK
<1>5. VerdictsOnRecord'
  <2> SUFFICES ASSUME NEW q \in PRs, NEW v \in cand'[q].verdicts PROVE OnRecord(q, v)'
    BY DEF VerdictsOnRecord
  <2>1. OnRecord(q, v)
    BY <1>4 DEF VerdictsOnRecord
  <2> QED BY <1>3, <2>1
<1>6. ReadyIsApproved'
  <2> SUFFICES ASSUME NEW q \in PRs, cand'[q].state = "merge-ready"
               PROVE  \A role \in Roles : Approved(cand'[q], role)
    BY DEF ReadyIsApproved, Approved
  <2> QED BY <1>4 DEF ReadyIsApproved, BothApproved
<1> QED BY <1>1, <1>2, <1>5, <1>6 DEF HostInv

LEMMA BlankCandidate ==
  ASSUME NEW id \in Identity, NEW draft \in BOOLEAN
  PROVE  /\ blankCandidate(id, draft) \in CandidateRecord
         /\ blankCandidate(id, draft).verdicts = {}
         /\ blankCandidate(id, draft).state # "merge-ready"
  BY DEF blankCandidate, CandidateRecord, States, CheckStates

LEMMA TreesApart ==
  ASSUME NEW h \in Heads, NEW b \in Bases
  PROVE  <<h, b>> \in Trees
  BY DEF Trees

LEMMA HostInitHolds == HostInit => HostInv
<1> SUFFICES ASSUME HostInit PROVE HostInv
  OBVIOUS
<1>1. \A p \in PRs : cand[p] \in CandidateRecord /\ cand[p].verdicts = {}
                     /\ cand[p].state # "merge-ready"
  <2> SUFFICES ASSUME NEW p \in PRs
               PROVE  cand[p] \in CandidateRecord /\ cand[p].verdicts = {}
                      /\ cand[p].state # "merge-ready"
    OBVIOUS
  <2>1. PICK h \in {FirstHead}, b \in Bases, draft \in Drafts :
          cand[p] = blankCandidate([head |-> h, base |-> b, tree |-> <<h, b>>], draft)
    BY DEF HostInit
  <2>2. [head |-> h, base |-> b, tree |-> <<h, b>>] \in Identity
    BY DraftAssumption, TreesApart DEF Identity
  <2> QED BY <2>1, <2>2, BlankCandidate, DraftAssumption
<1>2. cand \in [PRs -> CandidateRecord]
  BY <1>1 DEF HostInit
<1>3. \A p \in PRs : events[p] \in 0..MaxEvents[p]
  BY AskAssumption DEF HostInit
<1>4. HostTypeOK
  BY <1>2, <1>3 DEF HostInit, HostTypeOK
<1>5. CallsHold /\ LanesLoaded
  BY DEF HostInit, CallsHold, LanesLoaded
<1>6. VerdictsOnRecord /\ ReadyIsApproved
  BY <1>1 DEF VerdictsOnRecord, ReadyIsApproved
<1> QED BY <1>4, <1>5, <1>6 DEF HostInv

LEMMA CountGoesOn ==
  ASSUME HostTypeOK, NEW p \in PRs, Happens(p)
  PROVE  \A r \in PRs : events'[r] \in 0..MaxEvents[r]
<1> SUFFICES ASSUME NEW r \in PRs PROVE events'[r] \in 0..MaxEvents[r]
  OBVIOUS
<1>1. events[r] \in 0..MaxEvents[r] /\ events[p] \in 0..MaxEvents[p]
      /\ MaxEvents[r] \in Nat /\ MaxEvents[p] \in Nat
  BY AskAssumption DEF HostTypeOK
<1>2. CASE r = p /\ p \in DOMAIN events
  BY <1>1, <1>2 DEF Happens
<1>3. CASE r # p \/ p \notin DOMAIN events
  BY <1>1, <1>3 DEF Happens
<1> QED BY <1>2, <1>3

\* What happens to a pull request.
LEMMA CandidateSteps ==
  ASSUME HostInv, NEW p \in PRs,
         \/ \E e \in PlainEvents : CandidateEvent(p, e)
         \/ \E head \in Heads, base \in Bases : Move(p, head, base)
         \/ NewCandidate(p)
  PROVE  HostInv'
<1> USE DEF HostInv
<1>1. /\ cand[p] \in CandidateRecord
      /\ \A v \in cand[p].verdicts : OnRecord(p, v)
      /\ cand[p].state = "merge-ready" => BothApproved(cand[p])
  BY DEF HostTypeOK, VerdictsOnRecord, ReadyIsApproved, BothApproved
<1>2. CASE \E e \in PlainEvents : CandidateEvent(p, e)
  <2>1. PICK e \in PlainEvents : CandidateEvent(p, e)
    BY <1>2
  <2>2. e \in Event /\ e.type # "verdict"
    BY EventAssumption DEF Event, AllPlainEvents
  <2>3. /\ Advance(cand[p], e) \in CandidateRecord
        /\ \A v \in Advance(cand[p], e).verdicts : OnRecord(p, v)
        /\ Advance(cand[p], e).state = "merge-ready" => BothApproved(Advance(cand[p], e))
    BY <1>1, <2>2, AdvanceType, AdvanceVerdicts, AdvanceReady
  <2>4. Happens(p) /\ cand' = [cand EXCEPT ![p] = Advance(cand[p], e)]
    BY <2>1 DEF CandidateEvent
  <2> QED BY <2>3, <2>4, CountGoesOn, CandidateMoves DEF Happens
<1>3. CASE \E head \in Heads, base \in Bases : Move(p, head, base)
  <2>1. PICK head \in Heads, base \in Bases : Move(p, head, base)
    BY <1>3
  <2> DEFINE c == invalidate(cand[p], head, base)
  <2>2. [head |-> head, base |-> base, tree |-> NoTree] \in Identity
    BY DEF Identity
  <2>3. c \in CandidateRecord /\ c.verdicts = {} /\ c.state # "merge-ready"
    BY <1>1, <2>2 DEF invalidate, CandidateRecord, States, CheckStates
  <2>4. Happens(p) /\ cand' = [cand EXCEPT ![p] = c]
    BY <2>1 DEF Move
  <2> HIDE DEF c
  <2> QED BY <2>3, <2>4, CountGoesOn, CandidateMoves DEF Happens
<1>4. CASE NewCandidate(p)
  <2> DEFINE id == [cand[p].id EXCEPT !.tree = <<cand[p].id.head, cand[p].id.base>>]
             c == blankCandidate(id, FALSE)
  <2>1. cand[p].id \in Identity
    BY <1>1 DEF CandidateRecord
  <2>2. <<cand[p].id.head, cand[p].id.base>> \in Trees
    BY <2>1, TreesApart DEF Identity
  <2>3. id \in Identity
    BY <2>1, <2>2 DEF Identity
  <2>4. c \in CandidateRecord /\ c.verdicts = {} /\ c.state # "merge-ready"
    BY <2>3, BlankCandidate
  <2>5. Happens(p) /\ cand' = [cand EXCEPT ![p] = c]
    BY <1>4 DEF NewCandidate
  <2> HIDE DEF c
  <2> QED BY <2>4, <2>5, CountGoesOn, CandidateMoves DEF Happens
<1> QED BY <1>2, <1>3, <1>4

\* A verdict that is accepted is on record.
LEMMA IngestStep ==
  ASSUME HostInv, NEW v \in signed, IngestVerdict(v)
  PROVE  HostInv'
<1> USE DEF HostInv
<1> DEFINE p == v.ask.pr
           e == VerdictOf(v)
<1>1. v \in SignedVerdict /\ v.ask \in Asks /\ v.ask.role \in Roles /\ p \in PRs
      /\ v.ask.id \in Identity /\ v.decision \in Decisions
  BY SignedRequest, AskFacts DEF SignedVerdict
<1>2. e.verdict = [role |-> v.ask.role, decision |-> v.decision, id |-> v.ask.id]
      /\ e.type = "verdict" /\ e.verdict \in Verdict
  BY <1>1 DEF VerdictOf, Verdict
<1>3. e \in Event
  BY <1>1 DEF VerdictOf, Event, Verdict
<1>4. OnRecord(p, e.verdict)
  BY <1>2 DEF IngestVerdict, Accepts, OnRecord
<1>5. /\ cand[p] \in CandidateRecord
      /\ \A w \in cand[p].verdicts : OnRecord(p, w)
      /\ cand[p].state = "merge-ready" => BothApproved(cand[p])
  BY <1>1 DEF HostTypeOK, VerdictsOnRecord, ReadyIsApproved, BothApproved
<1>6. cand' = [cand EXCEPT ![p] = Advance(cand[p], e)]
      /\ UNCHANGED <<lanes, wakes, calls, inbox, signed, events>>
  BY DEF IngestVerdict
<1>7. \A r \in PRs : events'[r] \in 0..MaxEvents[r]
  BY <1>6 DEF HostTypeOK
<1> HIDE DEF e, p
<1>8. /\ Advance(cand[p], e) \in CandidateRecord
      /\ \A w \in Advance(cand[p], e).verdicts : OnRecord(p, w)
      /\ Advance(cand[p], e).state = "merge-ready" => BothApproved(Advance(cand[p], e))
  BY <1>2, <1>3, <1>4, <1>5, AdvanceType, AdvanceVerdicts, AdvanceReady
<1> QED BY <1>1, <1>6, <1>7, <1>8, CandidateMoves

\* Every step of the review host keeps HostInv, what was delivered and what was signed.
LEMMA HostStep ==
  ASSUME HostInv, HostNext
  PROVE  HostInv' /\ DeliveredStays
<1> USE DEF HostInv
<1>1. CASE \E reg \in Registries : LoadRegistry(reg)
  <2>1. PICK reg \in Registries : LoadRegistry(reg)
    BY <1>1
  <2>2. HostTypeOK' /\ CallsHold' /\ LanesLoaded' /\ DeliveredStays /\ UNCHANGED cand
    BY <2>1, RegistryAssumption
    DEF LoadRegistry, HostTypeOK, CallsHold, LanesLoaded, DeliveredStays
  <2> QED BY <2>2, CandidatesStay
<1>2. CASE \/ \E a \in Asks : Wake(a)
           \/ \E c \in calls : Receive(c) \/ MarkDelivered(c) \/ ReleaseClaim(c) \/ Die(c)
  <2>1. /\ wakes' \in [Requests -> Row \cup {NoRow}] /\ calls' \subseteq Call /\ CallsHold'
        /\ \A q \in Requests : wakes[q] # NoRow /\ wakes[q].delivered =>
             wakes'[q] # NoRow /\ wakes'[q].ask = wakes[q].ask /\ wakes'[q].delivered
    BY <1>2, WakeSteps
  <2>2. UNCHANGED <<lanes, signed, cand, events>>
    BY <1>2 DEF Wake, Receive, MarkDelivered, ReleaseClaim, Die
  <2>3. inbox' \subseteq [thread: Threads, ask: Asks]
    <3>1. CASE \E c \in calls : Receive(c)
      <4>1. PICK c \in calls : Receive(c)
        BY <3>1
      <4>2. c.ask \in Asks /\ c.ask.lane \in Lanes /\ c.ask.role \in Roles
        BY CallRow, AskFacts
      <4>3. lanes \in [Lanes -> [repo: Repos, thread: [Roles -> Threads]]]
        BY RegistryAssumption DEF HostTypeOK, LanesLoaded
      <4>4. lanes[c.ask.lane] \in [repo: Repos, thread: [Roles -> Threads]]
        BY <4>2, <4>3
      <4>5. lanes[c.ask.lane].thread[c.ask.role] \in Threads
        BY <4>2, <4>4
      <4>6. inbox' = inbox \cup
              {[thread |-> lanes[c.ask.lane].thread[c.ask.role], ask |-> c.ask]}
        BY <4>1 DEF Receive
      <4> QED BY <4>2, <4>5, <4>6 DEF HostTypeOK
    <3>2. CASE ~ \E c \in calls : Receive(c)
      BY <1>2, <3>2 DEF HostTypeOK, Wake, MarkDelivered, ReleaseClaim, Die
    <3> QED BY <3>1, <3>2
  <2>4. HostTypeOK' /\ DeliveredStays
    BY <2>1, <2>2, <2>3 DEF HostTypeOK, DeliveredStays
  <2>5. LanesLoaded'
    BY <1>2, <2>2 DEF Wake, LanesLoaded
  <2> QED BY <2>1, <2>2, <2>4, <2>5, CandidatesStay
<1>3. CASE \E v \in SignedVerdict : Sign(v)
  <2>1. PICK v \in SignedVerdict : Sign(v)
    BY <1>3
  <2>2. HostTypeOK' /\ CallsHold' /\ LanesLoaded' /\ DeliveredStays /\ UNCHANGED cand
    BY <2>1 DEF Sign, HostTypeOK, CallsHold, LanesLoaded, DeliveredStays
  <2> QED BY <2>2, CandidatesStay
<1>4. CASE \E v \in signed : IngestVerdict(v)
  <2>1. PICK v \in signed : IngestVerdict(v)
    BY <1>4
  <2>2. DeliveredStays
    BY <2>1 DEF IngestVerdict, DeliveredStays
  <2> QED BY <2>1, <2>2, IngestStep
<1>5. CASE \E p \in PRs :
             \/ \E e \in PlainEvents : CandidateEvent(p, e)
             \/ \E head \in Heads, base \in Bases : Move(p, head, base)
             \/ NewCandidate(p)
  <2>1. HostInv'
    BY <1>5, CandidateSteps
  <2>2. DeliveredStays
    BY <1>5 DEF CandidateEvent, Move, NewCandidate, Happens, DeliveredStays
  <2> QED BY <2>1, <2>2
<1> QED BY <1>1, <1>2, <1>3, <1>4, <1>5 DEF HostNext

-----------------------------------------------------------------------------
(* The release decisions keep ReleaseInv. *)

\* What is justified stays so: merges and reviews are never undone.
LEMMA JustifiedStays ==
  ASSUME TypeOK, DeliveredStays, NEW m \in Merges, Justified(m), merged'[m] = merged[m]
  PROVE  Justified(m)'
<1>1. HostTypeOK
  BY DEF TypeOK
<1> QED BY <1>1, ReviewedStays DEF Justified

\* A step that leaves the merges and takes no decision keeps what rests on them.
LEMMA DecisionsStay ==
  ASSUME ReleaseInv, HostInv', DeliveredStays,
         \A m \in Merges : merged[m] # Nothing => merged'[m] = merged[m],
         \A r \in Repos : todo'[r] \subseteq todo[r],
         \A m \in Merges : intent'[m] # "none" => intent[m] # "none",
         \A m \in Consumed : disposition'[m] = disposition[m],
         TypeOK'
  PROVE  ReleaseInv'
<1> USE DEF ReleaseInv
<1>1. ASSUME NEW m \in Merges, Justified(m) PROVE Justified(m)'
  <2>1. merged'[m] = merged[m]
    BY <1>1 DEF Justified
  <2> QED BY <1>1, <2>1, JustifiedStays
<1>2. DecisionsJustified'
  <2> SUFFICES ASSUME NEW r \in Repos, NEW d \in todo'[r], d.kind = "intent"
               PROVE  Justified(d.merge)'
    BY DEF DecisionsJustified
  <2>1. d \in todo[r] /\ d.merge \in Merges
    BY DEF TypeOK
  <2> QED BY <1>1, <2>1 DEF DecisionsJustified
<1>3. IntentsJustified'
  BY <1>1 DEF IntentsJustified
<1>4. ConsumedStay'
  BY DEF ConsumedStay
<1> QED BY <1>2, <1>3, <1>4

\* A tick decides on what it reads.
LEMMA DecideIsJustified ==
  ASSUME ReleaseInv, NEW m \in Merges, merged[m] # Nothing, NEW newer,
         Decide(m, newer) = "intent"
  PROVE  Justified(m)
<1>1. PROf[m] \in PRs
  BY MergeAssumption
<1>2. /\ merged[m].pull /\ merged[m].operator
      /\ merged[m].id = cand[PROf[m]].id
      /\ BothApproved(cand[PROf[m]])
  BY DEF Decide, BothApproved
<1>3. Reviewed(PROf[m], cand[PROf[m]].id)
  BY <1>1, <1>2, ApprovedIsReviewed DEF ReleaseInv, HostInv
<1> QED BY <1>2, <1>3 DEF Justified

LEMMA DecideKinds ==
  ASSUME NEW m, NEW newer
  PROVE  Decide(m, newer) \in {"intent", "refuse"}
  BY DEF Decide

LEMMA TickBegins ==
  ASSUME ReleaseInv, NEW r \in Repos, NEW superseded \in SUBSET Merges, BeginTick(r, superseded)
  PROVE  ReleaseInv'
<1> USE DEF ReleaseInv
<1>1. UNCHANGED <<hostVars, merged, disposition, intent, pause>>
  BY DEF BeginTick
<1>2. HostInv' /\ HostTypeOK' /\ DeliveredStays
  BY <1>1 DEF HostInv, HostTypeOK, CallsHold, LanesLoaded, VerdictsOnRecord, OnRecord,
              ReadyIsApproved, Approved, DeliveredStays, hostVars
<1> DEFINE new == {[merge |-> m, kind |-> Decide(m, m \in superseded)] :
                     m \in {n \in Of(r) : merged[n] # Nothing}}
<1>3. todo' = [todo EXCEPT ![r] = new] /\ at' = [at EXCEPT ![r] = "scan"]
  BY DEF BeginTick
<1>4. \A d \in new : /\ d \in [merge: Merges, kind: {"intent", "refuse"}]
                     /\ d.kind = "intent" => Justified(d.merge)
  <2> SUFFICES ASSUME NEW m \in Of(r), merged[m] # Nothing
               PROVE  LET d == [merge |-> m, kind |-> Decide(m, m \in superseded)]
                      IN  /\ d \in [merge: Merges, kind: {"intent", "refuse"}]
                          /\ d.kind = "intent" => Justified(d.merge)
    OBVIOUS
  <2>1. m \in Merges
    BY DEF Of
  <2> QED BY <2>1, DecideKinds, DecideIsJustified
<1> HIDE DEF new
<1>5. TypeOK'
  BY <1>1, <1>2, <1>3, <1>4 DEF TypeOK
<1>6. \A m \in Merges : Justified(m) => Justified(m)'
  BY <1>1, <1>2, JustifiedStays
<1>7. DecisionsJustified'
  <2> SUFFICES ASSUME NEW s \in Repos, NEW d \in todo'[s], d.kind = "intent"
               PROVE  Justified(d.merge)'
    BY DEF DecisionsJustified
  <2>1. d.merge \in Merges
    BY <1>5 DEF TypeOK
  <2>2. d \in new \/ d \in todo[s]
    BY <1>3 DEF TypeOK
  <2>3. Justified(d.merge)
    BY <1>4, <2>2 DEF DecisionsJustified
  <2> QED BY <1>6, <2>1, <2>3
<1>8. IntentsJustified' /\ ConsumedStay'
  BY <1>1, <1>6 DEF IntentsJustified, ConsumedStay
<1> QED BY <1>2, <1>5, <1>7, <1>8

LEMMA Applies ==
  ASSUME ReleaseInv, NEW r \in Repos, NEW d \in todo[r], Apply(r, d)
  PROVE  ReleaseInv'
<1> USE DEF ReleaseInv
<1>1. UNCHANGED <<hostVars, merged, at>> /\ todo' = [todo EXCEPT ![r] = @ \ {d}]
  BY DEF Apply
<1>2. HostInv' /\ HostTypeOK' /\ DeliveredStays
  BY <1>1 DEF HostInv, HostTypeOK, CallsHold, LanesLoaded, VerdictsOnRecord, OnRecord,
              ReadyIsApproved, Approved, DeliveredStays, hostVars
<1>3. /\ d.merge \in Merges /\ d.kind \in {"intent", "refuse"}
      /\ disposition[d.merge] # "bootstrap-consumed"
  BY DEF TypeOK, Apply, Skips
<1>4. d.merge \notin Consumed
  BY <1>3 DEF ConsumedStay
<1>5. TypeOK'
  <2>1. Written(d.kind) \in {"none", "intent", "refused", "bootstrap-consumed"}
    BY DEF Written
  <2>2. disposition' \in [Merges -> {"none", "intent", "refused", "bootstrap-consumed"}]
        /\ intent' \in [Merges -> {"none", "open", "settled"}]
        /\ pause' \in [Repos -> Merges \cup {Nothing}]
    BY <1>3, <2>1 DEF TypeOK, Apply
  <2> QED BY <1>1, <1>2, <2>2 DEF TypeOK
<1>6. \A m \in Merges : Justified(m) => Justified(m)'
  BY <1>1, <1>2, JustifiedStays
<1>7. DecisionsJustified'
  <2> SUFFICES ASSUME NEW s \in Repos, NEW k \in todo'[s], k.kind = "intent"
               PROVE  Justified(k.merge)'
    BY DEF DecisionsJustified
  <2>1. k \in todo[s] /\ k.merge \in Merges
    BY <1>1 DEF TypeOK
  <2> QED BY <1>6, <2>1 DEF DecisionsJustified
<1>8. IntentsJustified'
  <2> SUFFICES ASSUME NEW m \in Merges, intent'[m] # "none"
               PROVE  Justified(m)' /\ m \notin Consumed
    BY DEF IntentsJustified
  <2>1. CASE intent[m] # "none"
    BY <1>6, <2>1 DEF IntentsJustified
  <2>2. CASE intent[m] = "none"
    <3>1. m = d.merge /\ d.kind = "intent"
      BY <2>2, <1>3 DEF Apply, TypeOK
    <3> QED BY <1>4, <1>6, <3>1 DEF DecisionsJustified
  <2> QED BY <2>1, <2>2
<1>9. ConsumedStay'
  <2>1. \A m \in Merges : m # d.merge => disposition'[m] = disposition[m]
    BY DEF Apply, TypeOK
  <2> QED BY <1>4, <2>1, MergeAssumption DEF ConsumedStay
<1> QED BY <1>2, <1>5, <1>7, <1>8, <1>9

\* The other steps: they change one thing that no decision rests on.
LEMMA OtherSteps ==
  ASSUME ReleaseInv,
         \/ \E m \in Merges : Settle(m) \/ \E fact \in FactsOf[m] : Merge(m, fact)
         \/ \E r \in Repos : EndTick(r) \/ Abort(r) \/ \E d \in todo[r] : Skip(r, d)
  PROVE  ReleaseInv'
<1> USE DEF ReleaseInv
<1>1. UNCHANGED hostVars /\ UNCHANGED disposition
  BY DEF Settle, Merge, EndTick, Abort, Skip
<1>2. HostInv' /\ HostTypeOK' /\ DeliveredStays
  BY <1>1 DEF HostInv, HostTypeOK, CallsHold, LanesLoaded, VerdictsOnRecord, OnRecord,
              ReadyIsApproved, Approved, DeliveredStays, hostVars
<1>3. CASE \E m \in Merges : Settle(m)
  <2>1. PICK m \in Merges : Settle(m)
    BY <1>3
  <2>2. TypeOK'
    BY <1>1, <1>2, <2>1 DEF TypeOK, Settle
  <2> QED BY <1>1, <1>2, <2>1, <2>2, DecisionsStay DEF Settle, TypeOK
<1>4. CASE \E m \in Merges : \E fact \in FactsOf[m] : Merge(m, fact)
  <2>0. PICK m \in Merges : \E fact \in FactsOf[m] : Merge(m, fact)
    BY <1>4
  <2>1. PICK fact \in FactsOf[m] : Merge(m, fact)
    BY <2>0
  <2>2. fact \in Fact
    BY MergeAssumption
  <2>3. TypeOK'
    BY <1>1, <1>2, <2>1, <2>2 DEF TypeOK, Merge
  <2> QED BY <1>1, <1>2, <2>1, <2>3, DecisionsStay DEF Merge, TypeOK
<1>5. CASE \E r \in Repos : EndTick(r) \/ Abort(r) \/ \E d \in todo[r] : Skip(r, d)
  <2>1. PICK r \in Repos : EndTick(r) \/ Abort(r) \/ \E d \in todo[r] : Skip(r, d)
    BY <1>5
  <2>2. UNCHANGED <<merged, intent, pause>>
    BY <2>1 DEF EndTick, Abort, Skip
  <2>3. at' \in [Repos -> {"idle", "scan"}]
    BY <2>1 DEF EndTick, Abort, Skip, TypeOK
  <2>4. \A s \in Repos : todo'[s] \subseteq todo[s]
    BY <2>1 DEF EndTick, Abort, Skip, TypeOK
  <2>5. todo' \in [Repos -> SUBSET [merge: Merges, kind: {"intent", "refuse"}]]
    BY <2>1 DEF EndTick, Abort, Skip, TypeOK
  <2>6. TypeOK'
    BY <1>1, <1>2, <2>2, <2>3, <2>5 DEF TypeOK
  <2> QED BY <1>1, <1>2, <2>2, <2>4, <2>6, DecisionsStay
<1> QED BY <1>3, <1>4, <1>5

-----------------------------------------------------------------------------
(* Theorems. *)

LEMMA ReleaseStarts == Init => ReleaseInv
<1> SUFFICES ASSUME Init PROVE ReleaseInv
  OBVIOUS
<1>1. HostInv
  BY HostInitHolds DEF Init
<1>2. HostTypeOK
  BY <1>1 DEF HostInv
<1>3. TypeOK
  BY <1>2 DEF Init, TypeOK
<1>4. DecisionsJustified /\ IntentsJustified /\ ConsumedStay
  BY MergeAssumption DEF Init, DecisionsJustified, IntentsJustified, ConsumedStay
<1> QED BY <1>1, <1>3, <1>4 DEF ReleaseInv

LEMMA ReleaseGoesOn == ReleaseInv /\ [Next]_vars => ReleaseInv'
<1> SUFFICES ASSUME ReleaseInv, [Next]_vars PROVE ReleaseInv'
  OBVIOUS
<1>1. CASE HostNext /\ UNCHANGED releaseVars
  <2>1. HostInv' /\ DeliveredStays
    BY <1>1, HostStep DEF ReleaseInv
  <2>2. TypeOK'
    BY <1>1, <2>1 DEF ReleaseInv, HostInv, TypeOK, releaseVars
  <2> QED BY <1>1, <2>1, <2>2, DecisionsStay DEF releaseVars
<1>2. CASE \/ \E m \in Merges : Settle(m) \/ \E fact \in FactsOf[m] : Merge(m, fact)
           \/ \E r \in Repos : EndTick(r) \/ Abort(r) \/ \E d \in todo[r] : Skip(r, d)
  BY <1>2, OtherSteps
<1>3. CASE \E r \in Repos :
             \E superseded \in SUBSET {m \in Of(r) : merged[m] # Nothing} : BeginTick(r, superseded)
  <2>1. PICK r \in Repos :
          \E superseded \in SUBSET {m \in Of(r) : merged[m] # Nothing} : BeginTick(r, superseded)
    BY <1>3
  <2>2. PICK superseded \in SUBSET {m \in Of(r) : merged[m] # Nothing} : BeginTick(r, superseded)
    BY <2>1
  <2>3. superseded \in SUBSET Merges
    BY DEF Of
  <2> QED BY <2>2, <2>3, TickBegins
<1>4. CASE \E r \in Repos : \E d \in todo[r] : Apply(r, d)
  BY <1>4, Applies
<1>5. CASE UNCHANGED vars
  <2>1. HostInv' /\ DeliveredStays
    BY <1>5 DEF ReleaseInv, HostInv, HostTypeOK, CallsHold, LanesLoaded, VerdictsOnRecord,
                OnRecord, ReadyIsApproved, Approved, DeliveredStays, vars, hostVars
  <2>2. TypeOK'
    BY <1>5, <2>1 DEF ReleaseInv, HostInv, TypeOK, vars, releaseVars
  <2> QED BY <1>5, <2>1, <2>2, DecisionsStay DEF vars, releaseVars
<1> QED BY <1>1, <1>2, <1>3, <1>4, <1>5 DEF Next

LEMMA ReleaseInvariant == Spec => []ReleaseInv
  BY ReleaseStarts, ReleaseGoesOn, PTL DEF Spec

\* The variables keep their types.
THEOREM ReleaseTypes == Spec => []TypeOK
<1>1. ReleaseInv => TypeOK
  BY DEF ReleaseInv
<1> QED BY <1>1, ReleaseInvariant, PTL

\* A candidate is merge-ready only when both roles signed an approval of the revision
\* it is at, each woken for it.
THEOREM ReadyWasReviewed == Spec => []ReadyIsReviewed
<1>1. ReleaseInv => ReadyIsReviewed
  <2> SUFFICES ASSUME ReleaseInv, NEW p \in PRs, cand[p].state = "merge-ready"
               PROVE  Reviewed(p, cand[p].id)
    BY DEF ReadyIsReviewed
  <2>1. BothApproved(cand[p])
    BY DEF ReleaseInv, HostInv, ReadyIsApproved, BothApproved
  <2> QED BY <2>1, ApprovedIsReviewed DEF ReleaseInv, HostInv
<1> QED BY <1>1, ReleaseInvariant, PTL

\* An intent is the operator's merge of exactly what both roles approved.
THEOREM ReleasesWereReviewed == Spec => []OnlyReviewedIsReleased
<1>1. ReleaseInv => OnlyReviewedIsReleased
  BY DEF ReleaseInv, IntentsJustified, Justified, OnlyReviewedIsReleased
<1> QED BY <1>1, ReleaseInvariant, PTL

\* A delivery of a wake begins only while no other of its request is open or marked.
THEOREM WakesExclude == Spec => OneDelivery
<1> DEFINE Alone == \A a \in Asks : Wake(a) =>
                      /\ \A c \in calls : c.ask.request # a.request
                      /\ wakes[a.request] # NoRow => ~wakes[a.request].delivered
<1>1. ReleaseInv => Alone
  BY DEF ReleaseInv, HostInv, CallsHold, Wake, Claim
<1>2. Spec => [][Alone]_hostVars
  BY <1>1, ReleaseInvariant, PTL
<1> QED BY <1>2 DEF OneDelivery
=============================================================================
