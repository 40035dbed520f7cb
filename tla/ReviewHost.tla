------------------------------ MODULE ReviewHost ------------------------------
(***************************************************************************)
(* The review host (src/deploy/t3.ts, the wake rows of journal.ts, the     *)
(* registry.ts lanes): it wakes the author's and the reviewer's thread of  *)
(* a lane for one revision of a pull request, and takes their signed       *)
(* verdicts, with which its caller advances the candidate.                 *)
(*                                                                         *)
(* Wakes are claimed, delivered and marked in three steps by any number of *)
(* processes over one journal; a call's deliver is a promise that the      *)
(* transport settles, or that dies with its process.                       *)
(***************************************************************************)
EXTENDS Candidate, Naturals, FiniteSets

CONSTANTS
  Lanes, Threads, Repos,
  Registries,   \* registries that may be on disk
  NoLanes,      \* none is loaded
  PRs,          \* pull requests
  RepoOf,       \* the repository of a pull request
  Asks,         \* wake requests: [request, lane, role, pr, id]
  Requests,     \* their request ids
  NoRow,
  FirstHead,    \* the head a pull request begins with
  Drafts,       \* whether a pull request may begin as a draft
  PlainEvents,  \* events of a candidate, other than verdicts and moves
  MaxSigned,    \* bound: verdicts ever signed
  MaxEvents     \* bound: what happens to each candidate

ASSUME RegistryAssumption ==
  /\ Registries \subseteq [Lanes -> [repo: Repos, thread: [Roles -> Threads]]]
  /\ NoLanes \notin Registries
ASSUME AskAssumption ==
  /\ RepoOf \in [PRs -> Repos] /\ MaxEvents \in [PRs -> Nat] /\ MaxSigned \in Nat
  /\ \A a \in Asks : /\ DOMAIN a = {"request", "lane", "role", "pr", "id"}
                     /\ a.request \in Requests /\ a.lane \in Lanes /\ a.role \in Roles
                     /\ a.pr \in PRs /\ a.id \in Identity
ASSUME EventAssumption == PlainEvents \subseteq AllPlainEvents
ASSUME DraftAssumption == Drafts \subseteq BOOLEAN /\ FirstHead \in Heads

VARIABLES
  lanes,    \* the registry in force
  wakes,    \* deploy_wakes: the row of a request
  calls,    \* deliveries that are not settled
  inbox,    \* what threads have received
  signed,   \* verdicts signed by the agents; any may arrive, late and often
  cand,     \* the candidate of a pull request
  events    \* how many things have happened to each candidate

hostVars == <<lanes, wakes, calls, inbox, signed, cand, events>>

\* A claim is a row with a holder, whichever: nothing compares holders.
Row == [ask: Asks, delivered: BOOLEAN, held: BOOLEAN]
ASSUME RowAssumption == NoRow \notin Row
Call == [ask: Asks, received: BOOLEAN]
SignedVerdict == [ask: Asks, decision: Decisions, by: Roles]

-----------------------------------------------------------------------------
(* loadRegistry. *)

\* assertIsolated: no repository has two lanes, no thread two roles or lanes.
Isolated(reg) ==
  /\ \A l, k \in Lanes : l # k => reg[l].repo # reg[k].repo
  /\ \A l, k \in Lanes, i, j \in Roles :
       <<l, i>> # <<k, j>> => reg[l].thread[i] # reg[k].thread[j]

LoadRegistry(reg) ==
  /\ lanes = NoLanes
  /\ Isolated(reg)
  /\ lanes' = reg
  /\ UNCHANGED <<wakes, calls, inbox, signed, cand, events>>

-----------------------------------------------------------------------------
(* wake *)

\* Mutant: a claim another call holds is taken over.
ClaimHeld(a) ==
  \/ wakes[a.request] = NoRow
  \/ /\ wakes[a.request] # NoRow
     /\ wakes[a.request].ask = a
     /\ ~wakes[a.request].delivered

\* A claim throws for a request bound to something else, and is a duplicate
\* while another holds it and once it is delivered.
Claim(a) ==
  \/ wakes[a.request] = NoRow
  \/ /\ wakes[a.request] # NoRow
     /\ wakes[a.request].ask = a
     /\ ~wakes[a.request].delivered /\ ~wakes[a.request].held

Wake(a) ==
  /\ lanes # NoLanes
  /\ RepoOf[a.pr] = lanes[a.lane].repo
  /\ lanes[a.lane].thread["author"] # lanes[a.lane].thread["reviewer"]
  /\ Claim(a)
  /\ wakes' = [wakes EXCEPT ![a.request] = [ask |-> a, delivered |-> FALSE, held |-> TRUE]]
  /\ calls' = calls \cup {[ask |-> a, received |-> FALSE]}
  /\ UNCHANGED <<lanes, inbox, signed, cand, events>>

\* The transport hands the record to the thread of the role.
Receive(c) ==
  /\ c \in calls /\ ~c.received
  /\ calls' = (calls \ {c}) \cup {[c EXCEPT !.received = TRUE]}
  /\ inbox' = inbox \cup {[thread |-> lanes[c.ask.lane].thread[c.ask.role], ask |-> c.ask]}
  /\ UNCHANGED <<lanes, wakes, signed, cand, events>>

\* markWakeDelivered
MarkDelivered(c) ==
  /\ c \in calls /\ c.received
  /\ calls' = calls \ {c}
  /\ wakes' = [wakes EXCEPT ![c.ask.request].delivered = TRUE,
                            ![c.ask.request].held = FALSE]
  /\ UNCHANGED <<lanes, inbox, signed, cand, events>>

\* releaseWakeClaim: the delivery failed, whether or not the thread has the record.
ReleaseClaim(c) ==
  /\ c \in calls
  /\ calls' = calls \ {c}
  /\ wakes' = IF wakes[c.ask.request].delivered THEN wakes
              ELSE [wakes EXCEPT ![c.ask.request].held = FALSE]
  /\ UNCHANGED <<lanes, inbox, signed, cand, events>>

\* The process dies: the claim stays.
Die(c) ==
  /\ c \in calls
  /\ calls' = calls \ {c}
  /\ UNCHANGED <<lanes, wakes, inbox, signed, cand, events>>

-----------------------------------------------------------------------------
(* Verdicts. *)

\* An agent answers a request it has, though perhaps for another revision.
Sign(v) ==
  /\ Cardinality(signed) < MaxSigned
  /\ \E i \in inbox : i.ask.role = v.by /\ i.ask.request = v.ask.request
  /\ signed' = signed \cup {v}
  /\ UNCHANGED <<lanes, wakes, calls, inbox, cand, events>>

\* Mutant: a verdict names its request, and is not compared with what was asked.
AcceptsRequest(v) ==
  /\ wakes[v.ask.request] # NoRow
  /\ wakes[v.ask.request].delivered
  /\ v.by = v.ask.role

\* The verdict is for what was asked, and signed with the key of the role asked.
Accepts(v) ==
  /\ wakes[v.ask.request] # NoRow
  /\ wakes[v.ask.request].delivered
  /\ wakes[v.ask.request].ask = v.ask
  /\ v.by = v.ask.role

VerdictOf(v) ==
  [type |-> "verdict", verdict |-> [role |-> v.ask.role, decision |-> v.decision, id |-> v.ask.id]]

IngestVerdict(v) ==
  /\ v \in signed
  /\ lanes # NoLanes /\ lanes[v.ask.lane].repo = RepoOf[v.ask.pr]
  /\ Accepts(v)
  /\ cand' = [cand EXCEPT ![v.ask.pr] = Advance(@, VerdictOf(v))]
  /\ UNCHANGED <<lanes, wakes, calls, inbox, signed, events>>

-----------------------------------------------------------------------------
(* The caller of advanceCandidate, which knows the pull request. *)

Happens(p) ==
  /\ events[p] < MaxEvents[p]
  /\ events' = [events EXCEPT ![p] = @ + 1]
  /\ UNCHANGED <<lanes, wakes, calls, inbox, signed>>

CandidateEvent(p, e) == Happens(p) /\ cand' = [cand EXCEPT ![p] = Advance(@, e)]

Move(p, head, base) ==
  /\ Happens(p)
  /\ <<head, base>> # <<cand[p].id.head, cand[p].id.base>>
  /\ cand' = [cand EXCEPT ![p] = invalidate(@, head, base)]

\* The new head on the new base has been tested.
NewCandidate(p) ==
  /\ Happens(p)
  /\ cand[p].id.tree = NoTree
  /\ cand' = [cand EXCEPT ![p] =
       blankCandidate([@.id EXCEPT !.tree = <<cand[p].id.head, cand[p].id.base>>], FALSE)]

-----------------------------------------------------------------------------
HostInit ==
  /\ lanes = NoLanes
  /\ wakes = [q \in Requests |-> NoRow]
  /\ calls = {} /\ inbox = {} /\ signed = {}
  /\ cand \in [PRs -> {blankCandidate([head |-> h, base |-> b, tree |-> <<h, b>>], draft) :
                        h \in {FirstHead}, b \in Bases, draft \in Drafts}]
  /\ events = [p \in PRs |-> 0]

HostNext ==
  \/ \E reg \in Registries : LoadRegistry(reg)
  \/ \E a \in Asks : Wake(a)
  \/ \E c \in calls : Receive(c) \/ MarkDelivered(c) \/ ReleaseClaim(c) \/ Die(c)
  \/ \E v \in SignedVerdict : Sign(v)
  \/ \E v \in signed : IngestVerdict(v)
  \/ \E p \in PRs :
       \/ \E e \in PlainEvents : CandidateEvent(p, e)
       \/ \E head \in Heads, base \in Bases : Move(p, head, base)
       \/ NewCandidate(p)

-----------------------------------------------------------------------------
(* Properties. *)

HostTypeOK ==
  /\ lanes \in Registries \cup {NoLanes}
  /\ wakes \in [Requests -> Row \cup {NoRow}]
  /\ calls \subseteq Call
  /\ inbox \subseteq [thread: Threads, ask: Asks]
  /\ signed \subseteq SignedVerdict
  /\ cand \in [PRs -> CandidateRecord]
  /\ \A p \in PRs : events[p] \in 0..MaxEvents[p]

\* Whatever is retried and whichever process dies, a delivery of a request begins only
\* while no other is under way and none has been marked (t3.ts lines 83 to 114,
\* journal.ts lines 480 to 498).
OneDelivery ==
  [][\A a \in Asks : Wake(a) =>
       /\ \A c \in calls : c.ask.request # a.request
       /\ wakes[a.request] # NoRow => ~wakes[a.request].delivered]_hostVars

\* Each role was asked about exactly this revision, and signed an approval of it.
Reviewed(p, id) ==
  \A role \in Roles : \E v \in signed :
    /\ v.by = role /\ v.decision = "approve"
    /\ v.ask.role = role /\ v.ask.pr = p /\ v.ask.id = id
    /\ wakes[v.ask.request] # NoRow
    /\ wakes[v.ask.request].ask = v.ask /\ wakes[v.ask.request].delivered

\* Whatever is late, repeated or mistaken, a candidate is merge-ready only when both
\* roles approved the revision it is at (candidate.ts lines 85 to 105).
ReadyIsReviewed ==
  \A p \in PRs : cand[p].state = "merge-ready" => Reviewed(p, cand[p].id)
=============================================================================
