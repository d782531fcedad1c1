----------------------------- MODULE Governance -----------------------------
(***************************************************************************)
(* Tom's governance policy (swarm-agents/src/tom_agent.rs) and those who   *)
(* ask it: a Pouncer's tick, the dispatcher that routes what the Pouncer   *)
(* asked for, and the console's re-authorization of a held action          *)
(* (swarm-runtime/src/dispatcher.rs, governance_gate.rs).                  *)
(*                                                                         *)
(* While the swarm is healthy the policy stages contingency leases, one    *)
(* per kind of destructive action.  When the governors lose quorum a       *)
(* destructive action needs a lease, and redeeming one charges the         *)
(* action's scope to it, up to a cap.  Every attempt made in a partition   *)
(* is recorded, and the records are reconciled when quorum returns.  The   *)
(* state is saved after most operations; a save that fails is only logged. *)
(*                                                                         *)
(* Abstractions.  All requests are for destructive actions; the others     *)
(* need no governance.  A request is asked once; asking for the same       *)
(* action again is another request.  The rounds run on the one transport   *)
(* in the tree, SoloGovernorTransport, which serves a committee of one and *)
(* no other.  A commit hash is the ordinal of the round that made it, and  *)
(* stands for receipt_counter too, which moves with it.  The Vec of leases *)
(* is a set: a lease's own round orders it.  Leases are those this policy  *)
(* staged, so they verify.  A crash is the death of the process: what was  *)
(* renamed into place stays.  Runtime events and status reports only       *)
(* describe.                                                               *)
(***************************************************************************)
EXTENDS Naturals, FiniteSets, Sequences

CONSTANTS
    Kind,         \* destructive_action_kinds
    Request,      \* the actions Pouncers ask for
    KindOf,       \* KindOf[r]: its action kind
    Scope,        \* values of action_scope_key
    ScopeOf,      \* ScopeOf[r]: the scope it is redeemed under
    Governor,     \* ids the local key may be registered under
    LocalId,      \* the consensus id of the local key
    Peer,         \* identities that may be registered as peers, perhaps LocalId too
    Cap,          \* contingency_blast_radius_cap
    TTL,          \* contingency_lease_ttl_ms, in ticks of the clock
    MaxAge,       \* max_age_ms of a held action's receipt, in ticks
    MaxReports,   \* MAX_RECONCILIATION_REPORTS
    SaveMayFail,  \* whether a save may fail
    MaxClock,     \* bound: the last instant
    MaxRestarts,  \* bound: how often the process dies
    MaxReleases,  \* bound: how many releases are attested
    MaxGrants,    \* bound: how often a held action is decided
    None

ASSUME RequestAssumption == KindOf \in [Request -> Kind] /\ ScopeOf \in [Request -> Scope]
ASSUME LimitAssumption ==
    Cap \in Nat /\ TTL \in Nat /\ MaxAge \in Nat /\ MaxReports \in Nat \ {0}
ASSUME BoundAssumption ==
    MaxClock \in Nat /\ MaxRestarts \in Nat /\ MaxReleases \in Nat /\ MaxGrants \in Nat
ASSUME KindAssumption == IsFiniteSet(Kind)

\* ContingencyLease, which its kind and time of staging identify, and CertifiedReceipt.
Lease == [kind : Kind, at : Nat, round : Nat, redeemed : SUBSET Scope]
Receipt == [decision : {"approve", "veto"}, lease : (Kind \X Nat) \cup {None}, at : Nat]

ASSUME NoneAssumption ==
    None \notin Request /\ None \notin Kind \X Nat /\ None \notin Lease /\ None \notin Receipt

VARIABLES
    clock,
    mem,       \* GovernanceState
    disk,      \* PersistedGovernanceState
    cycle,     \* the dispatcher's tick_agents
    req,       \* req[r]: where the request is, and its evidence
    restarts, releases, grants,
    rounds,    \* rounds that committed, of all runs of the process
    saved,     \* the last save succeeded
    forgot,    \* the process has died when it had not
    admitted,  \* peers ever admitted, but for the local key
    charged,   \* <<lease, scope>> redeemed, of all runs of the process
    noted,     \* partition-era attempts recorded, of all runs of the process
    expunged,  \* those whose report was trimmed
    acts       \* what adapters were asked to do, and on which authority

effort == <<restarts, releases, grants>>
history == <<forgot, admitted, charged, noted, expunged, acts>>
vars == <<clock, mem, disk, cycle, req, effort, rounds, saved, history>>

-----------------------------------------------------------------------------
(* Leases *)

Id(l) == <<l.kind, l.at>>
Live(l) == l.at + TTL > clock

\* The first lease of the Vec among those of a set.
First(leases) == CHOOSE l \in leases : \A o \in leases : l.round <= o.round

\* lease_matches_action, lease_can_redeem; lease_redeem succeeds in the same cases.
\* Every lease is staged without a scope.
CanRedeem(l, r) ==
    /\ l.kind = KindOf[r]
    /\ Live(l)
    /\ ScopeOf[r] \in l.redeemed \/ Cardinality(l.redeemed) < Cap

\* The lease in the evidence is the one its id finds, to the last field.
IsStored(m, l) ==
    /\ l \in m.leases
    /\ \A o \in m.leases : Id(o) = Id(l) => l.round <= o.round

Charge(m, l, r) ==
    [m EXCEPT !.leases = (@ \ {l}) \cup {[l EXCEPT !.redeemed = @ \cup {ScopeOf[r]}]}]

-----------------------------------------------------------------------------
(* Governance state *)

NewState ==
    [keyed |-> FALSE, display |-> {}, unhealthy |-> FALSE, peers |-> {},
     partition |-> "Healthy", leases |-> {}, activity |-> {}, reports |-> <<>>, round |-> 0]

\* Fault: who was admitted is not in the document.
PersistedWithoutPeers(m) ==
    [peers |-> {}, partition |-> m.partition, leases |-> m.leases,
     activity |-> m.activity, reports |-> m.reports, round |-> m.round]

\* Fault: a lease comes back with its whole budget.
PersistedWithoutRedemptions(m) ==
    [peers |-> m.peers, partition |-> m.partition,
     leases |-> {[l EXCEPT !.redeemed = {}] : l \in m.leases},
     activity |-> m.activity, reports |-> m.reports, round |-> m.round]

\* GovernancePersistence::save
Persisted(m) ==
    [peers |-> m.peers, partition |-> m.partition, leases |-> m.leases,
     activity |-> m.activity, reports |-> m.reports, round |-> m.round]

\* Fault: what was attempted before the crash is not read back.
LoadedWithoutActivity(d) ==
    [keyed |-> FALSE, display |-> {}, unhealthy |-> FALSE, peers |-> d.peers,
     partition |-> d.partition, leases |-> d.leases, activity |-> {},
     reports |-> d.reports, round |-> d.round]

\* with_persistence: no key, no display governor and no health is known.
Loaded(d) ==
    [keyed |-> FALSE, display |-> {}, unhealthy |-> FALSE, peers |-> d.peers,
     partition |-> d.partition, leases |-> d.leases, activity |-> d.activity,
     reports |-> d.reports, round |-> d.round]

\* persist_locked: a save replaces the whole document or nothing of it.
Persist(m) ==
    /\ saved' = TRUE \/ (SaveMayFail /\ saved' = FALSE)
    /\ disk' = IF saved' THEN Persisted(m) ELSE disk

GovernorCount(m) == Cardinality(m.peers) + (IF m.keyed THEN 1 ELSE 0)

\* The solo transport serves a committee of one.
RoundCommits(m) == m.keyed /\ m.peers = {}

RecommendedMaxFaulty(n) == IF n <= 1 THEN 0 ELSE (n - 1) \div 3
QuorumThreshold(n) == IF n = 0 THEN 0 ELSE 2 * RecommendedMaxFaulty(n) + 1

\* record_partition_activity_locked
Record(m, authorized) ==
    [m EXCEPT !.activity = @ \cup {[number |-> noted + 1, authorized |-> authorized]}]

-----------------------------------------------------------------------------
(* Tom *)

\* register_governor: the local key is no peer of itself, whichever came first.  A second
\* key is refused, and changes nothing.
RegisterGovernor(g) ==
    /\ LET m == [mem EXCEPT !.keyed = TRUE, !.display = @ \cup {g}, !.peers = @ \ {LocalId}]
       IN  mem' = m /\ Persist(m)
    /\ admitted' = admitted \ {LocalId}
    /\ UNCHANGED <<clock, cycle, req, effort, rounds, forgot, charged, noted, expunged, acts>>

RegisterPeerGovernor(p) ==
    /\ ~(mem.keyed /\ p = LocalId)
    /\ LET m == [mem EXCEPT !.peers = @ \cup {p}]
       IN  mem' = m /\ Persist(m)
    /\ admitted' = admitted \cup {p}
    /\ UNCHANGED <<clock, cycle, req, effort, rounds, forgot, charged, noted, expunged, acts>>

\* Quorum is counted over the governors this process knows of; an unhealthy entry
\* counts against it only under a display id.
BaseState(m, down, others) ==
    LET total == IF Cardinality(m.display) > GovernorCount(m)
                 THEN Cardinality(m.display) ELSE GovernorCount(m)
    IN  IF total < Cardinality(down) + QuorumThreshold(total) THEN "Partitioned"
        ELSE IF down = {} /\ ~others THEN "Healthy" ELSE "Degraded"

\* Fault: healing lasts as long as somebody is unhealthy.
NextStateStuck(from, base) ==
    IF from = "Partitioned" /\ base # "Partitioned" THEN "Healing"
    ELSE IF from = "Healing" /\ base = "Degraded" THEN "Healing" ELSE base

NextState(from, base) ==
    IF from = "Partitioned" /\ base # "Partitioned" THEN "Healing" ELSE base

\* reconcile_partition_activity_locked: the newest MaxReports reports are kept.
Reconcile(m) ==
    LET all == Append(m.reports, m.activity)
    IN  [m EXCEPT !.activity = {},
                  !.reports = IF Len(all) > MaxReports THEN Tail(all) ELSE all]

\* ensure_contingency_leases_locked: kinds with no live, unspent lease.
Wanting(leases) ==
    {k \in Kind : ~\E l \in leases :
        l.kind = k /\ Live(l) /\ Cardinality(l.redeemed) < Cap}

\* issue_contingency_lease, for each kind in turn.  Leases of different kinds are never
\* compared, so those of one pass share a round.
Staged(m) ==
    LET kinds == Wanting(m.leases)
    IN  IF m.partition = "Healthy" /\ RoundCommits(m) /\ Cap > 0 /\ TTL > 0 /\ kinds # {}
        THEN LET last == rounds + Cardinality(kinds)
             IN  [m EXCEPT !.round = last,
                           !.leases = @ \cup {[kind |-> k, at |-> clock, round |-> last,
                                               redeemed |-> {}] : k \in kinds}]
        ELSE m

\* The transition, with its reconciliation, and prune_expired_contingency_leases.
Settled(m, down, others) ==
    LET next == NextState(m.partition, BaseState(m, down, others))
        known == [m EXCEPT !.unhealthy = down # {} \/ others, !.partition = next,
                           !.leases = {l \in @ : Live(l)}]
    IN  IF next = "Healing" THEN Reconcile(known) ELSE known

Observed(m, down, others) == Staged(Settled(m, down, others))

ObserveHealth(down, others) ==
    LET m == Observed(mem, down, others)
        trims == Len(mem.reports) = MaxReports /\ m.partition = "Healing"
    IN  /\ mem' = m
        /\ Persist(m)
        /\ rounds' = IF m.round = mem.round THEN rounds ELSE m.round
        /\ expunged' = IF trims THEN expunged \cup {a.number : a \in Head(mem.reports)}
                       ELSE expunged
        /\ UNCHANGED <<clock, req, effort, forgot, admitted, charged, noted, acts>>

\* Fault: agents tick while the dispatcher still applies what they asked for.
TomTickAnytime(down, others) ==
    /\ mem.keyed
    /\ ObserveHealth(down, others)
    /\ cycle' = [cycle EXCEPT !.observed = TRUE]

\* TomAgent::tick, once in a cycle.  What it asks of the dispatcher, role shifts and
\* health reports, touches no governance state.
TomTick(down, others) ==
    /\ cycle.phase = "tick" /\ ~cycle.observed
    /\ mem.keyed
    /\ ObserveHealth(down, others)
    /\ cycle' = [cycle EXCEPT !.observed = TRUE]

\* attest_release: a round whose commit is not saved.
AttestRelease ==
    /\ releases < MaxReleases
    /\ RoundCommits(mem)
    /\ releases' = releases + 1
    /\ rounds' = rounds + 1
    /\ mem' = [mem EXCEPT !.round = rounds + 1]
    /\ UNCHANGED <<clock, disk, cycle, req, restarts, grants, saved, history>>

-----------------------------------------------------------------------------
(* Pouncer *)

\* A request nobody waits for keeps no evidence.
Idle == [at |-> "new", receipt |-> None, lease |-> None, held |-> 0, redeemed |-> FALSE]
Done == [Idle EXCEPT !.at = "done"]
Approval(lease, at) == [decision |-> "approve", lease |-> lease, at |-> at]
Veto(receipt) == [Idle EXCEPT !.at = "vetoed", !.receipt = receipt]
Allow(receipt, lease) == [Idle EXCEPT !.at = "allowed", !.receipt = receipt, !.lease = lease]

\* The leases preview_matching_contingency_lease looks among.
Matching(r) == {l \in mem.leases : CanRedeem(l, r)}

\* Fault: a governor that cannot be named permits, with the veto's receipt.
DecisionUnnamed(r) ==
    IF ~mem.keyed THEN Veto(None)
    ELSE Allow([Approval(None, clock) EXCEPT !.decision = IF mem.unhealthy THEN "veto" ELSE @],
               None)

\* can_act_at.  A round that does not commit is a veto without a receipt.
Decision(r) ==
    IF ~mem.keyed THEN Veto(None)
    ELSE IF mem.partition = "Partitioned"
    THEN IF Matching(r) = {} THEN Veto(None)
         ELSE LET l == First(Matching(r)) IN Allow(Approval(Id(l), l.at), l)
    ELSE IF ~RoundCommits(mem) THEN Veto(None)
    ELSE IF mem.unhealthy THEN Veto([Approval(None, clock) EXCEPT !.decision = "veto"])
    ELSE Allow(Approval(None, clock), None)

\* PounceAgent::tick, for one action of the matched playbook: asked once, and queued
\* for the dispatcher as a request or as a veto.  The commit is not saved.
Ask(r) ==
    /\ cycle.phase = "tick"
    /\ req[r].at = "new"
    /\ req' = [req EXCEPT ![r] = Decision(r)]
    /\ cycle' = [cycle EXCEPT !.queue = Append(@, r)]
    /\ IF mem.partition # "Partitioned" /\ RoundCommits(mem)
       THEN rounds' = rounds + 1 /\ mem' = [mem EXCEPT !.round = rounds + 1]
       ELSE UNCHANGED <<rounds, mem>>
    /\ UNCHANGED <<clock, disk, effort, saved, history>>

-----------------------------------------------------------------------------
(* Dispatcher and re-authorization *)

\* authorize_partition_request finds the request's lease and may redeem it.
Redeemable(r) == req[r].lease # None /\ IsStored(mem, req[r].lease) /\ CanRedeem(req[r].lease, r)

\* authorize_partition_request in a partition.
AuthorizePartition(r) ==
    LET ok == Redeemable(r)
        m == Record(IF ok THEN Charge(mem, req[r].lease, r) ELSE mem, ok)
    IN  /\ mem' = m
        /\ Persist(m)
        /\ noted' = noted + 1
        /\ charged' = IF ok THEN charged \cup {<<Id(req[r].lease), ScopeOf[r]>>} ELSE charged

Unpartitioned == UNCHANGED <<mem, disk, saved, noted, charged>>

EndTicks ==
    /\ cycle.phase = "tick"
    /\ mem.keyed => cycle.observed
    /\ cycle' = [cycle EXCEPT !.phase = "apply"]
    /\ UNCHANGED <<clock, mem, disk, req, effort, rounds, saved, history>>

\* apply_actions, RequestResponse: the first of the queue is redeemed, refused or,
\* outside a partition, let through on its receipt.
RouteRequest ==
    /\ cycle.phase = "apply" /\ cycle.routing = None /\ cycle.queue # <<>>
    /\ LET r == Head(cycle.queue)
           routes == IF mem.partition = "Partitioned" THEN Redeemable(r) ELSE req[r].receipt # None
       IN  /\ req[r].at = "allowed"
           /\ IF mem.partition = "Partitioned" THEN AuthorizePartition(r) ELSE Unpartitioned
           /\ req' = [req EXCEPT ![r] =
                 IF routes THEN [@ EXCEPT !.at = "routed", !.redeemed = mem.partition = "Partitioned"]
                 ELSE Done]
           /\ cycle' = [cycle EXCEPT !.queue = Tail(@), !.routing = IF routes THEN r ELSE None]
    /\ UNCHANGED <<clock, effort, rounds, forgot, admitted, expunged, acts>>

\* Fault: a veto is noted whatever the state.
RouteVetoNoting ==
    /\ cycle.phase = "apply" /\ cycle.routing = None /\ cycle.queue # <<>>
    /\ req[Head(cycle.queue)].at = "vetoed"
    /\ LET m == Record(mem, FALSE) IN mem' = m /\ Persist(m) /\ noted' = noted + 1
    /\ req' = [req EXCEPT ![Head(cycle.queue)] = Done]
    /\ cycle' = [cycle EXCEPT !.queue = Tail(@)]
    /\ UNCHANGED <<clock, effort, rounds, forgot, admitted, charged, expunged, acts>>

\* apply_actions, GovernanceVeto: noted in a partition (note_partition_veto); the veto is
\* audited and nothing runs.
RouteVeto ==
    /\ cycle.phase = "apply" /\ cycle.routing = None /\ cycle.queue # <<>>
    /\ req[Head(cycle.queue)].at = "vetoed"
    /\ IF mem.partition = "Partitioned"
       THEN LET m == Record(mem, FALSE) IN mem' = m /\ Persist(m) /\ noted' = noted + 1
       ELSE UNCHANGED <<mem, disk, saved, noted>>
    /\ req' = [req EXCEPT ![Head(cycle.queue)] = Done]
    /\ cycle' = [cycle EXCEPT !.queue = Tail(@)]
    /\ UNCHANGED <<clock, effort, rounds, forgot, admitted, charged, expunged, acts>>

Act(r) ==
    acts \cup {[scope |-> ScopeOf[r], lease |-> req[r].receipt.lease,
                decision |-> req[r].receipt.decision]}

\* route_request returns: the runtime ran the action, denied it or held it for a human.
RouteReturns ==
    /\ cycle.routing # None
    /\ LET r == cycle.routing
       IN  \/ req' = [req EXCEPT ![r] = Done] /\ acts' \in {acts, Act(r)}
           \/ req' = [req EXCEPT ![r].at = "held", ![r].held = clock] /\ UNCHANGED acts
    /\ cycle' = [cycle EXCEPT !.routing = None]
    /\ UNCHANGED <<clock, mem, disk, effort, rounds, saved, forgot, admitted, charged, noted, expunged>>

EndCycle ==
    /\ cycle.phase = "apply" /\ cycle.routing = None /\ cycle.queue = <<>>
    /\ cycle' = [cycle EXCEPT !.phase = "tick", !.observed = FALSE]
    /\ UNCHANGED <<clock, mem, disk, req, effort, rounds, saved, history>>

\* Outside a partition the receipt must be an approval no younger than the hold and not
\* too old.
Fresh(r) ==
    /\ req[r].receipt # None
    /\ req[r].receipt.decision = "approve"
    /\ req[r].receipt.at <= req[r].held
    /\ clock <= req[r].receipt.at + MaxAge

\* reauthorize, when an operator grants a held action.
Reauthorize(r) ==
    /\ req[r].at = "held"
    /\ grants < MaxGrants
    /\ grants' = grants + 1
    /\ LET ok == IF mem.partition = "Partitioned" THEN Redeemable(r) ELSE Fresh(r)
       IN  req' = [req EXCEPT ![r] = IF ok THEN [@ EXCEPT !.at = "granted"] ELSE Done]
    /\ IF mem.partition = "Partitioned" THEN AuthorizePartition(r) ELSE Unpartitioned
    /\ UNCHANGED <<clock, cycle, restarts, releases, rounds, forgot, admitted, expunged, acts>>

\* The granted action runs, is refused by the runtime, or its request is dropped and the
\* hold is open again.
GrantReturns(r) ==
    /\ req[r].at = "granted"
    /\ \/ req' = [req EXCEPT ![r] = Done] /\ acts' \in {acts, Act(r)}
       \/ req' = [req EXCEPT ![r].at = "held"] /\ UNCHANGED acts
    /\ UNCHANGED <<clock, mem, disk, cycle, effort, rounds, saved, forgot, admitted, charged, noted, expunged>>

-----------------------------------------------------------------------------
NewCycle == [phase |-> "tick", observed |-> FALSE, queue |-> <<>>, routing |-> None]

\* The process dies and is started again.  Held actions are in a store of their own;
\* the rest of the queue is lost, and Pouncers no longer know what they asked for.
Restart ==
    /\ restarts < MaxRestarts
    /\ restarts' = restarts + 1
    /\ mem' = Loaded(disk)
    /\ cycle' = NewCycle
    /\ req' = [r \in Request |-> IF req[r].at = "held" THEN req[r] ELSE Idle]
    /\ forgot' = (forgot \/ ~saved)
    /\ saved' = TRUE
    /\ UNCHANGED <<clock, disk, releases, grants, rounds, admitted, charged, noted, expunged, acts>>

Tick ==
    /\ clock < MaxClock
    /\ clock' = clock + 1
    /\ UNCHANGED <<mem, disk, cycle, req, effort, rounds, saved, history>>

Init ==
    /\ clock = 0
    /\ mem = NewState /\ disk = Persisted(NewState)
    /\ cycle = NewCycle
    /\ req = [r \in Request |-> Idle]
    /\ restarts = 0 /\ releases = 0 /\ grants = 0
    /\ rounds = 0
    /\ saved = TRUE /\ forgot = FALSE
    /\ admitted = {} /\ charged = {} /\ noted = 0 /\ expunged = {} /\ acts = {}

Next ==
    \/ \E g \in Governor : RegisterGovernor(g)
    \/ \E p \in Peer : RegisterPeerGovernor(p)
    \/ \E down \in SUBSET mem.display, others \in BOOLEAN : TomTick(down, others)
    \/ AttestRelease
    \/ \E r \in Request : Ask(r) \/ Reauthorize(r) \/ GrantReturns(r)
    \/ EndTicks \/ RouteRequest \/ RouteVeto \/ RouteReturns \/ EndCycle
    \/ Restart \/ Tick

\* The dispatcher's loop goes on: Tom is registered and ticks, and what is routed
\* returns.
Fairness ==
    /\ WF_vars(\E g \in Governor : RegisterGovernor(g))
    /\ WF_vars(\E down \in SUBSET mem.display, others \in BOOLEAN : TomTick(down, others))
    /\ WF_vars(EndTicks) /\ WF_vars(RouteRequest \/ RouteVeto)
    /\ WF_vars(RouteReturns) /\ WF_vars(EndCycle)

Spec == Init /\ [][Next]_vars
LiveSpec == Spec /\ Fairness

-----------------------------------------------------------------------------
(* Properties *)

PartitionState == {"Healthy", "Degraded", "Partitioned", "Healing"}
Attempt == [number : Nat \ {0}, authorized : BOOLEAN]

State ==
    [keyed : BOOLEAN, display : SUBSET Governor, unhealthy : BOOLEAN, peers : SUBSET Peer,
     partition : PartitionState, leases : SUBSET Lease, activity : SUBSET Attempt,
     reports : Seq(SUBSET Attempt), round : Nat]
Document ==
    [peers : SUBSET Peer, partition : PartitionState, leases : SUBSET Lease,
     activity : SUBSET Attempt, reports : Seq(SUBSET Attempt), round : Nat]
Asked ==
    [at : {"new", "allowed", "vetoed", "routed", "held", "granted", "done"},
     receipt : Receipt \cup {None}, lease : Lease \cup {None}, held : Nat, redeemed : BOOLEAN]

Cycles ==
    [phase : {"tick", "apply"}, observed : BOOLEAN, queue : Seq(Request), routing : Request \cup {None}]
Acts == [scope : Scope, lease : (Kind \X Nat) \cup {None}, decision : {"approve", "veto"}]

TypeOK ==
    /\ clock \in Nat /\ rounds \in Nat /\ noted \in Nat
    /\ restarts \in Nat /\ releases \in Nat /\ grants \in Nat
    /\ mem \in State /\ disk \in Document
    /\ cycle \in Cycles
    /\ req \in [Request -> Asked]
    /\ saved \in BOOLEAN /\ forgot \in BOOLEAN
    /\ admitted \subseteq Peer
    /\ charged \subseteq (Kind \X Nat) \X Scope
    /\ expunged \subseteq Nat
    /\ acts \subseteq Acts

Numbers(attempts) == {a.number : a \in attempts}
Reported(s) == UNION {Numbers(s.reports[i]) : i \in DOMAIN s.reports}
ChargedTo(id) == {c[2] : c \in {x \in charged : x[1] = id}}

\* However redemptions, restarts and re-staging interleave, a lease is redeemed for at
\* most Cap scopes, unless the process died after a save had failed
\* (authorize_partition_request, with_persistence).
BlastRadius == ~forgot => \A c \in charged : Cardinality(ChargedTo(c[1])) <= Cap

\* Every attempt made in a partition is waiting to be reconciled or in a report, until
\* its report is trimmed, unless the process died after a save had failed
\* (record_partition_activity_locked, reconcile_partition_activity_locked).
AttemptsKept ==
    ~forgot => 1..noted \subseteq Numbers(mem.activity) \cup Reported(mem) \cup expunged

Once(s) ==
    /\ Numbers(s.activity) \cap Reported(s) = {}
    /\ \A i, j \in DOMAIN s.reports :
          i # j => Numbers(s.reports[i]) \cap Numbers(s.reports[j]) = {}
    /\ s.partition # "Partitioned" => s.activity = {}

\* An attempt is reported once, and when the partition is over none is left to report:
\* in memory and in every document a restart may find.
ReportedOnce == Once(mem) /\ Once(disk)

\* What the dispatcher is routing while the governors are partitioned has been charged
\* to a lease: no partition begins between the check and the adapter (apply_actions).
RoutedInPartition ==
    mem.partition = "Partitioned" /\ cycle.routing # None => req[cycle.routing].redeemed

\* Nothing runs on the receipt of a veto, which the dispatcher's own check would let
\* pass (missing_governance_receipt_reason, can_act_at).
ActsAreApproved == \A act \in acts : act.decision = "approve"

\* Once a peer governor is admitted no round commits on the local vote alone, across
\* restarts, unless the process died after a save had failed (register_peer_governor).
PeersAreHeard == [][rounds' # rounds /\ ~forgot => admitted = {}]_vars

\* Healing is over with Tom's next look at the swarm (observe_health).
HealingSettles == mem.partition = "Healing" ~> mem.partition # "Healing"

-----------------------------------------------------------------------------
(* The inductive invariant *)

\* No lease is overdrawn, and leases with one id can be told apart by their rounds.
LeasesSound(s) ==
    /\ s.round <= rounds
    /\ \A l \in s.leases :
          IsFiniteSet(l.redeemed) /\ Cardinality(l.redeemed) <= Cap /\ l.round <= rounds
    /\ \A l, o \in s.leases : Id(l) = Id(o) /\ l.round = o.round => l = o

\* While its lease lives, what was charged to it is on the record its id finds.
Remembered(c) ==
    \E l \in mem.leases : IsStored(mem, l) /\ Id(l) = c[1] /\ c[2] \in l.redeemed
ChargesKept == ~forgot => \A c \in charged : c[1][2] + TTL > clock => Remembered(c)

\* The document is the state, after a save that did not fail.
InStep ==
    saved => /\ disk.leases = mem.leases /\ disk.activity = mem.activity
             /\ disk.reports = mem.reports /\ disk.peers = mem.peers
             /\ disk.partition = mem.partition

PeersKept == ~forgot => mem.peers = admitted

Numbered(s) ==
    Numbers(s.activity) \cup Reported(s) \subseteq 1..noted /\ Len(s.reports) <= MaxReports

RoutingSound ==
    cycle.routing # None => cycle.phase = "apply" /\ req[cycle.routing].at = "routed"

EvidenceSound ==
    \A r \in Request : req[r].at \in {"allowed", "routed", "held", "granted"} =>
        req[r].receipt # None /\ req[r].receipt.decision = "approve"

Ledger == LeasesSound(mem) /\ LeasesSound(disk) /\ ChargesKept /\ BlastRadius
Documents == InStep /\ PeersKept
Records == Numbered(mem) /\ Numbered(disk) /\ AttemptsKept /\ ReportedOnce
Flow == RoutingSound /\ RoutedInPartition /\ EvidenceSound /\ ActsAreApproved

\* What every operation preserves: leases, charges, attempts and the document agree.
GovernanceInv == TypeOK /\ Ledger /\ Documents /\ Records /\ Flow

-----------------------------------------------------------------------------
(* What the documents say; the code keeps neither (README, section 4). *)

\* What runs on a lease's authority keeps to its blast radius (docs/CONSENSUS.md).
LeaseAuthorityBounded ==
    \A act \in acts : act.lease # None =>
        Cardinality({other.scope : other \in {x \in acts : x.lease = act.lease}}) <= Cap

\* Every receipt follows the one before it: a release sits in the same chain as the
\* receipt that authorized the containment (attest_release).
ReceiptsChain == [][rounds' # rounds => mem.round = rounds]_vars
=============================================================================
