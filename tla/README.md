# Ambush: TLA+ models, checks and proofs

Ambush runs a swarm of eight agents in one process. Whiskers detect, Stalkers and
Weavers investigate, Sphinx remembers, Kitten and Calico evolve the detectors; the
Pouncer asks for a response and Tom, the governor, is the only one who may authorize a
destructive one. They share a dispatcher that ticks them in turn, a pheromone substrate
and a health model. An action that policy wants a human to decide is held and offered
on a console. Whatever reaches an adapter that acts on a host passes a durable dispatch
journal first, and a containment is leased, to be undone when its time is up. What
people must hear of goes through an alarm lane to a relay.

The same repository holds that relay and the product around it (`workspace/`): a chat
relay over Postgres, its clients, and a harness that takes the relay's events to a pool
of coding agents.

This directory models the part of the swarm that decides **whether, by whose authority,
how often and for how long a destructive action happens, and whether anyone is told**,
and of the workspace the harness that decides **which agent sees which event**, because
that is where an unlucky interleaving, a crash or a failed write costs most and where a
unit test reaches least.

| module | what it is |
|---|---|
| `OnceDispatch` | what the dispatch journal promises: each identity is consumed once, its effect happens at most once |
| `DispatchJournal` | the journal, its files, its writers and `dispatch_once`; implements `OnceDispatch` |
| `HeldActions` | the hold store, the decide engine and the sweeps, on top of `OnceDispatch` |
| `Consensus` | one governance decision among the governors of a committee |
| `Governance` | Tom's policy, its document, and the Pouncer, dispatcher and console that ask it |
| `Containment` | containment leases: execution, the TTL sweep, the operators' release |
| `AlarmDrainer` | the alarm lane: spool, drainer, dead-letter, routing ledger, relay |
| `EventQueue` | the ACP harness's per-channel queue, as a value and its methods |
| `AcpHarness` | the harness's main loop, its agents and their turns, over `EventQueue` |
| `*Proofs` | the theorems about the module they extend; `AcpEventsProofs` goes on from `AcpHarnessProofs` |
| `MC*` | small instances; a `.cfg` belongs to a run, or to a configuration of section 4 |

## 1. The system's parts

For each part: its state, its operations, what it talks to, what is hard, what makes
it correct. Paths are under `crates/`; the last part is the workspace.

**Dispatch journal** (`swarm-runtime/src/dispatch_journal.rs`, `dispatch.rs`). State: a
lock file, a journal of intents and completions, a manifest that names the length and
digest of the trusted prefix; in memory the replayed records and a poison flag.
Operations: `open`, `reserve`, `complete`, `lookup_persisted`; `dispatch_once` is
reserve, adapter, complete. Hard: an append is five disk operations and a crash or power
cut may fall between any two; two daemons may be configured with one directory; the
caller may be cancelled. Correct: an identity has its effect at most once, ever; a
refusal that says "already reserved" is true; a clean kill costs nothing.

**Held actions** (`swarm-runtime/src/held_action.rs`, `hold_sweep.rs`,
`swarm-ingest-runtime/src/ingest/perch_ops/holds.rs`). State: a cache of records and one
document per hold. Operations: file, notice, deliver, begin and complete a decision,
abandon a dropped one, expire, fail a stalled claim. Hard: concurrent console requests
against sweeps; memory changes before the document does; a request can be dropped at
its await. Correct: one claim at a time, a claim survives a crash, the record tells the
operator what the adapter did, no hold is stuck in `deciding`.

**Consensus** (`swarm-consensus/src/lib.rs`, `transport.rs`). State per node: round,
proposals, prevotes and precommits, envelopes seen, senders excluded. Operations: drive
a round, handle an envelope, advance the round, exclude a sender. Hard: loss, repetition
and reordering together with equivocation; the sender an envelope names is excluded before
anything shows that it sent it. Correct: one round commits one proposal id; what an honest
governor sends never has it excluded, so that it takes an envelope in its name that it did
not send in this decision.

**Governance policy** (`swarm-agents/src/tom_agent.rs`,
`swarm-policy/src/formal_core.rs`). State: keyring, peers, health, partition state,
contingency leases, partition-era attempts, reconciliation reports, commit hash; one
document. Operations: register governor and peer, observe health, `can_act`, authorize a
request in a partition, note a veto, attest a release, save, load. Callers:
`pounce_agent.rs`, `dispatcher.rs`, `governance_gate.rs`. Hard: the answer is used later
than it was given; leases are copied into requests; saves fail silently; restarts.
Correct: a lease's blast radius holds across restarts, every partition-era attempt is
reported once, nothing runs on a veto, a known peer is never outvoted by a committee of
one.

**Containment** (`swarm-runtime/src/containment.rs`, `swarm-response/src/containment.rs`,
`rollback.rs`, `http_edr.rs`, `swarm-runtime-http/src/http/containment.rs`). State: a
document of open and closed leases. Operations: record a lease, release it (read, await
the inverse, attest, close, publish), sweep the expired ones. Hard: the sweep and
operators race with no claim between reading and closing; an inverse that timed out may
have landed; the effect reaches the host before the lease is written. Correct: a
containment in effect has an open lease, a lease is closed once, nothing is called
reversed that is still in place, every lease on a host that answers ends.

**Runtime path** (`swarm-runtime/src/lib.rs`): prepare, authorize, execute, record a
containment lease, audit. From dispatch to lease it is in `Containment`; the question
before is in `Governance`.

**Alarm lane** (`swarm-perch-bridge/src/receive.rs`, `spool/`, `alarm/`, `holds.rs`,
`channels.rs`). State: segments, a cursor, a dead-letter and a routing ledger, each a file
of its own; the relay's channels and cards. Operations: append, take the head or a parked
record, publish up to five frames, count a refusal, park, commit, recover. Hard: no two
files change together, and a crash falls between any two; a frame without an answer may
have landed; the dead-letter is bounded and served on idle ticks only. Correct: no alarm
is lost, what is done is on the relay, a page has its card, a closed hold stays closed, a
refused head gives way and a parked record gets its turn. The bridge's evidence lanes
(`pacer.rs`, `coalesce.rs`, `publish.rs`) drop by design and are not modelled.

**Pheromone substrate and escalation** (`swarm-pheromone`, `swarm-runtime/src/escalation.rs`):
signed deposits that decay, a journal rewritten by garbage collection, thresholds with a
quorum of sources, a shared mode. *Planned.*

**Response adapters** (`swarm-response`): a retry loop and circuit breaker around
network calls, a dead letter. *The breaker is planned; adapters are I/O.*

**Approval, promotion, canary, evolution** (`approval.rs`, `promotion.rs`, `canary.rs`,
`swarm-evolution`): signed votes in a ledger file, gates over stored reports. *The
approval quorum is planned.*

**Investigation queue** (`investigation.rs`): bounded priority queue with eviction and
starvation boost. *Planned.*

**Spine** (`swarm-spine`): hash-linked envelopes and checkpoints. *Planned late.*

**Not to be modelled**: policy gates and guards (stateless predicates), detectors,
correlation and chain reconstruction (computation on data), ingest and wire formats
(parsing, reconnecting streams), HTTP, CLI and workbench (surface), core types, config
and crypto (their guarantees are assumptions of the models). Vendored code, clients,
fixtures and planning documents are no part of the program. The repository's own
`formal/tla/PartitionContingency.tla` and Kani harnesses are specifications; section 4
says where the former and the code part.

**Workspace** (`workspace/`, about two thirds of the repository).

- *ACP harness* (`crates/ambush-acp/src/queue.rs`, `lib.rs`, `pool.rs`,
  `pool_lifecycle.rs`). State: a queue per channel with in-flight marks, backoffs and
  merged batches; slots that hold agents, their breakers and respawns; a pool that can
  sleep. Operations: an event arrives and waits, steers the running turn or cancels it; a
  batch is dispatched; a turn ends in one of eight ways; an agent is respawned; a
  heartbeat is sent. Hard: prompt tasks, steer watchers and respawns report to the loop in
  any order. Correct: no event is forgotten or in two places, a slot has one agent, a
  channel one turn, the pool does not sleep on work, every event is settled.
- *Not modelled*: the relay (80 thousand lines of handlers over Postgres and Redis), the
  database layer, community deletion and the push gateway, because their state and its
  concurrency are SQL transactions, and a model would assume the isolation it is about;
  the agent behind the harness (provider protocols, prompts, tools), which the harness
  sees as a turn that ends, fails or dies; the harness's relay connection (the next
  candidate); mesh, pub/sub, search and audit (best-effort fan-out); the workflow engine;
  authentication, media, personas and voice (predicates and I/O); the Kubernetes backend
  (one request per process); libraries, command lines and tools; the desktop, mobile and
  web clients (TypeScript and Dart).

`PROJECT.json` lists every component, and under `hazards` what is hard to test, at the
line where it bites.

## 2. Plan

1. Dispatch journal, its abstract specification, refinement and proofs. *Done.*
2. Held actions on top of the abstract journal, proofs, liveness. *Done.*
3. Consensus, proofs of agreement in a round and of a commit in the first one. *Done.*
4. Governance with its callers and restarts, proofs. *Done.*
5. Containment, proofs, liveness. *Done.*
6. The alarm lane with spool and dead-letter, proofs, liveness. *Done.*
7. The ACP harness over its queue, proofs of the pool and of the events, liveness. *Done.*
8. `Substrate`: deposits, decay and garbage collection against the journal file, with
   the escalation monitor as its reader. What to look at: `rewrite_jsonl` truncates and
   then writes (`substrate.rs:1686`), a torn last line makes the next open fail, and an
   error in the middle of `evaluate_all` (`escalation.rs`) forgets which classes were
   escalated, so that they are announced again.
9. `CircuitBreaker`: the two unlocked fields under concurrent calls (`resilience.rs:122`).
10. `ApprovalQuorum`: votes lost to a read-modify-write (`approval.rs:1058`);
    `InvestigationQueue`: bounded, no starvation; the spine; the ACP relay connection.
11. Power cuts in the hold store (`held_action.rs:986` renames without fsync), and what
    the sweep's callers learn of a pass that a write error ended (`held_action.rs:1143`).

## 3. The modules and the code

### DispatchJournal

A line of the file is an `Entry`; a prefix and its byte count and digest are the same
thing, so the manifest (`checkpoint`) is the sequence of entries it covers. `journal`
holds the complete lines, `durable` how many an fsync has covered, `torn` says that the
file is not exactly those lines, `synced` is the manifest a power cut would leave.
`open` is seven actions (`OpenSync` to `OpenLoad`), from the fsync of the naming chain
over `create_new` and `try_lock` to replay. An append is `Reserve` or `Complete` (which
take the writer's mutex and validate the files) followed by `AppendWrite`, `AppendSync`,
`CheckpointTmp`, `CheckpointRename` and `CheckpointDirSync`; any of them may fail, with
part of the line written. `Crash` kills a process, `PowerLoss` all of them and whatever
was not synced, `Cancel` drops a call at its await, `Damage` corrupts the file in place.
Checks that never decide more than "refused" (sizes, nesting, active lease) are one
refusal that may happen.

### HeldActions

`mem` is the store's cache and `disk` its documents; every transition changes the cache
and then writes, and the write may fail. A decide request is a `handler` that reads the
hold, claims it by compare-and-set with the instant it arrived (`late` ticks ago), and
refuses it, or grants it through the journal and the adapter, and completes. A handler
can be dropped at its await, whose guard reopens the hold. Times are relative: ticks
left to expiry and to stall. Governance, policy and guards of a grant are outcomes that
go either way here; `Governance` has them in detail.

### Consensus

`node[n]` is a `ConsensusNode`; its operations are functions from node state to node
state (`EmitPrevote`, `ObserveProposal`, `ExcludeSender`, `HandleSignedEnvelope`, ...),
composed as the code composes them, and the actions are the driver's: start, publish,
receive, time out, give up, and `Refuse`, a round that ends because the transport brought
more than `max_inbound` envelopes or one that `handle_envelope` refuses. `proposer` is what
`proposer_for` makes of the last commit's hash, one of `Proposers`. A proposal is an id and
a payload, which nothing in the code binds to each other; votes name the id. `Heard` is
what the network may deliver. Sent messages stay in `sent` and may be delivered in any
order, again, or never. `Forged` is what may be delivered beside them, at any time and to
anyone: whatever a faulty governor signs, and in an honest one's name what does not verify
(`Garbled`) or what it signed in another decision (`Stale`). Every decision uses a fresh
node of height 1, so a stale envelope has the key of a current one; the code remembers it,
puts it aside for its `previous_commit_hash`, and then takes the current one for
equivocation.

### Governance

`mem` is `GovernanceState`, `disk` its document, `req[r]` a Pouncer's request on its way
from question to routing, `cycle` the dispatcher's pass over the agents. `TomTick` is
`observe_health` with everything it calls: the partition state's transition,
reconciliation, pruning, staging and save. `Ask` is the Pouncer's `can_act`;
`RouteRequest`, `RouteVeto` and `RouteReturns` are `apply_actions`; `Reauthorize` and
`GrantReturns` are a hold's decide call. `Restart` reloads the document. The remaining
variables are history: the rounds run so far, whether the document is up to date
(`saved`) and whether a restart lost something (`forgot`), the scopes charged, the
attempts noted, the acts that reached adapters. The module's header lists what is
abstracted. `LocalId` is the process's own consensus identity, which `RegisterGovernor`
takes out of the peers and `RegisterPeerGovernor` does not admit once the key is held. A real partition arises only for the solo governor whose own entry is
unhealthy, because peers are never among the displayed governors; the model follows.

### Containment

`request[h]` is where a containment's execution is, `contained` what is in effect on the
hosts, `open` and `closed` the store. `caller[c]` is the `release_lease` call of the sweep
or of an operator, one action per await: `OperatorReleases` or `SweepTakes` read the
lease, `InverseLands` or `InverseFails` is the executor's answer (a failed one may have
landed), then `Attest`, `Close` or `CloseFails`, and `Publish`, which reads the store
again. A failed inverse keeps the lease. `RequestDropped`, `OperatorGone` and `Crash` end
calls between any two steps. Times are relative, as in `HeldActions`.

### AlarmDrainer

`Append` to `Lag` are the receive loop; `TakeHead` and `TakeParked` begin a `job` with the
frames its `Plan` still owes, `StepAccepted` to `StepRefused` are the answers to one frame
and what they write, `Park`, `Commit` and `Leave` end it. `cursor` and `saved` are the
cursor in memory and on disk, `synced` how far a power cut leaves the segments. `ledger`,
`routed` and `created` are the routing sidecar, `channels`, `sent` and `timeline` the
relay, of which only what it does with a frame it takes is modelled: that it takes it,
refuses it or does not answer is free. `Crash`, `PowerCut`,
`StepUnrecorded` and `CommitFails` break the order of writes, `RelayForgets` resets the
relay, `Restart` may start another build, which cannot read the alarms in `foreign`. A hold
can be announced as ended twice, by the stall sweep and by the decide call that returns
after it, and the second one parked replaces the first. Left out: a rename is taken to
survive a power cut, although `write_atomic` does not sync the directory; a roll (seal,
cursor, new segment) is one step with its append, and a torn header of a new segment does
not arise.

### AcpHarness and EventQueue

`EventQueue` has the queue's methods as functions from value to value, and `AcpHarness`
its state and the loop. `RelayEvent` is the loop's handler of one event with the mode
gate; `DispatchBatch` and `DispatchExhausted` are `dispatch_pending`, one batch a step;
`TurnEnds`, `SteerAnswered` and `RespawnEnds` are the tasks beside the loop, whose reports
`HandleResult`, `HandlePanic`, `HandleSteerAck` and `CollectRespawn` take in;
`Maintenance` is the pass that every turn of the loop begins with. `StartWake` to
`IdlePoolSleep` are the lazy pool. `past` records how an event left: delivered, given up
after `MaxRetries`, or spilled; `queue.shed` what a cap discarded.

## 4. What the runs show

Sizes are distinct states.

| run | instance | checks |
|---|---|---|
| `dispatch_journal` | 2 daemons, 2 calls, 2 identities, 2 entries (178,850) | `IInv`, `AtMostOnce`, and that the journal implements `OnceDispatch` |
| `held_actions` | 1 hold, a granting and a refusing request, TTL and stall of 2 ticks, 1 crash (75,777) | `HeldInv`, `ClaimExclusive`, `AtMostOnce`, `RecordIsTruthful`, `TerminalStays`, `DecidingEnds` |
| `consensus_rounds` | 3 governors, 2 rounds, a first leader with two payloads, an imposter's and a stale envelope, time-outs (1.2 million) | `ConsensusInv`, `ExclusionsHaveCause` |
| `consensus_four` | 4 governors, any of them leading, one faulty (1.3 million) | `RoundAgreement`, `RoundZeroCommits` |
| `governance_restart` | 2 requests, cap 1, leases that expire, 1 restart (3.5 million) | `RoutedInPartition`, `BlastRadius`, `AttemptsKept` |
| `governance_saves` | 1 request, failing saves, a peer, 1 restart (1.5 million) | `GovernanceInv`, `PeersAreHeard` |
| `governance_settles` | 1 request routed or held and granted, a release, a peer and the own identity as peer, 1 restart, fairness (203,277) | `ActsAreApproved`, `HealingSettles` |
| `containment` | 2 requests, one on a host that need never answer, 1 operator and the sweep, 1 crash, fairness (113,932) | `ContainmentInv`, `EffectIsTracked`, `ClosedOnce`, `ReversalsAreReal`, `AnnouncedIsTrue`, `LeasesEnd` |
| `alarm` | a hold that is opened and announced as ended twice, a promotion of the same hunt, 1 fault, another build, fairness (253,714) | `LaneInv`, `NothingLost`, `DoneIsPublished`, `AlarmIsBacked`, `StaysClosed`, `LaneDrains`, `ParkedServed` |
| `acp_queue` | 2 channels, 2 agents, 2 events, queues of 1, heartbeats (1.39 million) | `AcpType`, `NothingForgotten`, `HeldOnce`, `WithheldIsWatched`, `SlotsAreExclusive` |
| `acp_settles` | a lazy pool of 1 agent, a turn past its deadline, fairness (41 thousand) | `SleepStrandsNothing`, `EventsSettle` |

The properties of section 5 that no run names (`IntentBeforeEffect`, `PriorIsProof`,
`CompletionAfterReturn`, `AtRestReopens`, `ClaimKept`, `ClaimOnDisk`, `RanIsRemembered`,
`LedgersAreHonest`, `NoEquivocation`, `WordsStay`, `ReportedOnce`, `InFlightIsServed`,
`ClosedIsAnnounced`, the two parts of `LaneInv`, and that `HeldActions` implements
`OnceDispatch`) were model-checked on the same instances and are proved; so were the
inductive invariants `FirstRoundInv` and `EventsInv`, which are stated beside their proofs.

**Why the bounds are enough to be interesting.** The journal needs two daemons for the
lock race, two calls for one identity to race and two identities for a completion and an
intent to be told apart; two entries fill it, so the limit is met too. One hold with two
opposed requests has every race of the decide engine; a second hold matters only through
an identity it may share, and `HeldAtMostOnce` is proved for any number. Three governors with `f = 1` make every
quorum need the faulty one or everyone; four is the size the protocol is for. In
`Governance` a cap of one and two requests make the second redemption the interesting
one; leases that live one tick expire within the run; `MaxReports = 1` trims a report at
the second reconciliation. In `Containment` two requests let one hold the sweep's pass up for the other, a
TTL of one tick lets the operator and the sweep meet on a lease. In `AlarmDrainer` a
refusal budget of two tells counting from giving up, and four alarms of two pieces of
work have every order of open, end, end again and promotion; where a fault happens there
are at most two of the four (`MaxTroubled`), which is enough for a record to be in two of
the lane's files at once. Two pieces of work fill the dead-letter and do not overflow it:
eviction is covered by the theorems, which hold for every capacity and any number of events
and faults, and not by a run. In `AcpHarness` queues, batches and retries are capped
at one, so queues overflow and retries run out within two events. What no bound hides is in
the proofs.

**A run that finds a disagreement.** `acp_spilled` states what the harness says of a
merged batch, that it survives (`NothingSpilled`), and is violated: a batch that finds no
idle agent or whose turn failed goes back without the events merged into it
(`queue.rs:510`). `findings` in `PROJECT.json` quotes the lines.

**Further disagreements.** Five more lines are refuted by configurations kept here (one of them by two), each
with `tlc -config <cfg> <module>`:

| configuration, property | the line | what happens |
|---|---|---|
| `HeldActionsDropped.cfg` of `MCHeldActions`, `NoActionTaken` | an expired or refused hold took no action (`held_action.rs:55`, `:99`) | a call dropped after its adapter acted reopens the hold (`:903`) |
| `ConsensusTwoMinds.cfg` of `MCConsensus`, `Agreement` | governors commit to one proposal (`swarm-consensus/src/lib.rs:8`) | a precommit does not bind the next round's votes (`:1111`) |
| `ConsensusPayloads.cfg` of `MCConsensus`, `Agreement` | the same line | a faulty leader sends one id with two payloads; votes name the id, so both are committed (`:1035`, `:1123`) |
| `ConsensusFive.cfg` of `MCConsensus`, `RoundAgreement` | quorums intersect in an honest governor (`lib.rs:68`) | with five members and the recommended `f = 1`, three votes are too few (`:105`) |
| `GovernanceHealedLease.cfg` of `MCGovernance`, `LeaseAuthorityBounded` | a lease has a blast-radius cap (`docs/CONSENSUS.md:255`) | two requests previewed on one lease are routed after the partition healed, uncharged (`tom_agent.rs:814`) |
| `GovernanceFork.cfg` of `MCGovernance`, `ReceiptsChain` | a release sits in the same chain (`tom_agent.rs:935`) | `attest_release` is not saved; after a restart the chain forks (`:974`) |

Other differences and weak spots were met while modelling; the models follow the code in
all of them.

- *Governance and holds.* The repository's `formal/tla/PartitionContingency.tla` (line
  137) says that a healthy system holds no lease, while `observe_health` stages them
  exactly when healthy. `docs/CONSENSUS.md` says that a degraded swarm with quorum still
  allows an action (line 235), while `can_act_at` vetoes it, and that every partition-era
  attempt is persisted (line 236), while a failed save is only logged. A hold's decision is
  documented as set once, while a call slower than the stall limit writes over the sweep's
  record.
- *Consensus.* `exclude_sender` acts on the sender an envelope names. On a bad signature,
  and on a second envelope under the same key, which is not verified, an honest governor is
  excluded from the round over what someone else sent (the crate's tests show it for an
  outsider's proposal, `lib.rs:1636` and `:1700`); an envelope of an earlier decision that
  is delivered again does the same. `ExclusionsHaveCause` says that these are the only ways.
- *Containment.* One release can have two signed attestations on the chain, from the sweep
  and an operator or from before and after a crash. A daemon that dies between close and
  publish announces nothing; a store that cannot be read at publish announces a closed
  lease as open. Two leases on one host are independent, so releasing one undoes the
  other's effect. With no `lease_store_path` a restart forgets every open lease, and an
  adapter error that was ambiguous leaves a contained host without one. `EffectIsTracked`
  names these as its exceptions.
- *Alarm lane.* Parked records are served oldest first "so a record cannot be starved by a
  newer one that keeps failing" (`parked.rs:285`), one a tick and each again after its
  interval. A record that got no answer sits out the rest of the pass, and a pass in which
  enough others are refused and come due again has no end, so it can be starved.
  `ParkedServed` therefore assumes that a pass ends before another interval does; without
  that conjunct of `LiveSpec` it is refuted. The spool's byte count never falls, so the "bounded alarm
  backlog" (`receive.rs:96`) is a bound on the lane's whole history, after which every alarm
  is refused. A power cut between park and commit lets a number be used again, and the later
  record parked under it replaces the older entry. A terminal card of a hold that has no
  open card is entered as its open card, so a replay publishes a second one, against "ONE
  terminal card per hold" (`holds.rs:213`). A head that cannot be read ends the drainer at
  every start, where a parked one is set aside.
- *ACP harness.* The maintenance pass only runs when some arm of the loop's `select!`
  fires: with presence, typing and heartbeats off nothing wakes the loop for a batch behind a
  backoff (with `Timers = FALSE`, `EventsSettle` is refuted), against the comment at
  `lib.rs:2470`. A dispatch that finds no agent calls `mark_complete`, which takes an
  elapsed backoff for success and resets the retry count, so a batch that always fails need
  not be given up. The first message and the prompt of a turn each get the turn's full
  duration, so the in-flight backstop can pass under a live turn and a second turn starts
  on its channel (`Overruns`; `late` is what the properties except).

**Fairness.** `HeldActions`: the clock ticks, a dead daemon is restarted, and the sweep's
two passes run, since its task is a loop on an interval. Nothing is assumed of decide
calls: an adapter may hang for ever, and `DecidingEnds` holds all the same.
`Governance`: Tom registers and ticks, and the dispatcher goes on through its cycle,
since it is a loop on an interval that bounds each agent's tick by a time-out; a routed
request is assumed to return.
`Containment`: time passes, the sweep's task goes on through its pass, and for each lease
the sweep gets to it, its write succeeds in the end and, on a host that is not
`Unreachable`, so does its inverse, each strongly fair because it is retried every pass
and interrupted by crashes. Nothing is assumed of operators, nor of the unreachable host:
`LeasesEnd` says that it delays no other.
`AlarmDrainer`: the drainer, the interval and the restart go on. `LiveSpec` adds what no
code can provide: from some time on the relay answers, takes the `Willing` work, and a
pass ends before the next interval.
`AcpHarness`: the loop dispatches and wakes, backoffs and cooldowns pass, the reports of
tasks are taken in, and a turn, a respawn and a wake that are tried over and over succeed
in the end. `EventsSettle` is checked with `Timers`, whose ticks turn the loop.
`DispatchJournal` and `Consensus` assume none.

**Deadlock** is checked except in `Consensus`, where a decision ends, and in
`Containment`, `AlarmDrainer` and `AcpHarness`, where all the bounded work may be done.

## 5. What is proved

Each theorem holds for every value of the constants that satisfies the named
assumptions of the module. Each is a safety property or a refinement of one, derived from
the module's inductive invariant (`Consensus` and `AcpHarness` have two, the second on top
of the first), which TLC checked before it was proved. Every invariant and every action
property that a passing run checks is stated by a theorem.

**DispatchJournal** (`JournalInvariant`). `IInv` has four parts beside the types. `ProcessInv`: past
`try_lock` there is one process, and an append has one waiting call. `DirectoryInv`: what
the manifest covers is in the journal and synced, and each manifest a power cut could
bring back keeps the intents of those before it. `WriterInv`: the writer's memory is what
the manifest covers, unless it is poisoned. `SpendInv`: a permission that is spent, by an
effect or by a call that waits, is durable in journal and manifest. None implies
`AtMostOnce` without the others: the effect is safe because the intent is durable, that
it is found again depends on replay, and that nobody else writes depends on the lock.
From it follow `DispatchAtMostOnce`, `IntentIsDurable`, `PriorReservationIsProof`,
`CompletionsAreTruthful`, `RestReopens`, and the refinement `JournalImplementsOnce`,
whose mapping takes as consumed the intents of the manifest that a power cut would leave.
Assumptions: `MaxEntriesAssumption`, `NoneAssumption`.

**HeldActions** (`HeldInvariant`). `StoreInv` relates both copies of a record to what the
adapter did; `CallInv` says that a claimed hold carries its call's intent in the cache
and on disk, or the sweep's mark; `SpentInv` relates claims and journal. From it:
`ClaimsAreExclusive`, `ClaimsAreKept`, `ClaimsAreDurable`, `HeldAtMostOnce`,
`RunsAreRemembered`, `RecordsAreTruthful`, and the action property `TerminalHoldsStay`.
The exception that the two before the last make, a call dropped at its await, is real: see
`NoActionTaken` in section 4. `HeldUsesTheJournal` closes the gap between the two modules:
`decide_hold` is a behaviour of `OnceDispatch`, whose adapter acts only under an identity
spent for it and not used yet, which is what `JournalImplementsOnce` gives and no more.
Assumptions: `IdentityAssumption`, `TimesAssumption`, `CrashAssumption`,
`HeldNoneAssumption`.

**Consensus** (`ConsensusInvariant`). `Sound(n, s)`: a node stands by what it published,
has learned of honest peers only what they published, has seen only what was published or
forged, excludes an honest peer only over a forged envelope that came to it, and commits on
a quorum it can show. Its own word is kept apart from its ledgers (`emitted`), because a
governor may exclude itself, which empties its ledgers and not what it said. Every operation
of `ConsensusNode` preserves it, so every composition the driver makes does. From it:
`ExclusionsAreCaused`, `LedgersAgree`, and `RoundsAgree`: in a committee of at most 3f + 1
members with at most f faulty, two quorums share an honest governor (`QuorumsMeet`, from the
library's facts on cardinality), so one round commits one proposal id, and one payload if
its proposer is honest. `GovernorsDoNotEquivocate` says that nothing an honest governor
publishes conflicts, and the action property `WordsAreKept` that none of its operations goes
back a round, says another thing than it said or takes back a commit; it is proved operation
by operation and composed.
`FirstRoundInvariant` is the second invariant, of what a governor has *done* and not only
of what it must not do. For one still in round 0 that nothing but the honest ones' messages has reached: every
message it saw is in its ledgers, it has prevoted exactly what the leader proposed,
precommitted if and only if 2f + 1 prevotes agree, said each of these, and, if it leads,
not missed its commit. The last conjunct is false of the others, since a governor whose
precommits are complete before the proposal arrives does not try again, and that is why the
theorem names the leader. `FirstRoundCommits` then follows the proposal through the
committee: all record it, so all prevote it, so all precommit it, so the leader has
committed. Its hypotheses are the ones of `RoundZeroCommits`: an honest first leader, 2f + 1
honest members, nothing forged heard, everything published handled, nobody timed out.
`ForgedAssumption` says what signatures give: what anyone sends in an honest governor's name
does not verify, unless that governor signed it in another decision. Further: `CommitteeAssumption`,
`ValueAssumption`.

**Governance** (`GovernanceInvariant`). `Ledger`: an id finds its lease of the lowest
round, which remembers every live charge made under it, so what was charged fits the
cap; pruning drops only dead leases and staging adds later rounds. `Documents`: while
`saved`, document and memory agree, so a restart keeps all of it or sets `forgot`.
`Records`: attempts are numbered freshly and a reconciliation moves them to one report.
`Flow`: what the dispatcher is routing has passed the check for the state Tom sees. The
proof takes types and flow action by action, and the rest over five shapes of step that
the actions are first shown to have (`StepShapes`). From it: `LeasesKeepTheirRadius`,
`AttemptsAreKept`, `AttemptsAreReportedOnce`, `PartitionRouting`, `VetoesBind` and the
action property `PeersBind`. Assumptions: `RequestAssumption`, `LimitAssumption`,
`BoundAssumption`, `KindAssumption`, `NoneAssumption`.

**Containment** (`ReleaseInvariant`). `CallsAreSound` relates each release call to the
store and the host between its awaits: past the inverse, a receipt that says reversed is
true of a host nobody contains again under the same lease, and only a lease that was once
open is being closed. It is what the properties need because the read and the close are
steps apart and two callers may be at different ones. From it: `EffectsAreTracked`,
`LeasesCloseOnce`, `ReversalsAreTrue`, and `AnnouncementsAreTrue`, with `ClosedIsAnnounced`.
Assumptions: `RequestsAssumption`, `TargetAssumption`, `SweepAssumption`,
`TtlAssumption`, `DurableAssumption`, `CrashBound`, `LeaseNoneAssumption`.

**AlarmDrainer** (`LaneInvariant`). `SpoolIsSound`: a record in a segment has a number of
its own, above every number the cursor committed if it is not served, and recovery finds
it again from what a crash or a power cut leaves. `JobIsSound`, `PlanIsSound` and
`LedgerIsSound`: one record is in hand at a time, so the plan it was given stays true of
the files and of the relay until the job ends, and the ledger never runs ahead of the
relay. Hence the cursor passes exactly the record in hand. From it: `NoAlarmIsLost`,
`EntriesAreSingle`, `RefusalsPark`, `DoneIsOnTheRelay`, `PagesAreBacked` and the action
property `ClosedStaysClosed`. Assumptions: `AlarmsAssumption`, `SubjectAssumption`,
`KindAssumption`, `PromotionsApart`, `ForeignAssumption`, `BudgetAssumption`,
`CapacityAssumption`, `SegmentAssumption`, `FaultBound`, `AlarmNoneAssumption`.

**AcpHarness** (`PoolInvariant`). `PoolInv` relates the slots (idle, in a turn, being
respawned), the queue's in-flight marks and the withheld events to the turns that answer
for them. From it: `SlotsStayExclusive`, `ChannelsAreServed`, `WithheldComesBack` and
`SleepIsSafe`. Assumptions: `CapsAssumption`, `ModesAssumption`, `ThresholdAssumption`,
`SwitchesAssumption`, `EventsAssumption`, `NoChannelAssumption`.

**AcpHarness, the events** (`EventsInvariant`, in `AcpEventsProofs`, on top of `PoolInv`).
Each method of the queue is described once by what it takes in and lets out at one channel
(`Balanced`), and by no event being there twice (`Tidy`); that needs lemmas on the
sequences the queue is made of: `InOrder` lists a finite set once, `RemoveFirst` and
`Retain` drop what they say. A step of the loop then accounts for the events it moves
between the queue, a turn and the fates (`Accounts`, `Clean`). `EventsInv` adds to the
properties what they need of steers: an event is offered to one turn, once, and answered
once (`OfferedOnce`), and while its answer is out it is withheld, if held at all
(`Offered`); otherwise a late answer would put back an event that has been delivered. The
events of a turn and those merged into it are apart (`TurnsDivide`), or a batch that goes
back would double them. `Apart`, `Over` and these two hold until a turn outlives its
channel's deadline (`late`), the accounting always. From it: `TypesAreKept`,
`EventsAreAccountedFor` and `EventsAreHeldOnce`: an event is in one place, and once
delivered, given up or shed in none. Assumptions: those above.

**Only model-checked**: the liveness properties `DecidingEnds`, `HealingSettles`,
`LeasesEnd`, `LaneDrains`, `ParkedServed` and `EventsSettle`, because fairness and
`ENABLED` are beyond the prover, and every refuted property.

## 6. Limits

- Two thirds of the repository is the workspace, of which the harness alone is modelled;
  section 1 says why the rest is not. The detectors, parsers and user interfaces have no
  state whose interleavings a model would show.
- The hold store, the lease store and the policy's document survive the death of the
  process as written; a power cut between rename and disk is modelled for the journal and
  the alarm lane's segments and cursor only.
- Rounds of `Governance` use the solo transport, the only one in the tree; `Consensus`
  is not composed with it.
- `HeldActions` abstracts re-authorization to an outcome and `Governance` abstracts the
  hold to its decide call; `Containment` takes the journal's promise as given, a request
  that is dispatched once, and `AlarmDrainer` sees a hold as none, open or ended.
- The alarm lane's quarantine of a segment corrupted in the middle, the evidence spool
  and the telemetry slots are left out.
- The harness is modelled without sessions, context building, filters and shutdown.
- Clocks are monotone and configuration does not change across restarts.
- Events to the bridge and status reports are left out of all modules but `Containment`
  and `AlarmDrainer`.
