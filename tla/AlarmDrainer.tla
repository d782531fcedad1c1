---------------------------- MODULE AlarmDrainer ----------------------------
(***************************************************************************)
(* The alarm lane of the perch bridge (swarm-perch-bridge/src): the        *)
(* receive loop (receive.rs), the alarm spool and its cursor (spool/),     *)
(* the drainer and its dead-letter (alarm/), and the hold and promotion    *)
(* plans it publishes (holds.rs, channels.rs).                             *)
(*                                                                         *)
(* One record costs several frames, and everything that must survive is in *)
(* a file of its own: segments that are synced when they roll, the cursor, *)
(* the dead-letter and the routing ledger, each replaced by a rename.  No  *)
(* two of them change together, so a crash falls between any two.          *)
(*                                                                         *)
(* Abstractions.  An alarm is one event of the daemon; all alarm events    *)
(* have one issuer, so seq alone is the spool key.  A record counts one    *)
(* byte.  Of the times in the dead-letter only their order (`age`, 0 the   *)
(* newest) and whether the interval has passed (`due`) are kept: the clock *)
(* does not go back, and no two ticks read the same time.  The frames of   *)
(* one sequence are the members of `todo`, submitted in the order of Rank. *)
(* A failed append, roll or lane step ends the process or the drainer like *)
(* any other failed write.  At least one operator is configured.           *)
(* Quarantine of a segment corrupted in the middle is left out.  A rename  *)
(* is taken to be durable, although write_atomic does not sync the         *)
(* directory, and the header of a new segment to be whole.  A roll seals   *)
(* the segment and stores the cursor in one step: open scans the segments  *)
(* either way.                                                             *)
(***************************************************************************)
EXTENDS Naturals, FiniteSets

CONSTANTS
    MaxAlarms,       \* bound: events the daemon publishes, each once
    Work,            \* the holds and the case promotions
    Subject,         \* Subject[a]: the hold or case a is about
    Kind,            \* Kind[a]: what a says of it
    Hunt,            \* Hunt[w]: the investigation w belongs to
    Undeliverable,   \* holds the store no longer has
    Foreign,         \* alarms another build may be unable to read
    Willing,         \* work the relay takes in the end
    RefusalBudget,   \* HEAD_REFUSAL_BUDGET
    Capacity,        \* PARKED_CAPACITY
    SegmentRecords,  \* segment_bytes
    SpoolMax,        \* max_bytes
    MaxFaults,       \* bound: crashes, failed writes, relay resets
    MaxTroubled,     \* bound: events published in a run with a fault
    None

Alarm == 1..MaxAlarms
Kinds == {"created", "ended", "promoted"}
Hunts == {Hunt[w] : w \in Work}
Frames == {"channel", "members", "card", "notice", "alarm", "terminal"}
Job == [alarm : Alarm, from : {"head", "parked"}, todo : SUBSET Frames,
        at : {"publish", "park", "discharge"}]

ASSUME AlarmsAssumption == MaxAlarms \in Nat
ASSUME SubjectAssumption == Subject \in [Alarm -> Work]
ASSUME KindAssumption == Kind \in [Alarm -> Kinds]
\* A hold and a promotion are different work.
ASSUME PromotionsApart ==
    \A a, b \in Alarm :
        Subject[a] = Subject[b] => (Kind[a] = "promoted" <=> Kind[b] = "promoted")
ASSUME ForeignAssumption == Foreign \subseteq Alarm
ASSUME BudgetAssumption == RefusalBudget \in Nat \ {0}
ASSUME CapacityAssumption == Capacity \in Nat \ {0}
ASSUME SegmentAssumption == SegmentRecords \in Nat \ {0} /\ SpoolMax \in Nat
ASSUME FaultBound == MaxFaults \in Nat /\ MaxTroubled \in Nat
ASSUME AlarmNoneAssumption == None \notin Work /\ None \notin Job

VARIABLES
    faults,
    emitted,    \* alarms the daemon has published
    hold,       \* hold[w]: the hold store's record of w
    noticed,    \* the hold store: holds with a notice_event_id
    log,        \* alarms whose record is in a segment
    seq,        \* seq[a]: the number a was spooled under, 0 before
    synced,     \* records up to this seq survive a power cut
    cursor,     \* CURSOR.json in memory
    saved,      \* and on disk
    parked,     \* the dead-letter
    ledger,     \* the routing sidecar: ledger[w], accepted cards and alarm
    routed,     \* routed[h]: the work that minted the case id of hunt h
    created,    \* the routing sidecar: created_channels
    drainer,    \* the task: starting, up or ended
    foreign,    \* alarms the running build cannot read
    budget,     \* head_budget
    stalled,    \* seqs held out of this pass over the dead-letter
    job,        \* the record being drained
    channels,   \* the relay: case channels it has
    sent,       \* the relay: sent[w], the frames it ever took
    timeline,   \* the relay: the last card of each hold
    refusals,   \* refusals[a], counted up to RefusalBudget
    fate        \* fate[a]: how a left the lane

daemon == <<emitted, hold>>
spool == <<log, seq, synced, cursor, saved>>
routing == <<ledger, routed, created>>
task == <<drainer, foreign, budget, stalled>>
relay == <<channels, sent, timeline>>
vars == <<faults, daemon, noticed, spool, parked, routing, task, job, relay,
          refusals, fate>>

\* Fault: the page goes out ahead of the notice.
RankEager == [channel |-> 1, members |-> 2, card |-> 3, notice |-> 5, alarm |-> 4,
              terminal |-> 3]

Rank == [channel |-> 1, members |-> 2, card |-> 3, notice |-> 4, alarm |-> 5,
         terminal |-> 3]
Fates == {"none", "done", "replaced", "dropped", "torn"}

Init ==
    /\ faults = 0
    /\ emitted = {} /\ hold = [w \in Work |-> "none"] /\ noticed = {}
    /\ log = {} /\ seq = [a \in Alarm |-> 0] /\ synced = 0
    /\ cursor = [committed |-> 0, next |-> 1] /\ saved = cursor
    /\ parked = {}
    /\ ledger = [w \in Work |-> {}]
    /\ routed = [h \in Hunts |-> None] /\ created = {}
    /\ drainer = "starting" /\ foreign = {} /\ budget = [seq |-> 0, count |-> 0]
    /\ stalled = {} /\ job = None
    /\ channels = {} /\ sent = [w \in Work |-> {}]
    /\ timeline = [w \in Work |-> "none"]
    /\ refusals = [a \in Alarm |-> 0]
    /\ fate = [a \in Alarm |-> "none"]

-----------------------------------------------------------------------------
(* The daemon's events and the receive loop.                                *)

\* Bound: a fault comes, and events come after it, while few have been published.
FewEvents == Cardinality(emitted) <= MaxTroubled

\* The hold route and the hold sweep: a hold is announced when it is created and again
\* for as long as it carries no notice, and as ended when it has ended: by the sweep that
\* fails a stalled decision, and once more when that decision is completed late.
Announces(a) ==
    LET w == Subject[a] IN
    CASE Kind[a] = "created" -> hold[w] = "none" \/ (hold[w] = "open" /\ w \notin noticed)
      [] Kind[a] = "ended" -> hold[w] = "ended"
      [] OTHER -> TRUE

Emit(a) ==
    /\ a \notin emitted
    /\ \A b \in Alarm : b < a /\ Subject[b] = Subject[a] /\ Kind[b] = Kind[a] => b \in emitted
    /\ Announces(a)
    /\ faults > 0 => Cardinality(emitted) < MaxTroubled
    /\ emitted' = emitted \cup {a}
    /\ hold' = IF Kind[a] = "created" THEN [hold EXCEPT ![Subject[a]] = "open"] ELSE hold

HoldEnds(w) ==
    /\ hold[w] = "open"
    /\ hold' = [hold EXCEPT ![w] = "ended"]
    /\ UNCHANGED <<faults, emitted, noticed, spool, parked, routing, task, job,
                   relay, refusals, fate>>

SpoolFull == Cardinality(log) >= SpoolMax

\* Page cache only; a full segment is synced and the cursor stored.
Append(a) ==
    LET rolls == Cardinality(log \cup {a}) % SegmentRecords = 0 IN
    /\ Emit(a)
    /\ ~SpoolFull
    /\ seq' = [seq EXCEPT ![a] = cursor.next]
    /\ log' = log \cup {a}
    /\ cursor' = [cursor EXCEPT !.next = @ + 1]
    /\ synced' = IF rolls THEN seq'[a] ELSE synced
    /\ saved' = IF rolls THEN cursor' ELSE saved
    /\ UNCHANGED <<faults, noticed, parked, routing, task, job, relay, refusals, fate>>

\* At its budget the spool refuses; the record is counted.  Committed records count
\* towards the budget for good: segments are only deleted from the evidence spool.
Refuse(a) ==
    /\ Emit(a)
    /\ SpoolFull
    /\ UNCHANGED <<faults, noticed, spool, parked, routing, task, job, relay,
                   refusals, fate>>

\* The broadcast overran the receive loop.
Lag(a) ==
    /\ Emit(a)
    /\ faults < MaxFaults /\ FewEvents /\ faults' = faults + 1
    /\ UNCHANGED <<noticed, spool, parked, routing, task, job, relay, refusals, fate>>

-----------------------------------------------------------------------------
(* Plans, re-derived from durable state on every attempt.                   *)

\* The relay may have lost the channel since; the ledger says what it once took.
Provision(w) ==
    IF Hunt[w] \notin created THEN {"channel", "members"} ELSE {}

\* Fault: the page is planned with the notice, not from its own ledger entry.
PlanOpenByNotice(w) ==
    Provision(w)
        \cup (IF w \in noticed THEN {} ELSE {"members", "notice", "alarm"})
        \cup ({"card"} \ ledger[w])

PlanOpen(w) ==
    Provision(w)
        \cup (IF w \in noticed THEN {} ELSE {"members", "notice"})
        \cup ({"card", "alarm"} \ ledger[w])

\* Fault: a created event shows the hold as open whatever has become of it.
PlanReopens(a) ==
    LET w == Subject[a] IN
    CASE Kind[a] = "promoted" ->
            IF routed[Hunt[w]] \in {None, w} THEN Provision(w) ELSE {}
      [] Kind[a] = "created" -> PlanOpen(w) \cup {"card"}
      [] Kind[a] = "ended" ->
            IF routed[Hunt[w]] = None \/ "terminal" \in ledger[w] THEN {} ELSE {"terminal"}

Plan(a) ==
    LET w == Subject[a]
        settled == w \in Undeliverable \/ "terminal" \in ledger[w] IN
    CASE Kind[a] = "promoted" ->
            IF routed[Hunt[w]] \in {None, w} THEN Provision(w) ELSE {}
      [] Kind[a] = "created" ->
            IF settled \/ hold[w] = "ended" THEN {} ELSE PlanOpen(w)
      [] Kind[a] = "ended" ->
            IF settled \/ routed[Hunt[w]] = None THEN {} ELSE {"terminal"}

\* ensure_case_channel writes the route before anything is published.
Routes(a) ==
    LET h == Hunt[Subject[a]] IN
    IF routed[h] = None /\ Kind[a] # "ended" /\ Plan(a) # {}
    THEN [routed EXCEPT ![h] = Subject[a]] ELSE routed

-----------------------------------------------------------------------------
(* The drainer's tick.                                                      *)

Uncommitted == {a \in log : seq[a] > cursor.committed}
IsHead(a) == a \in Uncommitted /\ \A b \in Uncommitted : seq[a] <= seq[b]

Ready == drainer = "up" /\ job = None

\* Discharged with nothing to publish, or on its way.
Begin(a, from) ==
    /\ job' = [alarm |-> a, from |-> from, todo |-> Plan(a),
               at |-> IF Plan(a) = {} THEN "discharge" ELSE "publish"]
    /\ routed' = Routes(a)
    /\ fate' = IF Plan(a) = {} THEN [fate EXCEPT ![a] = "done"] ELSE fate

TakeHead(a) ==
    /\ Ready /\ IsHead(a) /\ a \notin foreign
    /\ Begin(a, "head")
    /\ UNCHANGED <<faults, daemon, noticed, spool, parked, ledger, created, task,
                   relay, refusals>>

\* A head this build cannot read ends the task, on this start and on every later one.
HeadUnreadable(a) ==
    /\ Ready /\ IsHead(a) /\ a \in foreign
    /\ drainer' = "ended"
    /\ UNCHANGED <<faults, daemon, noticed, spool, parked, routing, foreign,
                   budget, stalled, job, relay, refusals, fate>>

Due == {x \in parked : x.due /\ ~x.unreadable /\ seq[x.alarm] \notin stalled}
IsNextDue(x) == x \in Due /\ \A y \in Due : y.age <= x.age

Idle == Ready /\ Uncommitted = {}
NoBudget == [seq |-> 0, count |-> 0]

TakeParked(x) ==
    /\ Idle /\ IsNextDue(x) /\ x.alarm \notin foreign
    /\ budget' = NoBudget
    /\ Begin(x.alarm, "parked")
    /\ UNCHANGED <<faults, daemon, noticed, spool, parked, ledger, created,
                   drainer, foreign, stalled, relay, refusals>>

MarkUnreadable(x) ==
    /\ Idle /\ IsNextDue(x) /\ x.alarm \in foreign
    /\ budget' = NoBudget
    /\ parked' = (parked \ {x}) \cup {[x EXCEPT !.unreadable = TRUE]}
    /\ UNCHANGED <<faults, daemon, noticed, spool, routing, drainer, foreign,
                   stalled, job, relay, refusals, fate>>

\* Nothing is due that has not stalled already: the pass is over.
PassEnds ==
    /\ Idle /\ Due = {} /\ stalled # {}
    /\ budget' = NoBudget
    /\ stalled' = {}
    /\ UNCHANGED <<faults, daemon, noticed, spool, parked, routing, drainer,
                   foreign, job, relay, refusals, fate>>

-----------------------------------------------------------------------------
(* Publishing, one frame at a time.                                         *)

Publishing(s) ==
    /\ drainer = "up" /\ job # None
    /\ job.at = "publish" /\ s \in job.todo
    /\ \A t \in job.todo : Rank[s] <= Rank[t]

\* A write into a channel the relay does not have is refused.
Acceptable(s) == s \in {"channel", "alarm"} \/ Hunt[Subject[job.alarm]] \in channels

Takes(s) ==
    LET w == Subject[job.alarm] IN
    /\ channels' = IF s = "channel" THEN channels \cup {Hunt[w]} ELSE channels
    /\ sent' = [sent EXCEPT ![w] = @ \cup {s}]
    /\ timeline' = IF s \in {"card", "terminal"} THEN [timeline EXCEPT ![w] = s]
                   ELSE timeline

\* on_ok.  A promotion is recorded once, after its last step.  A terminal card that
\* replies to no open card is recorded as one; a failed mark_notified is only logged.
Records(s) ==
    LET w == Subject[job.alarm]
        last == job.todo = {s}
        as == IF s = "terminal" /\ "card" \notin ledger[w] THEN "card" ELSE s IN
    /\ created' = IF (s = "channel" /\ Kind[job.alarm] # "promoted")
                       \/ (last /\ Kind[job.alarm] = "promoted")
                  THEN created \cup {Hunt[w]} ELSE created
    /\ ledger' = IF s \in {"card", "alarm", "terminal"}
                 THEN [ledger EXCEPT ![w] = @ \cup {as}] ELSE ledger
    /\ noticed' \in IF s = "notice" THEN {noticed, noticed \cup {w}} ELSE {noticed}

\* The last frame taken discharges the record.
Advance(s) ==
    LET last == job.todo = {s} IN
    /\ job' = [job EXCEPT !.todo = @ \ {s}, !.at = IF last THEN "discharge" ELSE @]
    /\ fate' = IF last THEN [fate EXCEPT ![job.alarm] = "done"] ELSE fate

StepAccepted(s) ==
    /\ Publishing(s) /\ Acceptable(s)
    /\ Takes(s) /\ Records(s) /\ Advance(s)
    /\ UNCHANGED <<faults, daemon, spool, parked, routed, task, refusals>>

\* The relay took the frame and the ledger could not be written.
StepUnrecorded(s) ==
    /\ Publishing(s) /\ Acceptable(s) /\ faults < MaxFaults /\ FewEvents
    /\ faults' = faults + 1
    /\ Takes(s)
    /\ drainer' = "ended" /\ job' = None
    /\ UNCHANGED <<daemon, noticed, spool, parked, routing, foreign, budget,
                   stalled, refusals, fate>>

\* Fault: a parked record that stalls keeps its turn.
StallInPlace ==
    /\ job' = None
    /\ UNCHANGED <<stalled, budget, refusals>>

\* The socket failed or the burst window is full: nothing is learned.  A head record
\* keeps its place and its budget, a parked one sits out the rest of the pass.
Stall ==
    /\ job' = None
    /\ stalled' = IF job.from = "parked" THEN stalled \cup {seq[job.alarm]} ELSE stalled
    /\ UNCHANGED <<budget, refusals>>

\* The relay may have taken the frame all the same.
StepStalled(s) ==
    /\ Publishing(s)
    /\ (Acceptable(s) /\ Takes(s)) \/ UNCHANGED relay
    /\ Stall
    /\ UNCHANGED <<faults, daemon, noticed, spool, parked, routing, drainer,
                   foreign, fate>>

Counted ==
    [seq |-> seq[job.alarm],
     count |-> IF budget.seq = seq[job.alarm] THEN budget.count + 1 ELSE 1]

Ages(P) ==
    {[x EXCEPT !.age = Cardinality({y \in P : y.age < x.age}) + 1] : x \in P}
Entry(a) == [alarm |-> a, age |-> 0, due |-> FALSE, unreadable |-> FALSE]

\* touch: the interval starts again.
Touched(a) ==
    LET x == CHOOSE y \in parked : y.alarm = a IN
    Ages(parked \ {x}) \cup {[x EXCEPT !.age = 0, !.due = FALSE]}

\* Fault: a spent budget moves the cursor on, with nothing parked.
RefusedDrops ==
    LET head == job.from = "head"
        spent == Counted.count >= RefusalBudget IN
    /\ budget' = IF head THEN Counted ELSE budget
    /\ job' = IF head /\ spent THEN [job EXCEPT !.at = "discharge"] ELSE None
    /\ parked' = IF head THEN parked ELSE Touched(job.alarm)
    /\ refusals' = [refusals EXCEPT ![job.alarm] =
                        IF @ < RefusalBudget THEN @ + 1 ELSE @]
    /\ UNCHANGED stalled

\* A refused head is asked for again until its budget is spent; a parked record
\* waits for another interval.
Refused ==
    LET head == job.from = "head"
        spent == Counted.count >= RefusalBudget IN
    /\ budget' = IF head THEN Counted ELSE budget
    /\ job' = IF head /\ spent THEN [job EXCEPT !.at = "park"] ELSE None
    /\ parked' = IF head THEN parked ELSE Touched(job.alarm)
    /\ refusals' = [refusals EXCEPT ![job.alarm] =
                        IF @ < RefusalBudget THEN @ + 1 ELSE @]
    /\ UNCHANGED stalled

\* The relay does not know the channel: its create is planned again.
StepForgotten(s) ==
    /\ Publishing(s) /\ ~Acceptable(s)
    /\ created' = created \ {Hunt[Subject[job.alarm]]}
    /\ Refused
    /\ UNCHANGED <<faults, daemon, noticed, spool, ledger, routed, drainer,
                   foreign, relay, fate>>

StepRefused(s) ==
    /\ Publishing(s) /\ Acceptable(s)
    /\ Refused
    /\ UNCHANGED <<faults, daemon, noticed, spool, routing, drainer, foreign,
                   relay, fate>>

-----------------------------------------------------------------------------
(* What an outcome does to the files.                                       *)

SameWork(x, a) == seq[x.alarm] = seq[a] \/ Subject[x.alarm] = Subject[a]

Kept(a) == {x \in parked : ~SameWork(x, a)}

Oldest(P) == {x \in P : \A y \in P : y.age <= x.age}

\* One entry for one piece of work; past the capacity the oldest goes, and is counted.
Park ==
    LET a == job.alarm
        with == Ages(Kept(a)) \cup {Entry(a)}
        evicted == IF Cardinality(with) > Capacity THEN Oldest(with) ELSE {} IN
    /\ drainer = "up" /\ job # None /\ job.at = "park"
    /\ parked' = with \ evicted
    /\ fate' = [b \in Alarm |->
                    IF fate[b] # "none" THEN fate[b]
                    ELSE IF \E x \in evicted : x.alarm = b THEN "dropped"
                    ELSE IF b # a /\ \E x \in parked : x.alarm = b /\ SameWork(x, a)
                    THEN "replaced" ELSE "none"]
    /\ job' = [job EXCEPT !.at = "discharge"]
    /\ UNCHANGED <<faults, daemon, noticed, spool, routing, task, relay, refusals>>

\* Fault: the cursor keeps the smaller of the two numbers.
CommittedBackwards ==
    [cursor EXCEPT !.committed = IF seq[job.alarm] < @ THEN seq[job.alarm] ELSE @]

Committed ==
    [cursor EXCEPT !.committed = IF seq[job.alarm] > @ THEN seq[job.alarm] ELSE @]

Discharging(from) ==
    drainer = "up" /\ job # None /\ job.at = "discharge" /\ job.from = from

Commit ==
    /\ Discharging("head")
    /\ cursor' = Committed /\ saved' = cursor'
    /\ job' = None /\ budget' = NoBudget
    /\ UNCHANGED <<faults, daemon, noticed, log, seq, synced, parked, routing,
                   drainer, foreign, stalled, relay, refusals, fate>>

\* The cursor moved in memory only.
CommitFails ==
    /\ Discharging("head") /\ faults < MaxFaults /\ FewEvents
    /\ faults' = faults + 1
    /\ cursor' = Committed
    /\ drainer' = "ended" /\ job' = None
    /\ UNCHANGED <<daemon, noticed, log, seq, synced, saved, parked, routing,
                   foreign, budget, stalled, relay, refusals, fate>>

Leave ==
    /\ Discharging("parked")
    /\ parked' = Ages({x \in parked : seq[x.alarm] # seq[job.alarm]})
    /\ job' = None
    /\ UNCHANGED <<faults, daemon, noticed, spool, routing, task, relay, refusals, fate>>

\* Any other write fails, or the task cannot go on: it ends with nothing written.
TaskEnds ==
    /\ drainer \in {"starting", "up"} /\ faults < MaxFaults /\ FewEvents
    /\ faults' = faults + 1
    /\ drainer' = "ended" /\ job' = None
    /\ UNCHANGED <<daemon, noticed, spool, parked, routing, foreign, budget,
                   stalled, relay, refusals, fate>>

IntervalPasses ==
    \E x \in parked :
        /\ ~x.due /\ \A y \in parked : ~y.due => y.age <= x.age
        /\ parked' = (parked \ {x}) \cup {[x EXCEPT !.due = TRUE]}
        /\ UNCHANGED <<faults, daemon, noticed, spool, routing, task, job, relay,
                       refusals, fate>>

-----------------------------------------------------------------------------
(* Restarts.                                                                *)

\* The lanes are ensured before the first tick.
Start ==
    /\ drainer = "starting"
    /\ drainer' = "up"
    /\ UNCHANGED <<faults, daemon, noticed, spool, parked, routing, foreign,
                   budget, stalled, job, relay, refusals, fate>>

IsLast(n, L) == n \in {0} \cup {seq[a] : a \in L} /\ \A a \in L : seq[a] <= n

\* Fault: the numbers are recovered from the segments alone.
NextSeqScanned(last, stored, torn) == (IF torn > last THEN torn ELSE last) + 1

\* The scan finds the records that are left, or the seq of a torn one; a cursor that
\* claims more is honoured.
NextSeq(last, stored, torn) ==
    LET scanned == IF torn > last THEN torn ELSE last IN
    IF stored.next > scanned THEN stored.next ELSE scanned + 1

\* DiskSpool::open and ParkedLedger::open in a new process, perhaps of another build.
Open(left, stored, torn) ==
    /\ log' = left
    /\ \E last \in 0..cursor.next :
           /\ IsLast(last, left)
           /\ cursor' = [stored EXCEPT !.next = NextSeq(last, stored, torn)]
    /\ saved' = cursor'
    /\ drainer' = "starting" /\ foreign' \in {foreign, Foreign}
    /\ budget' = NoBudget /\ stalled' = {} /\ job' = None
    /\ UNCHANGED <<daemon, noticed, seq, parked, routing, relay, refusals>>

\* A shutdown seals the segment and stores the cursor.
Restart ==
    /\ drainer = "ended"
    /\ synced' \in {n \in 0..cursor.next : IsLast(n, log)}
    /\ Open(log, cursor, 0)
    /\ UNCHANGED <<faults, fate>>

Crash ==
    /\ faults < MaxFaults /\ FewEvents
    /\ faults' = faults + 1
    /\ Open(log, saved, 0)
    /\ UNCHANGED <<synced, fate>>

\* Unsynced records are lost from some point on; the first of them may be found torn.
PowerCut ==
    \E end \in {synced} \cup {seq[a] : a \in log} :
        LET left == {a \in log : seq[a] <= end} IN
        /\ faults < MaxFaults /\ FewEvents
        /\ end >= synced /\ left # log
        /\ faults' = faults + 1
        /\ \E torn \in {0} \cup {seq[a] : a \in log \ left} :
               /\ \A b \in log \ left : torn <= seq[b]
               /\ Open(left, saved, torn)
        /\ fate' = [a \in Alarm |->
                        IF a \in log \ left /\ fate[a] = "none" THEN "torn" ELSE fate[a]]
        /\ UNCHANGED synced

\* The relay is restored from a backup, migrated or wiped.
RelayForgets(h) ==
    /\ faults < MaxFaults /\ FewEvents /\ h \in channels
    /\ faults' = faults + 1
    /\ channels' = channels \ {h}
    /\ UNCHANGED <<daemon, noticed, spool, parked, routing, task, job, sent,
                   timeline, refusals, fate>>

-----------------------------------------------------------------------------
Receive == \E a \in Alarm : Append(a) \/ Refuse(a) \/ Lag(a)
Tick ==
    \/ \E a \in Alarm : TakeHead(a) \/ HeadUnreadable(a)
    \/ \E x \in parked : TakeParked(x) \/ MarkUnreadable(x)
    \/ PassEnds
Answer ==
    \E s \in Frames :
        \/ StepAccepted(s) \/ StepUnrecorded(s) \/ StepStalled(s)
        \/ StepForgotten(s) \/ StepRefused(s)
Discharge == Park \/ Commit \/ CommitFails \/ Leave

Next ==
    \/ Receive \/ Tick \/ Answer \/ Discharge
    \/ \E w \in Work : HoldEnds(w)
    \/ TaskEnds \/ IntervalPasses
    \/ Start \/ Restart \/ Crash \/ PowerCut
    \/ \E h \in Hunts : RelayForgets(h)

Spec == Init /\ [][Next]_vars

\* The drainer and the clock go on, and an ended task is brought back by a restart of the
\* daemon.  From some time on the relay answers every frame of a head record, and takes the
\* frames of parked work that is willing; of other parked work it may refuse or lose every
\* frame for ever.  And a pass over the dead-letter is over before another interval is,
\* which takes fewer due records than there are ticks in PARKED_RETRY_INTERVAL_MS.
DrainerStep == Start \/ Tick \/ Answer \/ Discharge
Publishes(from) == job # None /\ job.at = "publish" /\ job.from = from
HeadUnanswered == Publishes("head") /\ Stall
Unwelcome ==
    Publishes("parked") /\ Subject[job.alarm] \in Willing /\ (Stall \/ Refused)

LiveSpec ==
    /\ Spec
    /\ WF_vars(DrainerStep) /\ WF_vars(IntervalPasses) /\ WF_vars(Restart)
    /\ <>[][~HeadUnanswered /\ ~Unwelcome /\ (IntervalPasses => stalled = {})]_vars

-----------------------------------------------------------------------------
(* Properties.                                                              *)

ParkedRecord ==
    [alarm : Alarm, age : Nat, due : BOOLEAN, unreadable : BOOLEAN]
CursorType == [committed : Nat, next : Nat]

AlarmType ==
    /\ faults \in 0..MaxFaults
    /\ emitted \subseteq Alarm /\ hold \in [Work -> {"none", "open", "ended"}]
    /\ noticed \subseteq Work
    /\ log \subseteq Alarm /\ seq \in [Alarm -> Nat] /\ synced \in Nat
    /\ cursor \in CursorType /\ saved \in CursorType
    /\ parked \subseteq ParkedRecord /\ IsFiniteSet(parked)
    /\ ledger \in [Work -> SUBSET Frames]
    /\ routed \in [Hunts -> Work \cup {None}] /\ created \subseteq Hunts
    /\ drainer \in {"starting", "up", "ended"} /\ foreign \subseteq Alarm
    /\ budget \in [seq : Nat, count : Nat] /\ stalled \subseteq Nat
    /\ job \in Job \cup {None}
    /\ channels \subseteq Hunts /\ sent \in [Work -> SUBSET Frames]
    /\ timeline \in [Work -> {"none", "card", "terminal"}]
    /\ refusals \in [Alarm -> 0..RefusalBudget]
    /\ fate \in [Alarm -> Fates]

\* The numbers of the spool: a record still in the file has one of its own, below the next
\* to be assigned, and neither cursor has passed what it has not assigned.  While the task
\* lives the stored cursor stands where the one in memory does, and nothing that waits in
\* the file is older than what was parked from it.
SpoolIsSound ==
    /\ saved.committed <= cursor.committed /\ saved.next <= cursor.next
    /\ cursor.committed < cursor.next /\ saved.committed < saved.next
    /\ \A a \in log : seq[a] \in 1..(cursor.next - 1)
    /\ \A a, b \in log : seq[a] = seq[b] => a = b
    /\ \A a \in Alarm : seq[a] # 0 => a \in emitted
    /\ \A x \in parked : seq[x.alarm] # 0
    /\ synced < saved.next
    /\ \A a \in Alarm : fate[a] = "none" /\ seq[a] # 0 => a \in log
    /\ \A a \in Alarm : fate[a] # "none" => seq[a] # 0
    /\ drainer # "ended" => saved.committed = cursor.committed
    /\ \A x \in parked, a \in log :
           x.alarm \in log /\ seq[a] > saved.committed => seq[x.alarm] <= seq[a]

\* A hold that has not ended has not been announced as ended, and what the drainer does for
\* it was planned before that announcement had any effect.
EndIsNews(w) ==
    \A b \in Alarm : Kind[b] = "ended" /\ Subject[b] = w =>
        /\ fate[b] \notin {"done", "replaced"}
        /\ \A x \in parked : x.alarm # b

\* The record being drained is still the head of the spool or in the dead-letter, and when
\* it is discharged it has been served or parked.
JobIsSound ==
    job # None =>
        LET a == job.alarm IN
        /\ drainer = "up" /\ seq[a] # 0
        /\ job.from = "head" => IsHead(a)
        /\ job.from = "parked" => job.at # "park" /\ \E x \in parked : x.alarm = a
        /\ job.at = "park" => refusals[a] = RefusalBudget
        /\ job.at = "discharge" =>
               fate[a] = "done" \/ (job.from = "head" /\ \E x \in parked : x.alarm = a)
        /\ job.at # "discharge" /\ Kind[a] = "created" => EndIsNews(Subject[a])

\* The budget counts refusals of the head, and is not yet spent when the relay is asked.
BudgetIsSound ==
    /\ budget.seq < cursor.next
    /\ \A a \in log : seq[a] = budget.seq => budget.count <= refusals[a]
    /\ drainer = "up" /\ (job # None => job.at = "publish") => budget.count < RefusalBudget
    /\ drainer = "starting" \/ (job # None /\ job.from = "parked") => budget = NoBudget

\* What the store, the sidecar and the plan in hand say of the relay is true of it.
LedgerIsSound ==
    \A w \in Work :
        /\ "alarm" \in ledger[w] => "alarm" \in sent[w]
        /\ "terminal" \in ledger[w] => "terminal" \in sent[w]
        /\ "card" \in ledger[w] => "card" \in sent[w] \/ hold[w] = "ended"
        /\ w \in noticed => {"notice", "members"} \subseteq sent[w]
        /\ "terminal" \in sent[w] => hold[w] = "ended"
        /\ timeline[w] = "terminal" => "terminal" \in sent[w]
        /\ Hunt[w] \in created => \E v \in Work : Hunt[v] = Hunt[w] /\ "channel" \in sent[v]
        /\ sent[w] # {} => routed[Hunt[w]] # None

PlanIsSound ==
    job # None /\ job.at # "discharge" =>
        LET w == Subject[job.alarm] IN
        /\ job.at = "publish" => job.todo # {}
        /\ routed[Hunt[w]] # None
        /\ Kind[job.alarm] = "created" =>
               /\ job.todo \subseteq Frames \ {"terminal"}
               /\ {"members", "card", "notice", "alarm"} \subseteq job.todo \cup sent[w]
               /\ "terminal" \notin sent[w] /\ w \notin Undeliverable
        /\ Kind[job.alarm] = "ended" => job.todo = {"terminal"} /\ hold[w] = "ended"
        /\ Kind[job.alarm] = "promoted" =>
               job.todo \subseteq {"channel", "members"} /\ "channel" \in job.todo \cup sent[w]

\* Holds and their events.
HoldsAreSound ==
    \A a \in emitted :
        /\ Kind[a] = "ended" => hold[Subject[a]] = "ended"
        /\ Kind[a] = "created" => hold[Subject[a]] # "none"

\* What the actions rely on from one write to the next.
AlarmInv ==
    /\ AlarmType /\ SpoolIsSound /\ JobIsSound /\ BudgetIsSound /\ LedgerIsSound
    /\ PlanIsSound /\ HoldsAreSound

\* The cursor is only ever moved past a record that was published, discarded with a
\* reason, or written to the dead-letter, and nothing leaves the dead-letter but by being
\* served, by the counted eviction, or for newer word of the same work: that a hold has
\* ended yields only to a later event that says so too.  It holds over a crash between any
\* two of the writes, and over a power cut for every record the cut did not take from the
\* segment: a new record is never given a number the cursor has already passed.
NothingLost ==
    \A a \in Alarm :
        /\ seq[a] # 0 /\ fate[a] = "none" =>
               a \in Uncommitted \/ \E x \in parked : x.alarm = a
        /\ fate[a] = "replaced" =>
               \E b \in Alarm :
                   /\ Subject[b] = Subject[a] /\ seq[b] > seq[a]
                   /\ Kind[a] = "ended" => Kind[b] = "ended"

\* One piece of work has one entry in the dead-letter, however often it was re-filed or
\* parked again after a crash: no twin can hold the rotation, and no hold crowds out others.
OneEntryEach == \A x, y \in parked : SameWork(x, y.alarm) => x = y

\* Only answers park a record: it was refused as often as the budget says.  A relay that is
\* down, a full burst window and a restart never count.
ParkedWasRefused == \A x \in parked : refusals[x.alarm] = RefusalBudget

\* The lane's state as a whole, which all its other properties rest on.
LaneInv == AlarmInv /\ OneEntryEach /\ ParkedWasRefused

\* What leaves the lane as done is on the relay, whichever attempts, of whichever process,
\* published its frames: the open sequence whole unless the hold ended first, the terminal
\* card unless the hold never showed, the case channel unless the hunt has another case.
DoneIsPublished ==
    \A a \in Alarm : fate[a] = "done" =>
        LET w == Subject[a]
            open == {"card", "notice", "alarm"} IN
        \/ w \in Undeliverable /\ Kind[a] # "promoted"
        \/ Kind[a] = "created" /\ (open \subseteq sent[w] \/ hold[w] = "ended")
        \/ Kind[a] = "ended" /\ ("terminal" \in sent[w] \/ sent[w] \cap open = {})
        \/ Kind[a] = "promoted" /\
              \/ routed[Hunt[w]] \notin {w, None}
              \/ \E v \in Work : Hunt[v] = Hunt[w] /\ "channel" \in sent[v]

\* No operator is paged about a hold whose card and notice the relay has not had, or
\* notified in a channel nobody was let into: the order survives every resumption.
AlarmIsBacked ==
    \A w \in Work :
        /\ "alarm" \in sent[w] => {"card", "notice"} \subseteq sent[w]
        /\ "notice" \in sent[w] => "members" \in sent[w]

\* A hold the case timeline has closed is not opened again, by a replay, a re-filed event or
\* a parked one served late.
StaysClosed ==
    [][\A w \in Work : timeline[w] = "terminal" => timeline'[w] = "terminal"]_vars

HeadForeign == \E a \in foreign : IsHead(a)

\* No record holds the head for ever: it lands, is discarded, or is parked once the relay
\* has refused it often enough, and the records behind it get their turn until the spool is
\* drained, unless the head is one this build cannot read.
LaneDrains == Uncommitted # {} ~> Uncommitted = {} \/ HeadForeign

IsParked(w) == \E x \in parked : Subject[x.alarm] = w /\ ~x.unreadable

\* Parked work the relay would take again leaves the dead-letter: neither a record that is
\* refused again and again, nor one that always stalls, nor one that cannot be read, keeps
\* the others from being retried.
ParkedServed == \A w \in Willing : IsParked(w) ~> ~IsParked(w) \/ HeadForeign

=============================================================================
