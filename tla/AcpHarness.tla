------------------------------ MODULE AcpHarness ------------------------------
(***************************************************************************)
(* The ACP harness: the main loop that takes a relay's events to a pool of *)
(* agent subprocesses (workspace/crates/ambush-acp/src: lib.rs, pool.rs,   *)
(* pool_lifecycle.rs, the read loop of acp.rs) over the event queue        *)
(* (queue.rs, module EventQueue).                                          *)
(*                                                                         *)
(* One loop owns the queue and the pool.  Prompt tasks, steer watchers,    *)
(* respawn tasks and the wake task run beside it and report through        *)
(* channels: a task that ended, an answered steer, a replacement agent.    *)
(* While a turn runs, a new event of its channel waits, is offered to the  *)
(* running turn, or cancels the turn and is merged with its batch.         *)
(*                                                                         *)
(* Abstractions.  dispatch_pending is one step per batch, with `loop` at   *)
(* "dispatch"; every other handler is one step.  Which outcome a turn has, *)
(* which answer a steer gets and whether an agent starts are free.         *)
(* Outcomes are told apart by what the loop does with the batch and the    *)
(* agent: "exited" is an exit, an idle timeout, a hard timeout of an       *)
(* active agent or a transport error, "failed" an application error,       *)
(* "drained" a cancel that did not drain in time, "hardcap" a hard timeout *)
(* of a silent agent, "auth" an authentication failure.  The crash window  *)
(* and the breaker's cooldown pass at any time.  Sessions and affinity,    *)
(* typing, reactions, presence, metrics and the author and rule gates in   *)
(* front of push are left out, and so is shutdown.                         *)
(***************************************************************************)
EXTENDS EventQueue

CONSTANTS
    Agents,          \* the slots of the pool
    CrashThreshold,  \* CIRCUIT_BREAKER_THRESHOLD
    Modes,           \* configurations: [dedup, handling, lazy]
    Timers,          \* presence or typing is on: their timers turn the loop
    Heartbeats,      \* config.heartbeat: agents are prompted when idle
    Overruns,        \* a turn may outlive its channel's in-flight deadline
    MaxEvents,       \* bound: how many events arrive
    NoChannel        \* the channel of a heartbeat

Mode == [dedup : {"queue", "drop"}, handling : {"queue", "steer", "interrupt", "owner"},
         lazy : BOOLEAN]

\* validate_multiple_event_handling: a turn is cancelled only if its batch is kept.
ASSUME ModesAssumption ==
    Modes \subseteq {m \in Mode : m.handling # "queue" => m.dedup = "queue"}
ASSUME ThresholdAssumption == CrashThreshold \in Nat \ {0}
ASSUME SwitchesAssumption == {Timers, Heartbeats, Overruns} \subseteq BOOLEAN
ASSUME EventsAssumption == MaxEvents \in Nat
ASSUME NoChannelAssumption == NoChannel \notin Channels

VARIABLES
    mode,        \* the configuration of this process
    born,        \* how many events have arrived
    queue,       \* the EventQueue
    removed,     \* removed_channels
    loop,        \* the main loop: turning, waiting, joining, dispatch, exited
    pool,        \* pool_ready and PoolLifecycle
    idle,        \* slots that hold an agent
    turn,        \* turn[a]: the task_map entry and prompt task of agent a
    circuit,     \* circuit[a]: the breaker of slot a: closed, open, cooled
    crashes,     \* crashes[a]: the crashes of slot a in the window
    respawning,  \* slots with respawn_in_flight
    mail,        \* respawn results not yet collected
    acks,        \* steer answers not yet handled
    past,        \* past[f]: the events that met fate f
    late         \* channels whose in-flight deadline passed during a turn

poolVars == <<pool, idle, turn, circuit, crashes, respawning, mail>>
vars == <<mode, born, queue, removed, loop, pool, idle, turn, circuit, crashes,
          respawning, mail, acks, past, late>>

Event == 1..MaxEvents
Outcome == {"ok", "cancelled", "drained", "exited", "failed", "hardcap", "auth", "panicked"}
\* Delivered: a turn or a steer took the event.  Given up: refused, dead-lettered,
\* cancelled by the owner, of a removed channel, or failed in drop mode.  Spilled:
\* merged into a batch that went back to the queue without it.
Fate == {"delivered", "given_up", "spilled"}

\* control: control_tx is unused ("open"), or carried a signal whose batch is
\* merged (Steer, Interrupt, SwitchModel) or discarded (Cancel, Rotate).
\* ended: the outcome reported by the task, "no" while it runs, "none" for no task.
Turn == [ch : Channels \cup {NoChannel}, events : SUBSET Event, carried : SUBSET Event,
         control : {"open", "merge", "stop"}, steers : SUBSET Event,
         ended : Outcome \cup {"no", "none"}, keep : BOOLEAN]

NewTurn(batch) == [ch |-> batch.ch, events |-> batch.events, carried |-> batch.carried,
                   control |-> "open", steers |-> {}, ended |-> "no", keep |-> FALSE]

NoTurn == [NewTurn([ch |-> NoChannel, events |-> {}, carried |-> {}]) EXCEPT !.ended = "none"]

Ack == [ch : Channels, ev : Event, how : {"success", "release", "fallback"}]

Checked == {a \in Agents : turn[a].ended # "none"}
Running(a) == turn[a].ended = "no"
OnChannel(ch) == {a \in Checked : turn[a].ch = ch}

\* slot_alive, live_count and any_respawn_in_flight.
Alive(a) == a \in idle \cup Checked

Settle(f, events) == past' = [past EXCEPT ![f] = @ \cup events]

\* The loop polls its select while it turns and while it waits there.  After a
\* result it first collects panicked tasks, then dispatches.
AtSelect == loop \in {"turning", "waiting"}
AtDispatch == loop \in {"joining", "dispatch"}

Init ==
    /\ mode \in Modes
    /\ born = 0
    /\ queue = EmptyQueue
    /\ removed = {}
    /\ loop = "turning"
    /\ IF mode.lazy
       THEN pool = "listening" /\ idle = {}
       ELSE pool = "ready" /\ idle \in SUBSET Agents \ {{}}
    /\ turn = [a \in Agents |-> NoTurn]
    /\ circuit = [a \in Agents |-> "closed"]
    /\ crashes = [a \in Agents |-> 0]
    /\ respawning = {}
    /\ mail = {}
    /\ acks = {}
    /\ past = [f \in Fate |-> {}]
    /\ late = {}

-----------------------------------------------------------------------------
(* The relay's events.                                                      *)

\* signal_in_flight_task: control_tx is taken, so a turn hears one signal.
Signalled(a, signal) ==
    [turn EXCEPT ![a].control = IF @ = "open" THEN signal ELSE @]

SignalInFlightTask(ch, signal) ==
    IF OnChannel(ch) = {}
    THEN UNCHANGED turn
    ELSE \E a \in OnChannel(ch) : turn' = Signalled(a, signal)

\* The read loop waits for one steer's answer and one more fits its channel.
SteersFit(a) == Running(a) /\ Cardinality(turn[a].steers) < 2

\* try_native_steer; it fails when the read loop's channel is full or closed.
TryNativeSteer(q, ch, e) ==
    \E a \in OnChannel(ch) :
        /\ SteersFit(a)
        /\ queue' = MarkNativeSteerPending(q, ch, e)
        /\ turn' = [turn EXCEPT ![a].steers = @ \cup {e}]

\* The mode gate, for an event just pushed.  A turn in flight is steered or
\* interrupted; OwnerInterrupt leaves it alone if the author is not the owner.
ModeGate(q, ch, e) ==
    \/ /\ ~Busy(q, ch) \/ mode.handling \in {"queue", "owner"}
       /\ queue' = q
       /\ UNCHANGED turn
    \/ /\ Busy(q, ch) /\ mode.handling = "steer"
       /\ TryNativeSteer(q, ch, e)
    \/ /\ Busy(q, ch) /\ mode.handling # "queue"
       /\ queue' = q
       /\ SignalInFlightTask(ch, "merge")

AfterEvent == loop' = IF pool = "ready" THEN "dispatch" ELSE "turning"

RelayEvent(ch) ==
    /\ AtSelect
    /\ born < MaxEvents
    /\ born' = born + 1
    /\ IF Refuses(queue, mode.dedup, ch)
       THEN Settle("given_up", {born + 1}) /\ UNCHANGED <<queue, turn>>
       ELSE ModeGate(Push(queue, ch, born + 1), ch, born + 1) /\ UNCHANGED past
    /\ AfterEvent
    /\ UNCHANGED <<mode, removed, pool, idle, circuit, crashes, respawning, mail, acks, late>>

\* !cancel and !rotate, and the observer's cancel and model switch.
OwnerControl(ch, signal) ==
    /\ AtSelect
    /\ SignalInFlightTask(ch, signal)
    /\ loop' = "turning"
    /\ UNCHANGED <<mode, born, queue, removed, pool, idle, circuit, crashes, respawning,
                   mail, acks, past, late>>

MemberRemoved(ch) ==
    /\ AtSelect
    /\ queue' = DrainChannel(queue, ch)
    /\ Settle("given_up", Pending(queue, ch) \cup queue.cancelled[ch] \cup queue.withheld[ch])
    /\ removed' = removed \cup {ch}
    /\ loop' = "turning"
    /\ UNCHANGED <<mode, born, acks, late>>
    /\ UNCHANGED poolVars

MemberAdded(ch) ==
    /\ AtSelect
    /\ ch \in removed
    /\ removed' = removed \ {ch}
    /\ loop' = "turning"
    /\ UNCHANGED <<mode, born, queue, acks, past, late>>
    /\ UNCHANGED poolVars

-----------------------------------------------------------------------------
(* dispatch_pending.                                                        *)

DispatchNothing ==
    /\ AtDispatch
    /\ queue' = Expire(queue)
    /\ ~HasFlushableWork(queue')
    /\ loop' = "turning"
    /\ UNCHANGED <<mode, born, removed, acks, past, late>>
    /\ UNCHANGED poolVars

\* try_claim takes an agent that has a session for the channel, or any.
DispatchBatch(ch, a) ==
    LET q == Expire(queue)
    IN  /\ AtDispatch
        /\ ch \in NextChannels(q)
        /\ a \in idle
        /\ queue' = Flushed(q, ch)
        /\ idle' = idle \ {a}
        /\ turn' = [turn EXCEPT ![a] = NewTurn(FlushBatch(q, ch))]
        /\ loop' = "dispatch"
        /\ UNCHANGED <<mode, born, removed, pool, circuit, crashes, respawning, mail,
                       acks, past, late>>

\* No agent: the batch goes back, but the events merged into it do not.
DispatchExhausted(ch) ==
    LET q == Expire(queue)
        batch == FlushBatch(q, ch)
    IN  /\ AtDispatch
        /\ ch \in NextChannels(q)
        /\ idle = {}
        /\ queue' = MarkComplete(RequeuePreserveTimestamps(Flushed(q, ch), batch), ch)
        /\ Settle("spilled", batch.carried)
        /\ loop' = "turning"
        /\ UNCHANGED <<mode, born, removed, acks, late>>
        /\ UNCHANGED poolVars

-----------------------------------------------------------------------------
(* The prompt task.                                                         *)

\* Whether the result carries the batch: never in drop mode, and not when the
\* task heard a signal that discards it.  A task that fails before it polls its
\* control channel has not heard the signal.
Keeps(a, outcome) ==
    IF outcome = "ok" \/ mode.dedup = "drop" \/ turn[a].ch = NoChannel THEN {FALSE}
    ELSE CASE outcome \in {"cancelled", "drained"} -> {turn[a].control = "merge"}
           [] outcome \in {"exited", "failed", "auth"} /\ turn[a].control = "stop" -> BOOLEAN
           [] OTHER -> {TRUE}

TurnEndsUnacked(a, outcome) ==
    /\ Running(a)
    /\ outcome \in {"cancelled", "drained"} => turn[a].control # "open"
    /\ \E keep \in Keeps(a, outcome) :
          turn' = [turn EXCEPT ![a].ended = outcome, ![a].keep = keep, ![a].steers = {}]
    /\ UNCHANGED <<mode, born, queue, removed, loop, pool, idle, circuit, crashes, respawning,
                   mail, acks, past, late>>

\* Every end of the task answers or drops the steers still open.
TurnEnds(a, outcome) ==
    /\ Running(a)
    /\ outcome \in {"cancelled", "drained"} => turn[a].control # "open"
    /\ \E keep \in Keeps(a, outcome) :
          turn' = [turn EXCEPT ![a].ended = outcome, ![a].keep = keep, ![a].steers = {}]
    /\ acks' = acks \cup {[ch |-> turn[a].ch, ev |-> e, how |-> "release"] : e \in turn[a].steers}
    /\ UNCHANGED <<mode, born, queue, removed, loop, pool, idle, circuit, crashes, respawning,
                   mail, past, late>>

\* The read loop gets the agent's answer to a steer, or cannot write it.
SteerAnswered(a, e, how) ==
    /\ Running(a)
    /\ e \in turn[a].steers
    /\ turn' = [turn EXCEPT ![a].steers = @ \ {e}]
    /\ acks' = acks \cup {[ch |-> turn[a].ch, ev |-> e, how |-> how]}
    /\ UNCHANGED <<mode, born, queue, removed, loop, pool, idle, circuit, crashes, respawning,
                   mail, past, late>>

-----------------------------------------------------------------------------
(* The circuit breaker of a slot and the respawn tasks.                     *)

\* record_crash and the respawn it allows.
RecordCrash(a) ==
    CASE circuit[a] = "open" -> UNCHANGED <<circuit, crashes, respawning>>
      [] circuit[a] = "cooled" ->
            /\ crashes' = [crashes EXCEPT ![a] = CrashThreshold - 1]
            /\ circuit' = [circuit EXCEPT ![a] = "closed"]
            /\ respawning' = respawning \cup {a}
      [] circuit[a] = "closed" ->
            /\ crashes' = [crashes EXCEPT ![a] = @ + 1]
            /\ IF crashes[a] + 1 >= CrashThreshold
               THEN circuit' = [circuit EXCEPT ![a] = "open"] /\ UNCHANGED respawning
               ELSE respawning' = respawning \cup {a} /\ UNCHANGED circuit

RespawnEnds(a, ok) ==
    /\ a \in respawning
    /\ \A r \in mail : r.agent # a
    /\ mail' = mail \cup {[agent |-> a, ok |-> ok]}
    /\ UNCHANGED <<mode, born, queue, removed, loop, pool, idle, turn, circuit, crashes,
                   respawning, acks, past, late>>

\* The loop's top drains respawn_rx: one result, then dispatch if an agent came.
CollectRespawn(a) ==
    \E r \in mail :
        /\ loop = "turning"
        /\ r.agent = a
        /\ mail' = mail \ {r}
        /\ respawning' = respawning \ {a}
        /\ IF r.ok
           THEN idle' = idle \cup {a} /\ loop' = "dispatch" /\ UNCHANGED circuit
           ELSE circuit' = [circuit EXCEPT ![a] = "open"] /\ UNCHANGED <<idle, loop>>
        /\ UNCHANGED <<mode, born, queue, removed, pool, turn, crashes, acks, past, late>>

RefillBlindly == {a \in Agents : a \notin respawning /\ circuit[a] # "open"}

\* The slots maintenance refills: empty, not respawning, and can_refill.
Refillable == {a \in Agents : ~Alive(a) /\ a \notin respawning /\ circuit[a] # "open"}

MaintenanceUnflushed ==
    /\ loop = "turning"
    /\ pool = "ready"
    /\ queue' = CompactExpiredState(queue)
    /\ respawning' = respawning \cup Refillable
    /\ crashes' = [a \in Agents |-> IF a \in Refillable /\ circuit[a] = "cooled"
                                    THEN CrashThreshold - 1 ELSE crashes[a]]
    /\ circuit' = [a \in Agents |-> IF a \in Refillable THEN "closed" ELSE circuit[a]]
    /\ UNCHANGED <<mode, born, removed, loop, pool, idle, turn, mail, acks, past, late>>

\* Every maintenance_interval: compact the queue, refill the slots, then dispatch
\* batches whose backoff has passed.
Maintenance ==
    LET q == Expire(CompactExpiredState(queue))
    IN  /\ loop = "turning"
        /\ pool = "ready"
        /\ queue' = q
        /\ respawning' = respawning \cup Refillable
        /\ crashes' = [a \in Agents |-> IF a \in Refillable /\ circuit[a] = "cooled"
                                        THEN CrashThreshold - 1 ELSE crashes[a]]
        /\ circuit' = [a \in Agents |-> IF a \in Refillable THEN "closed" ELSE circuit[a]]
        /\ loop' = IF HasFlushableWork(q) THEN "dispatch" ELSE loop
        /\ UNCHANGED <<mode, born, removed, pool, idle, turn, mail, acks, past, late>>

-----------------------------------------------------------------------------
(* Results, panics and steer answers.                                       *)

\* Where a batch that came back goes: the queue, or a dead letter.
Retried(q, batch, outcome) ==
    CASE outcome \in {"cancelled", "drained"} -> RequeueAsCancelled(q, batch)
      [] outcome \in {"exited", "failed", "panicked"} -> Requeue(q, batch)
      [] OTHER -> q

\* The fate of a turn's events that do not go back to the queue.
Fates(t, q) ==
    LET all == t.events \cup t.carried
        returned == t.keep /\ t.ch \notin removed
        retried == returned /\ t.ended \in {"exited", "failed", "panicked"} /\ ~DeadLetters(q, t.ch)
        merged == returned /\ t.ended \in {"cancelled", "drained"}
    IN  [delivered |-> IF t.ended = "ok" THEN all ELSE {},
         given_up |-> IF t.ended = "ok" \/ retried \/ merged THEN {} ELSE all,
         spilled |-> IF retried THEN t.carried ELSE {}]

\* handle_prompt_result on the queue: requeue before mark_complete.
Finished(q, t) ==
    IF t.ch = NoChannel THEN q
    ELSE MarkComplete(IF t.keep /\ t.ch \notin removed THEN Retried(q, t, t.ended) ELSE q, t.ch)

AgentKept == {"ok", "cancelled", "failed", "auth"}

FateStep(t) ==
    past' = [f \in Fate |-> past[f] \cup Fates(t, queue)[f]]

\* "all agents dead": a was the last alive and nothing is on its way.
AllDead(a) == idle = {} /\ Checked = {a} /\ respawning' = {}

HandleResult(a) ==
    /\ AtSelect
    /\ a \in Checked
    /\ turn[a].ended \notin {"no", "panicked"}
    /\ queue' = Finished(queue, turn[a])
    /\ FateStep(turn[a])
    /\ turn' = [turn EXCEPT ![a] = NoTurn]
    /\ IF turn[a].ended \in AgentKept
       THEN idle' = idle \cup {a} /\ UNCHANGED <<circuit, crashes, respawning>>
       ELSE RecordCrash(a) /\ UNCHANGED idle
    /\ loop' = IF turn[a].ended \notin AgentKept /\ AllDead(a) THEN "exited" ELSE "joining"
    /\ UNCHANGED <<mode, born, removed, pool, mail, acks, late>>

\* recover_panicked_agent, from the select or (drain_ready_join_results) after a result.
HandlePanic(a) ==
    /\ AtSelect \/ loop = "joining"
    /\ a \in Checked
    /\ turn[a].ended = "panicked"
    /\ queue' = Finished(queue, turn[a])
    /\ FateStep(turn[a])
    /\ turn' = [turn EXCEPT ![a] = NoTurn]
    /\ RecordCrash(a)
    /\ loop' = IF AllDead(a) THEN "exited" ELSE IF loop = "joining" THEN loop ELSE "dispatch"
    /\ UNCHANGED <<mode, born, removed, pool, idle, mail, acks, late>>

HandleSteerAck(ack) ==
    /\ AtSelect
    /\ ack \in acks
    /\ acks' = acks \ {ack}
    /\ IF ack.how = "success"
       THEN /\ queue' = RemoveEvent(ExtendInFlightDeadline(queue, ack.ch), ack.ch, ack.ev)
            /\ Settle("delivered", {ack.ev})
       ELSE /\ queue' = ReleaseNativeSteer(queue, ack.ch, ack.ev)
            /\ UNCHANGED past
    /\ IF ack.how = "fallback" THEN SignalInFlightTask(ack.ch, "merge") ELSE UNCHANGED turn
    /\ loop' = "dispatch"
    /\ UNCHANGED <<mode, born, removed, pool, idle, circuit, crashes, respawning, mail, late>>

-----------------------------------------------------------------------------
(* The lazy pool.                                                           *)

StartWake ==
    /\ loop = "turning"
    /\ pool \in {"listening", "due"}
    /\ queue' = Expire(queue)
    /\ HasFlushableWork(queue')
    /\ pool' = "waking"
    /\ UNCHANGED <<mode, born, removed, loop, idle, turn, circuit, crashes, respawning, mail,
                   acks, past, late>>

\* A wake succeeds with at least one agent, and fails with none.
WakeEnds(started) ==
    /\ AtSelect
    /\ pool = "waking"
    /\ pool' = IF started = {} THEN "failed" ELSE "ready"
    /\ idle' = started
    /\ loop' = IF started = {} THEN "turning" ELSE "dispatch"
    /\ UNCHANGED <<mode, born, queue, removed, turn, circuit, crashes, respawning, mail,
                   acks, past, late>>

WakeRetryDue ==
    /\ pool = "failed"
    /\ pool' = "due"
    /\ loop' = IF loop = "waiting" THEN "turning" ELSE loop
    /\ UNCHANGED <<mode, born, queue, removed, idle, turn, circuit, crashes, respawning, mail,
                   acks, past, late>>

SleepDueFlushable == pool = "ready" /\ ~HasFlushableWork(queue) /\ Checked = {} /\ respawning = {}

\* idle_pool_sleep_due, once the idle bound has passed.
SleepDue ==
    /\ pool = "ready"
    /\ ~HasUndispatchedWork(queue)
    /\ Checked = {}
    /\ respawning = {}
    /\ ~HasInFlight(queue)

IdlePoolSleep ==
    /\ AtSelect
    /\ mode.lazy
    /\ SleepDue
    /\ pool' = "listening"
    /\ idle' = {}
    /\ loop' = "turning"
    /\ UNCHANGED <<mode, born, queue, removed, turn, circuit, crashes, respawning, mail,
                   acks, past, late>>

-----------------------------------------------------------------------------
(* The heartbeat tick, and the clock.                                       *)

StartHeartbeat(a) ==
    /\ idle' = idle \ {a}
    /\ turn' = [turn EXCEPT ![a] = NewTurn([ch |-> NoChannel, events |-> {}, carried |-> {}])]

\* Events first; one heartbeat at a time, on an idle agent.
HeartbeatTick ==
    /\ Heartbeats
    /\ AtSelect
    /\ queue' = IF pool = "ready" THEN Expire(queue) ELSE queue
    /\ loop' = IF pool = "ready" /\ HasFlushableWork(queue') THEN "dispatch" ELSE "turning"
    /\ IF pool # "ready" \/ loop' = "dispatch" \/ OnChannel(NoChannel) # {} \/ idle = {}
       THEN UNCHANGED <<idle, turn>>
       ELSE \E a \in idle : StartHeartbeat(a)
    /\ UNCHANGED <<mode, born, removed, pool, circuit, crashes, respawning, mail, acks, past, late>>

\* With no timer running, the loop stays in its select until an arm is ready.
Wait ==
    /\ ~Timers
    /\ loop = "turning"
    /\ mail = {}
    /\ loop' = "waiting"
    /\ UNCHANGED <<mode, born, queue, removed, acks, past, late>>
    /\ UNCHANGED poolVars

ThrottleElapses(ch) ==
    /\ queue.retry_after[ch] = "waiting"
    /\ queue' = ThrottleElapsed(queue, ch)
    /\ UNCHANGED <<mode, born, removed, loop, acks, past, late>>
    /\ UNCHANGED poolVars

\* initial_message and the prompt have max_turn_duration each, the deadline one.
DeadlinePasses(ch) ==
    /\ Overruns
    /\ queue.in_flight[ch] = "running"
    /\ late = {}
    /\ queue' = DeadlinePassed(queue, ch)
    /\ late' = late \cup {ch}
    /\ UNCHANGED <<mode, born, removed, loop, acks, past>>
    /\ UNCHANGED poolVars

CooldownPasses(a) ==
    /\ circuit[a] = "open"
    /\ circuit' = [circuit EXCEPT ![a] = "cooled"]
    /\ UNCHANGED <<mode, born, queue, removed, loop, pool, idle, turn, crashes, respawning,
                   mail, acks, past, late>>

CrashWindowPasses(a) ==
    /\ circuit[a] = "closed" /\ crashes[a] > 0
    /\ crashes' = [crashes EXCEPT ![a] = @ - 1]
    /\ UNCHANGED <<mode, born, queue, removed, loop, pool, idle, turn, circuit, respawning,
                   mail, acks, past, late>>

-----------------------------------------------------------------------------
Dispatch ==
    \/ DispatchNothing
    \/ \E ch \in Channels, a \in Agents : DispatchBatch(ch, a)
    \/ \E ch \in Channels : DispatchExhausted(ch)

Next ==
    \/ \E ch \in Channels :
          \/ RelayEvent(ch)
          \/ \E signal \in {"merge", "stop"} : OwnerControl(ch, signal)
          \/ MemberRemoved(ch)
          \/ MemberAdded(ch)
          \/ ThrottleElapses(ch)
          \/ DeadlinePasses(ch)
    \/ Dispatch
    \/ \E a \in Agents :
          \/ \E outcome \in Outcome : TurnEnds(a, outcome)
          \/ \E e \in Event, how \in {"success", "release", "fallback"} : SteerAnswered(a, e, how)
          \/ \E ok \in BOOLEAN : RespawnEnds(a, ok)
          \/ CollectRespawn(a)
          \/ HandleResult(a)
          \/ HandlePanic(a)
          \/ CooldownPasses(a)
          \/ CrashWindowPasses(a)
    \/ \E ack \in acks : HandleSteerAck(ack)
    \/ Maintenance
    \/ StartWake
    \/ \E started \in SUBSET Agents : WakeEnds(started)
    \/ WakeRetryDue
    \/ IdlePoolSleep
    \/ HeartbeatTick
    \/ Wait

Spec == Init /\ [][Next]_vars

-----------------------------------------------------------------------------
(* Safety.                                                                  *)

\* The types of the state; the retry count of a channel never passes MAX_RETRIES,
\* though requeue counts an attempt before it compares.
AcpType ==
    /\ mode \in Modes
    /\ born \in 0..MaxEvents
    /\ queue \in EventQueueType(Event)
    /\ removed \subseteq Channels
    /\ loop \in {"turning", "waiting", "joining", "dispatch", "exited"}
    /\ pool \in {"listening", "waking", "failed", "due", "ready"}
    /\ idle \subseteq Agents
    /\ turn \in [Agents -> Turn]
    /\ circuit \in [Agents -> {"closed", "open", "cooled"}]
    /\ crashes \in [Agents -> 0..CrashThreshold]
    /\ respawning \subseteq Agents
    /\ mail \subseteq [agent : Agents, ok : BOOLEAN]
    /\ acks \subseteq Ack
    /\ past \in [Fate -> SUBSET Event]
    /\ late \subseteq Channels

TurnHolds(a) == IF a \in Checked THEN turn[a].events \cup turn[a].carried ELSE {}
Held == QueueHolds(queue) \cup UNION {TurnHolds(a) : a \in Agents}

\* Every event that arrived is in the queue or in a turn, was logged as shed by a
\* cap, or has met its fate: no handler of lib.rs and no method of the queue
\* loses one silently, apart from the merged events counted as spilled.
NothingForgotten ==
    1..born \subseteq Held \cup queue.shed \cup UNION {past[f] : f \in Fate}

\* The places of the queue and of the turns that hold an event.
Places(e) ==
    {<<"pending", x[1], x[2]>> :
        x \in {y \in Channels \X (1..MaxPending) :
                 y[2] <= Len(queue.queues[y[1]]) /\ queue.queues[y[1]][y[2]] = e}}
    \cup {<<"cancelled", ch, 0>> : ch \in {c \in Channels : e \in queue.cancelled[c]}}
    \cup {<<"withheld", ch, 0>> : ch \in {c \in Channels : e \in queue.withheld[c]}}
    \cup {<<"turn", a, 0>> : a \in {b \in Agents : e \in TurnHolds(b)}}

\* Until the backstop deadline passes under a live turn, an event is in one place,
\* and one that was delivered, given up or shed is in none, so it is not dispatched
\* a second time (the no-double-deliver invariant of queue.rs).
HeldOnce ==
    late = {} =>
        /\ \A e \in 1..born : Cardinality(Places(e)) <= 1
        /\ Held \cap (queue.shed \cup UNION {past[f] : f \in Fate}) = {}

\* An event withheld for a native steer has a turn that will answer the steer, or
\* an answer on its way: nothing else would put it back into the queue.
WithheldIsWatched ==
    \A ch \in Channels : \A e \in queue.withheld[ch] :
        \/ \E a \in OnChannel(ch) : Running(a) /\ e \in turn[a].steers
        \/ \E ack \in acks : ack.ch = ch /\ ack.ev = e

\* A channel is marked in flight exactly while one turn of it is out, unless its
\* deadline passed under a live turn.
InFlightIsServed ==
    \A ch \in Channels \ late :
        IF Busy(queue, ch) THEN \E a \in Agents : OnChannel(ch) = {a}
                           ELSE OnChannel(ch) = {}

\* An agent is idle, checked out or being replaced, never two of them, so
\* return_agent never finds its slot occupied.
SlotsAreExclusive ==
    /\ idle \cap Checked = {}
    /\ respawning \cap (idle \cup Checked) = {}
    /\ \A r \in mail : r.agent \in respawning
    /\ \A r, s \in mail : r.agent = s.agent => r = s

\* idle_pool_sleep_due: a pool is torn down only when the queue and the turns hold
\* no event, not even one behind a backoff or withheld for a steer.
SleepStrandsNothing ==
    [][pool = "ready" /\ pool' = "listening" => Held = {}]_vars

-----------------------------------------------------------------------------
(* Progress.                                                                *)

\* A turn that is tried again and again ends well at last, and so does a spawn.
\* The loop reaches its try_recv and its select on every pass, which is why its
\* handlers are strongly fair; the clock is fair.
Fairness ==
    /\ WF_vars(Dispatch)
    /\ WF_vars(StartWake)
    /\ WF_vars(WakeRetryDue)
    /\ SF_vars(\E started \in SUBSET Agents : started # {} /\ WakeEnds(started))
    /\ SF_vars(Maintenance)
    /\ SF_vars(\E ack \in acks : HandleSteerAck(ack))
    /\ \A ch \in Channels : WF_vars(ThrottleElapses(ch))
    /\ \A a \in Agents :
          /\ SF_vars(TurnEnds(a, "ok"))
          /\ SF_vars(HandleResult(a) \/ HandlePanic(a))
          /\ SF_vars(RespawnEnds(a, TRUE))
          /\ SF_vars(CollectRespawn(a))
          /\ WF_vars(CooldownPasses(a))

LiveSpec == Spec /\ Fairness

Settled(e) == e \in queue.shed \cup UNION {past[f] : f \in Fate}

\* A merged batch survives: no event is dropped from a batch that goes back.
NothingSpilled == past.spilled = {}

\* Every event that arrives is delivered, or given up, shed or spilled, unless the
\* harness exits with no agent left: no retry, steer or wake is waited for in vain.
EventsSettle ==
    \A e \in Event : (e <= born) ~> (Settled(e) \/ loop = "exited")

=============================================================================
