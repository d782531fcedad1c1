--------------------------- MODULE AcpHarnessProofs ---------------------------
(***************************************************************************)
(* Proofs about AcpHarness, for any number of channels, agents and events  *)
(* and for every configuration: the slots of the pool, the channels marked *)
(* in flight, the events withheld for a steer, and the sleep of the pool.  *)
(*                                                                         *)
(* The argument follows two fields of the queue, in_flight and withheld,   *)
(* through its methods, and never needs to know what the pending sequences *)
(* hold.                                                                   *)
(***************************************************************************)
EXTENDS AcpHarness, TLAPS

QueueFields ==
    {"queues", "in_flight", "retry_after", "retry_counts", "cancelled", "withheld", "shed"}
TurnFields == {"ch", "events", "carried", "control", "steers", "ended", "keep"}

\* q is a queue as far as in_flight and withheld are concerned.
Keyed(q) ==
    /\ q = [x \in QueueFields |-> q[x]]
    /\ q.in_flight \in [Channels -> InFlight]
    /\ q.withheld = [ch \in Channels |-> q.withheld[ch]]

TurnsKeyed ==
    /\ turn = [a \in Agents |-> turn[a]]
    /\ \A a \in Agents : turn[a] = [x \in TurnFields |-> turn[a][x]]

\* r differs from q in neither field.
SameMarks(q, r) == Keyed(r) /\ r.in_flight = q.in_flight /\ r.withheld = q.withheld

\* A pool that is not ready has no agent, no task and no respawn.
Asleep == pool # "ready" => idle = {} /\ Checked = {} /\ respawning = {}

OverdueIsLate == \A ch \in Channels : queue.in_flight[ch] = "overdue" => ch \in late

\* The inductive invariant.
PoolInv ==
    /\ Keyed(queue)
    /\ TurnsKeyed
    /\ idle \subseteq Agents
    /\ circuit \in [Agents -> {"closed", "open", "cooled"}]
    /\ SlotsAreExclusive
    /\ Asleep
    /\ OverdueIsLate
    /\ InFlightIsServed
    /\ WithheldIsWatched

-----------------------------------------------------------------------------
(* The methods of the queue.                                                *)

\* requeue_preserve_timestamps and the other returns to the front touch no mark.
LEMMA PushFrontMarks ==
    ASSUME NEW q, Keyed(q), NEW ch, NEW S
    PROVE  SameMarks(q, PushFront(q, ch, S))
  BY DEF PushFront, SameMarks, Keyed, QueueFields

\* push touches no mark.
LEMMA PushMarks ==
    ASSUME NEW q, Keyed(q), NEW ch, NEW e
    PROVE  SameMarks(q, Push(q, ch, e))
  BY DEF Push, SameMarks, Keyed, QueueFields

\* requeue touches no mark, whether it retries or dead-letters.
LEMMA RequeueMarks ==
    ASSUME NEW q, Keyed(q), NEW batch
    PROVE  SameMarks(q, Requeue(q, batch))
  <1>1. CASE DeadLetters(q, batch.ch)
    BY <1>1 DEF Requeue, SameMarks, Keyed, QueueFields
  <1>2. CASE ~DeadLetters(q, batch.ch)
    <2> DEFINE r == PushFront(q, batch.ch, batch.events)
    <2>1. SameMarks(q, r)
      BY PushFrontMarks
    <2> HIDE DEF r
    <2>2. Requeue(q, batch) = [r EXCEPT !.retry_counts[batch.ch] = @ + 1,
                                        !.retry_after[batch.ch] = "waiting"]
      BY <1>2 DEF Requeue, r
    <2> QED
      BY <2>1, <2>2 DEF SameMarks, Keyed, QueueFields
  <1> QED
    BY <1>1, <1>2

\* requeue_as_cancelled touches no mark.
LEMMA CancelledMarks ==
    ASSUME NEW q, Keyed(q), NEW batch
    PROVE  SameMarks(q, RequeueAsCancelled(q, batch))
  BY DEF RequeueAsCancelled, SameMarks, Keyed, QueueFields

\* compact_expired_state touches no mark.
LEMMA CompactMarks ==
    ASSUME NEW q, Keyed(q)
    PROVE  SameMarks(q, CompactExpiredState(q))
  BY DEF CompactExpiredState, SameMarks, Keyed, QueueFields

\* mark_complete takes off the mark of one channel.
LEMMA CompleteMarks ==
    ASSUME NEW q, Keyed(q), NEW ch
    PROVE  /\ Keyed(MarkComplete(q, ch))
           /\ MarkComplete(q, ch).in_flight = [q.in_flight EXCEPT ![ch] = "no"]
           /\ MarkComplete(q, ch).withheld = q.withheld
  BY DEF MarkComplete, Keyed, QueueFields, InFlight

\* The expiry takes off the marks of overdue channels, and empties what was withheld
\* from them.
LEMMA ExpireMarks ==
    ASSUME NEW q, Keyed(q)
    PROVE  /\ Keyed(Expire(q))
           /\ Expire(q).in_flight =
                 [ch \in Channels |-> IF q.in_flight[ch] = "overdue" THEN "no" ELSE q.in_flight[ch]]
           /\ Expire(q).withheld =
                 [ch \in Channels |-> IF q.in_flight[ch] = "overdue" THEN {} ELSE q.withheld[ch]]
  BY DEF Expire, Keyed, QueueFields, InFlight

\* flush_next marks its channel.
LEMMA FlushedMarks ==
    ASSUME NEW q, Keyed(q), NEW ch
    PROVE  /\ Keyed(Flushed(q, ch))
           /\ Flushed(q, ch).in_flight = [q.in_flight EXCEPT ![ch] = "running"]
           /\ Flushed(q, ch).withheld = q.withheld
  BY DEF Flushed, Keyed, QueueFields, InFlight

\* drain_channel leaves the mark and forgets what is withheld.
LEMMA DrainMarks ==
    ASSUME NEW q, Keyed(q), NEW ch
    PROVE  /\ Keyed(DrainChannel(q, ch))
           /\ DrainChannel(q, ch).in_flight = q.in_flight
           /\ DrainChannel(q, ch).withheld = [q.withheld EXCEPT ![ch] = {}]
  BY DEF DrainChannel, Keyed, QueueFields

\* extend_in_flight_deadline renews a mark and sets none.
LEMMA ExtendMarks ==
    ASSUME NEW q, Keyed(q), NEW ch
    PROVE  /\ Keyed(ExtendInFlightDeadline(q, ch))
           /\ \A d \in Channels :
                 /\ Busy(ExtendInFlightDeadline(q, ch), d) <=> Busy(q, d)
                 /\ ExtendInFlightDeadline(q, ch).in_flight[d] = "overdue"
                       => q.in_flight[d] = "overdue"
           /\ ExtendInFlightDeadline(q, ch).withheld = q.withheld
  BY DEF ExtendInFlightDeadline, Busy, Keyed, QueueFields, InFlight

\* mark_native_steer_pending withholds at most the event it is given.
LEMMA WithholdMarks ==
    ASSUME NEW q, Keyed(q), NEW ch, NEW e
    PROVE  LET r == MarkNativeSteerPending(q, ch, e)
           IN  /\ Keyed(r)
               /\ r.in_flight = q.in_flight
               /\ \A d \in Channels : r.withheld[d] \subseteq
                     IF d = ch THEN q.withheld[d] \cup {e} ELSE q.withheld[d]
  BY DEF MarkNativeSteerPending, Keyed, QueueFields

\* remove_event withholds the event no longer.
LEMMA RemoveMarks ==
    ASSUME NEW q, Keyed(q), NEW ch, NEW e
    PROVE  LET r == RemoveEvent(q, ch, e)
           IN  /\ Keyed(r)
               /\ r.in_flight = q.in_flight
               /\ \A d \in Channels : r.withheld[d] =
                     IF d = ch THEN q.withheld[d] \ {e} ELSE q.withheld[d]
  BY DEF RemoveEvent, Keyed, QueueFields

\* release_native_steer withholds the event no longer.
LEMMA ReleaseMarks ==
    ASSUME NEW q, Keyed(q), NEW ch, NEW e
    PROVE  /\ Keyed(ReleaseNativeSteer(q, ch, e))
           /\ ReleaseNativeSteer(q, ch, e).in_flight = q.in_flight
           /\ \A d \in Channels : ReleaseNativeSteer(q, ch, e).withheld[d] =
                 IF d = ch THEN q.withheld[d] \ {e} ELSE q.withheld[d]
  <1>1. CASE e \in q.withheld[ch]
    <2> DEFINE p == PushFront(q, ch, {e})
    <2>1. SameMarks(q, p)
      BY PushFrontMarks
    <2> HIDE DEF p
    <2>2. ReleaseNativeSteer(q, ch, e) = [p EXCEPT !.withheld[ch] = @ \ {e}]
      BY <1>1 DEF ReleaseNativeSteer, p
    <2> QED
      BY <2>1, <2>2 DEF SameMarks, Keyed, QueueFields
  <1>2. CASE e \notin q.withheld[ch]
    BY <1>2 DEF ReleaseNativeSteer, Keyed, QueueFields
  <1> QED
    BY <1>1, <1>2

\* What a turn's end does to the marks: its channel's is taken off.
LEMMA FinishedMarks ==
    ASSUME NEW q, Keyed(q), NEW t
    PROVE  /\ Keyed(Finished(q, t))
           /\ Finished(q, t).in_flight = IF t.ch = NoChannel THEN q.in_flight
                                         ELSE [q.in_flight EXCEPT ![t.ch] = "no"]
           /\ Finished(q, t).withheld = q.withheld
  <1>1. SameMarks(q, Retried(q, t, t.ended))
    <2>1. SameMarks(q, q)
      BY DEF SameMarks
    <2>2. CASE t.ended \in {"cancelled", "drained"}
      <3>1. Retried(q, t, t.ended) = RequeueAsCancelled(q, t)
        BY <2>2 DEF Retried
      <3> QED
        BY <3>1, CancelledMarks
    <2>3. CASE t.ended \in {"exited", "failed", "panicked"}
      <3>1. Retried(q, t, t.ended) = Requeue(q, t)
        BY <2>3 DEF Retried
      <3> QED
        BY <3>1, RequeueMarks
    <2>4. CASE t.ended \notin {"cancelled", "drained", "exited", "failed", "panicked"}
      <3>1. Retried(q, t, t.ended) = q
        BY <2>4 DEF Retried
      <3> QED
        BY <2>1, <3>1
    <2> QED
      BY <2>2, <2>3, <2>4
  <1> DEFINE r == IF t.keep /\ t.ch \notin removed THEN Retried(q, t, t.ended) ELSE q
  <1>2. SameMarks(q, r)
    BY <1>1 DEF SameMarks
  <1> HIDE DEF r
  <1>3. CASE t.ch = NoChannel
    BY <1>3 DEF Finished
  <1>4. CASE t.ch # NoChannel
    <2>1. Finished(q, t) = MarkComplete(r, t.ch)
      BY <1>4 DEF Finished, r
    <2>2. Keyed(r)
      BY <1>2 DEF SameMarks
    <2>3. /\ Keyed(MarkComplete(r, t.ch))
          /\ MarkComplete(r, t.ch).in_flight = [r.in_flight EXCEPT ![t.ch] = "no"]
          /\ MarkComplete(r, t.ch).withheld = r.withheld
      BY <2>2, CompleteMarks
    <2> QED
      BY <1>2, <1>4, <2>1, <2>3 DEF SameMarks
  <1> QED
    BY <1>3, <1>4

-----------------------------------------------------------------------------
(* What a step must leave alone for a part of the invariant to survive.     *)

\* No task starts, ends or changes its channel or its steers.
SameTurns ==
    /\ TurnsKeyed'
    /\ \A a \in Agents : /\ turn'[a].ch = turn[a].ch
                         /\ turn'[a].ended = turn[a].ended
                         /\ turn'[a].steers = turn[a].steers

\* No mark is set, and none is taken off a channel that is not late.
SameService ==
    /\ Keyed(queue')
    /\ \A ch \in Channels :
          /\ ch \notin late => queue'.in_flight[ch] = queue.in_flight[ch]
          /\ queue'.in_flight[ch] = "overdue" => queue.in_flight[ch] = "overdue"
          /\ queue'.withheld[ch] \subseteq queue.withheld[ch]

\* Unchanged turns are the same turns.
LEMMA TurnsUnchanged ==
    ASSUME TurnsKeyed, UNCHANGED turn
    PROVE  SameTurns
  BY DEF TurnsKeyed, SameTurns

\* signal_in_flight_task uses up control_tx and nothing else.
LEMMA SignalKeepsTurns ==
    ASSUME TurnsKeyed, NEW ch, NEW signal, SignalInFlightTask(ch, signal)
    PROVE  SameTurns
  <1>1. CASE UNCHANGED turn
    BY <1>1, TurnsUnchanged
  <1>2. ASSUME NEW a \in Agents, turn' = Signalled(a, signal)
        PROVE  SameTurns
    BY <1>2 DEF Signalled, TurnsKeyed, SameTurns, TurnFields
  <1> QED
    BY <1>1, <1>2 DEF SignalInFlightTask, OnChannel, Checked

\* A queue with the same marks serves the same channels.
LEMMA MarksKeepService ==
    ASSUME NEW q, Keyed(q), SameMarks(queue, q), queue' = q
    PROVE  SameService
  BY DEF SameMarks, SameService

\* So does one that has been through the expiry: what is overdue is late.
LEMMA ExpiryKeepsService ==
    ASSUME Keyed(queue), OverdueIsLate, queue' = Expire(queue)
    PROVE  SameService
  <1>1. /\ Keyed(queue')
        /\ queue'.in_flight = [ch \in Channels |-> IF queue.in_flight[ch] = "overdue" THEN "no"
                                                   ELSE queue.in_flight[ch]]
        /\ queue'.withheld = [ch \in Channels |-> IF queue.in_flight[ch] = "overdue" THEN {}
                                                  ELSE queue.withheld[ch]]
    BY ExpireMarks
  <1> QED
    BY <1>1 DEF SameService, OverdueIsLate

\* The parts about channels and steers survive a step that keeps turns and service.
LEMMA ChannelsKept ==
    ASSUME InFlightIsServed, WithheldIsWatched, OverdueIsLate,
           SameTurns, SameService, late \subseteq late', acks \subseteq acks'
    PROVE  InFlightIsServed' /\ WithheldIsWatched' /\ OverdueIsLate'
  <1>1. Checked' = Checked /\ \A ch : OnChannel(ch)' = OnChannel(ch)
    BY DEF Checked, OnChannel, SameTurns
  <1>2. InFlightIsServed'
    <2> SUFFICES ASSUME NEW ch \in Channels, ch \notin late'
                 PROVE  IF Busy(queue', ch) THEN \E a \in Agents : OnChannel(ch)' = {a}
                                            ELSE OnChannel(ch)' = {}
      BY DEF InFlightIsServed
    <2>1. ch \notin late /\ (Busy(queue', ch) <=> Busy(queue, ch))
      BY DEF SameService, Busy
    <2> QED
      BY <1>1, <2>1 DEF InFlightIsServed
  <1>3. WithheldIsWatched'
    <2> SUFFICES ASSUME NEW ch \in Channels, NEW e \in queue'.withheld[ch]
                 PROVE  \/ \E a \in OnChannel(ch)' : Running(a)' /\ e \in turn'[a].steers
                        \/ \E ack \in acks' : ack.ch = ch /\ ack.ev = e
      BY DEF WithheldIsWatched
    <2>1. e \in queue.withheld[ch]
      BY DEF SameService
    <2>2. CASE \E a \in OnChannel(ch) : Running(a) /\ e \in turn[a].steers
      BY <1>1, <2>2 DEF SameTurns, Running, OnChannel, Checked
    <2>3. CASE \E ack \in acks : ack.ch = ch /\ ack.ev = e
      BY <2>3
    <2> QED
      BY <2>1, <2>2, <2>3 DEF WithheldIsWatched
  <1>4. OverdueIsLate'
    BY DEF OverdueIsLate, SameService
  <1> QED
    BY <1>2, <1>3, <1>4

\* The parts about the slots survive a step that keeps the turns and the slots.
LEMMA SlotsKept ==
    ASSUME SlotsAreExclusive, Asleep, SameTurns, UNCHANGED <<idle, respawning, mail, pool>>
    PROVE  SlotsAreExclusive' /\ Asleep'
  <1>1. Checked' = Checked
    BY DEF Checked, SameTurns
  <1> QED
    BY <1>1 DEF SlotsAreExclusive, Asleep

\* Both together.
LEMMA InvKept ==
    ASSUME PoolInv, SameTurns, SameService, late \subseteq late', acks \subseteq acks',
           UNCHANGED <<idle, respawning, mail, pool, circuit>>
    PROVE  PoolInv'
  BY ChannelsKept, SlotsKept DEF PoolInv, SameService, SameTurns

-----------------------------------------------------------------------------
(* The steps.                                                               *)

\* An event arrives: it is queued, offered to the running turn or interrupts it.
LEMMA RelayEventKeeps ==
    ASSUME PoolInv, NEW ch \in Channels, RelayEvent(ch)
    PROVE  PoolInv'
  <1> DEFINE e == born + 1
             q == Push(queue, ch, e)
  <1>1. Keyed(queue) /\ TurnsKeyed /\ UNCHANGED <<idle, respawning, mail, pool, circuit, acks, late>>
    BY DEF RelayEvent, PoolInv
  <1>2. SameMarks(queue, q)
    BY <1>1, PushMarks
  <1> HIDE DEF q, e
  <1>3. CASE SameTurns /\ (queue' = queue \/ queue' = q)
    <2>1. SameService
      BY <1>1, <1>2, <1>3, MarksKeepService DEF SameMarks, SameService
    <2> QED
      BY <1>1, <1>3, <2>1, InvKept
  <1>4. CASE TryNativeSteer(q, ch, e)
    <2>1. PICK a \in OnChannel(ch) :
             /\ Running(a)
             /\ queue' = MarkNativeSteerPending(q, ch, e)
             /\ turn' = [turn EXCEPT ![a].steers = @ \cup {e}]
      BY <1>4 DEF TryNativeSteer, SteersFit
    <2>2. a \in Agents
      BY <2>1 DEF OnChannel, Checked
    <2>3. /\ TurnsKeyed'
          /\ \A b \in Agents : /\ turn'[b].ch = turn[b].ch
                               /\ turn'[b].ended = turn[b].ended
                               /\ turn'[b].steers = IF b = a THEN turn[b].steers \cup {e}
                                                    ELSE turn[b].steers
      BY <1>1, <2>1, <2>2 DEF TurnsKeyed, TurnFields
    <2>4. Checked' = Checked /\ \A d : OnChannel(d)' = OnChannel(d)
      BY <2>3 DEF Checked, OnChannel
    <2>5. /\ Keyed(queue')
          /\ queue'.in_flight = queue.in_flight
          /\ \A d \in Channels : queue'.withheld[d] \subseteq
                IF d = ch THEN queue.withheld[d] \cup {e} ELSE queue.withheld[d]
      BY <1>2, <2>1, WithholdMarks DEF SameMarks
    <2>6. SlotsAreExclusive' /\ Asleep'
      BY <1>1, <2>4 DEF PoolInv, SlotsAreExclusive, Asleep
    <2>7. InFlightIsServed' /\ OverdueIsLate'
      BY <1>1, <2>4, <2>5 DEF PoolInv, InFlightIsServed, OverdueIsLate, Busy
    <2>8. WithheldIsWatched'
      <3> SUFFICES ASSUME NEW d \in Channels, NEW x \in queue'.withheld[d]
                   PROVE  \/ \E b \in OnChannel(d)' : Running(b)' /\ x \in turn'[b].steers
                          \/ \E ack \in acks' : ack.ch = d /\ ack.ev = x
        BY DEF WithheldIsWatched
      <3>1. CASE d = ch /\ x = e
        BY <2>1, <2>2, <2>3, <2>4, <3>1 DEF Running
      <3>2. CASE x \in queue.withheld[d]
        <4>1. \/ \E b \in OnChannel(d) : Running(b) /\ x \in turn[b].steers
              \/ \E ack \in acks : ack.ch = d /\ ack.ev = x
          BY <3>2 DEF PoolInv, WithheldIsWatched
        <4> QED
          BY <1>1, <2>3, <2>4, <4>1 DEF Running, OnChannel, Checked
      <3> QED
        BY <2>5, <3>1, <3>2
    <2> QED
      BY <1>1, <2>3, <2>5, <2>6, <2>7, <2>8 DEF PoolInv
  <1>5. \/ SameTurns /\ (queue' = queue \/ queue' = q)
        \/ TryNativeSteer(q, ch, e)
    <2>1. CASE UNCHANGED <<queue, turn>>
      BY <1>1, <2>1, TurnsUnchanged
    <2>2. CASE ModeGate(q, ch, e)
      <3>1. \/ queue' = q /\ UNCHANGED turn
            \/ TryNativeSteer(q, ch, e)
            \/ queue' = q /\ SignalInFlightTask(ch, "merge")
        BY <2>2 DEF ModeGate
      <3> QED
        BY <1>1, <3>1, TurnsUnchanged, SignalKeepsTurns
    <2> QED
      BY <2>1, <2>2 DEF RelayEvent, q, e
  <1> QED
    BY <1>3, <1>4, <1>5

\* The owner's signal.
LEMMA OwnerControlKeeps ==
    ASSUME PoolInv, NEW ch, NEW signal, OwnerControl(ch, signal)
    PROVE  PoolInv'
  <1>1. SameTurns
    BY SignalKeepsTurns DEF OwnerControl, PoolInv
  <1>2. SameService
    BY DEF OwnerControl, PoolInv, SameService
  <1> QED
    BY <1>1, <1>2, InvKept DEF OwnerControl

\* A channel is left: its mark stays with its turn.
LEMMA MemberRemovedKeeps ==
    ASSUME PoolInv, NEW ch, MemberRemoved(ch)
    PROVE  PoolInv'
  <1>1. SameTurns
    BY TurnsUnchanged DEF MemberRemoved, PoolInv, poolVars
  <1>2. /\ Keyed(queue')
        /\ queue'.in_flight = queue.in_flight
        /\ queue'.withheld = [queue.withheld EXCEPT ![ch] = {}]
    BY DrainMarks DEF MemberRemoved, PoolInv
  <1>3. SameService
    BY <1>2 DEF PoolInv, Keyed, SameService
  <1> QED
    BY <1>1, <1>3, InvKept DEF MemberRemoved, poolVars

\* An idle agent takes a task.
LEMMA TurnStarts ==
    ASSUME PoolInv, NEW a \in idle, NEW batch, idle' = idle \ {a},
           turn' = [turn EXCEPT ![a] = NewTurn(batch)], UNCHANGED <<respawning, mail, pool>>
    PROVE  /\ TurnsKeyed' /\ idle' \subseteq Agents /\ SlotsAreExclusive' /\ Asleep'
           /\ \A d : OnChannel(d)' = IF d = batch.ch THEN OnChannel(d) \cup {a} ELSE OnChannel(d)
           /\ \A b \in Checked : turn'[b] = turn[b]
  <1>1. a \in Agents /\ a \notin Checked /\ TurnsKeyed
    BY DEF PoolInv, SlotsAreExclusive
  <1>2. TurnsKeyed' /\ turn'[a] = NewTurn(batch) /\ \A b \in Agents \ {a} : turn'[b] = turn[b]
    BY <1>1 DEF TurnsKeyed, NewTurn, TurnFields
  <1>3. turn'[a].ended = "no" /\ turn'[a].ch = batch.ch
    BY <1>2 DEF NewTurn
  <1>4. Checked' = Checked \cup {a}
    BY <1>1, <1>2, <1>3 DEF Checked
  <1>5. \A d : OnChannel(d)' = IF d = batch.ch THEN OnChannel(d) \cup {a} ELSE OnChannel(d)
    BY <1>1, <1>2, <1>3, <1>4 DEF OnChannel, Checked
  <1>6. SlotsAreExclusive' /\ Asleep'
    BY <1>1, <1>4 DEF PoolInv, SlotsAreExclusive, Asleep
  <1> QED
    BY <1>1, <1>2, <1>5, <1>6 DEF PoolInv, Checked

\* The watchers of a withheld event outlast a step that keeps the checked tasks.
LEMMA WatchersOutlast ==
    ASSUME WithheldIsWatched, acks \subseteq acks',
           \A ch \in Channels : queue'.withheld[ch] \subseteq queue.withheld[ch],
           \A b \in Checked : Running(b) => b \in Checked' /\ turn'[b] = turn[b]
    PROVE  WithheldIsWatched'
  <1> SUFFICES ASSUME NEW d \in Channels, NEW x \in queue'.withheld[d]
               PROVE  \/ \E b \in OnChannel(d)' : Running(b)' /\ x \in turn'[b].steers
                      \/ \E ack \in acks' : ack.ch = d /\ ack.ev = x
    BY DEF WithheldIsWatched
  <1>1. \/ \E b \in OnChannel(d) : Running(b) /\ x \in turn[b].steers
        \/ \E ack \in acks : ack.ch = d /\ ack.ev = x
    BY DEF WithheldIsWatched
  <1>2. ASSUME NEW b \in OnChannel(d), Running(b), x \in turn[b].steers
        PROVE  b \in OnChannel(d)' /\ Running(b)' /\ x \in turn'[b].steers
    BY <1>2 DEF OnChannel, Running
  <1> QED
    BY <1>1, <1>2

\* dispatch_pending gives a batch to an idle agent.
LEMMA DispatchBatchKeeps ==
    ASSUME PoolInv, NEW ch \in Channels, NEW a \in Agents, DispatchBatch(ch, a)
    PROVE  PoolInv'
  <1> DEFINE q == Expire(queue)
             batch == FlushBatch(q, ch)
  <1>1. /\ ch \in NextChannels(q) /\ a \in idle /\ queue' = Flushed(q, ch)
        /\ idle' = idle \ {a} /\ turn' = [turn EXCEPT ![a] = NewTurn(batch)]
        /\ UNCHANGED <<pool, circuit, respawning, mail, acks, late>>
    BY DEF DispatchBatch
  <1>2. /\ Keyed(q)
        /\ q.in_flight = [d \in Channels |-> IF queue.in_flight[d] = "overdue" THEN "no"
                                              ELSE queue.in_flight[d]]
        /\ q.withheld = [d \in Channels |-> IF queue.in_flight[d] = "overdue" THEN {}
                                             ELSE queue.withheld[d]]
    BY ExpireMarks DEF PoolInv
  <1>3. batch.ch = ch
    BY DEF FlushBatch
  <1> HIDE DEF q, batch
  <1>4. ~Busy(q, ch)
    BY <1>1 DEF NextChannels, Oldest, Ready, Remerging
  <1>5. /\ Keyed(queue')
        /\ queue'.in_flight = [q.in_flight EXCEPT ![ch] = "running"]
        /\ queue'.withheld = q.withheld
    BY <1>1, <1>2, FlushedMarks
  <1>6. /\ TurnsKeyed' /\ idle' \subseteq Agents /\ SlotsAreExclusive' /\ Asleep'
        /\ \A d : OnChannel(d)' = IF d = ch THEN OnChannel(d) \cup {a} ELSE OnChannel(d)
        /\ \A b \in Checked : turn'[b] = turn[b]
    BY <1>1, <1>3, TurnStarts
  <1>7. OverdueIsLate'
    BY <1>1, <1>2, <1>5 DEF PoolInv, OverdueIsLate
  <1>8. InFlightIsServed'
    <2> SUFFICES ASSUME NEW d \in Channels, d \notin late
                 PROVE  IF Busy(queue', d) THEN \E b \in Agents : OnChannel(d)' = {b}
                                           ELSE OnChannel(d)' = {}
      BY <1>1 DEF InFlightIsServed
    <2>1. q.in_flight[d] = queue.in_flight[d]
      BY <1>2 DEF PoolInv, OverdueIsLate
    <2>2. CASE d = ch
      <3>1. OnChannel(d) = {}
        BY <1>4, <2>1, <2>2 DEF PoolInv, InFlightIsServed, Busy
      <3>2. Busy(queue', d)
        BY <1>2, <1>5, <2>2 DEF Busy
      <3> QED
        BY <1>6, <2>2, <3>1, <3>2
    <2>3. CASE d # ch
      <3>1. Busy(queue', d) <=> Busy(queue, d)
        BY <1>2, <1>5, <2>1, <2>3 DEF Busy
      <3> QED
        BY <1>6, <2>3, <3>1 DEF PoolInv, InFlightIsServed
    <2> QED
      BY <2>2, <2>3
  <1>9. WithheldIsWatched'
    <2>1. \A d \in Channels : queue'.withheld[d] \subseteq queue.withheld[d]
      BY <1>2, <1>5
    <2>2. \A b \in Checked : b \in Checked' /\ turn'[b] = turn[b]
      BY <1>6 DEF Checked
    <2> QED
      BY <1>1, <2>1, <2>2, WatchersOutlast DEF PoolInv
  <1> QED
    BY <1>1, <1>5, <1>6, <1>7, <1>8, <1>9 DEF PoolInv

\* dispatch_pending finds no batch.
LEMMA DispatchNothingKeeps ==
    ASSUME PoolInv, DispatchNothing
    PROVE  PoolInv'
  <1>1. SameTurns
    BY TurnsUnchanged DEF DispatchNothing, PoolInv, poolVars
  <1>2. SameService
    BY ExpiryKeepsService DEF DispatchNothing, PoolInv
  <1> QED
    BY <1>1, <1>2, InvKept DEF DispatchNothing, poolVars

\* dispatch_pending finds no agent: the mark it set is taken off again.
LEMMA DispatchExhaustedKeeps ==
    ASSUME PoolInv, NEW ch \in Channels, DispatchExhausted(ch)
    PROVE  PoolInv'
  <1> DEFINE q == Expire(queue)
             f == Flushed(q, ch)
             r == RequeuePreserveTimestamps(f, FlushBatch(q, ch))
  <1>1. ch \in NextChannels(q) /\ queue' = MarkComplete(r, ch)
    BY DEF DispatchExhausted
  <1>2. /\ Keyed(q)
        /\ q.in_flight = [d \in Channels |-> IF queue.in_flight[d] = "overdue" THEN "no"
                                              ELSE queue.in_flight[d]]
        /\ q.withheld = [d \in Channels |-> IF queue.in_flight[d] = "overdue" THEN {}
                                             ELSE queue.withheld[d]]
    BY ExpireMarks DEF PoolInv
  <1>3. /\ Keyed(f)
        /\ f.in_flight = [q.in_flight EXCEPT ![ch] = "running"]
        /\ f.withheld = q.withheld
    BY <1>2, FlushedMarks
  <1>4. SameMarks(f, r)
    BY <1>3, PushFrontMarks DEF RequeuePreserveTimestamps
  <1>5. ~Busy(q, ch)
    BY <1>1 DEF NextChannels, Oldest, Ready, Remerging
  <1> HIDE DEF q, f, r
  <1>6. /\ Keyed(queue')
        /\ queue'.in_flight = [r.in_flight EXCEPT ![ch] = "no"]
        /\ queue'.withheld = r.withheld
    BY <1>1, <1>4, CompleteMarks DEF SameMarks
  <1>7. SameService
    <2>1. queue'.in_flight = [[q.in_flight EXCEPT ![ch] = "running"] EXCEPT ![ch] = "no"]
      BY <1>3, <1>4, <1>6 DEF SameMarks
    <2>2. q.in_flight[ch] = "no" /\ q.in_flight \in [Channels -> InFlight]
      BY <1>2, <1>5 DEF Busy, Keyed
    <2>3. queue'.in_flight = q.in_flight
      BY <2>1, <2>2
    <2>4. queue'.withheld = q.withheld
      BY <1>3, <1>4, <1>6 DEF SameMarks
    <2> QED
      BY <1>2, <1>6, <2>3, <2>4 DEF SameService, PoolInv, OverdueIsLate
  <1>8. SameTurns
    BY TurnsUnchanged DEF DispatchExhausted, PoolInv, poolVars
  <1> QED
    BY <1>7, <1>8, InvKept DEF DispatchExhausted, poolVars

\* A task ends: its open steers are answered by the end itself.
LEMMA TurnEndsKeeps ==
    ASSUME PoolInv, NEW a \in Agents, NEW outcome \in Outcome, TurnEnds(a, outcome)
    PROVE  PoolInv'
  <1>1. PICK keep : turn' = [turn EXCEPT ![a].ended = outcome, ![a].keep = keep, ![a].steers = {}]
    BY DEF TurnEnds
  <1>2. /\ TurnsKeyed /\ Running(a)
        /\ UNCHANGED <<queue, pool, idle, circuit, respawning, mail, late>>
        /\ acks' = acks \cup {[ch |-> turn[a].ch, ev |-> e, how |-> "release"] : e \in turn[a].steers}
    BY DEF TurnEnds, PoolInv
  <1>3. /\ TurnsKeyed'
        /\ turn'[a].ended = outcome /\ turn'[a].ch = turn[a].ch
        /\ \A b \in Agents \ {a} : turn'[b] = turn[b]
    BY <1>1, <1>2 DEF TurnsKeyed, TurnFields
  <1>4. Checked' = Checked /\ \A d : OnChannel(d)' = OnChannel(d)
    BY <1>2, <1>3 DEF Checked, OnChannel, Running, Outcome
  <1>5. /\ Keyed(queue') /\ SlotsAreExclusive' /\ Asleep' /\ OverdueIsLate' /\ InFlightIsServed'
        /\ idle' \subseteq Agents /\ circuit' \in [Agents -> {"closed", "open", "cooled"}]
    BY <1>2, <1>4 DEF PoolInv, SlotsAreExclusive, Asleep, OverdueIsLate, InFlightIsServed
  <1>6. WithheldIsWatched'
    <2> SUFFICES ASSUME NEW d \in Channels, NEW x \in queue.withheld[d]
                 PROVE  \/ \E b \in OnChannel(d)' : Running(b)' /\ x \in turn'[b].steers
                        \/ \E ack \in acks' : ack.ch = d /\ ack.ev = x
      BY <1>2 DEF WithheldIsWatched
    <2>1. \/ \E b \in OnChannel(d) : Running(b) /\ x \in turn[b].steers
          \/ \E ack \in acks : ack.ch = d /\ ack.ev = x
      BY DEF PoolInv, WithheldIsWatched
    <2>2. CASE \E ack \in acks : ack.ch = d /\ ack.ev = x
      BY <1>2, <2>2
    <2>3. ASSUME NEW b \in OnChannel(d), Running(b), x \in turn[b].steers
          PROVE  \/ \E c \in OnChannel(d)' : Running(c)' /\ x \in turn'[c].steers
                 \/ \E ack \in acks' : ack.ch = d /\ ack.ev = x
      <3>1. CASE b = a
        <4>1. [ch |-> d, ev |-> x, how |-> "release"] \in acks'
          BY <1>2, <2>3, <3>1 DEF OnChannel
        <4> QED
          BY <4>1
      <3>2. CASE b # a
        BY <1>3, <1>4, <2>3, <3>2 DEF Running, OnChannel, Checked
      <3> QED
        BY <3>1, <3>2
    <2> QED
      BY <2>1, <2>2, <2>3
  <1> QED
    BY <1>3, <1>5, <1>6 DEF PoolInv

\* A steer is answered: the answer takes the place of the open steer.
LEMMA SteerAnsweredKeeps ==
    ASSUME PoolInv, NEW a \in Agents, NEW e, NEW how, SteerAnswered(a, e, how)
    PROVE  PoolInv'
  <1>1. /\ TurnsKeyed /\ Running(a) /\ turn' = [turn EXCEPT ![a].steers = @ \ {e}]
        /\ UNCHANGED <<queue, pool, idle, circuit, respawning, mail, late>>
        /\ acks' = acks \cup {[ch |-> turn[a].ch, ev |-> e, how |-> how]}
    BY DEF SteerAnswered, PoolInv
  <1>2. /\ TurnsKeyed'
        /\ turn'[a].ended = turn[a].ended /\ turn'[a].ch = turn[a].ch
        /\ turn'[a].steers = turn[a].steers \ {e}
        /\ \A b \in Agents \ {a} : turn'[b] = turn[b]
    BY <1>1 DEF TurnsKeyed, TurnFields
  <1>3. Checked' = Checked /\ \A d : OnChannel(d)' = OnChannel(d)
    BY <1>2 DEF Checked, OnChannel
  <1>4. /\ Keyed(queue') /\ SlotsAreExclusive' /\ Asleep' /\ OverdueIsLate' /\ InFlightIsServed'
        /\ idle' \subseteq Agents /\ circuit' \in [Agents -> {"closed", "open", "cooled"}]
    BY <1>1, <1>3 DEF PoolInv, SlotsAreExclusive, Asleep, OverdueIsLate, InFlightIsServed
  <1>5. WithheldIsWatched'
    <2> SUFFICES ASSUME NEW d \in Channels, NEW x \in queue.withheld[d]
                 PROVE  \/ \E b \in OnChannel(d)' : Running(b)' /\ x \in turn'[b].steers
                        \/ \E ack \in acks' : ack.ch = d /\ ack.ev = x
      BY <1>1 DEF WithheldIsWatched
    <2>1. \/ \E b \in OnChannel(d) : Running(b) /\ x \in turn[b].steers
          \/ \E ack \in acks : ack.ch = d /\ ack.ev = x
      BY DEF PoolInv, WithheldIsWatched
    <2>2. CASE \E ack \in acks : ack.ch = d /\ ack.ev = x
      BY <1>1, <2>2
    <2>3. ASSUME NEW b \in OnChannel(d), Running(b), x \in turn[b].steers
          PROVE  \/ \E c \in OnChannel(d)' : Running(c)' /\ x \in turn'[c].steers
                 \/ \E ack \in acks' : ack.ch = d /\ ack.ev = x
      <3>1. CASE b = a /\ x = e
        <4>1. [ch |-> d, ev |-> x, how |-> how] \in acks'
          BY <1>1, <2>3, <3>1 DEF OnChannel
        <4> QED
          BY <4>1
      <3>2. CASE ~(b = a /\ x = e)
        BY <1>2, <1>3, <2>3, <3>2 DEF Running, OnChannel, Checked
      <3> QED
        BY <3>1, <3>2
    <2> QED
      BY <2>1, <2>2, <2>3
  <1> QED
    BY <1>2, <1>4, <1>5 DEF PoolInv

\* The parts about channels survive a step that touches neither the queue nor a task.
LEMMA SlotStepKeeps ==
    ASSUME PoolInv, UNCHANGED <<queue, turn, acks, late>>
    PROVE  /\ Keyed(queue') /\ TurnsKeyed' /\ Checked' = Checked
           /\ OverdueIsLate' /\ InFlightIsServed' /\ WithheldIsWatched'
  <1>1. SameTurns
    BY TurnsUnchanged DEF PoolInv
  <1>2. SameService
    BY DEF PoolInv, SameService
  <1> QED
    BY <1>1, <1>2, ChannelsKept DEF PoolInv, SameTurns, SameService, Checked

\* A respawn task reports.
LEMMA RespawnEndsKeeps ==
    ASSUME PoolInv, NEW a \in Agents, NEW ok, RespawnEnds(a, ok)
    PROVE  PoolInv'
  <1>1. /\ UNCHANGED <<queue, turn, acks, late, pool, idle, circuit, respawning>>
        /\ a \in respawning /\ \A r \in mail : r.agent # a
        /\ mail' = mail \cup {[agent |-> a, ok |-> ok]}
    BY DEF RespawnEnds
  <1>2. /\ Keyed(queue') /\ TurnsKeyed' /\ Checked' = Checked
        /\ OverdueIsLate' /\ InFlightIsServed' /\ WithheldIsWatched'
    BY <1>1, SlotStepKeeps
  <1> QED
    BY <1>1, <1>2 DEF PoolInv, SlotsAreExclusive, Asleep

\* The loop collects a respawn result: the slot was empty.
LEMMA CollectRespawnKeeps ==
    ASSUME PoolInv, NEW a \in Agents, CollectRespawn(a)
    PROVE  PoolInv'
  <1>1. PICK r \in mail :
           /\ r.agent = a /\ mail' = mail \ {r} /\ respawning' = respawning \ {a}
           /\ \/ idle' = idle \cup {a} /\ UNCHANGED circuit
              \/ circuit' = [circuit EXCEPT ![a] = "open"] /\ UNCHANGED idle
    BY DEF CollectRespawn
  <1>2. UNCHANGED <<queue, turn, acks, late, pool>>
    BY DEF CollectRespawn
  <1>3. /\ Keyed(queue') /\ TurnsKeyed' /\ Checked' = Checked
        /\ OverdueIsLate' /\ InFlightIsServed' /\ WithheldIsWatched'
    BY <1>2, SlotStepKeeps
  <1>4. a \in respawning /\ a \notin Checked /\ a \notin idle /\ pool = "ready"
    BY <1>1 DEF PoolInv, SlotsAreExclusive, Asleep
  <1>5. SlotsAreExclusive'
    BY <1>1, <1>3, <1>4 DEF PoolInv, SlotsAreExclusive
  <1>6. Asleep' /\ idle' \subseteq Agents /\ circuit' \in [Agents -> {"closed", "open", "cooled"}]
    BY <1>1, <1>2, <1>4 DEF PoolInv, Asleep
  <1> QED
    BY <1>3, <1>5, <1>6 DEF PoolInv

\* Maintenance refills slots that hold no agent, no task and no respawn.
LEMMA MaintenanceKeeps ==
    ASSUME PoolInv, Maintenance
    PROVE  PoolInv'
  <1> DEFINE c == CompactExpiredState(queue)
  <1>1. /\ pool = "ready" /\ queue' = Expire(c)
        /\ respawning' = respawning \cup Refillable
        /\ circuit' = [a \in Agents |-> IF a \in Refillable THEN "closed" ELSE circuit[a]]
        /\ UNCHANGED <<pool, idle, turn, mail, acks, late>>
    BY DEF Maintenance
  <1>2. Keyed(queue) /\ OverdueIsLate /\ SameTurns
    BY <1>1, TurnsUnchanged DEF PoolInv
  <1>3. SameMarks(queue, c)
    BY <1>2, CompactMarks
  <1> HIDE DEF c
  <1>4. /\ Keyed(queue')
        /\ queue'.in_flight = [ch \in Channels |-> IF c.in_flight[ch] = "overdue" THEN "no"
                                                   ELSE c.in_flight[ch]]
        /\ queue'.withheld = [ch \in Channels |-> IF c.in_flight[ch] = "overdue" THEN {}
                                                  ELSE c.withheld[ch]]
    BY <1>1, <1>3, ExpireMarks DEF SameMarks
  <1>5. SameService
    BY <1>2, <1>3, <1>4 DEF SameService, SameMarks, OverdueIsLate
  <1>6. InFlightIsServed' /\ WithheldIsWatched' /\ OverdueIsLate'
    BY <1>1, <1>2, <1>5, ChannelsKept DEF PoolInv
  <1>7. Checked' = Checked
    BY <1>1 DEF Checked
  <1>8. SlotsAreExclusive'
    BY <1>1, <1>7 DEF PoolInv, SlotsAreExclusive, Refillable, Alive
  <1>9. Asleep' /\ circuit' \in [Agents -> {"closed", "open", "cooled"}]
    BY <1>1 DEF Asleep, PoolInv
  <1> QED
    BY <1>1, <1>2, <1>4, <1>6, <1>8, <1>9 DEF PoolInv, SameTurns

\* A task that ended is taken off the map, and its channel's mark with it.
LEMMA TaskGone ==
    ASSUME PoolInv, NEW a \in Checked, ~Running(a), queue' = Finished(queue, turn[a]),
           turn' = [turn EXCEPT ![a] = NoTurn], UNCHANGED <<acks, late>>
    PROVE  /\ Keyed(queue') /\ TurnsKeyed' /\ Checked' = Checked \ {a}
           /\ InFlightIsServed' /\ OverdueIsLate' /\ WithheldIsWatched'
  <1>1. a \in Agents /\ TurnsKeyed /\ Keyed(queue)
    BY DEF Checked, PoolInv
  <1>2. TurnsKeyed' /\ turn'[a] = NoTurn /\ \A b \in Agents \ {a} : turn'[b] = turn[b]
    BY <1>1 DEF TurnsKeyed, NoTurn, NewTurn, TurnFields
  <1>3. turn'[a].ended = "none"
    BY <1>2 DEF NoTurn, NewTurn
  <1>4. Checked' = Checked \ {a} /\ \A d : OnChannel(d)' = OnChannel(d) \ {a}
    BY <1>2, <1>3 DEF Checked, OnChannel
  <1>5. /\ Keyed(queue')
        /\ queue'.in_flight = IF turn[a].ch = NoChannel THEN queue.in_flight
                              ELSE [queue.in_flight EXCEPT ![turn[a].ch] = "no"]
        /\ queue'.withheld = queue.withheld
    BY <1>1, FinishedMarks
  <1>6. OverdueIsLate'
    BY <1>1, <1>5 DEF PoolInv, OverdueIsLate, Keyed
  <1>7. InFlightIsServed'
    <2> SUFFICES ASSUME NEW d \in Channels, d \notin late
                 PROVE  IF Busy(queue', d) THEN \E b \in Agents : OnChannel(d)' = {b}
                                           ELSE OnChannel(d)' = {}
      BY DEF InFlightIsServed
    <2>1. IF Busy(queue, d) THEN \E b \in Agents : OnChannel(d) = {b} ELSE OnChannel(d) = {}
      BY DEF PoolInv, InFlightIsServed
    <2>2. CASE turn[a].ch = d
      <3>1. ~Busy(queue', d)
        BY <1>1, <1>5, <2>2, NoChannelAssumption DEF Busy, Keyed
      <3>2. a \in OnChannel(d)
        BY <2>2 DEF OnChannel
      <3> QED
        BY <1>4, <2>1, <3>1, <3>2
    <2>3. CASE turn[a].ch # d
      <3>1. Busy(queue', d) <=> Busy(queue, d)
        BY <1>1, <1>5, <2>3 DEF Busy, Keyed
      <3>2. a \notin OnChannel(d)
        BY <2>3 DEF OnChannel
      <3> QED
        BY <1>4, <2>1, <3>1, <3>2
    <2> QED
      BY <2>2, <2>3
  <1>8. WithheldIsWatched'
    <2>1. \A b \in Checked : Running(b) => b \in Checked' /\ turn'[b] = turn[b]
      BY <1>2, <1>4 DEF Checked
    <2> QED
      BY <1>5, <2>1, WatchersOutlast DEF PoolInv
  <1> QED
    BY <1>2, <1>4, <1>5, <1>6, <1>7, <1>8

\* record_crash respawns at most the slot that crashed.
LEMMA CrashRespawns ==
    ASSUME NEW a \in Agents, circuit \in [Agents -> {"closed", "open", "cooled"}], RecordCrash(a)
    PROVE  /\ respawning \subseteq respawning' /\ respawning' \subseteq respawning \cup {a}
           /\ circuit' \in [Agents -> {"closed", "open", "cooled"}]
  <1>1. circuit[a] \in {"closed", "open", "cooled"}
    OBVIOUS
  <1>2. CASE circuit[a] = "open"
    BY <1>2 DEF RecordCrash
  <1>3. CASE circuit[a] = "cooled"
    BY <1>3 DEF RecordCrash
  <1>4. CASE circuit[a] = "closed"
    BY <1>4 DEF RecordCrash
  <1> QED
    BY <1>1, <1>2, <1>3, <1>4

\* The slot of a finished task is idle, empty or respawning.
LEMMA SlotFreed ==
    ASSUME PoolInv, NEW a \in Checked, Checked' = Checked \ {a}, UNCHANGED <<mail, pool>>,
           \/ idle' = idle \cup {a} /\ UNCHANGED <<circuit, respawning>>
           \/ RecordCrash(a) /\ UNCHANGED idle
    PROVE  /\ SlotsAreExclusive' /\ Asleep' /\ idle' \subseteq Agents
           /\ circuit' \in [Agents -> {"closed", "open", "cooled"}]
  <1>1. a \in Agents /\ a \notin idle /\ a \notin respawning /\ pool = "ready"
    BY DEF PoolInv, Checked, SlotsAreExclusive, Asleep
  <1>2. CASE idle' = idle \cup {a} /\ UNCHANGED <<circuit, respawning>>
    BY <1>1, <1>2 DEF PoolInv, SlotsAreExclusive, Asleep
  <1>3. CASE RecordCrash(a) /\ UNCHANGED idle
    <2>1. /\ respawning \subseteq respawning' /\ respawning' \subseteq respawning \cup {a}
          /\ circuit' \in [Agents -> {"closed", "open", "cooled"}]
      BY <1>1, <1>3, CrashRespawns DEF PoolInv
    <2> QED
      BY <1>1, <1>3, <2>1 DEF PoolInv, SlotsAreExclusive, Asleep
  <1> QED
    BY <1>2, <1>3

\* The loop handles a result.
LEMMA HandleResultKeeps ==
    ASSUME PoolInv, NEW a \in Agents, HandleResult(a)
    PROVE  PoolInv'
  <1>1. /\ a \in Checked /\ ~Running(a) /\ queue' = Finished(queue, turn[a])
        /\ turn' = [turn EXCEPT ![a] = NoTurn] /\ UNCHANGED <<acks, late, mail, pool>>
        /\ \/ idle' = idle \cup {a} /\ UNCHANGED <<circuit, respawning>>
           \/ RecordCrash(a) /\ UNCHANGED idle
    BY DEF HandleResult, Running
  <1>2. /\ Keyed(queue') /\ TurnsKeyed' /\ Checked' = Checked \ {a}
        /\ InFlightIsServed' /\ OverdueIsLate' /\ WithheldIsWatched'
    BY <1>1, TaskGone
  <1>3. /\ SlotsAreExclusive' /\ Asleep' /\ idle' \subseteq Agents
        /\ circuit' \in [Agents -> {"closed", "open", "cooled"}]
    BY <1>1, <1>2, SlotFreed
  <1> QED
    BY <1>2, <1>3 DEF PoolInv

\* The loop recovers from a panic.
LEMMA HandlePanicKeeps ==
    ASSUME PoolInv, NEW a \in Agents, HandlePanic(a)
    PROVE  PoolInv'
  <1>1. /\ a \in Checked /\ ~Running(a) /\ queue' = Finished(queue, turn[a])
        /\ turn' = [turn EXCEPT ![a] = NoTurn] /\ UNCHANGED <<acks, late, mail, pool>>
        /\ RecordCrash(a) /\ UNCHANGED idle
    BY DEF HandlePanic, Running
  <1>2. /\ Keyed(queue') /\ TurnsKeyed' /\ Checked' = Checked \ {a}
        /\ InFlightIsServed' /\ OverdueIsLate' /\ WithheldIsWatched'
    BY <1>1, TaskGone
  <1>3. /\ SlotsAreExclusive' /\ Asleep' /\ idle' \subseteq Agents
        /\ circuit' \in [Agents -> {"closed", "open", "cooled"}]
    BY <1>1, <1>2, SlotFreed
  <1> QED
    BY <1>2, <1>3 DEF PoolInv

\* The loop handles an answer: the event it is about is withheld no longer.
LEMMA HandleSteerAckKeeps ==
    ASSUME PoolInv, NEW ack \in acks, HandleSteerAck(ack)
    PROVE  PoolInv'
  <1>1. /\ acks' = acks \ {ack} /\ UNCHANGED <<pool, idle, circuit, respawning, mail, late>>
        /\ Keyed(queue) /\ TurnsKeyed
    BY DEF HandleSteerAck, PoolInv
  <1>2. SameTurns
    <2>1. SignalInFlightTask(ack.ch, "merge") \/ UNCHANGED turn
      BY DEF HandleSteerAck
    <2> QED
      BY <1>1, <2>1, TurnsUnchanged, SignalKeepsTurns
  <1>3. /\ Keyed(queue')
        /\ \A d \in Channels : /\ Busy(queue', d) <=> Busy(queue, d)
                               /\ queue'.in_flight[d] = "overdue" => queue.in_flight[d] = "overdue"
                               /\ queue'.withheld[d] = IF d = ack.ch THEN queue.withheld[d] \ {ack.ev}
                                                       ELSE queue.withheld[d]
    <2>1. CASE ack.how = "success"
      <3> DEFINE x == ExtendInFlightDeadline(queue, ack.ch)
      <3>1. queue' = RemoveEvent(x, ack.ch, ack.ev)
        BY <2>1 DEF HandleSteerAck
      <3>2. /\ Keyed(x) /\ x.withheld = queue.withheld
            /\ \A d \in Channels : /\ Busy(x, d) <=> Busy(queue, d)
                                   /\ x.in_flight[d] = "overdue" => queue.in_flight[d] = "overdue"
        BY <1>1, ExtendMarks
      <3> HIDE DEF x
      <3>3. /\ Keyed(queue') /\ queue'.in_flight = x.in_flight
            /\ \A d \in Channels : queue'.withheld[d] =
                  IF d = ack.ch THEN x.withheld[d] \ {ack.ev} ELSE x.withheld[d]
        BY <3>1, <3>2, RemoveMarks
      <3> QED
        BY <3>2, <3>3 DEF Busy
    <2>2. CASE ack.how # "success"
      <3> DEFINE y == ReleaseNativeSteer(queue, ack.ch, ack.ev)
      <3>1. queue' = y
        BY <2>2 DEF HandleSteerAck
      <3>2. \A ch, e :
               /\ Keyed(ReleaseNativeSteer(queue, ch, e))
               /\ ReleaseNativeSteer(queue, ch, e).in_flight = queue.in_flight
               /\ \A d \in Channels : ReleaseNativeSteer(queue, ch, e).withheld[d] =
                     IF d = ch THEN queue.withheld[d] \ {e} ELSE queue.withheld[d]
        BY <1>1, ReleaseMarks
      <3>3. /\ Keyed(y) /\ y.in_flight = queue.in_flight
            /\ \A d \in Channels : y.withheld[d] =
                  IF d = ack.ch THEN queue.withheld[d] \ {ack.ev} ELSE queue.withheld[d]
        BY <3>2
      <3> HIDE DEF y
      <3> QED
        BY <3>1, <3>3 DEF Busy
    <2> QED
      BY <2>1, <2>2
  <1>4. Checked' = Checked /\ \A d : OnChannel(d)' = OnChannel(d)
    BY <1>2 DEF Checked, OnChannel, SameTurns
  <1>5. SlotsAreExclusive' /\ Asleep'
    BY <1>1, <1>2, SlotsKept DEF PoolInv
  <1>6. OverdueIsLate'
    BY <1>1, <1>3 DEF PoolInv, OverdueIsLate
  <1>7. InFlightIsServed'
    BY <1>1, <1>3, <1>4 DEF PoolInv, InFlightIsServed
  <1>8. WithheldIsWatched'
    <2> SUFFICES ASSUME NEW d \in Channels, NEW x \in queue'.withheld[d]
                 PROVE  \/ \E b \in OnChannel(d)' : Running(b)' /\ x \in turn'[b].steers
                        \/ \E k \in acks' : k.ch = d /\ k.ev = x
      BY DEF WithheldIsWatched
    <2>1. x \in queue.withheld[d] /\ ~(d = ack.ch /\ x = ack.ev)
      BY <1>3
    <2>2. \/ \E b \in OnChannel(d) : Running(b) /\ x \in turn[b].steers
          \/ \E k \in acks : k.ch = d /\ k.ev = x
      BY <2>1 DEF PoolInv, WithheldIsWatched
    <2>3. CASE \E b \in OnChannel(d) : Running(b) /\ x \in turn[b].steers
      BY <1>2, <1>4, <2>3 DEF SameTurns, Running, OnChannel, Checked
    <2>4. CASE \E k \in acks : k.ch = d /\ k.ev = x
      BY <1>1, <2>1, <2>4
    <2> QED
      BY <2>2, <2>3, <2>4
  <1> QED
    BY <1>1, <1>2, <1>3, <1>5, <1>6, <1>7, <1>8 DEF PoolInv, SameTurns

\* The lazy pool wakes: nothing was in it.
LEMMA WakeKeeps ==
    ASSUME PoolInv, StartWake \/ WakeRetryDue \/ \E started \in SUBSET Agents : WakeEnds(started)
    PROVE  PoolInv'
  <1>1. /\ UNCHANGED <<turn, acks, late, respawning, mail, circuit>>
        /\ pool # "ready" /\ idle' \subseteq Agents
        /\ pool' # "ready" => idle' = {}
        /\ queue' = queue \/ queue' = Expire(queue)
    BY DEF StartWake, WakeRetryDue, WakeEnds, PoolInv, Asleep
  <1>2. SameTurns
    BY <1>1, TurnsUnchanged DEF PoolInv
  <1>3. SameService
    <2>1. CASE queue' = queue
      BY <2>1 DEF PoolInv, SameService
    <2>2. CASE queue' = Expire(queue)
      BY <2>2, ExpiryKeepsService DEF PoolInv
    <2> QED
      BY <1>1, <2>1, <2>2
  <1>4. InFlightIsServed' /\ WithheldIsWatched' /\ OverdueIsLate'
    BY <1>1, <1>2, <1>3, ChannelsKept DEF PoolInv
  <1>5. Checked' = Checked
    BY <1>2 DEF Checked, SameTurns
  <1>6. SlotsAreExclusive' /\ Asleep'
    BY <1>1, <1>5 DEF PoolInv, SlotsAreExclusive, Asleep
  <1> QED
    BY <1>1, <1>2, <1>3, <1>4, <1>6 DEF PoolInv, SameTurns, SameService

\* The pool goes to sleep.
LEMMA IdlePoolSleepKeeps ==
    ASSUME PoolInv, IdlePoolSleep
    PROVE  PoolInv'
  <1>1. /\ UNCHANGED <<queue, turn, acks, late, respawning, mail, circuit>>
        /\ Checked = {} /\ respawning = {} /\ idle' = {}
    BY DEF IdlePoolSleep, SleepDue
  <1>2. /\ Keyed(queue') /\ TurnsKeyed' /\ Checked' = Checked
        /\ OverdueIsLate' /\ InFlightIsServed' /\ WithheldIsWatched'
    BY <1>1, SlotStepKeeps
  <1> QED
    BY <1>1, <1>2 DEF PoolInv, SlotsAreExclusive, Asleep

\* A heartbeat starts a task on no channel.
LEMMA HeartbeatKeeps ==
    ASSUME PoolInv, HeartbeatTick
    PROVE  PoolInv'
  <1>1. /\ UNCHANGED <<pool, circuit, respawning, mail, acks, late>>
        /\ queue' = queue \/ queue' = Expire(queue)
        /\ UNCHANGED <<idle, turn>> \/ \E a \in idle : StartHeartbeat(a)
    BY DEF HeartbeatTick
  <1>2. SameService
    <2>1. CASE queue' = queue
      BY <2>1 DEF PoolInv, SameService
    <2>2. CASE queue' = Expire(queue)
      BY <2>2, ExpiryKeepsService DEF PoolInv
    <2> QED
      BY <1>1, <2>1, <2>2
  <1>3. CASE UNCHANGED <<idle, turn>>
    <2>1. SameTurns
      BY <1>3, TurnsUnchanged DEF PoolInv
    <2> QED
      BY <1>1, <1>2, <1>3, <2>1, InvKept
  <1>4. ASSUME NEW a \in idle, StartHeartbeat(a)
        PROVE  PoolInv'
    <2> DEFINE batch == [ch |-> NoChannel, events |-> {}, carried |-> {}]
    <2>1. idle' = idle \ {a} /\ turn' = [turn EXCEPT ![a] = NewTurn(batch)]
      BY <1>4 DEF StartHeartbeat
    <2>2. batch.ch = NoChannel
      OBVIOUS
    <2> HIDE DEF batch
    <2>3. /\ TurnsKeyed' /\ idle' \subseteq Agents /\ SlotsAreExclusive' /\ Asleep'
          /\ \A d : OnChannel(d)' = IF d = batch.ch THEN OnChannel(d) \cup {a} ELSE OnChannel(d)
          /\ \A b \in Checked : turn'[b] = turn[b]
      BY <1>1, <1>4, <2>1, TurnStarts
    <2>4. \A d \in Channels : OnChannel(d)' = OnChannel(d)
      BY <2>2, <2>3, NoChannelAssumption
    <2>5. InFlightIsServed' /\ OverdueIsLate'
      BY <1>1, <1>2, <2>4 DEF PoolInv, InFlightIsServed, OverdueIsLate, SameService, Busy
    <2>6. WithheldIsWatched'
      <3>1. \A b \in Checked : b \in Checked' /\ turn'[b] = turn[b]
        BY <2>3 DEF Checked
      <3> QED
        BY <1>1, <1>2, <3>1, WatchersOutlast DEF PoolInv, SameService
    <2> QED
      BY <1>1, <1>2, <2>3, <2>5, <2>6 DEF PoolInv, SameService
  <1> QED
    BY <1>1, <1>3, <1>4

\* The clock passes a channel's throttle or its in-flight deadline.
LEMMA ClockKeeps ==
    ASSUME PoolInv, NEW ch \in Channels, ThrottleElapses(ch) \/ DeadlinePasses(ch)
    PROVE  PoolInv'
  <1>1. SameTurns
    BY TurnsUnchanged DEF PoolInv, ThrottleElapses, DeadlinePasses, poolVars
  <1>2. CASE ThrottleElapses(ch)
    <2>1. SameService
      BY <1>2 DEF ThrottleElapses, ThrottleElapsed, PoolInv, SameService, Keyed, QueueFields
    <2> QED
      BY <1>1, <1>2, <2>1, InvKept DEF ThrottleElapses, poolVars
  <1>3. CASE DeadlinePasses(ch)
    <2>1. /\ UNCHANGED <<idle, respawning, mail, pool, circuit, acks>>
          /\ late' = late \cup {ch} /\ queue.in_flight[ch] = "running"
      BY <1>3 DEF DeadlinePasses, poolVars
    <2>2. /\ Keyed(queue') /\ queue'.in_flight = [queue.in_flight EXCEPT ![ch] = "overdue"]
          /\ queue'.withheld = queue.withheld
      BY <1>3 DEF DeadlinePasses, DeadlinePassed, PoolInv, Keyed, QueueFields, InFlight
    <2>3. Checked' = Checked /\ \A d : OnChannel(d)' = OnChannel(d)
      BY <1>1 DEF Checked, OnChannel, SameTurns
    <2>4. SlotsAreExclusive' /\ Asleep'
      BY <1>1, <2>1, SlotsKept DEF PoolInv
    <2>5. OverdueIsLate'
      BY <2>1, <2>2 DEF PoolInv, OverdueIsLate, Keyed
    <2>6. InFlightIsServed'
      BY <2>1, <2>2, <2>3 DEF PoolInv, InFlightIsServed, Busy, Keyed
    <2>7. WithheldIsWatched'
      <3>1. \A b \in Checked : b \in Checked' /\ turn'[b] = turn[b]
        BY <1>3, <2>3 DEF DeadlinePasses, poolVars
      <3> QED
        BY <2>1, <2>2, <3>1, WatchersOutlast DEF PoolInv
    <2> QED
      BY <1>1, <2>1, <2>2, <2>4, <2>5, <2>6, <2>7 DEF PoolInv, SameTurns
  <1> QED
    BY <1>2, <1>3

\* A slot's breaker cools down, or its crash window passes.
LEMMA BreakerKeeps ==
    ASSUME PoolInv, NEW a \in Agents, CooldownPasses(a) \/ CrashWindowPasses(a)
    PROVE  PoolInv'
  <1>1. /\ UNCHANGED <<queue, turn, acks, late, respawning, mail, idle, pool>>
        /\ circuit' \in [Agents -> {"closed", "open", "cooled"}]
    BY DEF CooldownPasses, CrashWindowPasses, PoolInv
  <1>2. /\ Keyed(queue') /\ TurnsKeyed' /\ Checked' = Checked
        /\ OverdueIsLate' /\ InFlightIsServed' /\ WithheldIsWatched'
    BY <1>1, SlotStepKeeps
  <1> QED
    BY <1>1, <1>2 DEF PoolInv, SlotsAreExclusive, Asleep

\* Steps that touch nothing the invariant is about.
LEMMA IdleStepKeeps ==
    ASSUME PoolInv, UNCHANGED vars \/ Wait \/ \E ch \in Channels : MemberAdded(ch)
    PROVE  PoolInv'
  <1>1. UNCHANGED <<queue, turn, acks, late, respawning, mail, idle, pool, circuit>>
    BY DEF vars, Wait, MemberAdded, poolVars
  <1>2. SameTurns
    BY <1>1, TurnsUnchanged DEF PoolInv
  <1>3. SameService
    BY <1>1 DEF PoolInv, SameService
  <1> QED
    BY <1>1, <1>2, <1>3, InvKept

-----------------------------------------------------------------------------
(* The theorems.                                                            *)

\* The pool starts with its slots apart and nothing in flight or withheld.
LEMMA InitPoolInv == Init => PoolInv
  <1> SUFFICES ASSUME Init PROVE PoolInv
    OBVIOUS
  <1>1. Keyed(queue)
    BY DEF Init, EmptyQueue, Keyed, QueueFields, InFlight
  <1>2. TurnsKeyed /\ \A a \in Agents : turn[a].ended = "none"
    BY DEF Init, TurnsKeyed, NoTurn, NewTurn, TurnFields
  <1>3. Checked = {} /\ \A d : OnChannel(d) = {}
    BY <1>2 DEF Checked, OnChannel
  <1>4. \A ch \in Channels : queue.in_flight[ch] = "no" /\ queue.withheld[ch] = {}
    BY DEF Init, EmptyQueue
  <1>5. idle \subseteq Agents /\ (pool # "ready" => idle = {}) /\ respawning = {} /\ mail = {}
    BY DEF Init
  <1>6. circuit \in [Agents -> {"closed", "open", "cooled"}]
    BY DEF Init
  <1> QED
    BY <1>1, <1>2, <1>3, <1>4, <1>5, <1>6
       DEF PoolInv, SlotsAreExclusive, Asleep, OverdueIsLate, InFlightIsServed, WithheldIsWatched, Busy

\* Every step keeps the invariant.
LEMMA StepPoolInv ==
    ASSUME PoolInv, [Next]_vars
    PROVE  PoolInv'
  <1>1. ASSUME NEW ch \in Channels,
               \/ RelayEvent(ch)
               \/ \E signal \in {"merge", "stop"} : OwnerControl(ch, signal)
               \/ MemberRemoved(ch) \/ MemberAdded(ch)
               \/ ThrottleElapses(ch) \/ DeadlinePasses(ch)
        PROVE  PoolInv'
    BY <1>1, RelayEventKeeps, OwnerControlKeeps, MemberRemovedKeeps, IdleStepKeeps, ClockKeeps
  <1>2. CASE Dispatch
    BY <1>2, DispatchNothingKeeps, DispatchBatchKeeps, DispatchExhaustedKeeps DEF Dispatch
  <1>3. ASSUME NEW a \in Agents,
               \/ \E outcome \in Outcome : TurnEnds(a, outcome)
               \/ \E e \in Event, how \in {"success", "release", "fallback"} : SteerAnswered(a, e, how)
        PROVE  PoolInv'
    BY <1>3, TurnEndsKeeps, SteerAnsweredKeeps
  <1>4. ASSUME NEW a \in Agents,
               \/ \E ok \in BOOLEAN : RespawnEnds(a, ok)
               \/ CollectRespawn(a) \/ HandleResult(a) \/ HandlePanic(a)
               \/ CooldownPasses(a) \/ CrashWindowPasses(a)
        PROVE  PoolInv'
    BY <1>4, RespawnEndsKeeps, CollectRespawnKeeps, HandleResultKeeps, HandlePanicKeeps, BreakerKeeps
  <1>5. CASE \E ack \in acks : HandleSteerAck(ack)
    BY <1>5, HandleSteerAckKeeps
  <1>6. CASE Maintenance \/ IdlePoolSleep \/ HeartbeatTick
    BY <1>6, MaintenanceKeeps, IdlePoolSleepKeeps, HeartbeatKeeps
  <1>7. CASE StartWake \/ WakeRetryDue \/ \E started \in SUBSET Agents : WakeEnds(started)
    BY <1>7, WakeKeeps
  <1>8. CASE Wait \/ UNCHANGED vars
    BY <1>8, IdleStepKeeps
  <1> QED
    BY <1>1, <1>2, <1>3, <1>4, <1>5, <1>6, <1>7, <1>8 DEF Next

\* The inductive invariant holds throughout, for any number of channels, agents and
\* events and in every mode.
THEOREM PoolInvariant == Spec => []PoolInv
  <1>1. PoolInv /\ [Next]_vars => PoolInv'
    BY StepPoolInv
  <1> QED
    BY InitPoolInv, <1>1, PTL DEF Spec

\* No slot is idle, checked out or respawning at once (return_agent, RespawnGuard).
THEOREM SlotsStayExclusive == Spec => []SlotsAreExclusive
  <1>1. PoolInv => SlotsAreExclusive
    BY DEF PoolInv
  <1> QED
    BY <1>1, PoolInvariant, PTL

\* A channel is in flight exactly while one turn of it is out, unless that turn has
\* outlived the backstop deadline (flush_next, mark_complete).
THEOREM ChannelsAreServed == Spec => []InFlightIsServed
  <1>1. PoolInv => InFlightIsServed
    BY DEF PoolInv
  <1> QED
    BY <1>1, PoolInvariant, PTL

\* A withheld event always has an answer coming (try_native_steer, the steer watcher).
THEOREM WithheldComesBack == Spec => []WithheldIsWatched
  <1>1. PoolInv => WithheldIsWatched
    BY DEF PoolInv
  <1> QED
    BY <1>1, PoolInvariant, PTL

\* The pool is never torn down on an event (idle_pool_sleep_due).
THEOREM SleepIsSafe == Spec => SleepStrandsNothing
  <1>1. ASSUME [Next]_vars, pool = "ready", pool' = "listening"
        PROVE  Held = {}
    <2>1. IdlePoolSleep
      BY <1>1 DEF Next, vars, poolVars, RelayEvent, OwnerControl, MemberRemoved, MemberAdded,
                  ThrottleElapses, DeadlinePasses, Dispatch, DispatchNothing, DispatchBatch,
                  DispatchExhausted, TurnEnds, SteerAnswered, RespawnEnds, CollectRespawn,
                  HandleResult, HandlePanic, CooldownPasses, CrashWindowPasses, HandleSteerAck,
                  Maintenance, StartWake, WakeEnds, WakeRetryDue, HeartbeatTick, Wait
    <2>2. Checked = {} /\ ~HasUndispatchedWork(queue) /\ ~HasInFlight(queue)
      BY <2>1 DEF IdlePoolSleep, SleepDue
    <2>3. \A ch \in Channels :
             queue.queues[ch] = <<>> /\ queue.cancelled[ch] = {} /\ queue.withheld[ch] = {}
      BY <2>2 DEF HasUndispatchedWork, HasInFlight
    <2>4. \A ch \in Channels : Pending(queue, ch) = {}
      BY <2>3 DEF Pending, ToSet
    <2>5. QueueHolds(queue) = {}
      BY <2>3, <2>4 DEF QueueHolds
    <2>6. \A a \in Agents : TurnHolds(a) = {}
      BY <2>2 DEF TurnHolds
    <2> QED
      BY <2>5, <2>6 DEF Held
  <1>2. [Next]_vars => [pool = "ready" /\ pool' = "listening" => Held = {}]_vars
    BY <1>1
  <1> QED
    BY <1>2, PTL DEF Spec, SleepStrandsNothing
=============================================================================
