------------------------------ MODULE EventQueue ------------------------------
(***************************************************************************)
(* The per-channel event queue of the ACP harness                          *)
(* (workspace/crates/ambush-acp/src/queue.rs): a value and the methods     *)
(* that change it.  A channel's pending events wait in a sequence; at most *)
(* one batch of a channel is in flight; a failed batch goes back to the    *)
(* front behind a backoff; a cancelled batch is kept apart and merged into *)
(* the channel's next one; an event offered to a running turn as a native  *)
(* steer is withheld until the agent answers.                              *)
(*                                                                         *)
(* Abstractions.  An event is its number in the order of arrival, which    *)
(* stands for received_at and created_at.  A batch is sorted by created_at *)
(* before use, so it is a set.  An instant is what a comparison with the   *)
(* clock tells of it: a throttle is waiting or due, an in-flight deadline  *)
(* running or overdue.  Entries that a HashMap drops when empty are empty  *)
(* here.  `shed` records the events a cap discards, each with a warning in *)
(* the log.  The reason a batch was cancelled only words the prompt.       *)
(***************************************************************************)
EXTENDS Naturals, Sequences, FiniteSets, SequencesExt

CONSTANTS
    Channels,    \* the channels the agent is a member of
    MaxPending,  \* MAX_PENDING_PER_CHANNEL
    MaxBatch,    \* MAX_BATCH_EVENTS
    MaxRetries   \* MAX_RETRIES

ASSUME CapsAssumption == /\ MaxPending \in Nat \ {0}
                         /\ MaxBatch \in Nat \ {0}
                         /\ MaxRetries \in Nat

InFlight == {"no", "running", "overdue"}
Throttle == {"none", "waiting", "due"}

EventQueueType(Events) ==
    [queues : [Channels -> Seq(Events)], in_flight : [Channels -> InFlight],
     retry_after : [Channels -> Throttle], retry_counts : [Channels -> 0..MaxRetries],
     cancelled : [Channels -> SUBSET Events], withheld : [Channels -> SUBSET Events],
     shed : SUBSET Events]

EmptyQueue ==
    [queues |-> [ch \in Channels |-> <<>>], in_flight |-> [ch \in Channels |-> "no"],
     retry_after |-> [ch \in Channels |-> "none"], retry_counts |-> [ch \in Channels |-> 0],
     cancelled |-> [ch \in Channels |-> {}], withheld |-> [ch \in Channels |-> {}],
     shed |-> {}]

-----------------------------------------------------------------------------
(* What the queue holds.                                                    *)

Pending(q, ch) == ToSet(q.queues[ch])

QueueHolds(q) ==
    UNION {Pending(q, ch) \cup q.cancelled[ch] \cup q.withheld[ch] : ch \in Channels}

Busy(q, ch) == q.in_flight[ch] # "no"

\* The channels flush_next may serve from their queue.
Ready(q) ==
    {ch \in Channels : q.queues[ch] # <<>> /\ ~Busy(q, ch) /\ q.retry_after[ch] # "waiting"}

\* The channels whose cancelled events may be dispatched again.
Remerging(q) == {ch \in Channels : q.cancelled[ch] # {} /\ ~Busy(q, ch)}

Oldest(q) ==
    {ch \in Ready(q) : \A d \in Ready(q) : Head(q.queues[ch]) <= Head(q.queues[d])}

-----------------------------------------------------------------------------
(* The methods.                                                             *)

\* The numbers of S in increasing order.
InOrder(S) ==
    [i \in 1..Cardinality(S) |-> CHOOSE x \in S : Cardinality({y \in S : y <= x}) = i]

\* What VecDeque::retain leaves of s when e is to go.
Retain(s, e) ==
    LET at == InOrder({i \in 1..Len(s) : s[i] # e})
    IN  [i \in 1..Len(at) |-> s[at[i]]]

\* Events go back to the front of their queue; the cap discards from the back.
PushFront(q, ch, events) ==
    LET s == InOrder(events) \o q.queues[ch]
        kept == IF Len(s) > MaxPending THEN MaxPending ELSE Len(s)
    IN  [q EXCEPT !.queues[ch] = SubSeq(s, 1, kept),
                  !.shed = @ \cup ToSet(SubSeq(s, kept + 1, Len(s)))]

Refuses(q, dedup, ch) == dedup = "drop" /\ Busy(q, ch)

\* push: at the cap the oldest pending event makes room.
Push(q, ch, e) ==
    LET s == q.queues[ch]
        full == Len(s) >= MaxPending
    IN  [q EXCEPT !.queues[ch] = Append(IF full THEN Tail(s) ELSE s, e),
                  !.shed = IF full THEN @ \cup {Head(s)} ELSE @]

\* The expiry that flush_next and has_flushable_work start with: a channel past
\* its deadline is released and the events withheld from it go back to its queue.
Expire(q) ==
    LET late == {ch \in Channels : q.in_flight[ch] = "overdue"}
        back == [ch \in Channels |-> PushFront(q, ch, q.withheld[ch])]
    IN  [q EXCEPT !.in_flight = [ch \in Channels |-> IF ch \in late THEN "no" ELSE @[ch]],
                  !.queues = [ch \in Channels |->
                                 IF ch \in late THEN back[ch].queues[ch] ELSE @[ch]],
                  !.withheld = [ch \in Channels |-> IF ch \in late THEN {} ELSE @[ch]],
                  !.shed = @ \cup UNION {back[ch].shed : ch \in late}]

HasFlushableWork(q) == Ready(q) \cup Remerging(q) # {}

HasUndispatchedWork(q) ==
    \E ch \in Channels : ~Busy(q, ch) /\ (\/ q.queues[ch] # <<>>
                                          \/ q.cancelled[ch] # {}
                                          \/ q.withheld[ch] # {})

HasInFlight(q) == \E ch \in Channels : Busy(q, ch)

\* flush_next, after the expiry: the channels it may pick, the batch, the rest.
NextChannels(q) == IF Ready(q) # {} THEN Oldest(q) ELSE Remerging(q)

Taken(q, ch) ==
    IF Len(q.queues[ch]) > MaxBatch THEN MaxBatch ELSE Len(q.queues[ch])

FlushBatch(q, ch) ==
    IF ch \in Ready(q)
    THEN [ch |-> ch, events |-> ToSet(SubSeq(q.queues[ch], 1, Taken(q, ch))),
          carried |-> q.cancelled[ch]]
    ELSE [ch |-> ch, events |-> q.cancelled[ch], carried |-> {}]

Flushed(q, ch) ==
    LET s == q.queues[ch]
    IN  [q EXCEPT !.queues[ch] = IF ch \in Ready(q) THEN SubSeq(s, Taken(q, ch) + 1, Len(s)) ELSE s,
                  !.cancelled[ch] = {},
                  !.in_flight[ch] = "running"]

\* A throttle still waiting says the batch was requeued: the count stays.
MarkComplete(q, ch) ==
    LET requeued == q.retry_after[ch] = "waiting"
    IN  [q EXCEPT !.in_flight[ch] = "no",
                  !.retry_after[ch] = IF requeued THEN @ ELSE "none",
                  !.retry_counts[ch] = IF requeued THEN @ ELSE 0]

DeadLettersLate(q, ch) == q.retry_counts[ch] > MaxRetries

\* The attempt that requeue counts exhausts the budget: the batch is returned.
DeadLetters(q, ch) == q.retry_counts[ch] + 1 > MaxRetries

Requeue(q, batch) ==
    LET ch == batch.ch
    IN  IF DeadLetters(q, ch)
        THEN [q EXCEPT !.retry_counts[ch] = 0, !.retry_after[ch] = "none"]
        ELSE [PushFront(q, ch, batch.events) EXCEPT !.retry_counts[ch] = @ + 1,
                                                    !.retry_after[ch] = "waiting"]

RequeuePreserveTimestamps(q, batch) == PushFront(q, batch.ch, batch.events)

RequeueOverCancelled(q, batch) == [q EXCEPT !.cancelled[batch.ch] = batch.events]

RequeueAsCancelled(q, batch) ==
    [q EXCEPT !.cancelled[batch.ch] = @ \cup batch.carried \cup batch.events]

DrainChannel(q, ch) ==
    [q EXCEPT !.queues[ch] = <<>>, !.retry_after[ch] = "none", !.retry_counts[ch] = 0,
              !.cancelled[ch] = {}, !.withheld[ch] = {}]

\* A successful steer grants a fresh budget, to a channel that is in flight.
ExtendInFlightDeadline(q, ch) ==
    [q EXCEPT !.in_flight[ch] = IF Busy(q, ch) THEN "running" ELSE @]

MarkCopied(q, ch, e) ==
    IF e \in Pending(q, ch) THEN [q EXCEPT !.withheld[ch] = @ \cup {e}] ELSE q

MarkNativeSteerPending(q, ch, e) ==
    IF e \in Pending(q, ch)
    THEN [q EXCEPT !.queues[ch] = RemoveFirst(@, e), !.withheld[ch] = @ \cup {e}]
    ELSE q

ReleaseNativeSteer(q, ch, e) ==
    IF e \in q.withheld[ch]
    THEN [PushFront(q, ch, {e}) EXCEPT !.withheld[ch] = @ \ {e}]
    ELSE q

RemoveEvent(q, ch, e) ==
    [q EXCEPT !.queues[ch] = Retain(@, e), !.withheld[ch] = @ \ {e}]

\* Throttles that have passed go; so does the count of a channel that is idle.
CompactExpiredState(q) ==
    LET active(ch) == q.retry_after[ch] = "waiting" \/ q.queues[ch] # <<>> \/ Busy(q, ch)
    IN  [q EXCEPT !.retry_after = [ch \in Channels |-> IF @[ch] = "due" THEN "none" ELSE @[ch]],
                  !.retry_counts = [ch \in Channels |-> IF active(ch) THEN @[ch] ELSE 0]]

-----------------------------------------------------------------------------
(* The clock.                                                               *)

ThrottleElapsed(q, ch) == [q EXCEPT !.retry_after[ch] = "due"]
DeadlinePassed(q, ch) == [q EXCEPT !.in_flight[ch] = "overdue"]
=============================================================================
