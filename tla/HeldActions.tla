----------------------------- MODULE HeldActions -----------------------------
(***************************************************************************)
(* Held destructive actions: the durable hold store                        *)
(* (swarm-runtime/src/held_action.rs), the decide engine                   *)
(* (swarm-ingest-runtime/src/ingest/perch_ops/holds.rs) and the hold sweep *)
(* (swarm-runtime/src/hold_sweep.rs), with the runtime's dispatch below    *)
(* them (swarm-runtime/src/lib.rs).                                        *)
(*                                                                         *)
(* An action that policy wants a human to decide is stored as a hold.      *)
(* Console requests claim it by compare-and-set, and the winner refuses it *)
(* or runs it through the dispatch journal; a sweep retires holds past     *)
(* their TTL and claims that stalled.  The store keeps a cache in memory,  *)
(* changed before the document on disk is replaced, so a failed write      *)
(* leaves the two apart until the next write or restart.                   *)
(*                                                                         *)
(* Abstractions.  The journal is OnceDispatch, which DispatchJournal is    *)
(* proved to implement.  Time is counted in ticks and kept relative: a     *)
(* record says how many ticks are left to its expiry and to its stall,     *)
(* which is what its absolute stamps mean at each instant.  Signatures,    *)
(* governance, policy and guards are outcomes that may go either way.      *)
(* Events published to the bridge change no hold and are left out.         *)
(***************************************************************************)
EXTENDS Naturals, FiniteSets

CONSTANTS
    Hold,        \* hold ids
    DispatchId,  \* identities the journal tells apart
    Identity,    \* Identity[h]: the identity of the action hold h is for
    Handler,     \* concurrent decide requests
    Intent,      \* nostr_intent_event_id: one per operator decision
    Grants,      \* the intents that grant; the others refuse
    TTL,         \* hold_ttl_ms, in ticks
    Stall,       \* decide_stall_ms, in ticks
    MaxCrashes,  \* bound: how often the daemon dies
    None

ASSUME IdentityAssumption == Identity \in [Hold -> DispatchId]
ASSUME TimesAssumption == TTL \in Nat \ {0} /\ Stall \in Nat \ {0}
ASSUME CrashAssumption == MaxCrashes \in Nat

VARIABLES
    up,         \* the daemon runs
    crashes,    \* how often it died
    mem,        \* mem[h]: the cached record, or None
    disk,       \* disk[h]: the document, or None
    handler,    \* decide_hold calls
    consumed,   \* identities the journal has reserved
    effects,    \* effects[d]: how often an adapter carried out d
    ran,        \* ran[h]: an adapter carried out the action under a grant of h
    cancelled   \* cancelled[h]: a decide call was dropped at its await

store == <<mem, disk>>
world == <<consumed, effects, ran, cancelled>>

\* The dispatch journal, as its callers know it.
Journal == INSTANCE OnceDispatch

vars == <<up, crashes, mem, disk, handler, consumed, effects, ran, cancelled>>

Open == {"created", "notified", "armed"}
\* `granted` is declared too, but no transition writes it.
Terminal == {"refused", "expired", "executed", "failed"}

Decision == [intent : Intent, dispatched : BOOLEAN,
             outcome : {"stalled", "refused_by_operator", "refused_late",
                        "guard_rejected", "granted_failed", "granted_simulated",
                        "granted_executed"}]
Record == [state : Open \cup Terminal \cup {"deciding"}, prior : Open \cup {None},
           intent : Intent \cup {None}, ttl : 0..TTL, stall : 0..Stall,
           decision : Decision \cup {None}, noticed : BOOLEAN]

ASSUME HeldNoneAssumption == None \notin Record /\ None \notin Decision /\ None \notin Intent

Idle == [pc |-> "idle", hold |-> None, intent |-> None, late |-> 0]

\* A freshly captured hold.
NewHold == [state |-> "created", prior |-> None, intent |-> None, ttl |-> TTL,
            stall |-> Stall, decision |-> None, noticed |-> FALSE]

Init ==
    /\ up = TRUE /\ crashes = 0
    /\ mem = [h \in Hold |-> None]
    /\ disk = [h \in Hold |-> None]
    /\ handler = [t \in Handler |-> Idle]
    /\ consumed = {}
    /\ effects = [d \in DispatchId |-> 0]
    /\ ran = [h \in Hold |-> FALSE]
    /\ cancelled = [h \in Hold |-> FALSE]

-----------------------------------------------------------------------------
(* transitions: what each operation makes of a record *)

Decidable(r) == r.state \in Open /\ r.ttl > 0

\* transitions::begin.  The claim is dated from the caller's instant, `late`
\* ticks ago.
Begun(r, i, late) ==
    [r EXCEPT !.prior = r.state, !.state = "deciding", !.intent = i,
              !.stall = IF late > Stall THEN 0 ELSE Stall - late]

\* Fault: the claim's guard abandons without looking at the record.
AbandonedBlindly(r, i) ==
    [r EXCEPT !.state = "created", !.prior = None, !.intent = None]

\* transitions::abandon, for the claim's own intent only.
Abandoned(r, i) ==
    IF r.state = "deciding" /\ r.intent = i
    THEN [r EXCEPT !.state = IF r.prior = None THEN "created" ELSE r.prior,
                   !.prior = None, !.intent = None]
    ELSE r

\* transitions::complete: unconditional.
Completed(r, decision, state) ==
    [r EXCEPT !.state = state, !.decision = decision, !.prior = None]

Due(r) == r.state \in Open /\ r.ttl = 0
\* Fault: a claim that outlived its hold is never swept.
StalledInTime(r) == r.state = "deciding" /\ r.stall = 0 /\ r.ttl > 0
Stalled(r) == r.state = "deciding" /\ r.stall = 0

Expired(r) == [r EXCEPT !.state = "expired"]

\* Fault: the sweep clears the claim before it reads whose claim it was.
FailedStalledNameless(r) ==
    Completed(r, [intent |-> None, outcome |-> "stalled", dispatched |-> FALSE],
              "failed")

\* transitions::fail_stalled: "whether the action ran is unknown".
FailedStalled(r) ==
    Completed(r, [intent |-> r.intent, outcome |-> "stalled", dispatched |-> FALSE],
              "failed")

-----------------------------------------------------------------------------
(* FileHeldActionStore *)

\* mutate: the cache changes, then the document is replaced, or is not.
Write(h, r) ==
    /\ mem' = [mem EXCEPT ![h] = r]
    /\ disk' \in {disk, [disk EXCEPT ![h] = r]}

\* create: the document is written before the record becomes visible.
Capture(h) ==
    /\ up /\ mem[h] = None
    /\ disk' = [disk EXCEPT ![h] = NewHold]
    /\ mem' = [mem EXCEPT ![h] = NewHold]
    /\ UNCHANGED <<up, crashes, handler, world>>

\* The relay accepted the notice.
MarkNotified(h) ==
    /\ up /\ mem[h] # None
    /\ Write(h, [mem[h] EXCEPT !.noticed = TRUE,
                               !.state = IF @ = "created" THEN "notified" ELSE @])
    /\ UNCHANGED <<up, crashes, handler, world>>

MarkArmed(h) ==
    /\ up /\ mem[h] # None
    /\ Write(h, [mem[h] EXCEPT !.state = IF @ = "notified" THEN "armed" ELSE @])
    /\ UNCHANGED <<up, crashes, handler, world>>

\* The case channel decides nothing, but storing it writes the whole record.
MarkCaseChannel(h) ==
    /\ up /\ mem[h] # None
    /\ Write(h, mem[h])
    /\ UNCHANGED <<up, crashes, handler, world>>

\* One pass over the store under its lock: each matching row is changed in the
\* cache and written; the pass ends at the first write that fails.
SweepPass(Matches(_), Change(_)) ==
    LET rows == {h \in Hold : mem[h] # None /\ Matches(mem[h])}
    IN  /\ up /\ rows # {}
        /\ \E written \in SUBSET rows :
              \E changed \in {written} \cup {written \cup {f} : f \in rows \ written} :
                 /\ changed # written \/ written = rows
                 /\ mem' = [h \in Hold |-> IF h \in changed THEN Change(mem[h]) ELSE mem[h]]
                 /\ disk' = [h \in Hold |-> IF h \in written THEN Change(mem[h]) ELSE disk[h]]
        /\ UNCHANGED <<up, crashes, handler, world>>

ExpireDue == SweepPass(Due, Expired)
FailStalled == SweepPass(Stalled, FailedStalled)

-----------------------------------------------------------------------------
(* decide_hold *)

Goto(t, pc) == handler' = [handler EXCEPT ![t].pc = pc]
Return(t) == handler' = [handler EXCEPT ![t] = Idle]

\* Steps 1 and 2: the hold is read and is decidable at the caller's instant,
\* and the signature and the voter are in order.  Every other answer (not
\* found, replay, conflict, expired, invalid) changes nothing.
DecideRead(t, h, i) ==
    /\ up /\ handler[t].pc = "idle"
    /\ mem[h] # None /\ Decidable(mem[h])
    /\ handler' = [handler EXCEPT ![t] = [pc |-> "read", hold |-> h, intent |-> i, late |-> 0]]
    /\ UNCHANGED <<up, crashes, store, world>>

\* Fault: the compare-and-set trusts the earlier read.
BeginUnchecked(t) ==
    LET h == handler[t].hold
        r == Begun(mem[h], handler[t].intent, handler[t].late)
    IN  /\ handler[t].pc = "read"
        /\ mem' = [mem EXCEPT ![h] = r]
        /\ disk' = [disk EXCEPT ![h] = r]
        /\ Goto(t, "claimed")
        /\ UNCHANGED <<up, crashes, world>>

\* Step 3, the compare-and-set.  The expiry check repeats the one of step 1 with
\* the same instant, so only the state can have changed.  When the document
\* cannot be written the call fails, but the cache already says deciding.
BeginDecision(t) ==
    LET h == handler[t].hold
        r == Begun(mem[h], handler[t].intent, handler[t].late)
    IN  /\ handler[t].pc = "read"
        /\ IF mem[h].state \in Open
           THEN /\ mem' = [mem EXCEPT ![h] = r]
                /\ \/ disk' = [disk EXCEPT ![h] = r] /\ Goto(t, "claimed")
                   \/ disk' = disk /\ Return(t)
           ELSE Return(t) /\ UNCHANGED store
        /\ UNCHANGED <<up, crashes, world>>

\* DecisionClaim::complete, and the end of the call.
CompleteDecision(t, outcome, dispatched, state) ==
    LET h == handler[t].hold
    IN  /\ Write(h, Completed(mem[h],
                       [intent |-> handler[t].intent, outcome |-> outcome,
                        dispatched |-> dispatched], state))
        /\ Return(t)

\* DecisionClaim::drop: a claim that is no longer this call's is left alone, and
\* nothing is written.
AbandonDecision(t) ==
    LET h == handler[t].hold
        r == Abandoned(mem[h], handler[t].intent)
    IN  /\ IF r = mem[h] THEN UNCHANGED store ELSE Write(h, r)
        /\ Return(t)

\* Step 4.
Refuse(t) ==
    /\ handler[t].pc = "claimed" /\ handler[t].intent \notin Grants
    /\ CompleteDecision(t, "refused_by_operator", FALSE, "refused")
    /\ UNCHANGED <<up, crashes, world>>

\* Steps 5 and 6 up to the dispatch: governance, policy, a guard, the missing
\* containment store or a dead lease refuses the grant after all.
RefuseLate(t) ==
    /\ handler[t].pc = "claimed" /\ handler[t].intent \in Grants
    /\ \E outcome \in {"refused_late", "guard_rejected"} :
          CompleteDecision(t, outcome, FALSE, "refused")
    /\ UNCHANGED <<up, crashes, world>>

\* The runtime returns an error before it dispatches: the guard abandons.
RuntimeFails(t) ==
    /\ handler[t].pc = "claimed" /\ handler[t].intent \in Grants
    /\ AbandonDecision(t)
    /\ UNCHANGED <<up, crashes, world>>

\* A runtime that is not in live-response mode rehearses the action: the adapter
\* answers without an effect, and the journal is not asked.
Simulate(t) ==
    /\ handler[t].pc = "claimed" /\ handler[t].intent \in Grants
    /\ \/ CompleteDecision(t, "granted_simulated", TRUE, "executed")
       \/ CompleteDecision(t, "granted_failed", TRUE, "failed")
    /\ UNCHANGED <<up, crashes, world>>

\* The journal refuses: the identity is spent, or it cannot be written, in
\* which case the identity may be spent all the same.
DispatchRefused(t) ==
    /\ handler[t].pc = "claimed" /\ handler[t].intent \in Grants
    /\ CompleteDecision(t, "granted_failed", FALSE, "failed")
    /\ consumed' \in {consumed, consumed \cup {Identity[handler[t].hold]}}
    /\ UNCHANGED <<up, crashes, effects, ran, cancelled>>

\* Fault: the hold's own claim is taken for permission enough.
DispatchUnjournaled(t) ==
    /\ handler[t].pc = "claimed" /\ handler[t].intent \in Grants
    /\ Goto(t, "adapter")
    /\ consumed' = consumed \cup {Identity[handler[t].hold]}
    /\ UNCHANGED <<up, crashes, store, effects, ran, cancelled>>

\* The journal reserves the identity and the adapter is polled.
Dispatch(t) ==
    /\ handler[t].pc = "claimed" /\ handler[t].intent \in Grants
    /\ Journal!Consume({Identity[handler[t].hold]})
    /\ Goto(t, "adapter")
    /\ UNCHANGED <<up, crashes, store, ran, cancelled>>

AdapterActs(t) ==
    LET h == handler[t].hold
    IN  /\ handler[t].pc = "adapter"
        /\ effects' = [effects EXCEPT ![Identity[h]] = @ + 1]
        /\ ran' = [ran EXCEPT ![h] = TRUE]
        /\ Goto(t, "acted")
        /\ UNCHANGED <<up, crashes, store, consumed, cancelled>>

\* Fault: an adapter error is reported as an action that was never dispatched.
CommitErrorUndispatched(t) ==
    /\ \/ /\ handler[t].pc = "acted"
          /\ CompleteDecision(t, "granted_executed", TRUE, "executed")
       \/ /\ handler[t].pc \in {"adapter", "acted"}
          /\ CompleteDecision(t, "granted_failed", FALSE, "failed")
    /\ UNCHANGED <<up, crashes, world>>

\* The adapter returned.  Success is recorded as executed; an adapter error, an
\* unrecorded completion or an unrecorded containment lease as failed.
Commit(t) ==
    /\ \/ /\ handler[t].pc = "acted"
          /\ CompleteDecision(t, "granted_executed", TRUE, "executed")
       \/ /\ handler[t].pc \in {"adapter", "acted"}
          /\ CompleteDecision(t, "granted_failed", TRUE, "failed")
    /\ UNCHANGED <<up, crashes, world>>

\* The request future is dropped at its await on the runtime.
Cancel(t) ==
    /\ handler[t].pc \in {"adapter", "acted"}
    /\ AbandonDecision(t)
    /\ cancelled' = [cancelled EXCEPT ![handler[t].hold] = TRUE]
    /\ UNCHANGED <<up, crashes, consumed, effects, ran>>

-----------------------------------------------------------------------------
(* Time, crashes and restarts *)

Less(n) == IF n = 0 THEN 0 ELSE n - 1
Aged(r) == IF r = None THEN None
           ELSE [r EXCEPT !.ttl = Less(@), !.stall = IF r.state = "deciding" THEN Less(@) ELSE @]

Tick ==
    /\ mem' = [h \in Hold |-> Aged(mem[h])]
    /\ disk' = [h \in Hold |-> Aged(disk[h])]
    /\ handler' = [t \in Handler |->
          IF handler[t].pc = "read" /\ handler[t].late < Stall
          THEN [handler[t] EXCEPT !.late = @ + 1] ELSE handler[t]]
    /\ UNCHANGED <<up, crashes, world>>

Crash ==
    /\ up /\ crashes < MaxCrashes
    /\ up' = FALSE /\ crashes' = crashes + 1
    /\ mem' = [h \in Hold |-> None]
    /\ handler' = [t \in Handler |-> Idle]
    /\ UNCHANGED <<disk, world>>

\* FileHeldActionStore::open loads every document.
Restart ==
    /\ ~up
    /\ up' = TRUE
    /\ mem' = disk
    /\ UNCHANGED <<crashes, disk, handler, world>>

-----------------------------------------------------------------------------

Next ==
    \/ \E h \in Hold :
          Capture(h) \/ MarkNotified(h) \/ MarkArmed(h) \/ MarkCaseChannel(h)
    \/ \E t \in Handler :
          \/ \E h \in Hold, i \in Intent : DecideRead(t, h, i)
          \/ BeginDecision(t) \/ Refuse(t) \/ RefuseLate(t) \/ RuntimeFails(t)
          \/ Simulate(t) \/ DispatchRefused(t) \/ Dispatch(t) \/ AdapterActs(t) \/ Commit(t) \/ Cancel(t)
    \/ ExpireDue \/ FailStalled
    \/ Tick \/ Crash \/ Restart

\* Time passes, a dead daemon is restarted, and its sweep keeps ticking.  No
\* decide call need ever finish: an adapter may hang.
Fairness == WF_vars(Tick) /\ WF_vars(Restart) /\ WF_vars(ExpireDue) /\ WF_vars(FailStalled)

Spec == Init /\ [][Next]_vars /\ Fairness

-----------------------------------------------------------------------------
(* Properties *)

\* The types of the records, the calls and the journal.
TypeOK ==
    /\ up \in BOOLEAN /\ crashes \in 0..MaxCrashes
    /\ mem \in [Hold -> Record \cup {None}]
    /\ disk \in [Hold -> Record \cup {None}]
    /\ handler \in [Handler -> [pc : {"idle", "read", "claimed", "adapter", "acted"},
                                hold : Hold \cup {None}, intent : Intent \cup {None},
                                late : 0..Stall]]
    /\ consumed \subseteq DispatchId
    /\ effects \in [DispatchId -> Nat]
    /\ ran \in [Hold -> BOOLEAN] /\ cancelled \in [Hold -> BOOLEAN]

\* The call holds a claim: it is between its compare-and-set and its outcome.
Claiming(t) == handler[t].pc \in {"claimed", "adapter", "acted"}

\* Of all the requests deciding one hold, at most one is ever past the
\* compare-and-set: whatever the sweep does to its claim meanwhile, nobody else
\* can claim.
ClaimExclusive ==
    \A t, u \in Handler :
        Claiming(t) /\ Claiming(u) /\ handler[t].hold = handler[u].hold => t = u

\* Under a live claim the hold stays claimed by that intent, or the stall sweep
\* has failed it: no expiry, notice or other request moves it.
ClaimKept ==
    \A t \in Handler : Claiming(t) =>
        LET r == mem[handler[t].hold]
        IN  /\ r # None /\ r.intent = handler[t].intent
            /\ r.state = "deciding" \/ r.state = "failed"

\* While a grant may be reaching an adapter, the document on disk is not open: a
\* daemon that dies there cannot offer the hold for a second decision.
ClaimOnDisk ==
    \A t \in Handler : Claiming(t) =>
        LET r == disk[handler[t].hold] IN r # None /\ r.state \notin Open

\* However many holds, grants, retries and restarts there are for one action, it
\* is carried out at most once.
AtMostOnce == \A d \in DispatchId : effects[d] <= 1

\* An action that ran is never forgotten: unless a decide call was dropped at
\* its await, neither the cache nor the disk has the hold open, expired or
\* refused again, through any failed write, stall or restart.
RanIsRemembered ==
    \A h \in Hold : ran[h] /\ ~cancelled[h] =>
        \A r \in {mem[h], disk[h]} :
            r # None => r.state \in {"deciding", "executed", "failed"}

\* The record tells the operator the truth about the adapter: "executed" only if
\* it acted, and "not dispatched" only if it did not, unless the record is the
\* stall sweep's, which says the outcome is unknown, or a decide call was dropped
\* at its await.
RecordIsTruthful ==
    \A h \in Hold : \A r \in {mem[h], disk[h]} :
        r # None /\ r.decision # None /\ ~cancelled[h] =>
            /\ r.decision.outcome = "granted_executed" => ran[h]
            /\ ~r.decision.dispatched /\ r.decision.outcome # "stalled" => ~ran[h]

StaysTerminal ==
    up /\ up' => \A h \in Hold :
        mem[h] # None /\ mem[h].state \in Terminal => mem'[h].state \in Terminal

\* While the daemon lives, a hold in a terminal state stays in one: an abandoned
\* claim, a late notice or the sweep never reopens it.
TerminalStays == [][StaysTerminal]_vars

\* "deciding is never absorbing": a claim ends, even one whose adapter hangs,
\* whose call died with the daemon, or that was parked by a failed write.
DecidingEnds ==
    \A h \in Hold :
        (mem[h] # None /\ mem[h].state = "deciding")
            ~> (mem[h] = None \/ mem[h].state # "deciding")

\* "No action was taken" when a hold expired, and "nothing is dispatched, ever"
\* when the operator refused it.  A dropped call breaks it (README, section 4).
NoActionTaken ==
    \A h \in Hold :
        /\ mem[h] # None
        /\ \/ mem[h].state = "expired"
           \/ mem[h].decision # None /\ mem[h].decision.outcome = "refused_by_operator"
        => ~ran[h]

-----------------------------------------------------------------------------
(* The inductive invariant *)

\* The sweep gave up on the claim and recorded that its outcome is unknown.
SweptAway(r) == r.state = "failed" /\ r.decision # None /\ r.decision.outcome = "stalled"

\* The record carries the claim of intent i.
ClaimedBy(r, i) == r # None /\ r.intent = i /\ (r.state = "deciding" \/ SweptAway(r))

\* A record that can still be decided, or is being decided, has no decision yet;
\* and a record never contradicts what the adapter did, unless a call was lost.
Sound(r, did, lost) ==
    /\ r.state \in Open \cup {"deciding"} => r.decision = None
    /\ r.state = "deciding" => r.intent \in Intent
    /\ did /\ ~lost => r.state \in {"deciding", "executed", "failed"}
    /\ r.decision # None /\ ~lost =>
         /\ r.decision.outcome = "granted_executed" => did
         /\ ~r.decision.dispatched /\ r.decision.outcome # "stalled" => ~did

StoreInv ==
    \A h \in Hold :
        /\ \A r \in {mem[h], disk[h]} : r # None => Sound(r, ran[h], cancelled[h])
        /\ up /\ mem[h] = None => disk[h] = None
        /\ disk[h] = None => ~ran[h]

CallInv ==
    \A t \in Handler :
        LET h == handler[t].hold  i == handler[t].intent
        IN  /\ handler[t].pc # "idle" =>
                 up /\ h \in Hold /\ i \in Intent /\ mem[h] # None
            /\ Claiming(t) => ClaimedBy(mem[h], i) /\ ClaimedBy(disk[h], i)
            /\ handler[t].pc = "acted" => ran[h]
            /\ handler[t].pc \in {"claimed", "adapter"} /\ ran[h] => cancelled[h]

SpentInv ==
    /\ \A d \in DispatchId : effects[d] <= 1 /\ (effects[d] > 0 => d \in consumed)
    /\ \A t \in Handler : handler[t].pc = "adapter" =>
          /\ Identity[handler[t].hold] \in consumed
          /\ effects[Identity[handler[t].hold]] = 0
    /\ \A t, u \in Handler :
          /\ handler[t].pc = "adapter" /\ handler[u].pc = "adapter"
          /\ Identity[handler[t].hold] = Identity[handler[u].hold]
          => t = u

\* Everything the store, the calls, the journal and the adapters have to do with
\* each other: what makes the claim of a decide call exclusive and durable, and
\* its record true, at every step, failed write, crash and restart.
HeldInv == TypeOK /\ StoreInv /\ CallInv /\ ClaimExclusive /\ SpentInv
=============================================================================
