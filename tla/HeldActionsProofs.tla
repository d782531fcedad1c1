-------------------------- MODULE HeldActionsProofs --------------------------
(***************************************************************************)
(* Proofs about HeldActions, for any number of holds, calls, intents and   *)
(* identities, any TTL and stall bound, and any number of crashes.         *)
(*                                                                         *)
(* HeldInv is inductive.  Most actions are of one of two shapes, each with *)
(* a lemma: a call ends by writing its hold (Closing), or the store moves  *)
(* while the calls stay (StoreMoves).                                      *)
(***************************************************************************)
EXTENDS HeldActions, TLAPS

USE HeldNoneAssumption

-----------------------------------------------------------------------------
(* What the transitions make of a record *)

\* transitions::begin moves an open record to deciding, under the claim's intent.
LEMMA BegunFacts ==
    ASSUME NEW r \in Record, NEW i \in Intent, NEW n \in 0..Stall, r.state \in Open
    PROVE  /\ Begun(r, i, n) \in Record
           /\ Begun(r, i, n).state = "deciding" /\ Begun(r, i, n).intent = i
           /\ Begun(r, i, n).decision = r.decision
<1> DEFINE left == IF n > Stall THEN 0 ELSE Stall - n
<1>1. left \in 0..Stall
  BY TimesAssumption
<1>2. Begun(r, i, n) = [r EXCEPT !.prior = r.state, !.state = "deciding", !.intent = i,
                                 !.stall = left]
  BY DEF Begun
<1> HIDE DEF left
<1> QED
  BY <1>1, <1>2 DEF Record

\* transitions::abandon reopens the claim's own record and no other.
LEMMA AbandonedFacts ==
    ASSUME NEW r \in Record, NEW i \in Intent
    PROVE  /\ Abandoned(r, i) \in Record
           /\ \/ Abandoned(r, i) = r
              \/ /\ r.state = "deciding" /\ Abandoned(r, i).state \in Open
                 /\ Abandoned(r, i).decision = r.decision
BY DEF Abandoned, Record, Open

\* transitions::complete writes the decision and the state it is given.
LEMMA CompletedFacts ==
    ASSUME NEW r \in Record, NEW d \in Decision, NEW s \in Terminal
    PROVE  /\ Completed(r, d, s) \in Record
           /\ Completed(r, d, s).state = s /\ Completed(r, d, s).decision = d
           /\ Completed(r, d, s).intent = r.intent
BY DEF Completed, Record

\* The sweep's two transitions, on the rows they match.
LEMMA ExpiredFacts ==
    ASSUME NEW r \in Record
    PROVE  /\ Expired(r) \in Record
           /\ Expired(r).state = "expired" /\ Expired(r).decision = r.decision
BY DEF Expired, Record, Terminal

\* What the stall sweep writes over a claim.
LEMMA FailedStalledFacts ==
    ASSUME NEW r \in Record, r.intent \in Intent
    PROVE  /\ FailedStalled(r) \in Record
           /\ SweptAway(FailedStalled(r)) /\ FailedStalled(r).intent = r.intent
           /\ FailedStalled(r).decision.outcome = "stalled"
<1> DEFINE d == [intent |-> r.intent, outcome |-> "stalled", dispatched |-> FALSE]
<1>1. d \in Decision
  BY DEF Decision
<1>2. "failed" \in Terminal
  BY DEF Terminal
<1> QED
  BY <1>1, <1>2, CompletedFacts DEF FailedStalled, SweptAway

\* The passing of time changes only what is left of it.
LEMMA AgedFacts ==
    ASSUME NEW r \in Record
    PROVE  /\ Aged(r) \in Record
           /\ Aged(r).state = r.state /\ Aged(r).intent = r.intent
           /\ Aged(r).decision = r.decision
<1>1. r # None
  OBVIOUS
<1>2. Less(r.ttl) \in 0..TTL /\ Less(r.stall) \in 0..Stall
  BY TimesAssumption DEF Less, Record
<1> QED
  BY <1>1, <1>2 DEF Aged, Record

-----------------------------------------------------------------------------
(* The two shapes of a step *)

\* The store moves, the calls keep their holds, intents and places.
LEMMA StoreMoves ==
    ASSUME HeldInv, UNCHANGED <<up, crashes, world>>,
           mem' \in [Hold -> Record \cup {None}],
           disk' \in [Hold -> Record \cup {None}],
           handler' \in [Handler -> [pc : {"idle", "read", "claimed", "adapter", "acted"},
                                     hold : Hold \cup {None}, intent : Intent \cup {None},
                                     late : 0..Stall]],
           \A t \in Handler : /\ handler'[t].pc = handler[t].pc
                              /\ handler'[t].hold = handler[t].hold
                              /\ handler'[t].intent = handler[t].intent,
           \A h \in Hold : /\ mem[h] # None => mem'[h] # None
                           /\ disk[h] # None => disk'[h] # None
                           /\ mem'[h] = None /\ disk[h] = None => disk'[h] = None,
           \A h \in Hold : \A r \in {mem'[h], disk'[h]} : r # None => Sound(r, ran[h], cancelled[h]),
           \A h \in Hold : \A i \in Intent :
               ClaimedBy(mem[h], i) /\ ClaimedBy(disk[h], i)
                 => ClaimedBy(mem'[h], i) /\ ClaimedBy(disk'[h], i)
    PROVE  HeldInv'
<1> USE DEF HeldInv
<1>1. TypeOK'
  BY DEF TypeOK, world
<1>2. StoreInv'
  BY DEF StoreInv, Sound, world
<1>3. CallInv'
  <2> SUFFICES ASSUME NEW t \in Handler
               PROVE  LET h == handler'[t].hold  i == handler'[t].intent
                      IN  /\ handler'[t].pc # "idle" =>
                               up' /\ h \in Hold /\ i \in Intent /\ mem'[h] # None
                          /\ handler'[t].pc \in {"claimed", "adapter", "acted"} =>
                               ClaimedBy(mem'[h], i) /\ ClaimedBy(disk'[h], i)
                          /\ handler'[t].pc = "acted" => ran'[h]
                          /\ handler'[t].pc \in {"claimed", "adapter"} /\ ran'[h] => cancelled'[h]
    BY DEF CallInv, Claiming, ClaimedBy, SweptAway
  <2> QED
    BY DEF CallInv, Claiming, world
<1>4. ClaimExclusive'
  BY DEF ClaimExclusive, Claiming
<1>5. SpentInv'
  BY DEF SpentInv, world
<1> QED
  BY <1>1, <1>2, <1>3, <1>4, <1>5

\* A call that holds a claim writes its hold and ends.
LEMMA Closing ==
    ASSUME HeldInv, NEW t \in Handler, Claiming(t), NEW r \in Record,
           Write(handler[t].hold, r), Return(t),
           Sound(r, ran[handler[t].hold], cancelled'[handler[t].hold]),
           UNCHANGED <<up, crashes, effects, ran>>,
           consumed \subseteq consumed', consumed' \subseteq DispatchId,
           cancelled' \in [Hold -> BOOLEAN],
           \A h \in Hold : cancelled[h] => cancelled'[h]
    PROVE  HeldInv'
<1> USE DEF HeldInv
<1> DEFINE g == handler[t].hold
<1>0. g \in Hold /\ mem[g] # None /\ up
  BY DEF CallInv, Claiming
<1>1. /\ mem' \in [Hold -> Record \cup {None}] /\ disk' \in [Hold -> Record \cup {None}]
      /\ mem'[g] = r /\ disk'[g] \in {disk[g], r}
      /\ \A h \in Hold \ {g} : mem'[h] = mem[h] /\ disk'[h] = disk[h]
  BY <1>0 DEF Write, TypeOK
<1>2. /\ handler'[t] = Idle
      /\ \A u \in Handler \ {t} : handler'[u] = handler[u]
      /\ handler' \in [Handler -> [pc : {"idle", "read", "claimed", "adapter", "acted"},
                                   hold : Hold \cup {None}, intent : Intent \cup {None},
                                   late : 0..Stall]]
  BY TimesAssumption DEF Return, TypeOK, Idle
<1>3. TypeOK'
  BY <1>1, <1>2 DEF TypeOK
<1>4. StoreInv'
  <2> SUFFICES ASSUME NEW h \in Hold, NEW s \in {mem'[h], disk'[h]}, s # None
               PROVE  Sound(s, ran'[h], cancelled'[h])
    <3>1. \A h \in Hold : (up' /\ mem'[h] = None => disk'[h] = None)
                          /\ (disk'[h] = None => ~ran'[h])
      BY <1>0, <1>1 DEF StoreInv
    <3> QED
      BY <3>1 DEF StoreInv, Sound
  <2>1. CASE s = r /\ h = g
    BY <2>1
  <2>2. CASE ~(s = r /\ h = g)
    <3>1. Sound(s, ran[h], cancelled[h])
      BY <1>0, <1>1, <2>2 DEF StoreInv
    <3> QED
      BY <3>1 DEF Sound, TypeOK
  <2> QED
    BY <2>1, <2>2
<1>5. \A u \in Handler \ {t} : Claiming(u) => handler[u].hold # g
  BY DEF ClaimExclusive
<1>6. CallInv'
  <2> SUFFICES ASSUME NEW u \in Handler
               PROVE  LET h == handler'[u].hold  i == handler'[u].intent
                      IN  /\ handler'[u].pc # "idle" =>
                               up' /\ h \in Hold /\ i \in Intent /\ mem'[h] # None
                          /\ handler'[u].pc \in {"claimed", "adapter", "acted"} =>
                               ClaimedBy(mem'[h], i) /\ ClaimedBy(disk'[h], i)
                          /\ handler'[u].pc = "acted" => ran'[h]
                          /\ handler'[u].pc \in {"claimed", "adapter"} /\ ran'[h] => cancelled'[h]
    BY DEF CallInv, Claiming, ClaimedBy, SweptAway
  <2>1. CASE u = t
    BY <2>1, <1>2 DEF Idle
  <2>2. CASE u # t
    BY <2>2, <1>0, <1>1, <1>2, <1>5 DEF CallInv, Claiming
  <2> QED
    BY <2>1, <2>2
<1>7. ClaimExclusive'
  BY <1>2 DEF ClaimExclusive, Claiming, Idle
<1>8. SpentInv'
  BY <1>2 DEF SpentInv, Idle
<1> QED
  BY <1>3, <1>4, <1>6, <1>7, <1>8

-----------------------------------------------------------------------------
(* One lemma per group of actions *)

\* HeldActionStore::create and the three marks touch neither a claim nor a decision.
LEMMA CaptureStep ==
    ASSUME HeldInv, NEW h \in Hold, Capture(h)
    PROVE  HeldInv'
<1>1. NewHold \in Record /\ NewHold # None /\ NewHold.state = "created" /\ NewHold.decision = None
  <2>1. TTL \in 0..TTL /\ Stall \in 0..Stall
    BY TimesAssumption
  <2>2. NewHold \in Record
    BY <2>1 DEF NewHold, Record, Open
  <2> QED
    BY <2>2 DEF NewHold
<1>2. /\ mem[h] = None /\ disk[h] = None /\ ~ran[h]
      /\ mem' = [mem EXCEPT ![h] = NewHold] /\ disk' = [disk EXCEPT ![h] = NewHold]
      /\ UNCHANGED <<up, crashes, handler, world>>
  BY DEF Capture, HeldInv, StoreInv
<1>3. /\ mem' \in [Hold -> Record \cup {None}] /\ disk' \in [Hold -> Record \cup {None}]
      /\ mem'[h] = NewHold /\ disk'[h] = NewHold
      /\ \A g \in Hold \ {h} : mem'[g] = mem[g] /\ disk'[g] = disk[g]
  BY <1>1, <1>2 DEF HeldInv, TypeOK
<1>4. Sound(NewHold, ran[h], cancelled[h])
  BY <1>1, <1>2 DEF Sound, Open
<1>5. \A g \in Hold : \A r \in {mem'[g], disk'[g]} : r # None => Sound(r, ran[g], cancelled[g])
  BY <1>3, <1>4 DEF HeldInv, StoreInv
<1>6. \A g \in Hold : \A i \in Intent :
         ClaimedBy(mem[g], i) /\ ClaimedBy(disk[g], i)
           => ClaimedBy(mem'[g], i) /\ ClaimedBy(disk'[g], i)
  BY <1>2, <1>3 DEF ClaimedBy
<1>7. \A g \in Hold : /\ mem[g] # None => mem'[g] # None
                      /\ disk[g] # None => disk'[g] # None
                      /\ mem'[g] = None /\ disk[g] = None => disk'[g] = None
  BY <1>1, <1>2, <1>3
<1> QED
  BY <1>2, <1>3, <1>5, <1>6, <1>7, StoreMoves DEF HeldInv, TypeOK

\* The marks of the relay and of the console.
LEMMA MarkStep ==
    ASSUME HeldInv, NEW h \in Hold,
           MarkNotified(h) \/ MarkArmed(h) \/ MarkCaseChannel(h)
    PROVE  HeldInv'
<1>1. mem[h] \in Record /\ mem[h] # None
  BY DEF HeldInv, TypeOK, MarkNotified, MarkArmed, MarkCaseChannel
<1>2. PICK r \in Record : /\ Write(h, r)
                          /\ r.intent = mem[h].intent /\ r.decision = mem[h].decision
                          /\ \/ r.state = mem[h].state
                             \/ r.state \in Open /\ mem[h].state \in Open
  <2>1. CASE MarkNotified(h)
    <3> DEFINE r == [mem[h] EXCEPT !.noticed = TRUE,
                       !.state = IF @ = "created" THEN "notified" ELSE @]
    <3>1. r \in Record
      BY <1>1 DEF Record, Open
    <3> QED
      BY <1>1, <2>1, <3>1 DEF MarkNotified, Record, Open
  <2>2. CASE MarkArmed(h)
    <3> DEFINE r == [mem[h] EXCEPT !.state = IF @ = "notified" THEN "armed" ELSE @]
    <3>1. r \in Record
      BY <1>1 DEF Record, Open
    <3> QED
      BY <1>1, <2>2, <3>1 DEF MarkArmed, Record, Open
  <2>3. CASE MarkCaseChannel(h)
    BY <1>1, <2>3 DEF MarkCaseChannel
  <2> QED
    BY <2>1, <2>2, <2>3
<1>3. UNCHANGED <<up, crashes, handler, world>>
  BY DEF MarkNotified, MarkArmed, MarkCaseChannel
<1>4. /\ mem' \in [Hold -> Record \cup {None}] /\ disk' \in [Hold -> Record \cup {None}]
      /\ mem'[h] = r /\ disk'[h] \in {disk[h], r}
      /\ \A g \in Hold \ {h} : mem'[g] = mem[g] /\ disk'[g] = disk[g]
  BY <1>2 DEF Write, HeldInv, TypeOK
<1>5. Sound(r, ran[h], cancelled[h])
  BY <1>1, <1>2 DEF HeldInv, StoreInv, Sound, Open
<1>6. \A g \in Hold : \A s \in {mem'[g], disk'[g]} : s # None => Sound(s, ran[g], cancelled[g])
  BY <1>4, <1>5 DEF HeldInv, StoreInv
<1>7. \A i \in Intent : ClaimedBy(mem[h], i) => ClaimedBy(r, i)
  BY <1>1, <1>2 DEF ClaimedBy, SweptAway, Open
<1>8. \A g \in Hold : \A i \in Intent :
         ClaimedBy(mem[g], i) /\ ClaimedBy(disk[g], i)
           => ClaimedBy(mem'[g], i) /\ ClaimedBy(disk'[g], i)
  BY <1>4, <1>7
<1>9. \A g \in Hold : /\ mem[g] # None => mem'[g] # None
                      /\ disk[g] # None => disk'[g] # None
                      /\ mem'[g] = None /\ disk[g] = None => disk'[g] = None
  BY <1>4
<1> QED
  BY <1>3, <1>4, <1>6, <1>8, <1>9, StoreMoves DEF HeldInv, TypeOK

\* HoldSweep::tick: expiry touches only open rows, which no call has claimed.
LEMMA ExpireStep ==
    ASSUME HeldInv, ExpireDue
    PROVE  HeldInv'
<1>1. /\ UNCHANGED <<up, crashes, handler, world>>
      /\ \A h \in Hold :
            /\ \/ mem'[h] = mem[h] /\ disk'[h] = disk[h]
               \/ /\ mem[h] # None /\ Due(mem[h])
                  /\ mem'[h] = Expired(mem[h]) /\ disk'[h] \in {disk[h], Expired(mem[h])}
      /\ mem' = [h \in Hold |-> mem'[h]] /\ disk' = [h \in Hold |-> disk'[h]]
  BY DEF ExpireDue, SweepPass
<1>2. \A h \in Hold : mem[h] # None => mem[h] \in Record
  BY DEF HeldInv, TypeOK
<1>3. \A h \in Hold : mem[h] # None /\ Due(mem[h]) =>
         /\ Expired(mem[h]) \in Record /\ Sound(Expired(mem[h]), ran[h], cancelled[h])
         /\ \A i \in Intent : ~ClaimedBy(mem[h], i)
  BY <1>2, ExpiredFacts DEF HeldInv, StoreInv, Sound, Due, Open, ClaimedBy, SweptAway
<1>4. mem' \in [Hold -> Record \cup {None}] /\ disk' \in [Hold -> Record \cup {None}]
  BY <1>1, <1>3 DEF HeldInv, TypeOK
<1>5. \A h \in Hold : /\ mem[h] # None => mem'[h] # None
                      /\ disk[h] # None => disk'[h] # None
                      /\ mem'[h] = None /\ disk[h] = None => disk'[h] = None
  BY <1>1, <1>3
<1>6. \A h \in Hold : \A r \in {mem'[h], disk'[h]} : r # None => Sound(r, ran[h], cancelled[h])
  BY <1>1, <1>3 DEF HeldInv, StoreInv
<1>7. \A h \in Hold : \A i \in Intent :
         ClaimedBy(mem[h], i) /\ ClaimedBy(disk[h], i)
           => ClaimedBy(mem'[h], i) /\ ClaimedBy(disk'[h], i)
  BY <1>1, <1>3
<1> QED
  BY <1>1, <1>4, <1>5, <1>6, <1>7, StoreMoves DEF HeldInv, TypeOK

\* HoldSweep::tick: a stalled claim becomes a failure that still names its intent.
LEMMA FailStalledStep ==
    ASSUME HeldInv, FailStalled
    PROVE  HeldInv'
<1>1. /\ UNCHANGED <<up, crashes, handler, world>>
      /\ \A h \in Hold :
            /\ \/ mem'[h] = mem[h] /\ disk'[h] = disk[h]
               \/ /\ mem[h] # None /\ Stalled(mem[h])
                  /\ mem'[h] = FailedStalled(mem[h])
                  /\ disk'[h] \in {disk[h], FailedStalled(mem[h])}
      /\ mem' = [h \in Hold |-> mem'[h]] /\ disk' = [h \in Hold |-> disk'[h]]
  BY DEF FailStalled, SweepPass
<1>2. \A h \in Hold : mem[h] # None => mem[h] \in Record
  BY DEF HeldInv, TypeOK
<1>3. ASSUME NEW h \in Hold, mem[h] # None, Stalled(mem[h])
      PROVE  /\ FailedStalled(mem[h]) \in Record /\ Sound(FailedStalled(mem[h]), ran[h], cancelled[h])
             /\ \A i \in Intent : ClaimedBy(mem[h], i) => ClaimedBy(FailedStalled(mem[h]), i)
  <2>1. mem[h].intent \in Intent /\ mem[h] \in Record
    BY <1>2, <1>3 DEF HeldInv, StoreInv, Sound, Stalled
  <2>2. /\ FailedStalled(mem[h]) \in Record
        /\ SweptAway(FailedStalled(mem[h])) /\ FailedStalled(mem[h]).intent = mem[h].intent
        /\ FailedStalled(mem[h]).decision.outcome = "stalled"
    BY <2>1, FailedStalledFacts
  <2>3. Sound(FailedStalled(mem[h]), ran[h], cancelled[h])
    BY <2>2 DEF Sound, SweptAway, Open
  <2> QED
    BY <2>2, <2>3 DEF ClaimedBy
<1>4. mem' \in [Hold -> Record \cup {None}] /\ disk' \in [Hold -> Record \cup {None}]
  BY <1>1, <1>3 DEF HeldInv, TypeOK
<1>5. \A h \in Hold : /\ mem[h] # None => mem'[h] # None
                      /\ disk[h] # None => disk'[h] # None
                      /\ mem'[h] = None /\ disk[h] = None => disk'[h] = None
  BY <1>1, <1>3
<1>6. \A h \in Hold : \A r \in {mem'[h], disk'[h]} : r # None => Sound(r, ran[h], cancelled[h])
  BY <1>1, <1>3 DEF HeldInv, StoreInv
<1>7. \A h \in Hold : \A i \in Intent :
         ClaimedBy(mem[h], i) /\ ClaimedBy(disk[h], i)
           => ClaimedBy(mem'[h], i) /\ ClaimedBy(disk'[h], i)
  BY <1>1, <1>3
<1> QED
  BY <1>1, <1>4, <1>5, <1>6, <1>7, StoreMoves DEF HeldInv, TypeOK

\* Time passes.
LEMMA TickStep ==
    ASSUME HeldInv, Tick
    PROVE  HeldInv'
<1>1. \A r \in Record \cup {None} :
         /\ Aged(r) \in Record \cup {None}
         /\ r = None => Aged(r) = None
         /\ r # None => /\ Aged(r) # None /\ Aged(r).state = r.state
                        /\ Aged(r).intent = r.intent /\ Aged(r).decision = r.decision
  BY AgedFacts DEF Aged
<1>2. /\ mem \in [Hold -> Record \cup {None}] /\ disk \in [Hold -> Record \cup {None}]
      /\ mem' = [h \in Hold |-> Aged(mem[h])] /\ disk' = [h \in Hold |-> Aged(disk[h])]
      /\ UNCHANGED <<up, crashes, world>>
  BY DEF Tick, HeldInv, TypeOK
<1>3. mem' \in [Hold -> Record \cup {None}] /\ disk' \in [Hold -> Record \cup {None}]
  BY <1>1, <1>2
<1>4. \A h \in Hold : /\ mem[h] # None => mem'[h] # None
                      /\ disk[h] # None => disk'[h] # None
                      /\ mem'[h] = None /\ disk[h] = None => disk'[h] = None
  BY <1>1, <1>2
<1>5. \A h \in Hold : \A r \in {mem'[h], disk'[h]} : r # None => Sound(r, ran[h], cancelled[h])
  BY <1>1, <1>2 DEF HeldInv, StoreInv, Sound
<1>6. \A h \in Hold : \A i \in Intent :
         ClaimedBy(mem[h], i) /\ ClaimedBy(disk[h], i)
           => ClaimedBy(mem'[h], i) /\ ClaimedBy(disk'[h], i)
  BY <1>1, <1>2 DEF ClaimedBy, SweptAway
<1>7. /\ handler' \in [Handler -> [pc : {"idle", "read", "claimed", "adapter", "acted"},
                                   hold : Hold \cup {None}, intent : Intent \cup {None},
                                   late : 0..Stall]]
      /\ \A t \in Handler : /\ handler'[t].pc = handler[t].pc
                            /\ handler'[t].hold = handler[t].hold
                            /\ handler'[t].intent = handler[t].intent
  BY TimesAssumption DEF Tick, HeldInv, TypeOK
<1> QED
  BY <1>2, <1>3, <1>4, <1>5, <1>6, <1>7, StoreMoves

\* decide_hold, steps 1 and 2: a call that has only read its hold claims nothing.
LEMMA DecideReadStep ==
    ASSUME HeldInv, NEW t \in Handler, NEW h \in Hold, NEW i \in Intent, DecideRead(t, h, i)
    PROVE  HeldInv'
<1>1. /\ UNCHANGED <<up, crashes, mem, disk, consumed, effects, ran, cancelled>>
      /\ up /\ mem[h] # None /\ handler[t].pc = "idle"
      /\ handler' = [handler EXCEPT ![t] = [pc |-> "read", hold |-> h, intent |-> i, late |-> 0]]
  BY DEF DecideRead, store, world
<1>2. TypeOK'
  BY <1>1, TimesAssumption DEF HeldInv, TypeOK
<1>3. /\ handler'[t] = [pc |-> "read", hold |-> h, intent |-> i, late |-> 0]
      /\ \A u \in Handler \ {t} : handler'[u] = handler[u]
  BY <1>1 DEF HeldInv, TypeOK
<1>4. StoreInv'
  BY <1>1 DEF HeldInv, StoreInv, Sound
<1>5. CallInv'
  BY <1>1, <1>3 DEF HeldInv, CallInv, Claiming, ClaimedBy, SweptAway
<1>6. ClaimExclusive' /\ SpentInv'
  BY <1>1, <1>3 DEF HeldInv, ClaimExclusive, Claiming, SpentInv
<1> QED
  BY <1>2, <1>4, <1>5, <1>6 DEF HeldInv

\* DecisionClaim::begin: an open record is claimed by no other call.
LEMMA BeginStep ==
    ASSUME HeldInv, NEW t \in Handler, BeginDecision(t)
    PROVE  HeldInv'
<1> DEFINE h == handler[t].hold
           i == handler[t].intent
           r == Begun(mem[h], i, handler[t].late)
<1>0. /\ up /\ h \in Hold /\ i \in Intent /\ mem[h] # None /\ mem[h] \in Record
      /\ handler[t].late \in 0..Stall /\ handler[t].pc = "read"
      /\ UNCHANGED <<up, crashes, consumed, effects, ran, cancelled>>
  BY DEF BeginDecision, HeldInv, CallInv, TypeOK, world
<1>1. CASE mem[h].state \notin Open
  <2>1. UNCHANGED <<mem, disk>> /\ handler' = [handler EXCEPT ![t] = Idle]
    BY <1>1 DEF BeginDecision, Return, store
  <2>2. TypeOK'
    BY <1>0, <2>1, TimesAssumption DEF HeldInv, TypeOK, Idle
  <2>3. handler'[t] = Idle /\ \A u \in Handler \ {t} : handler'[u] = handler[u]
    BY <2>1 DEF HeldInv, TypeOK
  <2>4. StoreInv'
    BY <1>0, <2>1 DEF HeldInv, StoreInv, Sound
  <2>5. CallInv'
    BY <1>0, <2>1, <2>3 DEF HeldInv, CallInv, Claiming, ClaimedBy, SweptAway, Idle
  <2>6. ClaimExclusive' /\ SpentInv'
    BY <1>0, <2>3 DEF HeldInv, ClaimExclusive, Claiming, SpentInv, Idle
  <2> QED
    BY <2>2, <2>4, <2>5, <2>6 DEF HeldInv
<1>2. CASE mem[h].state \in Open
  <2>1. /\ r \in Record /\ r # None /\ r.state = "deciding" /\ r.intent = i
        /\ r.decision = None
    BY <1>0, <1>2, BegunFacts DEF HeldInv, StoreInv, Sound
  <2> HIDE DEF r
  <2>2. /\ mem' = [mem EXCEPT ![h] = r]
        /\ \/ disk' = [disk EXCEPT ![h] = r] /\ handler' = [handler EXCEPT ![t].pc = "claimed"]
           \/ disk' = disk /\ handler' = [handler EXCEPT ![t] = Idle]
    BY <1>2 DEF BeginDecision, Goto, Return, r
  <2>3. /\ mem' \in [Hold -> Record \cup {None}] /\ disk' \in [Hold -> Record \cup {None}]
        /\ mem'[h] = r
        /\ \A g \in Hold \ {h} : mem'[g] = mem[g] /\ disk'[g] = disk[g]
        /\ disk'[h] \in {disk[h], r}
    BY <1>0, <2>1, <2>2 DEF HeldInv, TypeOK
  <2>4. handler' \in [Handler -> [pc : {"idle", "read", "claimed", "adapter", "acted"},
                                  hold : Hold \cup {None}, intent : Intent \cup {None},
                                  late : 0..Stall]]
    BY <2>2, TimesAssumption DEF HeldInv, TypeOK, Idle
  <2>5. TypeOK'
    BY <1>0, <2>3, <2>4 DEF HeldInv, TypeOK
  <2>6. /\ \A u \in Handler \ {t} : handler'[u] = handler[u]
        /\ \/ handler'[t] = Idle
           \/ /\ handler'[t].pc = "claimed" /\ handler'[t].hold = h /\ handler'[t].intent = i
              /\ disk'[h] = r
    BY <1>0, <2>2 DEF HeldInv, TypeOK
  <2>7. \A u \in Handler : ~(Claiming(u) /\ handler[u].hold = h)
    BY <1>2 DEF HeldInv, CallInv, ClaimedBy, SweptAway, Open
  <2>8. ~(ran[h] /\ ~cancelled[h])
    BY <1>0, <1>2 DEF HeldInv, StoreInv, Sound, Open
  <2>9. StoreInv'
    <3>1. Sound(r, ran[h], cancelled[h])
      BY <1>0, <2>1, <2>8 DEF Sound
    <3>2. \A g \in Hold : \A s \in {mem'[g], disk'[g]} : s # None => Sound(s, ran[g], cancelled[g])
      BY <2>3, <3>1 DEF HeldInv, StoreInv
    <3>3. \A g \in Hold : \A s \in {mem'[g], disk'[g]} : s # None => Sound(s, ran'[g], cancelled'[g])
      BY <1>0, <3>2 DEF Sound
    <3>4. \A g \in Hold : (up' /\ mem'[g] = None => disk'[g] = None)
                          /\ (disk'[g] = None => ~ran'[g])
      BY <1>0, <2>1, <2>3 DEF HeldInv, StoreInv
    <3> QED
      BY <3>3, <3>4 DEF StoreInv, Sound
  <2>10. CallInv'
    <3> SUFFICES ASSUME NEW u \in Handler
                 PROVE  LET hh == handler'[u].hold  ii == handler'[u].intent
                        IN  /\ handler'[u].pc # "idle" =>
                                 up' /\ hh \in Hold /\ ii \in Intent /\ mem'[hh] # None
                            /\ handler'[u].pc \in {"claimed", "adapter", "acted"} =>
                                 ClaimedBy(mem'[hh], ii) /\ ClaimedBy(disk'[hh], ii)
                            /\ handler'[u].pc = "acted" => ran'[hh]
                            /\ handler'[u].pc \in {"claimed", "adapter"} /\ ran'[hh]
                                 => cancelled'[hh]
      BY DEF CallInv, Claiming, ClaimedBy, SweptAway
    <3>1. CASE u = t
      <4>1. ClaimedBy(r, i)
        BY <2>1 DEF ClaimedBy
      <4> QED
        BY <1>0, <2>1, <2>3, <2>6, <2>8, <3>1, <4>1 DEF Idle
    <3>2. CASE u # t
      BY <1>0, <2>1, <2>3, <2>6, <2>7, <3>2 DEF HeldInv, CallInv, Claiming
    <3> QED
      BY <3>1, <3>2
  <2>11. ClaimExclusive'
    BY <2>6, <2>7 DEF HeldInv, ClaimExclusive, Claiming, Idle
  <2>12. SpentInv'
    BY <1>0, <2>6 DEF HeldInv, SpentInv, Idle
  <2> QED
    BY <2>5, <2>9, <2>10, <2>11, <2>12 DEF HeldInv
<1> QED
  BY <1>1, <1>2

\* CompleteDecision ends a call: the record it writes is sound as long as what it
\* says of the adapter is.
LEMMA CompleteStep ==
    ASSUME HeldInv, NEW t \in Handler, Claiming(t),
           NEW o \in {"refused_by_operator", "refused_late", "guard_rejected",
                      "granted_failed", "granted_simulated", "granted_executed"},
           NEW b \in BOOLEAN, NEW s \in Terminal,
           CompleteDecision(t, o, b, s),
           UNCHANGED <<up, crashes, effects, ran, cancelled>>,
           consumed \subseteq consumed', consumed' \subseteq DispatchId,
           s \in {"executed", "failed"} \/ handler[t].pc = "claimed",
           o = "granted_executed" => handler[t].pc = "acted",
           ~b => handler[t].pc = "claimed"
    PROVE  HeldInv'
<1> DEFINE h == handler[t].hold
           d == [intent |-> handler[t].intent, outcome |-> o, dispatched |-> b]
           r == Completed(mem[h], d, s)
<1>1. /\ h \in Hold /\ mem[h] # None /\ mem[h] \in Record /\ handler[t].intent \in Intent
      /\ handler[t].pc = "acted" => ran[h]
      /\ handler[t].pc = "claimed" /\ ran[h] => cancelled[h]
  BY DEF HeldInv, CallInv, Claiming, TypeOK
<1>2. d \in Decision /\ d.outcome = o /\ d.dispatched = b
  BY <1>1 DEF Decision
<1>3. r \in Record /\ r.state = s /\ r.decision = d
  BY <1>1, <1>2, CompletedFacts
<1>4. Sound(r, ran[h], cancelled[h])
  BY <1>1, <1>2, <1>3 DEF Sound, Open, Terminal
<1>5. Write(h, r) /\ Return(t)
  BY DEF CompleteDecision
<1>6. cancelled' \in [Hold -> BOOLEAN]
  BY DEF HeldInv, TypeOK
<1> HIDE DEF r
<1> QED
  BY <1>3, <1>4, <1>5, <1>6, Closing

\* DecisionClaim::drop: the hold is decidable again, or is left alone.
LEMMA AbandonStep ==
    ASSUME HeldInv, NEW t \in Handler, Claiming(t), AbandonDecision(t),
           UNCHANGED <<up, crashes, consumed, effects, ran>>,
           cancelled' \in [Hold -> BOOLEAN],
           \A h \in Hold : cancelled[h] => cancelled'[h],
           handler[t].pc = "claimed" \/ cancelled'[handler[t].hold]
    PROVE  HeldInv'
<1> DEFINE h == handler[t].hold
           r == Abandoned(mem[h], handler[t].intent)
<1>1. /\ h \in Hold /\ mem[h] # None /\ mem[h] \in Record /\ handler[t].intent \in Intent
      /\ handler[t].pc = "claimed" /\ ran[h] => cancelled[h]
      /\ Sound(mem[h], ran[h], cancelled[h])
  BY DEF HeldInv, CallInv, StoreInv, Claiming, TypeOK
<1>2. /\ r \in Record
      /\ \/ r = mem[h]
         \/ mem[h].state = "deciding" /\ r.state \in Open /\ r.decision = mem[h].decision
  BY <1>1, AbandonedFacts
<1>3. Return(t) /\ Write(h, r)
  BY <1>1, <1>2 DEF AbandonDecision, Write, store, HeldInv, TypeOK
<1>4. Sound(r, ran[h], cancelled'[h])
  BY <1>1, <1>2 DEF Sound, Open, HeldInv, TypeOK
<1>5. consumed \subseteq consumed' /\ consumed' \subseteq DispatchId
  BY DEF HeldInv, TypeOK
<1> HIDE DEF r
<1> QED
  BY <1>2, <1>3, <1>4, <1>5, Closing

\* Every way a decide call ends, after it claimed its hold.
LEMMA OutcomeStep ==
    ASSUME HeldInv, NEW t \in Handler,
           \/ Refuse(t) \/ RefuseLate(t) \/ RuntimeFails(t) \/ Simulate(t)
           \/ DispatchRefused(t) \/ Commit(t) \/ Cancel(t)
    PROVE  HeldInv'
<1>1. Claiming(t) /\ handler[t].hold \in Hold
  BY DEF HeldInv, CallInv, Claiming, Refuse, RefuseLate, RuntimeFails, Simulate,
         DispatchRefused, Commit, Cancel
<1>2. /\ consumed \subseteq DispatchId /\ cancelled \in [Hold -> BOOLEAN]
      /\ Identity[handler[t].hold] \in DispatchId
  BY <1>1, IdentityAssumption DEF HeldInv, TypeOK
<1>3. {"refused", "executed", "failed"} \subseteq Terminal
  BY DEF Terminal
<1>4. CASE Refuse(t)
  BY <1>1, <1>2, <1>3, <1>4, CompleteStep DEF Refuse, world
<1>5. CASE RefuseLate(t)
  BY <1>1, <1>2, <1>3, <1>5, CompleteStep DEF RefuseLate, world
<1>6. CASE RuntimeFails(t)
  BY <1>1, <1>2, <1>6, AbandonStep DEF RuntimeFails, world
<1>7. CASE Simulate(t)
  BY <1>1, <1>2, <1>3, <1>7, CompleteStep DEF Simulate, world
<1>8. CASE DispatchRefused(t)
  BY <1>1, <1>2, <1>3, <1>8, CompleteStep DEF DispatchRefused
<1>9. CASE Commit(t)
  BY <1>1, <1>2, <1>3, <1>9, CompleteStep DEF Commit, world
<1>10. CASE Cancel(t)
  <2>1. /\ AbandonDecision(t) /\ UNCHANGED <<up, crashes, consumed, effects, ran>>
        /\ cancelled' = [cancelled EXCEPT ![handler[t].hold] = TRUE]
    BY <1>10 DEF Cancel
  <2> QED
    BY <1>1, <1>2, <2>1, AbandonStep
<1> QED
  BY <1>4, <1>5, <1>6, <1>7, <1>8, <1>9, <1>10

\* dispatch_once up to the adapter: the identity was not spent, so no other call
\* is at its adapter with it, and it has had no effect.
LEMMA DispatchStep ==
    ASSUME HeldInv, NEW t \in Handler, Dispatch(t)
    PROVE  HeldInv'
<1> DEFINE d == Identity[handler[t].hold]
<1>1. /\ handler[t].pc = "claimed" /\ d \notin consumed
      /\ consumed' = consumed \cup {d} /\ handler' = [handler EXCEPT ![t].pc = "adapter"]
      /\ UNCHANGED <<up, crashes, mem, disk, effects, ran, cancelled>>
  BY DEF Dispatch, Journal!Consume, Goto, store
<1>2. handler[t].hold \in Hold /\ d \in DispatchId
  BY <1>1, IdentityAssumption DEF HeldInv, CallInv
<1>3. TypeOK'
  BY <1>1, <1>2 DEF HeldInv, TypeOK
<1>4. /\ \A u \in Handler : /\ handler'[u].hold = handler[u].hold
                            /\ handler'[u].intent = handler[u].intent
      /\ \A u \in Handler \ {t} : handler'[u].pc = handler[u].pc
      /\ handler'[t].pc = "adapter"
  BY <1>1 DEF HeldInv, TypeOK
<1>5. StoreInv'
  BY <1>1 DEF HeldInv, StoreInv
<1>6. CallInv'
  BY <1>1, <1>4 DEF HeldInv, CallInv, Claiming, ClaimedBy, SweptAway
<1>7. ClaimExclusive'
  BY <1>1, <1>4 DEF HeldInv, ClaimExclusive, Claiming
<1>8. SpentInv'
  <2>1. effects[d] = 0
    BY <1>1, <1>2 DEF HeldInv, SpentInv, TypeOK
  <2> HIDE DEF d
  <2>2. \A u \in Handler \ {t} : handler[u].pc = "adapter" => Identity[handler[u].hold] # d
    BY <1>1 DEF HeldInv, SpentInv
  <2> QED
    BY <1>1, <1>4, <2>1, <2>2 DEF HeldInv, SpentInv, d
<1> QED
  BY <1>3, <1>5, <1>6, <1>7, <1>8 DEF HeldInv

\* The adapter acts: nobody else acts for this identity, and the record of the
\* hold still carries this call's claim, in the cache and on disk.
LEMMA AdapterStep ==
    ASSUME HeldInv, NEW t \in Handler, AdapterActs(t)
    PROVE  HeldInv'
<1> DEFINE h == handler[t].hold
           d == Identity[h]
<1>1. /\ handler[t].pc = "adapter" /\ handler' = [handler EXCEPT ![t].pc = "acted"]
      /\ effects' = [effects EXCEPT ![d] = @ + 1] /\ ran' = [ran EXCEPT ![h] = TRUE]
      /\ UNCHANGED <<up, crashes, mem, disk, consumed, cancelled>>
  BY DEF AdapterActs, Goto, store
<1>2. /\ h \in Hold /\ d \in DispatchId /\ handler[t].intent \in Intent
      /\ ClaimedBy(mem[h], handler[t].intent) /\ ClaimedBy(disk[h], handler[t].intent)
  BY <1>1, IdentityAssumption DEF HeldInv, CallInv, Claiming
<1>3. /\ effects[d] = 0 /\ d \in consumed
      /\ \A u \in Handler \ {t} : handler[u].pc = "adapter" => Identity[handler[u].hold] # d
  BY <1>1 DEF HeldInv, SpentInv
<1>4. TypeOK'
  BY <1>1, <1>2 DEF HeldInv, TypeOK
<1>5. /\ \A u \in Handler : /\ handler'[u].hold = handler[u].hold
                            /\ handler'[u].intent = handler[u].intent
      /\ \A u \in Handler \ {t} : handler'[u].pc = handler[u].pc
      /\ handler'[t].pc = "acted"
  BY <1>1 DEF HeldInv, TypeOK
<1>6. /\ effects'[d] = 1 /\ \A e \in DispatchId \ {d} : effects'[e] = effects[e]
      /\ ran'[h] /\ \A g \in Hold \ {h} : ran'[g] = ran[g]
  <2>1. /\ effects'[d] = effects[d] + 1
        /\ \A e \in DispatchId \ {d} : effects'[e] = effects[e]
    BY <1>1, <1>2 DEF HeldInv, TypeOK
  <2>2. ran'[h] /\ \A g \in Hold \ {h} : ran'[g] = ran[g]
    BY <1>1, <1>2, Zenon DEF HeldInv, TypeOK
  <2> QED
    BY <1>3, <2>1, <2>2
<1>7. StoreInv'
  <2>1. \A r \in {mem[h], disk[h]} : Sound(r, TRUE, cancelled[h])
    BY <1>2 DEF HeldInv, StoreInv, Sound, ClaimedBy, SweptAway, Open
  <2>2. disk[h] # None
    BY <1>2 DEF ClaimedBy
  <2> QED
    <3> SUFFICES ASSUME NEW g \in Hold
                 PROVE  /\ \A r \in {mem[g], disk[g]} :
                              r # None => Sound(r, ran'[g], cancelled[g])
                        /\ up /\ mem[g] = None => disk[g] = None
                        /\ disk[g] = None => ~ran'[g]
      BY <1>1 DEF StoreInv
    <3>1. CASE g = h
      <4>1. \A r \in {mem[h], disk[h]} : Sound(r, ran'[h], cancelled[h])
        BY <1>6, <2>1 DEF Sound
      <4> QED
        BY <3>1, <4>1, <2>2 DEF HeldInv, StoreInv
    <3>2. CASE g # h
      BY <1>6, <3>2 DEF HeldInv, StoreInv
    <3> QED
      BY <3>1, <3>2
<1>8. CallInv'
  <2>1. \A u \in Handler \ {t} : Claiming(u) => handler[u].hold # h
    BY <1>1 DEF HeldInv, ClaimExclusive, Claiming
  <2>2. \A u \in Handler : handler'[u].pc # "idle" => handler[u].pc # "idle"
    BY <1>1, <1>5
  <2>3. \A u \in Handler : Claiming(u)' => Claiming(u)
    BY <1>1, <1>5 DEF Claiming
  <2> SUFFICES ASSUME NEW u \in Handler
               PROVE  LET k == handler[u].hold  i == handler[u].intent
                      IN  /\ handler'[u].pc # "idle" =>
                               up /\ k \in Hold /\ i \in Intent /\ mem[k] # None
                          /\ Claiming(u)' => ClaimedBy(mem[k], i) /\ ClaimedBy(disk[k], i)
                          /\ handler'[u].pc = "acted" => ran'[k]
                          /\ handler'[u].pc \in {"claimed", "adapter"} /\ ran'[k] => cancelled[k]
    BY <1>1, <1>5 DEF CallInv, ClaimedBy, SweptAway
  <2>4. CASE u = t
    BY <1>2, <1>5, <1>6, <2>2, <2>3, <2>4 DEF HeldInv, CallInv
  <2>5. CASE u # t
    <3>1. handler'[u].pc = handler[u].pc
      BY <1>5, <2>5
    <3>2. handler[u].pc # "idle" => handler[u].hold \in Hold
      BY DEF HeldInv, CallInv
    <3>3. handler[u].pc \in {"claimed", "adapter", "acted"} =>
             ran'[handler[u].hold] = ran[handler[u].hold]
      BY <1>6, <2>1, <2>5, <3>2 DEF Claiming
    <3> QED
      BY <2>2, <2>3, <3>1, <3>3 DEF HeldInv, CallInv
  <2> QED
    BY <2>4, <2>5
<1>9. ClaimExclusive'
  BY <1>1, <1>5 DEF HeldInv, ClaimExclusive, Claiming
<1>10. SpentInv'
  <2>1. \A u \in Handler : handler'[u].pc = "adapter" =>
           u # t /\ handler[u].pc = "adapter" /\ Identity[handler[u].hold] # d
    BY <1>3, <1>5
  <2>2. \A u \in Handler : handler[u].pc = "adapter" => Identity[handler[u].hold] \in DispatchId
    BY IdentityAssumption DEF HeldInv, CallInv
  <2>3. \A e \in DispatchId : effects'[e] <= 1 /\ (effects'[e] > 0 => e \in consumed)
    BY <1>3, <1>6 DEF HeldInv, SpentInv
  <2> HIDE DEF d
  <2> QED
    BY <1>1, <1>5, <1>6, <2>1, <2>2, <2>3 DEF HeldInv, SpentInv
<1> QED
  BY <1>4, <1>7, <1>8, <1>9, <1>10 DEF HeldInv

\* A dead daemon has no calls; a restarted one believes its documents.
LEMMA CrashStep ==
    ASSUME HeldInv, Crash \/ Restart
    PROVE  HeldInv'
<1>1. CASE Crash
  <2>1. /\ up' = FALSE /\ mem' = [h \in Hold |-> None] /\ handler' = [t \in Handler |-> Idle]
        /\ UNCHANGED <<disk, consumed, effects, ran, cancelled>>
        /\ up /\ crashes < MaxCrashes /\ crashes' = crashes + 1
    BY <1>1 DEF Crash, world
  <2>2. TypeOK'
    <3>1. crashes' \in 0..MaxCrashes
      BY <2>1, CrashAssumption DEF HeldInv, TypeOK
    <3>2. Idle \in [pc : {"idle", "read", "claimed", "adapter", "acted"},
                    hold : Hold \cup {None}, intent : Intent \cup {None}, late : 0..Stall]
      BY TimesAssumption DEF Idle
    <3> HIDE DEF Idle
    <3> QED
      BY <2>1, <3>1, <3>2 DEF HeldInv, TypeOK
  <2>3. StoreInv'
    BY <2>1 DEF HeldInv, StoreInv
  <2>4. CallInv' /\ ClaimExclusive' /\ SpentInv'
    BY <2>1 DEF HeldInv, CallInv, ClaimExclusive, Claiming, SpentInv, Idle
  <2> QED
    BY <2>2, <2>3, <2>4 DEF HeldInv
<1>2. CASE Restart
  <2>1. /\ ~up /\ up' = TRUE /\ mem' = disk
        /\ UNCHANGED <<crashes, disk, handler, consumed, effects, ran, cancelled>>
    BY <1>2 DEF Restart, world
  <2>2. \A t \in Handler : handler[t].pc = "idle"
    BY <2>1 DEF HeldInv, CallInv, TypeOK
  <2>3. TypeOK'
    BY <2>1 DEF HeldInv, TypeOK
  <2>4. StoreInv'
    BY <2>1 DEF HeldInv, StoreInv
  <2>5. CallInv' /\ ClaimExclusive' /\ SpentInv'
    BY <2>1, <2>2 DEF HeldInv, CallInv, ClaimExclusive, Claiming, SpentInv
  <2> QED
    BY <2>3, <2>4, <2>5 DEF HeldInv
<1> QED
  BY <1>1, <1>2

-----------------------------------------------------------------------------
(* Theorems *)

\* HeldInv is an invariant: the store, the calls, the journal and the adapters
\* agree at every step of every schedule.
THEOREM HeldInvariant == Spec => []HeldInv
<1>1. Init => HeldInv
  <2> SUFFICES ASSUME Init PROVE HeldInv
    OBVIOUS
  <2>1. TypeOK
    BY TimesAssumption, CrashAssumption DEF Init, TypeOK, Idle
  <2>2. StoreInv /\ CallInv /\ ClaimExclusive
    BY DEF Init, StoreInv, CallInv, ClaimExclusive, Claiming, Idle
  <2>3. SpentInv
    BY DEF Init, SpentInv, Idle
  <2> QED
    BY <2>1, <2>2, <2>3 DEF HeldInv
<1>2. HeldInv /\ [Next]_vars => HeldInv'
  <2> SUFFICES ASSUME HeldInv, [Next]_vars PROVE HeldInv'
    OBVIOUS
  <2>1. CASE UNCHANGED vars
    <3>1. UNCHANGED <<up, crashes, mem, disk, handler, consumed, effects, ran, cancelled>>
      BY <2>1 DEF vars
    <3> QED
      BY <3>1 DEF HeldInv, TypeOK, StoreInv, CallInv, ClaimExclusive, Claiming, ClaimedBy,
                  SweptAway, SpentInv
  <2>2. CASE \E h \in Hold :
                Capture(h) \/ MarkNotified(h) \/ MarkArmed(h) \/ MarkCaseChannel(h)
    BY <2>2, CaptureStep, MarkStep
  <2>3. CASE \E t \in Handler : \E h \in Hold, i \in Intent : DecideRead(t, h, i)
    BY <2>3, DecideReadStep
  <2>4. CASE \E t \in Handler : BeginDecision(t)
    BY <2>4, BeginStep
  <2>5. CASE \E t \in Handler : \/ Refuse(t) \/ RefuseLate(t) \/ RuntimeFails(t) \/ Simulate(t)
                                \/ DispatchRefused(t) \/ Commit(t) \/ Cancel(t)
    BY <2>5, OutcomeStep
  <2>6. CASE \E t \in Handler : Dispatch(t) \/ AdapterActs(t)
    BY <2>6, DispatchStep, AdapterStep
  <2>7. CASE ExpireDue \/ FailStalled \/ Tick
    BY <2>7, ExpireStep, FailStalledStep, TickStep
  <2>8. CASE Crash \/ Restart
    BY <2>8, CrashStep
  <2> QED
    BY <2>1, <2>2, <2>3, <2>4, <2>5, <2>6, <2>7, <2>8 DEF Next
<1> QED
  BY <1>1, <1>2, PTL DEF Spec

\* Of all the requests deciding one hold, at most one is past the compare-and-set.
THEOREM ClaimsAreExclusive == Spec => []ClaimExclusive
<1>1. HeldInv => ClaimExclusive
  BY DEF HeldInv
<1> QED
  BY <1>1, HeldInvariant, PTL

\* No expiry, notice or other request moves a hold under a live claim.
THEOREM ClaimsAreKept == Spec => []ClaimKept
<1>1. HeldInv => ClaimKept
  BY DEF HeldInv, CallInv, ClaimKept, ClaimedBy, SweptAway
<1> QED
  BY <1>1, HeldInvariant, PTL

\* A daemon that dies while a grant may be reaching an adapter cannot offer the
\* hold for a second decision.
THEOREM ClaimsAreDurable == Spec => []ClaimOnDisk
<1>1. HeldInv => ClaimOnDisk
  BY DEF HeldInv, CallInv, ClaimOnDisk, ClaimedBy, SweptAway, Open
<1> QED
  BY <1>1, HeldInvariant, PTL

\* However many holds, grants and restarts there are for one action, it is
\* carried out at most once.
THEOREM HeldAtMostOnce == Spec => []AtMostOnce
<1>1. HeldInv => AtMostOnce
  BY DEF HeldInv, SpentInv, AtMostOnce
<1> QED
  BY <1>1, HeldInvariant, PTL

\* An action that ran is never open, expired or refused again, unless a decide
\* call was dropped at its await.
THEOREM RunsAreRemembered == Spec => []RanIsRemembered
<1>1. HeldInv => RanIsRemembered
  BY DEF HeldInv, StoreInv, Sound, RanIsRemembered
<1> QED
  BY <1>1, HeldInvariant, PTL

\* The decision record tells the operator the truth about the adapter, with the
\* same exception.
THEOREM RecordsAreTruthful == Spec => []RecordIsTruthful
<1>1. HeldInv => RecordIsTruthful
  BY DEF HeldInv, StoreInv, Sound, RecordIsTruthful
<1> QED
  BY <1>1, HeldInvariant, PTL

\* A write moves a terminal record only to another terminal state.
LEMMA TerminalWrite ==
    ASSUME NEW h \in Hold, TypeOK, NEW r, Write(h, r), r.state \in Terminal,
           NEW g \in Hold, mem[g].state \in Terminal
    PROVE  mem'[g].state \in Terminal
BY DEF Write, TypeOK

\* While the daemon lives, a hold in a terminal state stays in one: an abandoned
\* claim, a late notice or the sweep never reopens it.
THEOREM TerminalHoldsStay == Spec => TerminalStays
<1>1. HeldInv /\ [Next]_vars => [StaysTerminal]_vars
  <2> SUFFICES ASSUME HeldInv, [Next]_vars, NEW h \in Hold,
                      mem[h] # None, mem[h].state \in Terminal, up, up'
               PROVE  mem'[h].state \in Terminal
    BY DEF StaysTerminal
  <2>1. TypeOK /\ mem[h] \in Record /\ mem[h].state \notin Open /\ mem[h].state # "deciding"
    BY DEF HeldInv, TypeOK, Terminal, Open
  <2>2. CASE UNCHANGED mem
    BY <2>2
  <2>3. ASSUME NEW g \in Hold, Capture(g)
        PROVE  mem'[h].state \in Terminal
    BY <2>1, <2>3 DEF Capture, TypeOK
  <2>4. ASSUME NEW g \in Hold, MarkNotified(g) \/ MarkArmed(g) \/ MarkCaseChannel(g)
        PROVE  mem'[h].state \in Terminal
    <3>1. CASE g # h
      BY <2>1, <2>4, <3>1 DEF MarkNotified, MarkArmed, MarkCaseChannel, Write, TypeOK
    <3>2. CASE g = h
      <4>1. mem[h].state # "created" /\ mem[h].state # "notified"
        BY <2>1 DEF Open
      <4>2. CASE MarkNotified(h)
        BY <2>1, <4>1, <4>2 DEF MarkNotified, Write, TypeOK, Record
      <4>3. CASE MarkArmed(h)
        BY <2>1, <4>1, <4>3 DEF MarkArmed, Write, TypeOK, Record
      <4>4. CASE MarkCaseChannel(h)
        BY <2>1, <4>4 DEF MarkCaseChannel, Write, TypeOK
      <4> QED
        BY <2>4, <3>2, <4>2, <4>3, <4>4
    <3> QED
      BY <3>1, <3>2
  <2>5. ASSUME NEW t \in Handler, BeginDecision(t)
        PROVE  mem'[h].state \in Terminal
    BY <2>1, <2>5 DEF BeginDecision, store, TypeOK
  <2>6. ASSUME NEW t \in Handler, NEW o, NEW b, NEW s \in Terminal, Claiming(t),
               CompleteDecision(t, o, b, s)
        PROVE  mem'[h].state \in Terminal
    <3> DEFINE g == handler[t].hold
               d == [intent |-> handler[t].intent, outcome |-> o, dispatched |-> b]
    <3>1. g \in Hold /\ mem[g] \in Record
      BY <2>6 DEF HeldInv, CallInv, Claiming, TypeOK
    <3>2. Completed(mem[g], d, s).state = s
      BY <3>1 DEF Completed, Record
    <3>3. Write(g, Completed(mem[g], d, s))
      BY <2>6 DEF CompleteDecision
    <3> QED
      BY <2>1, <3>1, <3>2, <3>3, TerminalWrite
  <2>7. ASSUME NEW t \in Handler, Claiming(t), AbandonDecision(t)
        PROVE  mem'[h].state \in Terminal
    <3> DEFINE g == handler[t].hold
    <3>1. g \in Hold /\ mem[g] # None
      BY <2>7 DEF HeldInv, CallInv, Claiming
    <3>2. CASE g # h
      BY <2>1, <2>7, <3>1, <3>2 DEF AbandonDecision, store, Write, TypeOK
    <3>3. CASE g = h
      <4>1. Abandoned(mem[g], handler[t].intent) = mem[g]
        BY <2>1, <3>3 DEF Abandoned
      <4> QED
        BY <2>7, <3>3, <4>1 DEF AbandonDecision, store
    <3> QED
      BY <3>2, <3>3
  <2>8. CASE ExpireDue \/ FailStalled
    <3>1. ~Due(mem[h]) /\ ~Stalled(mem[h])
      BY <2>1 DEF Due, Stalled
    <3>2. mem'[h] = mem[h]
      BY <2>8, <3>1 DEF ExpireDue, FailStalled, SweepPass
    <3> QED
      BY <3>2
  <2>9. CASE Tick
    BY <2>1, <2>9, AgedFacts DEF Tick
  <2>10. ASSUME NEW t \in Handler,
                \/ Refuse(t) \/ RefuseLate(t) \/ RuntimeFails(t) \/ Simulate(t)
                \/ DispatchRefused(t) \/ Commit(t) \/ Cancel(t)
         PROVE  mem'[h].state \in Terminal
    <3>1. Claiming(t)
      BY <2>10 DEF Claiming, Refuse, RefuseLate, RuntimeFails, Simulate,
                   DispatchRefused, Commit, Cancel
    <3>2. {"refused", "executed", "failed"} \subseteq Terminal
      BY DEF Terminal
    <3> QED
      BY <2>6, <2>7, <2>10, <3>1, <3>2 DEF Refuse, RefuseLate, RuntimeFails, Simulate,
                   DispatchRefused, Commit, Cancel
  <2>11. ASSUME NEW t \in Handler,
                \/ \E g \in Hold, i \in Intent : DecideRead(t, g, i)
                \/ Dispatch(t) \/ AdapterActs(t)
         PROVE  mem' = mem
    BY <2>11 DEF DecideRead, Dispatch, AdapterActs, store
  <2>12. ~Crash /\ ~Restart
    BY DEF Crash, Restart
  <2> QED
    BY <2>2, <2>3, <2>4, <2>5, <2>8, <2>9, <2>10, <2>11, <2>12 DEF Next, vars
<1> QED
  BY <1>1, HeldInvariant, PTL DEF Spec, TerminalStays

\* decide_hold uses the journal as its contract says: whatever the holds, the claims,
\* the sweeps and the restarts, identities are only ever spent, and an adapter acts once
\* under an identity spent for it.  The journal that keeps this contract is DispatchJournal.
THEOREM HeldUsesTheJournal == Spec => Journal!OnceSpec
<1>1. Init => Journal!OnceInit
  BY DEF Init, Journal!OnceInit
<1>2. HeldInv /\ [Next]_vars => [Journal!OnceNext]_<<consumed, effects>>
  <2> SUFFICES ASSUME HeldInv, [Next]_vars
               PROVE  Journal!OnceNext \/ UNCHANGED <<consumed, effects>>
    OBVIOUS
  <2>1. ASSUME NEW h \in Hold
        PROVE  Identity[h] \in DispatchId
    BY IdentityAssumption
  <2>2. ASSUME NEW t \in Handler, handler[t].pc # "idle"
        PROVE  handler[t].hold \in Hold /\ Identity[handler[t].hold] \in DispatchId
    BY <2>1, <2>2 DEF HeldInv, CallInv
  <2>3. ASSUME NEW t \in Handler, DispatchRefused(t)
        PROVE  Journal!OnceNext \/ UNCHANGED <<consumed, effects>>
    <3> DEFINE d == Identity[handler[t].hold]
    <3>1. d \in DispatchId
      BY <2>2, <2>3 DEF DispatchRefused
    <3>2. CASE consumed' = consumed
      BY <2>3, <3>2 DEF DispatchRefused
    <3>3. CASE consumed' = consumed \cup {d} /\ d \notin consumed
      <4>1. Journal!Consume({d})
        BY <2>3, <3>3 DEF DispatchRefused, Journal!Consume
      <4>2. {d} \in SUBSET DispatchId
        BY <3>1
      <4> QED
        BY <4>1, <4>2 DEF Journal!OnceNext
    <3>4. CASE consumed' = consumed \cup {d} /\ d \in consumed
      BY <2>3, <3>4 DEF DispatchRefused
    <3> QED
      BY <2>3, <3>2, <3>3, <3>4 DEF DispatchRefused
  <2>4. ASSUME NEW t \in Handler, Dispatch(t)
        PROVE  Journal!OnceNext
    <3> DEFINE d == Identity[handler[t].hold]
    <3>1. Journal!Consume({d}) /\ {d} \in SUBSET DispatchId
      BY <2>2, <2>4 DEF Dispatch
    <3> QED
      BY <3>1 DEF Journal!OnceNext
  <2>5. ASSUME NEW t \in Handler, AdapterActs(t)
        PROVE  Journal!OnceNext
    <3> DEFINE d == Identity[handler[t].hold]
    <3>1. d \in DispatchId /\ d \in consumed /\ effects[d] = 0
      BY <2>2, <2>5 DEF AdapterActs, HeldInv, SpentInv
    <3>2. effects' = [effects EXCEPT ![d] = 1] /\ UNCHANGED consumed
      BY <2>5, <3>1 DEF AdapterActs
    <3>3. Journal!Effect(d)
      BY <3>1, <3>2 DEF Journal!Effect
    <3> QED
      BY <3>1, <3>3 DEF Journal!OnceNext
  <2>6. ASSUME NEW h \in Hold,
               Capture(h) \/ MarkNotified(h) \/ MarkArmed(h) \/ MarkCaseChannel(h)
        PROVE  UNCHANGED <<consumed, effects>>
    BY <2>6 DEF Capture, MarkNotified, MarkArmed, MarkCaseChannel, world
  <2>7. ASSUME NEW t \in Handler,
               \/ \E h \in Hold, i \in Intent : DecideRead(t, h, i)
               \/ BeginDecision(t) \/ Refuse(t) \/ RefuseLate(t) \/ RuntimeFails(t)
               \/ Simulate(t) \/ Commit(t) \/ Cancel(t)
        PROVE  UNCHANGED <<consumed, effects>>
    BY <2>7 DEF DecideRead, BeginDecision, Refuse, RefuseLate, RuntimeFails, Simulate,
                Commit, Cancel, world
  <2>8. ASSUME ExpireDue \/ FailStalled \/ Tick \/ Crash \/ Restart
        PROVE  UNCHANGED <<consumed, effects>>
    BY <2>8 DEF ExpireDue, FailStalled, SweepPass, Tick, Crash, Restart, world
  <2>9. CASE UNCHANGED vars
    BY <2>9 DEF vars
  <2> QED
    BY <2>3, <2>4, <2>5, <2>6, <2>7, <2>8, <2>9 DEF Next
<1> QED
  BY <1>1, <1>2, HeldInvariant, PTL DEF Spec, Journal!OnceSpec
=============================================================================
