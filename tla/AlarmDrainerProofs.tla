-------------------------- MODULE AlarmDrainerProofs --------------------------
(***************************************************************************)
(* Proofs about AlarmDrainer, for any number of alarms, holds, hunts and   *)
(* faults, any capacity of the dead-letter and any budget.                 *)
(*                                                                         *)
(* The argument: the drainer has one record in hand at a time, so what it  *)
(* planned stays true of the files and of the relay until the plan is      *)
(* through; and a record in the file has a number of its own above every   *)
(* committed one, so the cursor passes exactly the record in hand.         *)
(***************************************************************************)
EXTENDS AlarmDrainer, FiniteSetTheorems, TLAPS

\* The safety properties, all of them inductive together.
Safe ==
    /\ AlarmInv
    /\ NothingLost
    /\ OneEntryEach
    /\ ParkedWasRefused
    /\ DoneIsPublished
    /\ AlarmIsBacked

\* The alarms in the dead-letter.
Waiting == {x.alarm : x \in parked}

\* Counting the ages anew changes the ages only.
LEMMA AgesFacts ==
    ASSUME NEW P, P \subseteq ParkedRecord, IsFiniteSet(P)
    PROVE  /\ Ages(P) \subseteq ParkedRecord
           /\ IsFiniteSet(Ages(P))
           /\ {x.alarm : x \in Ages(P)} = {x.alarm : x \in P}
           /\ \A x \in Ages(P) : x.age > 0
           /\ (\A u, v \in P : u.alarm = v.alarm => u = v) =>
                  \A x, y \in Ages(P) : x.alarm = y.alarm => x = y
<1> DEFINE F == [x \in P |-> [x EXCEPT !.age = Cardinality({y \in P : y.age < x.age}) + 1]]
<1>1. \A x \in P : F[x] \in ParkedRecord /\ F[x].alarm = x.alarm /\ F[x].age > 0
  <2> TAKE x \in P
  <2>1. Cardinality({y \in P : y.age < x.age}) \in Nat
    BY FS_Subset, FS_CardinalityType
  <2>2. x \in ParkedRecord
    OBVIOUS
  <2> HIDE DEF F
  <2>3. F[x] = [x EXCEPT !.age = Cardinality({y \in P : y.age < x.age}) + 1]
    BY DEF F
  <2> QED
    BY <2>1, <2>2, <2>3 DEF ParkedRecord
<1>2. Ages(P) = {F[x] : x \in P}
  BY DEF Ages
<1>3. F \in Surjection(P, Ages(P))
  BY <1>2 DEF Surjection
<1>4. IsFiniteSet(Ages(P))
  BY <1>3, FS_Surjection
<1> HIDE DEF F
<1>5. \A x \in Ages(P) : \E y \in P : x = F[y]
  BY <1>2
<1> QED
  BY <1>1, <1>2, <1>4, <1>5

\* The properties hold when the bridge is first started.
LEMMA InitSafe == Init => Safe
<1> SUFFICES ASSUME Init PROVE Safe
  OBVIOUS
<1> USE DEF Init
<1>1. AlarmType
  BY FS_EmptySet, FaultBound, BudgetAssumption
     DEF AlarmType, CursorType, ParkedRecord, Job, Frames, Fates
<1>2. SpoolIsSound /\ JobIsSound /\ PlanIsSound /\ HoldsAreSound
  BY DEF SpoolIsSound, JobIsSound, PlanIsSound, HoldsAreSound
<1>3. BudgetIsSound
  BY BudgetAssumption DEF BudgetIsSound, NoBudget
<1>4. LedgerIsSound /\ AlarmIsBacked
  BY DEF LedgerIsSound, AlarmIsBacked
<1>5. NothingLost /\ OneEntryEach /\ ParkedWasRefused /\ DoneIsPublished
  BY DEF NothingLost, OneEntryEach, ParkedWasRefused, DoneIsPublished
<1> QED
  BY <1>1, <1>2, <1>3, <1>4, <1>5 DEF Safe, AlarmInv

\* An event of the daemon, spooled, refused or lost, keeps the properties.
LEMMA ReceiveSafe ==
    ASSUME Safe, NEW a \in Alarm, Append(a) \/ Refuse(a) \/ Lag(a)
    PROVE  Safe'
<1> USE DEF Safe, AlarmInv
<1>0. UNCHANGED <<noticed, parked, ledger, routed, created, drainer, foreign, budget, stalled,
                  job, channels, sent, timeline, refusals, fate>>
  BY DEF Append, Refuse, Lag, routing, task, relay
<1>1. /\ a \notin emitted /\ emitted' = emitted \cup {a}
      /\ seq[a] = 0 /\ a \notin log
      /\ hold' \in [Work -> {"none", "open", "ended"}]
      /\ \A w \in Work : hold'[w] = "ended" <=> hold[w] = "ended"
      /\ \A w \in Work : hold[w] # "none" => hold'[w] # "none"
      /\ Kind[a] = "ended" => hold'[Subject[a]] = "ended"
      /\ Kind[a] = "created" => hold'[Subject[a]] # "none"
      /\ faults' \in 0..MaxFaults
  BY SubjectAssumption, FaultBound
     DEF Append, Refuse, Lag, Emit, Announces, AlarmType, SpoolIsSound
<1>2. CASE Append(a)
  <2>1. /\ log' = log \cup {a}
        /\ seq' = [seq EXCEPT ![a] = cursor.next]
        /\ cursor' = [cursor EXCEPT !.next = @ + 1]
        /\ \/ saved' = saved /\ synced' = synced
           \/ saved' = cursor' /\ synced' = cursor.next
    BY <1>2 DEF Append, AlarmType
  <2>2. /\ cursor \in CursorType /\ saved \in CursorType /\ seq \in [Alarm -> Nat]
        /\ cursor.next \in Nat /\ cursor.committed \in Nat /\ saved.next \in Nat
        /\ saved.committed \in Nat /\ synced \in Nat /\ log \subseteq Alarm
        /\ cursor.next > 0
    BY DEF AlarmType, CursorType, SpoolIsSound
  <2>3. /\ cursor'.next = cursor.next + 1 /\ cursor'.committed = cursor.committed
        /\ cursor' \in CursorType
    BY <2>1, <2>2 DEF CursorType
  <2>4. /\ seq'[a] = cursor.next
        /\ \A b \in Alarm : b # a => seq'[b] = seq[b]
        /\ seq' \in [Alarm -> Nat]
    BY <2>1, <2>2
  <2>5. AlarmType'
    BY <1>0, <1>1, <2>1, <2>2, <2>3, <2>4 DEF AlarmType
  <2>6. SpoolIsSound'
    <3>1. \A x \in parked : x.alarm \in Alarm /\ x.alarm # a
      BY <1>1 DEF SpoolIsSound, AlarmType, ParkedRecord
    <3>2. \A b \in log : seq'[b] = seq[b] /\ seq[b] \in 1..(cursor.next - 1)
      BY <1>1, <2>2, <2>4 DEF SpoolIsSound
    <3>3. /\ saved'.committed <= cursor'.committed /\ saved'.next <= cursor'.next
          /\ cursor'.committed < cursor'.next /\ saved'.committed < saved'.next
          /\ synced' < saved'.next
          /\ saved'.committed \in Nat /\ saved.committed <= saved'.committed
          /\ drainer # "ended" => saved'.committed = cursor'.committed
      <4>1. CASE saved' = saved /\ synced' = synced
        BY <4>1, <2>2, <2>3 DEF SpoolIsSound
      <4>2. CASE saved' = cursor' /\ synced' = cursor.next
        <5>1. saved'.next = cursor.next + 1 /\ saved'.committed = cursor.committed
          BY <4>2, <2>3
        <5> QED
          BY <4>2, <5>1, <2>2, <2>3 DEF SpoolIsSound
      <4> QED
        BY <4>1, <4>2, <2>1
    <3>4. (\A b \in log : seq[b] \in 1..(cursor.next - 1))'
      BY <2>1, <2>2, <2>3, <2>4, <3>2
    <3>5. (\A b, c \in log : seq[b] = seq[c] => b = c)'
      BY <2>1, <2>2, <2>4, <3>2 DEF SpoolIsSound
    <3>6. \A x \in parked, b \in log' :
             x.alarm \in log' /\ seq'[b] > saved'.committed => seq'[x.alarm] <= seq'[b]
      BY <2>1, <2>2, <2>4, <3>1, <3>2, <3>3 DEF SpoolIsSound
    <3>7. /\ \A b \in Alarm : seq'[b] # 0 => b \in emitted'
          /\ \A b \in Alarm : fate[b] = "none" /\ seq'[b] # 0 => b \in log'
          /\ \A b \in Alarm : fate[b] # "none" => seq'[b] # 0
          /\ \A x \in parked : seq'[x.alarm] # 0
      BY <1>1, <2>1, <2>2, <2>4, <3>1 DEF SpoolIsSound
    <3> QED
      BY <1>0, <3>3, <3>4, <3>5, <3>6, <3>7 DEF SpoolIsSound
  <2>7. JobIsSound'
    BY <1>0, <1>1, <2>1, <2>2, <2>3, <2>4
       DEF JobIsSound, IsHead, Uncommitted, EndIsNews, SpoolIsSound, AlarmType, Job
  <2>8. BudgetIsSound'
    BY <1>0, <1>1, <2>1, <2>2, <2>3, <2>4 DEF BudgetIsSound, SpoolIsSound, AlarmType
  <2>9. NothingLost' /\ OneEntryEach' /\ ParkedWasRefused'
    BY <1>0, <1>1, <2>1, <2>2, <2>3, <2>4
       DEF NothingLost, OneEntryEach, ParkedWasRefused, SameWork, Uncommitted, SpoolIsSound,
           AlarmType, ParkedRecord
  <2>10. LedgerIsSound' /\ PlanIsSound' /\ HoldsAreSound' /\ DoneIsPublished' /\ AlarmIsBacked'
    BY <1>0, <1>1, SubjectAssumption
       DEF LedgerIsSound, PlanIsSound, HoldsAreSound, DoneIsPublished, AlarmIsBacked, AlarmType, Job
  <2> QED
    BY <2>5, <2>6, <2>7, <2>8, <2>9, <2>10
<1>3. CASE Refuse(a) \/ Lag(a)
  <2>1. UNCHANGED <<log, seq, synced, cursor, saved>>
    BY <1>3 DEF Refuse, Lag, spool
  <2>2. AlarmType' /\ SpoolIsSound' /\ JobIsSound' /\ BudgetIsSound'
    BY <1>0, <1>1, <2>1
       DEF AlarmType, SpoolIsSound, JobIsSound, IsHead, Uncommitted, EndIsNews, BudgetIsSound
  <2>3. NothingLost' /\ OneEntryEach' /\ ParkedWasRefused'
    BY <1>0, <2>1 DEF NothingLost, OneEntryEach, ParkedWasRefused, SameWork, Uncommitted
  <2>4. LedgerIsSound' /\ PlanIsSound' /\ HoldsAreSound' /\ DoneIsPublished' /\ AlarmIsBacked'
    BY <1>0, <1>1, SubjectAssumption
       DEF LedgerIsSound, PlanIsSound, HoldsAreSound, DoneIsPublished, AlarmIsBacked, AlarmType, Job
  <2> QED
    BY <2>2, <2>3, <2>4
<1> QED
  BY <1>2, <1>3

\* The end of a hold, of the task or of a pass, the start and a relay that forgets a channel
\* keep the properties.
LEMMA QuietSafe ==
    ASSUME Safe,
           \/ \E w \in Work : HoldEnds(w)
           \/ \E a \in Alarm : HeadUnreadable(a)
           \/ \E h \in Hunts : RelayForgets(h)
           \/ PassEnds \/ TaskEnds \/ Start
    PROVE  Safe'
<1> USE DEF Safe, AlarmInv
<1>0. UNCHANGED <<emitted, noticed, log, seq, synced, cursor, saved, parked, ledger, routed,
                  created, foreign, sent, timeline, refusals, fate>>
  BY DEF HoldEnds, HeadUnreadable, RelayForgets, PassEnds, TaskEnds, Start, daemon, spool,
         routing, task, relay
<1> DEFINE
    Moved == /\ faults' \in 0..MaxFaults
             /\ hold' \in [Work -> {"none", "open", "ended"}]
             /\ \A w \in Work : hold[w] = "ended" => hold'[w] = "ended"
             /\ \A w \in Work : hold[w] # "none" => hold'[w] # "none"
             /\ drainer' \in {"starting", "up", "ended"}
             /\ job' \in {job, None}
             /\ stalled' \subseteq Nat
             /\ channels' \subseteq Hunts
    Counts == /\ budget' \in {budget, NoBudget}
              /\ job' # None => drainer' = drainer
              /\ drainer' # "ended" => drainer # "ended"
              /\ drainer' = "starting" => drainer = "starting" /\ budget' = budget
              /\ drainer' = "up" /\ drainer # "up" => budget' = NoBudget
              /\ budget' # budget => job = None
              /\ drainer' = drainer => job' = job
<1>1. Moved
  <2>1. ASSUME NEW w \in Work, HoldEnds(w) PROVE Moved
    BY <2>1, FaultBound DEF HoldEnds, task, relay, AlarmType
  <2>2. ASSUME NEW a \in Alarm, HeadUnreadable(a) PROVE Moved
    BY <2>2, FaultBound DEF HeadUnreadable, Ready, daemon, relay, AlarmType
  <2>3. ASSUME NEW h \in Hunts, RelayForgets(h) PROVE Moved
    BY <2>3, FaultBound DEF RelayForgets, daemon, task, AlarmType
  <2>4. CASE PassEnds
    BY <2>4, FaultBound DEF PassEnds, Idle, Ready, daemon, relay, AlarmType
  <2>5. CASE TaskEnds
    BY <2>5, FaultBound DEF TaskEnds, daemon, relay, AlarmType
  <2>6. CASE Start
    BY <2>6, FaultBound DEF Start, daemon, relay, AlarmType
  <2> QED
    BY <2>1, <2>2, <2>3, <2>4, <2>5, <2>6
<1>2. Counts
  <2>1. ASSUME NEW w \in Work, HoldEnds(w) PROVE Counts
    BY <2>1 DEF HoldEnds, task, relay, JobIsSound, BudgetIsSound
  <2>2. ASSUME NEW a \in Alarm, HeadUnreadable(a) PROVE Counts
    BY <2>2 DEF HeadUnreadable, Ready, daemon, relay, JobIsSound, BudgetIsSound
  <2>3. ASSUME NEW h \in Hunts, RelayForgets(h) PROVE Counts
    BY <2>3 DEF RelayForgets, daemon, task, JobIsSound, BudgetIsSound
  <2>4. CASE PassEnds
    BY <2>4 DEF PassEnds, Idle, Ready, daemon, relay, JobIsSound, BudgetIsSound
  <2>5. CASE TaskEnds
    BY <2>5 DEF TaskEnds, daemon, relay, JobIsSound, BudgetIsSound
  <2>6. CASE Start
    BY <2>6 DEF Start, daemon, relay, JobIsSound, BudgetIsSound
  <2> QED
    BY <2>1, <2>2, <2>3, <2>4, <2>5, <2>6
<1>3. NoBudget \in [seq : Nat, count : Nat] /\ NoBudget.seq = 0 /\ NoBudget.count = 0
  BY DEF NoBudget
<1>4. AlarmType' /\ SpoolIsSound'
  BY <1>0, <1>1, <1>2, <1>3 DEF AlarmType, SpoolIsSound
<1>5. JobIsSound' /\ PlanIsSound'
  BY <1>0, <1>1, <1>2, SubjectAssumption
     DEF JobIsSound, PlanIsSound, IsHead, Uncommitted, EndIsNews, AlarmType, Job
<1>6. BudgetIsSound'
  <2>1. CASE budget' = budget /\ drainer' = drainer
    BY <2>1, <1>0, <1>1, <1>2 DEF BudgetIsSound, NoBudget
  <2>2. CASE budget' = NoBudget
    BY <2>2, <1>0, <1>2, <1>3, BudgetAssumption DEF BudgetIsSound, SpoolIsSound, AlarmType, CursorType
  <2>3. CASE budget' = budget /\ drainer' = "ended" /\ job' = None
    BY <2>3, <1>0 DEF BudgetIsSound
  <2> QED
    BY <2>1, <2>2, <2>3, <1>1, <1>2 DEF JobIsSound, AlarmType
<1>7. NothingLost' /\ OneEntryEach' /\ ParkedWasRefused'
  BY <1>0 DEF NothingLost, OneEntryEach, ParkedWasRefused, SameWork, Uncommitted
<1>8. LedgerIsSound' /\ HoldsAreSound' /\ DoneIsPublished' /\ AlarmIsBacked'
  BY <1>0, <1>1, SubjectAssumption
     DEF LedgerIsSound, HoldsAreSound, DoneIsPublished, AlarmIsBacked, AlarmType
<1> QED
  BY <1>4, <1>5, <1>6, <1>7, <1>8

\* What depends on the dead-letter depends on the alarms in it.
LEMMA EntriesKept ==
    ASSUME Safe, parked' \subseteq ParkedRecord, IsFiniteSet(parked'),
           Waiting' = Waiting,
           \A u, v \in parked' : u.alarm = v.alarm => u = v,
           UNCHANGED <<log, seq, synced, cursor, saved, fate, emitted>>,
           \A a \in Alarm : refusals[a] = RefusalBudget => refusals'[a] = RefusalBudget
    PROVE  /\ OneEntryEach' /\ ParkedWasRefused' /\ NothingLost'
           /\ \A a : (\E x \in parked' : x.alarm = a) <=> \E x \in parked : x.alarm = a
           /\ (drainer' # "ended" => drainer # "ended") => SpoolIsSound'
<1> USE DEF Safe, AlarmInv
<1>1. \A a : (\E x \in parked' : x.alarm = a) <=> \E x \in parked : x.alarm = a
  <2>1. \A a : (\E x \in parked' : x.alarm = a) <=> a \in Waiting'
    BY DEF Waiting
  <2>2. \A a : (\E x \in parked : x.alarm = a) <=> a \in Waiting
    BY DEF Waiting
  <2> QED
    BY <2>1, <2>2
<1>2. OneEntryEach'
  <2> SUFFICES ASSUME NEW x \in parked', NEW y \in parked', SameWork(x, y.alarm)'
               PROVE  x = y
    BY DEF OneEntryEach
  <2>1. PICK u \in parked : u.alarm = x.alarm
    BY <1>1
  <2>2. PICK v \in parked : v.alarm = y.alarm
    BY <1>1
  <2>3. SameWork(u, v.alarm)
    BY <2>1, <2>2 DEF SameWork
  <2> QED
    BY <2>1, <2>2, <2>3 DEF OneEntryEach
<1>3. ParkedWasRefused'
  <2> SUFFICES ASSUME NEW x \in parked' PROVE refusals'[x.alarm] = RefusalBudget
    BY DEF ParkedWasRefused
  <2>1. x.alarm \in Alarm
    BY DEF ParkedRecord
  <2>2. PICK u \in parked : u.alarm = x.alarm
    BY <1>1
  <2>3. refusals[x.alarm] = RefusalBudget
    BY <2>2 DEF ParkedWasRefused
  <2> QED
    BY <2>1, <2>3
<1>4. NothingLost'
  BY <1>1 DEF NothingLost, Uncommitted
<1>5. ASSUME drainer' # "ended" => drainer # "ended" PROVE SpoolIsSound'
  <2>1. \A x \in parked' : seq[x.alarm] # 0
    BY <1>1 DEF SpoolIsSound
  <2>2. \A x \in parked', a \in log :
            x.alarm \in log /\ seq[a] > saved.committed => seq[x.alarm] <= seq[a]
    BY <1>1 DEF SpoolIsSound
  <2> QED
    BY <1>5, <2>1, <2>2 DEF SpoolIsSound
<1> QED
  BY <1>1, <1>2, <1>3, <1>4, <1>5

\* A record marked, or due, is the same entry.
LEMMA EntrySafe ==
    ASSUME Safe, IntervalPasses \/ \E x \in parked : MarkUnreadable(x)
    PROVE  Safe'
<1> USE DEF Safe, AlarmInv
<1>0. UNCHANGED <<faults, emitted, hold, noticed, log, seq, synced, cursor, saved, ledger,
                  routed, created, drainer, foreign, stalled, job, channels, sent, timeline,
                  refusals, fate>>
  BY DEF IntervalPasses, MarkUnreadable, daemon, spool, routing, task, relay
<1>1. /\ budget' \in {budget, NoBudget}
      /\ budget' # budget => job = None /\ drainer = "up"
  BY DEF IntervalPasses, MarkUnreadable, Idle, Ready, task
<1>2. PICK x \in parked, y \in ParkedRecord :
          parked' = (parked \ {x}) \cup {y} /\ y.alarm = x.alarm
  <2>1. CASE IntervalPasses
    <3>1. PICK x \in parked : parked' = (parked \ {x}) \cup {[x EXCEPT !.due = TRUE]}
      BY <2>1 DEF IntervalPasses
    <3>2. [x EXCEPT !.due = TRUE] \in ParkedRecord /\ [x EXCEPT !.due = TRUE].alarm = x.alarm
      BY DEF AlarmType, ParkedRecord
    <3> QED
      BY <3>1, <3>2
  <2>2. ASSUME NEW x \in parked, MarkUnreadable(x)
        PROVE  \E z \in parked, y \in ParkedRecord :
                   parked' = (parked \ {z}) \cup {y} /\ y.alarm = z.alarm
    <3>2. /\ [x EXCEPT !.unreadable = TRUE] \in ParkedRecord
          /\ [x EXCEPT !.unreadable = TRUE].alarm = x.alarm
      BY DEF AlarmType, ParkedRecord
    <3> QED
      BY <2>2, <3>2 DEF MarkUnreadable
  <2> QED
    BY <2>1, <2>2
<1>3. /\ parked' \subseteq ParkedRecord /\ IsFiniteSet(parked')
      /\ \A u, v \in parked' : u.alarm = v.alarm => u = v
  <2>1. IsFiniteSet((parked \ {x}) \cup {y})
    BY FS_RemoveElement, FS_AddElement DEF AlarmType
  <2>2. \A u, v \in parked : u.alarm = v.alarm => u = v
    BY DEF OneEntryEach, SameWork
  <2> QED
    BY <1>2, <2>1, <2>2 DEF AlarmType
<1>4. Waiting' = Waiting
  BY <1>2 DEF Waiting
<1>5. /\ OneEntryEach' /\ ParkedWasRefused' /\ NothingLost' /\ SpoolIsSound'
      /\ \A a : (\E u \in parked' : u.alarm = a) <=> \E u \in parked : u.alarm = a
  BY <1>0, <1>3, <1>4, EntriesKept
<1>6. NoBudget \in [seq : Nat, count : Nat] /\ NoBudget.seq = 0 /\ NoBudget.count = 0
  BY DEF NoBudget
<1>7. AlarmType' /\ HoldsAreSound' /\ LedgerIsSound' /\ PlanIsSound' /\ DoneIsPublished' /\ AlarmIsBacked'
  BY <1>0, <1>1, <1>3, <1>6
     DEF AlarmType, HoldsAreSound, LedgerIsSound, PlanIsSound, DoneIsPublished, AlarmIsBacked
<1>8. JobIsSound'
  BY <1>0, <1>5 DEF JobIsSound, EndIsNews, IsHead, Uncommitted
<1>9. BudgetIsSound'
  BY <1>0, <1>1, <1>6, BudgetAssumption
     DEF BudgetIsSound, SpoolIsSound, AlarmType, CursorType
<1> QED
  BY <1>5, <1>7, <1>8, <1>9

\* What a plan that is not empty, and one that is, say of the relay.
LEMMA PlanFacts ==
    ASSUME Safe, NEW a \in Alarm, seq[a] # 0, NEW w \in Work, w = Subject[a]
    PROVE  /\ Plan(a) \subseteq Frames
           /\ Kind[a] = "created" /\ Plan(a) # {} =>
                 /\ hold[w] # "ended" /\ w \notin Undeliverable /\ "terminal" \notin Plan(a)
                 /\ {"members", "card", "notice", "alarm"} \subseteq Plan(a) \cup sent[w]
                 /\ "terminal" \notin sent[w]
           /\ Kind[a] = "created" /\ Plan(a) = {} =>
                 \/ w \in Undeliverable \/ hold[w] = "ended"
                 \/ {"card", "notice", "alarm"} \subseteq sent[w]
           /\ Kind[a] = "ended" /\ Plan(a) # {} =>
                 Plan(a) = {"terminal"} /\ hold[w] = "ended" /\ routed[Hunt[w]] # None
           /\ Kind[a] = "ended" /\ Plan(a) = {} =>
                 w \in Undeliverable \/ "terminal" \in sent[w] \/ sent[w] = {}
           /\ Kind[a] = "promoted" /\ Plan(a) # {} => Plan(a) = {"channel", "members"}
           /\ Kind[a] = "promoted" /\ Plan(a) = {} =>
                 \/ routed[Hunt[w]] \notin {w, None}
                 \/ \E v \in Work : Hunt[v] = Hunt[w] /\ "channel" \in sent[v]
<1> USE DEF Safe, AlarmInv
<1>1. CASE Kind[a] = "created"
  <2>1. Plan(a) = IF w \in Undeliverable \/ "terminal" \in ledger[w] \/ hold[w] = "ended"
                  THEN {} ELSE PlanOpen(w)
    BY <1>1 DEF Plan
  <2>2. PlanOpen(w) \subseteq Frames \ {"terminal"}
    BY DEF PlanOpen, Provision, Frames
  <2>3. hold[w] # "ended" =>
            {"members", "card", "notice", "alarm"} \subseteq PlanOpen(w) \cup sent[w]
    BY DEF PlanOpen, LedgerIsSound
  <2>4. PlanOpen(w) = {} /\ hold[w] # "ended" => {"card", "notice", "alarm"} \subseteq sent[w]
    BY <2>3
  <2>5. "terminal" \in ledger[w] \/ "terminal" \in sent[w] => hold[w] = "ended"
    BY DEF LedgerIsSound
  <2> QED
    BY <1>1, <2>1, <2>2, <2>3, <2>4, <2>5
<1>2. CASE Kind[a] = "ended"
  <2>1. Plan(a) = IF \/ w \in Undeliverable \/ "terminal" \in ledger[w]
                     \/ routed[Hunt[w]] = None
                  THEN {} ELSE {"terminal"}
    BY <1>2 DEF Plan
  <2>2. hold[w] = "ended"
    BY <1>2 DEF HoldsAreSound, SpoolIsSound
  <2>3. /\ "terminal" \in ledger[w] => "terminal" \in sent[w]
        /\ routed[Hunt[w]] = None => sent[w] = {}
    BY DEF LedgerIsSound
  <2> QED
    BY <1>2, <2>1, <2>2, <2>3 DEF Frames
<1>3. CASE Kind[a] = "promoted"
  <2>1. Plan(a) = IF routed[Hunt[w]] \in {None, w} THEN Provision(w) ELSE {}
    BY <1>3 DEF Plan
  <2> QED
    BY <1>3, <2>1 DEF Provision, LedgerIsSound, Frames
<1> QED
  BY <1>1, <1>2, <1>3, KindAssumption DEF Kinds

\* Taking a record up keeps the properties.
LEMMA BeginSafe ==
    ASSUME Safe, NEW a \in Alarm, NEW from \in {"head", "parked"}, Begin(a, from),
           drainer = "up", job = None, seq[a] # 0,
           from = "head" => IsHead(a),
           from = "parked" => budget' = NoBudget /\ \E x \in parked : x.alarm = a,
           from = "head" => budget' = budget,
           UNCHANGED <<faults, emitted, hold, noticed, log, seq, synced, cursor, saved, parked,
                       ledger, created, drainer, foreign, stalled, channels, sent, timeline,
                       refusals>>
    PROVE  Safe'
<1> USE DEF Safe, AlarmInv
<1> DEFINE w == Subject[a]
<1>1. w \in Work
  BY SubjectAssumption
<1> HIDE DEF w
<1>2. /\ job' = [alarm |-> a, from |-> from, todo |-> Plan(a),
                 at |-> IF Plan(a) = {} THEN "discharge" ELSE "publish"]
      /\ routed' = Routes(a)
      /\ fate' = IF Plan(a) = {} THEN [fate EXCEPT ![a] = "done"] ELSE fate
  BY DEF Begin
<1>3. /\ job' # None
      /\ job' \in Job
      /\ job'.alarm = a /\ job'.from = from /\ job'.todo = Plan(a)
      /\ Plan(a) = {} => job'.at = "discharge"
      /\ Plan(a) # {} => job'.at = "publish"
  <2>1. Plan(a) \subseteq Frames
    BY <1>1, PlanFacts DEF w
  <2> QED
    BY <1>2, <2>1, AlarmNoneAssumption DEF Job
<1>4. /\ routed' \in [Hunts -> Work \cup {None}]
      /\ \A h \in Hunts : routed[h] # None => routed'[h] = routed[h]
      /\ Plan(a) # {} => routed'[Hunt[w]] # None
      /\ Hunt[w] \in Hunts
  <2>1. Hunt[w] \in Hunts
    BY <1>1 DEF Hunts
  <2>2. routed' = IF routed[Hunt[w]] = None /\ Kind[a] # "ended" /\ Plan(a) # {}
                  THEN [routed EXCEPT ![Hunt[w]] = w] ELSE routed
    BY <1>2 DEF Routes, w
  <2>3. Kind[a] = "ended" /\ Plan(a) # {} => routed[Hunt[w]] # None
    BY <1>1, PlanFacts DEF w
  <2> QED
    BY <1>1, <2>1, <2>2, <2>3, AlarmNoneAssumption DEF AlarmType
<1>5. /\ fate' \in [Alarm -> Fates]
      /\ \A b \in Alarm : b # a \/ Plan(a) # {} => fate'[b] = fate[b]
      /\ Plan(a) = {} => fate'[a] = "done"
  BY <1>2 DEF AlarmType, Fates
<1>6. budget' \in [seq : Nat, count : Nat]
  BY DEF AlarmType, NoBudget
<1>7. AlarmType'
  BY <1>3, <1>4, <1>5, <1>6 DEF AlarmType
<1>8. SpoolIsSound'
  BY <1>5 DEF SpoolIsSound
<1>9. /\ Kind[a] = "created" /\ Plan(a) # {} => EndIsNews(w)'
  <2> SUFFICES ASSUME Kind[a] = "created", Plan(a) # {} PROVE EndIsNews(w)'
    OBVIOUS
  <2>1. hold[w] # "ended"
    BY <1>1, PlanFacts DEF w
  <2>2. \A b \in Alarm : Kind[b] = "ended" /\ Subject[b] = w => seq[b] = 0
    BY <2>1 DEF HoldsAreSound, SpoolIsSound
  <2> QED
    BY <1>5, <2>2 DEF EndIsNews, SpoolIsSound
<1>10. JobIsSound'
  BY <1>3, <1>5, <1>9 DEF JobIsSound, IsHead, Uncommitted, w
<1>11. BudgetIsSound'
  BY <1>3, BudgetAssumption DEF BudgetIsSound, NoBudget, SpoolIsSound, AlarmType, CursorType
<1>12. NothingLost' /\ OneEntryEach' /\ ParkedWasRefused'
  BY <1>5 DEF NothingLost, OneEntryEach, ParkedWasRefused, SameWork, Uncommitted
<1>13. HoldsAreSound' /\ AlarmIsBacked' /\ LedgerIsSound'
  <2>1. \A v \in Work : routed[Hunt[v]] # None => routed'[Hunt[v]] # None
    BY <1>4 DEF Hunts
  <2> QED
    BY <2>1 DEF HoldsAreSound, AlarmIsBacked, LedgerIsSound
<1>14. PlanIsSound'
  <2>1. CASE Plan(a) = {}
    BY <2>1, <1>3 DEF PlanIsSound
  <2>2. CASE Plan(a) # {}
    <3> SUFFICES
          /\ routed'[Hunt[w]] # None
          /\ Kind[a] = "created" =>
                /\ Plan(a) \subseteq Frames \ {"terminal"}
                /\ {"members", "card", "notice", "alarm"} \subseteq Plan(a) \cup sent[w]
                /\ "terminal" \notin sent[w] /\ w \notin Undeliverable
          /\ Kind[a] = "ended" => Plan(a) = {"terminal"} /\ hold[w] = "ended"
          /\ Kind[a] = "promoted" =>
                Plan(a) \subseteq {"channel", "members"} /\ "channel" \in Plan(a) \cup sent[w]
      BY <2>2, <1>3 DEF PlanIsSound, w
    <3> QED
      BY <2>2, <1>1, <1>4, PlanFacts DEF w
  <2> QED
    BY <2>1, <2>2
<1>15. DoneIsPublished'
  <2> SUFFICES ASSUME NEW b \in Alarm, fate'[b] = "done"
               PROVE  \/ Subject[b] \in Undeliverable /\ Kind[b] # "promoted"
                      \/ /\ Kind[b] = "created"
                         /\ \/ {"card", "notice", "alarm"} \subseteq sent[Subject[b]]
                            \/ hold[Subject[b]] = "ended"
                      \/ /\ Kind[b] = "ended"
                         /\ \/ "terminal" \in sent[Subject[b]]
                            \/ sent[Subject[b]] \cap {"card", "notice", "alarm"} = {}
                      \/ /\ Kind[b] = "promoted"
                         /\ \/ routed'[Hunt[Subject[b]]] \notin {Subject[b], None}
                            \/ \E v \in Work : Hunt[v] = Hunt[Subject[b]] /\ "channel" \in sent[v]
    BY DEF DoneIsPublished
  <2>0. Subject[b] \in Work /\ Hunt[Subject[b]] \in Hunts
    BY SubjectAssumption DEF Hunts
  <2>1. CASE fate[b] = "done"
    BY <2>0, <2>1, <1>4 DEF DoneIsPublished
  <2>2. CASE b = a /\ Plan(a) = {}
    <3>1. routed' = routed
      BY <1>2, <2>2 DEF Routes
    <3> QED
      BY <2>2, <3>1, <1>1, PlanFacts, KindAssumption DEF w, Kinds
  <2> QED
    BY <2>1, <2>2, <1>5
<1> QED
  BY <1>7, <1>8, <1>10, <1>11, <1>12, <1>13, <1>14, <1>15

\* What DoneIsPublished says of one alarm.
Done(b) ==
    \/ Subject[b] \in Undeliverable /\ Kind[b] # "promoted"
    \/ /\ Kind[b] = "created"
       /\ {"card", "notice", "alarm"} \subseteq sent[Subject[b]] \/ hold[Subject[b]] = "ended"
    \/ /\ Kind[b] = "ended"
       /\ \/ "terminal" \in sent[Subject[b]]
          \/ sent[Subject[b]] \cap {"card", "notice", "alarm"} = {}
    \/ /\ Kind[b] = "promoted"
       /\ \/ routed[Hunt[Subject[b]]] \notin {Subject[b], None}
          \/ \E v \in Work : Hunt[v] = Hunt[Subject[b]] /\ "channel" \in sent[v]

LEMMA DoneFacts == DoneIsPublished <=> \A b \in Alarm : fate[b] = "done" => Done(b)
  BY DEF DoneIsPublished, Done

\* The frame in hand, by what the record says of its work.
LEMMA FrameFacts ==
    ASSUME Safe, NEW s \in Frames, Publishing(s), NEW a, a = job.alarm, NEW w, w = Subject[a]
    PROVE  /\ job \in Job /\ a \in Alarm /\ w \in Work /\ Hunt[w] \in Hunts
           /\ s \in job.todo /\ job.at = "publish" /\ drainer = "up" /\ job # None
           /\ routed[Hunt[w]] # None /\ seq[a] # 0
           /\ Kind[a] = "created" =>
                 /\ s # "terminal" /\ "terminal" \notin sent[w] /\ EndIsNews(w)
                 /\ w \notin Undeliverable
                 /\ job.todo \subseteq Frames \ {"terminal"}
                 /\ {"members", "card", "notice", "alarm"} \subseteq job.todo \cup sent[w]
                 /\ s = "notice" => "members" \in sent[w]
                 /\ s = "alarm" => {"card", "notice"} \subseteq sent[w]
           /\ Kind[a] = "ended" =>
                 s = "terminal" /\ job.todo = {"terminal"} /\ hold[w] = "ended"
           /\ Kind[a] = "promoted" =>
                 /\ s \in {"channel", "members"} /\ job.todo \subseteq {"channel", "members"}
                 /\ "channel" \in job.todo \cup sent[w]
           /\ Kind[a] \in {"created", "ended", "promoted"}
<1> USE DEF Safe, AlarmInv
<1>1. /\ job \in Job /\ a \in Alarm /\ s \in job.todo /\ job.at = "publish" /\ drainer = "up"
      /\ job # None /\ job.todo \subseteq Frames
      /\ \A t \in job.todo : Rank[s] <= Rank[t]
  BY DEF Publishing, AlarmType, Job
<1>2. w \in Work /\ Hunt[w] \in Hunts /\ Kind[a] \in {"created", "ended", "promoted"}
  BY <1>1, SubjectAssumption, KindAssumption DEF Hunts, Kinds
<1>3. /\ routed[Hunt[w]] # None
      /\ Kind[a] = "created" =>
            /\ job.todo \subseteq Frames \ {"terminal"}
            /\ {"members", "card", "notice", "alarm"} \subseteq job.todo \cup sent[w]
            /\ "terminal" \notin sent[w] /\ w \notin Undeliverable
      /\ Kind[a] = "ended" => job.todo = {"terminal"} /\ hold[w] = "ended"
      /\ Kind[a] = "promoted" =>
            job.todo \subseteq {"channel", "members"} /\ "channel" \in job.todo \cup sent[w]
  BY <1>1 DEF PlanIsSound
<1>4. seq[a] # 0 /\ (Kind[a] = "created" => EndIsNews(w))
  BY <1>1 DEF JobIsSound
<1>5. /\ s = "notice" => "members" \notin job.todo
      /\ s = "alarm" => "card" \notin job.todo /\ "notice" \notin job.todo
  BY <1>1 DEF Rank
<1> QED
  BY <1>1, <1>2, <1>3, <1>4, <1>5

\* A frame the relay takes keeps what is said of the relay.
LEMMA TakesFacts ==
    ASSUME Safe, NEW s \in Frames, Publishing(s), Takes(s), NEW a, a = job.alarm,
           NEW w, w = Subject[a], UNCHANGED <<hold, routed>>
    PROVE  /\ channels' \subseteq Hunts /\ sent' \in [Work -> SUBSET Frames]
           /\ timeline' \in [Work -> {"none", "card", "terminal"}]
           /\ sent'[w] = sent[w] \cup {s}
           /\ \A v \in Work : v # w => sent'[v] = sent[v]
           /\ AlarmIsBacked'
           /\ \A v \in Work :
                 /\ "terminal" \in sent'[v] => hold[v] = "ended"
                 /\ timeline'[v] = "terminal" => "terminal" \in sent'[v]
                 /\ timeline[v] = "terminal" => timeline'[v] = "terminal"
                 /\ sent'[v] # {} => routed[Hunt[v]] # None
           /\ \A b \in Alarm : fate[b] = "done" => Done(b)'
<1> USE DEF Safe, AlarmInv
<1>1. /\ a \in Alarm /\ w \in Work /\ Hunt[w] \in Hunts /\ routed[Hunt[w]] # None
      /\ s = "alarm" => {"card", "notice"} \subseteq sent[w]
      /\ s = "notice" => "members" \in sent[w]
      /\ s = "terminal" => hold[w] = "ended"
      /\ s = "card" => "terminal" \notin sent[w]
      /\ s \in {"card", "notice", "alarm"} => EndIsNews(w)
  BY FrameFacts
<1>2. /\ channels' = IF s = "channel" THEN channels \cup {Hunt[w]} ELSE channels
      /\ sent' = [sent EXCEPT ![w] = @ \cup {s}]
      /\ timeline' = IF s \in {"card", "terminal"} THEN [timeline EXCEPT ![w] = s] ELSE timeline
  BY DEF Takes
<1>3. /\ channels' \subseteq Hunts /\ sent' \in [Work -> SUBSET Frames]
      /\ timeline' \in [Work -> {"none", "card", "terminal"}]
      /\ sent'[w] = sent[w] \cup {s}
      /\ \A v \in Work : v # w => sent'[v] = sent[v] /\ timeline'[v] = timeline[v]
      /\ timeline'[w] = IF s \in {"card", "terminal"} THEN s ELSE timeline[w]
  BY <1>1, <1>2 DEF AlarmType
<1>4. AlarmIsBacked'
  BY <1>1, <1>3 DEF AlarmIsBacked
<1>5. ASSUME NEW v \in Work
      PROVE  /\ "terminal" \in sent'[v] => hold[v] = "ended"
             /\ timeline'[v] = "terminal" => "terminal" \in sent'[v]
             /\ timeline[v] = "terminal" => timeline'[v] = "terminal"
             /\ sent'[v] # {} => routed[Hunt[v]] # None
  BY <1>1, <1>3 DEF LedgerIsSound
<1>6. ASSUME NEW b \in Alarm, fate[b] = "done" PROVE Done(b)'
  <2>1. Done(b) /\ Subject[b] \in Work
    BY <1>6, DoneFacts, SubjectAssumption
  <2>2. \A v \in Work : sent[v] \subseteq sent'[v]
    BY <1>3
  <2>3. Kind[b] = "ended" /\ Subject[b] = w => s \notin {"card", "notice", "alarm"}
    BY <1>1, <1>6 DEF EndIsNews
  <2> QED
    BY <1>3, <2>1, <2>2, <2>3 DEF Done
<1> QED
  BY <1>3, <1>4, <1>5, <1>6

\* One more element in one set of a family.
LEMMA AddedTo ==
    ASSUME NEW A, NEW S, NEW f \in [A -> SUBSET S], NEW v \in A, NEW x \in S,
           NEW g, g = [f EXCEPT ![v] = @ \cup {x}]
    PROVE  /\ g \in [A -> SUBSET S] /\ g[v] = f[v] \cup {x}
           /\ \A u \in A : u # v => g[u] = f[u]
  OBVIOUS

\* A frame that is taken and recorded keeps the properties.
LEMMA AcceptedSafe ==
    ASSUME Safe, NEW s \in Frames, StepAccepted(s), NEW a, a = job.alarm,
           NEW w, w = Subject[a]
    PROVE  Safe'
<1> USE DEF Safe, AlarmInv
<1> DEFINE last == job.todo = {s}
<1> HIDE DEF last
<1>0. /\ UNCHANGED <<faults, emitted, hold, log, seq, synced, cursor, saved, parked, routed,
                     drainer, foreign, budget, stalled, refusals>>
      /\ Publishing(s) /\ Takes(s) /\ Records(s) /\ Advance(s)
  BY DEF StepAccepted, daemon, spool, task
<1>1. /\ job \in Job /\ a \in Alarm /\ w \in Work /\ Hunt[w] \in Hunts
      /\ s \in job.todo /\ job.at = "publish" /\ drainer = "up" /\ job # None
      /\ routed[Hunt[w]] # None /\ seq[a] # 0
      /\ Kind[a] = "created" =>
            /\ s # "terminal" /\ "terminal" \notin sent[w] /\ EndIsNews(w)
            /\ w \notin Undeliverable
            /\ job.todo \subseteq Frames \ {"terminal"}
            /\ {"members", "card", "notice", "alarm"} \subseteq job.todo \cup sent[w]
            /\ s = "notice" => "members" \in sent[w]
      /\ Kind[a] = "ended" =>
            s = "terminal" /\ job.todo = {"terminal"} /\ hold[w] = "ended"
      /\ Kind[a] = "promoted" =>
            /\ s \in {"channel", "members"} /\ job.todo \subseteq {"channel", "members"}
            /\ "channel" \in job.todo \cup sent[w]
      /\ Kind[a] \in {"created", "ended", "promoted"}
  BY <1>0, FrameFacts
<1>2. /\ channels' \subseteq Hunts /\ sent' \in [Work -> SUBSET Frames]
      /\ timeline' \in [Work -> {"none", "card", "terminal"}]
      /\ sent'[w] = sent[w] \cup {s}
      /\ \A v \in Work : v # w => sent'[v] = sent[v]
      /\ AlarmIsBacked'
      /\ \A v \in Work :
            /\ "terminal" \in sent'[v] => hold[v] = "ended"
            /\ timeline'[v] = "terminal" => "terminal" \in sent'[v]
            /\ sent'[v] # {} => routed[Hunt[v]] # None
      /\ \A b \in Alarm : fate[b] = "done" => Done(b)'
  BY <1>0, TakesFacts
<1>3. /\ job' = [job EXCEPT !.todo = @ \ {s}, !.at = IF last THEN "discharge" ELSE @]
      /\ fate' = IF last THEN [fate EXCEPT ![a] = "done"] ELSE fate
  BY <1>0 DEF Advance, last
<1>4. /\ job' \in Job /\ job' # None /\ job'.alarm = a /\ job'.from = job.from
      /\ job'.todo = job.todo \ {s}
      /\ job'.at = IF last THEN "discharge" ELSE "publish"
      /\ ~last => job'.todo # {}
      /\ a = job.alarm
  <2>1. job' \in Job /\ job'.alarm = job.alarm /\ job'.from = job.from
        /\ job'.todo = job.todo \ {s} /\ job'.at = IF last THEN "discharge" ELSE "publish"
    BY <1>1, <1>3 DEF Job
  <2> QED
    BY <1>1, <2>1, AlarmNoneAssumption DEF last
<1>5. /\ fate' \in [Alarm -> Fates]
      /\ \A b \in Alarm : b # a \/ ~last => fate'[b] = fate[b]
      /\ last => fate'[a] = "done"
  BY <1>1, <1>3 DEF AlarmType, Fates
<1>6. PICK as \in Frames :
          /\ as = s \/ (s = "terminal" /\ as = "card")
          /\ ledger' = IF s \in {"card", "alarm", "terminal"}
                       THEN [ledger EXCEPT ![w] = @ \cup {as}] ELSE ledger
  <2>1. ledger' = IF s \in {"card", "alarm", "terminal"}
                  THEN [ledger EXCEPT ![w] =
                          @ \cup {IF s = "terminal" /\ "card" \notin ledger[w] THEN "card" ELSE s}]
                  ELSE ledger
    BY <1>0 DEF Records
  <2> QED
    BY <2>1 DEF Frames
<1>7. /\ ledger' \in [Work -> SUBSET Frames]
      /\ \A v \in Work : v # w => ledger'[v] = ledger[v]
      /\ ledger'[w] \subseteq ledger[w] \cup {as}
  <2>1. ledger \in [Work -> SUBSET Frames]
    BY DEF AlarmType
  <2>2. CASE ledger' = [ledger EXCEPT ![w] = @ \cup {as}]
    <3>1. /\ ledger' \in [Work -> SUBSET Frames] /\ ledger'[w] = ledger[w] \cup {as}
          /\ \A v \in Work : v # w => ledger'[v] = ledger[v]
      <4>1. w \in Work /\ as \in Frames
        BY <1>1
      <4> QED
        BY ONLY <4>1, <2>1, <2>2, AddedTo
    <3> QED
      BY <3>1
  <2>3. CASE ledger' = ledger
    BY <1>1, <2>1, <2>3
  <2> QED
    BY <1>6, <2>2, <2>3
<1>8. /\ created' \subseteq created \cup {Hunt[w]}
      /\ created' # created => "channel" \in sent'[w]
      /\ noticed' \subseteq noticed \cup {w}
      /\ w \in noticed' /\ w \notin noticed => s = "notice"
  <2>1. /\ created' = IF (s = "channel" /\ Kind[a] # "promoted") \/ (last /\ Kind[a] = "promoted")
                      THEN created \cup {Hunt[w]} ELSE created
        /\ noticed' \in IF s = "notice" THEN {noticed, noticed \cup {w}} ELSE {noticed}
    BY <1>0 DEF Records, last
  <2>2. last /\ Kind[a] = "promoted" => "channel" \in sent'[w]
    BY <1>1, <1>2 DEF last
  <2> QED
    BY <2>1, <2>2, <1>2
<1>9. AlarmType'
  BY <1>0, <1>1, <1>2, <1>4, <1>5, <1>7, <1>8 DEF AlarmType
<1>10. SpoolIsSound'
  BY <1>0, <1>1, <1>5 DEF SpoolIsSound
<1>11. JobIsSound'
  <2>1. Kind[a] = "created" /\ ~last => EndIsNews(w)'
    BY <1>0, <1>1, <1>5 DEF EndIsNews
  <2>2. (job.from = "head" => IsHead(a)) /\ (job.from = "parked" => \E x \in parked : x.alarm = a)
    BY <1>1, <1>4 DEF JobIsSound
  <2> QED
    BY <1>0, <1>1, <1>4, <1>5, <2>1, <2>2 DEF JobIsSound, IsHead, Uncommitted
<1>12. BudgetIsSound'
  BY <1>0, <1>1, <1>4 DEF BudgetIsSound
<1>13. NothingLost' /\ OneEntryEach' /\ ParkedWasRefused' /\ HoldsAreSound'
  BY <1>0, <1>5
     DEF NothingLost, OneEntryEach, ParkedWasRefused, SameWork, Uncommitted, HoldsAreSound
<1>14. LedgerIsSound'
  <2> SUFFICES ASSUME NEW v \in Work
               PROVE  /\ "alarm" \in ledger'[v] => "alarm" \in sent'[v]
                      /\ "terminal" \in ledger'[v] => "terminal" \in sent'[v]
                      /\ "card" \in ledger'[v] => "card" \in sent'[v] \/ hold[v] = "ended"
                      /\ v \in noticed' => {"notice", "members"} \subseteq sent'[v]
                      /\ Hunt[v] \in created' =>
                             \E u \in Work : Hunt[u] = Hunt[v] /\ "channel" \in sent'[u]
    BY <1>0, <1>2 DEF LedgerIsSound
  <2>1. \A u \in Work : sent[u] \subseteq sent'[u]
    BY <1>2
  <2>2. CASE v # w
    BY <2>1, <2>2, <1>1, <1>2, <1>7, <1>8 DEF LedgerIsSound
  <2>3. CASE v = w
    <3>1. /\ s = "terminal" => hold[w] = "ended"
          /\ s = "notice" => "members" \in sent'[w]
          /\ as \in sent'[w] \/ (as = "card" /\ hold[w] = "ended")
      BY <1>1, <1>2, <1>6, <2>1
    <3>2. /\ "alarm" \in ledger'[w] => "alarm" \in sent'[w]
          /\ "terminal" \in ledger'[w] => "terminal" \in sent'[w]
          /\ "card" \in ledger'[w] => "card" \in sent'[w] \/ hold[w] = "ended"
      <4>1. /\ "alarm" \in ledger[w] => "alarm" \in sent[w]
            /\ "terminal" \in ledger[w] => "terminal" \in sent[w]
            /\ "card" \in ledger[w] => "card" \in sent[w] \/ hold[w] = "ended"
        BY <1>1 DEF LedgerIsSound
      <4>2. sent[w] \subseteq sent'[w] /\ ledger'[w] \subseteq ledger[w] \cup {as}
        BY <1>1, <1>7, <2>1
      <4> QED
        BY ONLY <3>1, <4>1, <4>2
    <3>3. w \in noticed' => {"notice", "members"} \subseteq sent'[w]
      BY <3>1, <2>1, <1>1, <1>2, <1>8 DEF LedgerIsSound
    <3>4. Hunt[w] \in created' =>
             \E u \in Work : Hunt[u] = Hunt[w] /\ "channel" \in sent'[u]
      BY <2>1, <1>1, <1>8 DEF LedgerIsSound
    <3> QED
      BY <2>3, <3>2, <3>3, <3>4
  <2> QED
    BY <2>2, <2>3
<1>15. PlanIsSound'
  BY <1>0, <1>1, <1>2, <1>4 DEF PlanIsSound, last
<1>16. DoneIsPublished'
  <2>1. last => Done(a)'
    BY <1>0, <1>1, <1>2 DEF Done, last
  <2>2. \A b \in Alarm : fate'[b] = "done" => Done(b)'
    BY <1>2, <1>5, <2>1
  <2> QED
    BY <2>2 DEF DoneIsPublished, Done
<1> QED
  BY <1>2, <1>9, <1>10, <1>11, <1>12, <1>13, <1>14, <1>15, <1>16

\* A frame that got no answer, taken or not, or whose answer could not be recorded, keeps
\* the properties.
LEMMA UnansweredSafe ==
    ASSUME Safe, NEW s \in Frames, StepUnrecorded(s) \/ StepStalled(s)
    PROVE  Safe'
<1> USE DEF Safe, AlarmInv
<1>0. /\ UNCHANGED <<emitted, hold, noticed, log, seq, synced, cursor, saved, parked, ledger,
                     routed, created, foreign, budget, refusals, fate>>
      /\ Publishing(s) /\ job' = None /\ drainer' \in {drainer, "ended"}
      /\ Takes(s) \/ UNCHANGED <<channels, sent, timeline>>
  BY DEF StepUnrecorded, StepStalled, Stall, daemon, spool, routing, relay
<1>1. /\ job.alarm \in Alarm /\ seq[job.alarm] \in Nat
      /\ job.at = "publish" /\ drainer = "up" /\ job # None
  BY <1>0 DEF Publishing, AlarmType, Job
<1>2. stalled' \subseteq Nat /\ faults' \in 0..MaxFaults
  <2>1. stalled \subseteq Nat /\ faults \in 0..MaxFaults
    BY DEF AlarmType
  <2>2. /\ stalled' = stalled \/ stalled' = stalled \cup {seq[job.alarm]}
        /\ faults' = faults \/ (faults < MaxFaults /\ faults' = faults + 1)
    BY DEF StepUnrecorded, StepStalled, Stall
  <2>3. stalled' \subseteq Nat
    BY <1>1, <2>1, <2>2, Zenon
  <2>4. faults' \in 0..MaxFaults
    BY ONLY <2>1, <2>2, FaultBound
  <2> QED
    BY <2>3, <2>4
<1>3. /\ channels' \subseteq Hunts /\ sent' \in [Work -> SUBSET Frames]
      /\ timeline' \in [Work -> {"none", "card", "terminal"}]
      /\ \A v \in Work : sent[v] \subseteq sent'[v]
      /\ AlarmIsBacked'
      /\ \A v \in Work :
            /\ "terminal" \in sent'[v] => hold[v] = "ended"
            /\ timeline'[v] = "terminal" => "terminal" \in sent'[v]
            /\ sent'[v] # {} => routed[Hunt[v]] # None
      /\ \A b \in Alarm : fate[b] = "done" => Done(b)'
  <2>1. CASE Takes(s)
    <3>1. /\ channels' \subseteq Hunts /\ sent' \in [Work -> SUBSET Frames]
          /\ timeline' \in [Work -> {"none", "card", "terminal"}]
          /\ sent'[Subject[job.alarm]] = sent[Subject[job.alarm]] \cup {s}
          /\ \A v \in Work : v # Subject[job.alarm] => sent'[v] = sent[v]
          /\ AlarmIsBacked'
          /\ \A v \in Work :
                /\ "terminal" \in sent'[v] => hold[v] = "ended"
                /\ timeline'[v] = "terminal" => "terminal" \in sent'[v]
                /\ sent'[v] # {} => routed[Hunt[v]] # None
          /\ \A b \in Alarm : fate[b] = "done" => Done(b)'
      BY <2>1, <1>0, TakesFacts
    <3>2. \A v \in Work : sent[v] \subseteq sent'[v]
      BY <3>1
    <3> QED
      BY <3>1, <3>2
  <2>2. CASE UNCHANGED <<channels, sent, timeline>>
    BY <2>2, <1>0, DoneFacts DEF AlarmType, AlarmIsBacked, LedgerIsSound, Done
  <2> QED
    BY <2>1, <2>2, <1>0
<1>4. AlarmType'
  BY <1>0, <1>2, <1>3 DEF AlarmType
<1>5. SpoolIsSound' /\ JobIsSound' /\ PlanIsSound' /\ HoldsAreSound'
  BY <1>0, <1>1 DEF SpoolIsSound, JobIsSound, PlanIsSound, HoldsAreSound
<1>6. BudgetIsSound'
  BY <1>0, <1>1 DEF BudgetIsSound
<1>7. NothingLost' /\ OneEntryEach' /\ ParkedWasRefused'
  BY <1>0 DEF NothingLost, OneEntryEach, ParkedWasRefused, SameWork, Uncommitted
<1>8. LedgerIsSound'
  <2> SUFFICES ASSUME NEW v \in Work
               PROVE  /\ "alarm" \in ledger[v] => "alarm" \in sent'[v]
                      /\ "terminal" \in ledger[v] => "terminal" \in sent'[v]
                      /\ "card" \in ledger[v] => "card" \in sent'[v] \/ hold[v] = "ended"
                      /\ v \in noticed => {"notice", "members"} \subseteq sent'[v]
                      /\ Hunt[v] \in created =>
                             \E u \in Work : Hunt[u] = Hunt[v] /\ "channel" \in sent'[u]
    BY <1>0, <1>3 DEF LedgerIsSound
  <2> QED
    BY <1>3 DEF LedgerIsSound
<1>9. DoneIsPublished'
  <2>1. \A b \in Alarm : fate'[b] = "done" => Done(b)'
    BY <1>0, <1>3
  <2> QED
    BY <2>1 DEF DoneIsPublished, Done
<1> QED
  BY <1>3, <1>4, <1>5, <1>6, <1>7, <1>8, <1>9

\* A touched record is the same entry.
LEMMA TouchedFacts ==
    ASSUME Safe, NEW a, \E y \in parked : y.alarm = a
    PROVE  /\ Touched(a) \subseteq ParkedRecord /\ IsFiniteSet(Touched(a))
           /\ {x.alarm : x \in Touched(a)} = Waiting
           /\ \A u, v \in Touched(a) : u.alarm = v.alarm => u = v
<1> DEFINE x == CHOOSE y \in parked : y.alarm = a
           rest == Ages(parked \ {x})
           back == [x EXCEPT !.age = 0, !.due = FALSE]
<1>1. x \in parked /\ x.alarm = a
  OBVIOUS
<1>2. Touched(a) = rest \cup {back}
  BY DEF Touched
<1>3. /\ parked \subseteq ParkedRecord /\ IsFiniteSet(parked)
      /\ \A u, v \in parked : u.alarm = v.alarm => u = v
  BY DEF Safe, AlarmInv, AlarmType, OneEntryEach, SameWork
<1> HIDE DEF x
<1>4. back \in ParkedRecord /\ back.alarm = a
  BY <1>1, <1>3 DEF ParkedRecord
<1>5. parked \ {x} \subseteq ParkedRecord /\ IsFiniteSet(parked \ {x})
  BY <1>3, FS_Subset
<1>6. /\ rest \subseteq ParkedRecord /\ IsFiniteSet(rest)
      /\ {z.alarm : z \in rest} = {z.alarm : z \in parked \ {x}}
      /\ \A u, v \in rest : u.alarm = v.alarm => u = v
  BY <1>3, <1>5, AgesFacts
<1> HIDE DEF rest, back
<1>7. \A u \in rest : u.alarm # a
  <2> SUFFICES ASSUME NEW u \in rest PROVE u.alarm # a
    OBVIOUS
  <2>1. u.alarm \in {z.alarm : z \in parked \ {x}}
    BY <1>6
  <2>2. PICK z \in parked \ {x} : z.alarm = u.alarm
    BY <2>1
  <2> QED
    BY <1>1, <1>3, <2>2
<1>8. IsFiniteSet(rest \cup {back})
  BY <1>6, FS_AddElement
<1>9. {z.alarm : z \in rest \cup {back}} = Waiting
  <2>1. {z.alarm : z \in rest \cup {back}} = {z.alarm : z \in parked \ {x}} \cup {a}
    BY <1>4, <1>6
  <2>2. Waiting = {z.alarm : z \in parked \ {x}} \cup {a}
    BY <1>1 DEF Waiting
  <2> QED
    BY <2>1, <2>2
<1> QED
  BY <1>2, <1>4, <1>6, <1>7, <1>8, <1>9

\* A refusal keeps the properties.
LEMMA RefusedSafe ==
    ASSUME Safe, NEW s \in Frames, StepForgotten(s) \/ StepRefused(s), NEW a, a = job.alarm,
           NEW w, w = Subject[a]
    PROVE  Safe'
<1> USE DEF Safe, AlarmInv
<1>0. /\ UNCHANGED <<faults, emitted, hold, noticed, log, seq, synced, cursor, saved, ledger,
                     routed, drainer, foreign, stalled, channels, sent, timeline, fate>>
      /\ Publishing(s) /\ Refused /\ created' \subseteq created
  BY DEF StepForgotten, StepRefused, Refused, daemon, spool, routing, relay
<1>1. /\ job \in Job /\ a \in Alarm /\ w \in Work
      /\ job.at = "publish" /\ drainer = "up" /\ job # None
      /\ routed[Hunt[w]] # None /\ seq[a] # 0
      /\ Kind[a] = "created" => EndIsNews(w)
  BY <1>0, FrameFacts
<1>2. /\ seq[a] \in Nat /\ refusals[a] \in 0..RefusalBudget /\ RefusalBudget \in Nat
      /\ budget.seq \in Nat /\ budget.count \in Nat /\ budget.count < RefusalBudget
  BY <1>1, BudgetAssumption DEF AlarmType, BudgetIsSound
<1>3. refusals' = [refusals EXCEPT ![a] = IF @ < RefusalBudget THEN @ + 1 ELSE @]
  BY <1>0 DEF Refused
<1>4. /\ refusals' \in [Alarm -> 0..RefusalBudget]
      /\ \A b \in Alarm : b # a => refusals'[b] = refusals[b]
      /\ refusals'[a] = IF refusals[a] < RefusalBudget THEN refusals[a] + 1 ELSE refusals[a]
  <2>1. refusals \in [Alarm -> 0..RefusalBudget]
    BY DEF AlarmType
  <2> QED
    BY ONLY <1>1, <1>2, <1>3, <2>1
<1>5. \A b \in Alarm :
         /\ refusals[b] <= refusals'[b]
         /\ refusals[b] = RefusalBudget => refusals'[b] = RefusalBudget
  <2>1. \A b \in Alarm : refusals[b] \in 0..RefusalBudget
    BY DEF AlarmType
  <2> QED
    BY ONLY <1>1, <1>2, <1>4, <2>1
<1>6. LedgerIsSound' /\ HoldsAreSound' /\ AlarmIsBacked' /\ DoneIsPublished'
  BY <1>0 DEF LedgerIsSound, HoldsAreSound, AlarmIsBacked, DoneIsPublished
<1>7. CASE job.from = "head"
  <2>1. /\ parked' = parked /\ budget' = Counted
        /\ job' = IF Counted.count >= RefusalBudget THEN [job EXCEPT !.at = "park"] ELSE None
    BY <1>0, <1>7 DEF Refused
  <2>2. IsHead(a) /\ a \in log /\ seq[a] < cursor.next
    BY <1>1, <1>7 DEF JobIsSound, IsHead, Uncommitted, SpoolIsSound, AlarmType, CursorType
  <2>3. /\ Counted.seq = seq[a] /\ Counted.count \in 1..RefusalBudget
        /\ Counted.count <= refusals'[a]
        /\ Counted \in [seq : Nat, count : Nat]
    <3>1. budget.seq = seq[a] => budget.count <= refusals[a]
      BY <2>2 DEF BudgetIsSound
    <3>2. Counted = [seq |-> seq[a],
                     count |-> IF budget.seq = seq[a] THEN budget.count + 1 ELSE 1]
      BY DEF Counted
    <3> QED
      BY ONLY <3>1, <3>2, <1>2, <1>4
  <2>4. CASE Counted.count >= RefusalBudget
    <3>1. /\ job' = [job EXCEPT !.at = "park"] /\ refusals'[a] = RefusalBudget
      BY <2>1, <2>3, <2>4, <1>2, <1>4
    <3>2. /\ job' \in Job /\ job'.alarm = a /\ job'.from = "head" /\ job'.todo = job.todo
          /\ job'.at = "park" /\ job' # None
      BY <3>1, <1>1, <1>7, AlarmNoneAssumption DEF Job
    <3>3. AlarmType'
      BY <1>0, <1>4, <2>1, <2>3, <3>2 DEF AlarmType
    <3>4. SpoolIsSound' /\ NothingLost' /\ OneEntryEach' /\ ParkedWasRefused'
      BY <1>0, <1>5, <2>1
         DEF SpoolIsSound, NothingLost, OneEntryEach, ParkedWasRefused, SameWork, Uncommitted,
             AlarmType, ParkedRecord
    <3>5. JobIsSound'
      BY <1>0, <1>1, <2>1, <2>2, <3>1, <3>2 DEF JobIsSound, IsHead, Uncommitted, EndIsNews
    <3>6. BudgetIsSound'
      <4>1. \A b \in log : seq[b] = seq[a] => b = a
        BY <2>2 DEF SpoolIsSound
      <4> QED
        BY <1>0, <1>1, <2>1, <2>2, <2>3, <3>2, <4>1 DEF BudgetIsSound
    <3>7. PlanIsSound'
      BY <1>0, <1>1, <3>2 DEF PlanIsSound
    <3> QED
      BY <1>6, <3>3, <3>4, <3>5, <3>6, <3>7
  <2>5. CASE ~(Counted.count >= RefusalBudget)
    <3>1. job' = None
      BY <2>1, <2>5
    <3>2. AlarmType'
      BY <1>0, <1>4, <2>1, <2>3, <3>1 DEF AlarmType
    <3>3. SpoolIsSound' /\ NothingLost' /\ OneEntryEach' /\ ParkedWasRefused'
      BY <1>0, <1>5, <2>1
         DEF SpoolIsSound, NothingLost, OneEntryEach, ParkedWasRefused, SameWork, Uncommitted,
             AlarmType, ParkedRecord
    <3>4. JobIsSound' /\ PlanIsSound'
      BY <3>1 DEF JobIsSound, PlanIsSound
    <3>5. BudgetIsSound'
      BY <1>0, <1>1, <1>2, <2>1, <2>2, <2>3, <2>5, <3>1 DEF BudgetIsSound, SpoolIsSound, AlarmType
    <3> QED
      BY <1>6, <3>2, <3>3, <3>4, <3>5
  <2> QED
    BY <2>4, <2>5
<1>8. CASE job.from = "parked"
  <2>1. parked' = Touched(a) /\ budget' = budget /\ job' = None
    BY <1>0, <1>8 DEF Refused
  <2>2. /\ parked' \subseteq ParkedRecord /\ IsFiniteSet(parked')
        /\ {x.alarm : x \in parked'} = Waiting
        /\ \A u, v \in parked' : u.alarm = v.alarm => u = v
    <3>1. \E x \in parked : x.alarm = a
      BY <1>1, <1>8 DEF JobIsSound
    <3> QED
      BY <2>1, <3>1, TouchedFacts
  <2>3. OneEntryEach' /\ ParkedWasRefused' /\ NothingLost' /\ SpoolIsSound'
    <3>1. Waiting' = Waiting
      BY <2>2 DEF Waiting
    <3> QED
      BY <1>0, <1>1, <1>5, <2>2, <3>1, EntriesKept
  <2>4. AlarmType'
    BY <1>0, <1>4, <2>1, <2>2 DEF AlarmType
  <2>5. JobIsSound' /\ PlanIsSound'
    BY <2>1 DEF JobIsSound, PlanIsSound
  <2>6. BudgetIsSound'
    <3>1. \A b \in log : b \in Alarm /\ refusals[b] \in Nat /\ refusals'[b] \in Nat
      BY <1>4 DEF AlarmType
    <3> QED
      BY <1>0, <1>1, <1>2, <1>5, <2>1, <3>1 DEF BudgetIsSound
  <2> QED
    BY <1>6, <2>3, <2>4, <2>5, <2>6
<1> QED
  BY <1>1, <1>7, <1>8 DEF Job

\* The cursor passes the record in hand and no other.
LEMMA CommitSafe ==
    ASSUME Safe, Commit \/ CommitFails, NEW a, a = job.alarm
    PROVE  Safe'
<1> USE DEF Safe, AlarmInv
<1>0. /\ UNCHANGED <<emitted, hold, noticed, log, seq, synced, parked, ledger, routed, created,
                     foreign, stalled, channels, sent, timeline, refusals, fate>>
      /\ Discharging("head") /\ job' = None /\ cursor' = Committed
      /\ \/ saved' = cursor' /\ drainer' = drainer /\ budget' = NoBudget /\ faults' = faults
         \/ /\ saved' = saved /\ drainer' = "ended" /\ budget' = budget
            /\ faults < MaxFaults /\ faults' = faults + 1
  BY DEF Commit, CommitFails, daemon, routing, relay
<1>1. /\ job \in Job /\ job # None /\ a \in Alarm /\ drainer = "up"
      /\ job.at = "discharge" /\ job.from = "head"
  BY <1>0 DEF Discharging, AlarmType, Job
<1>2. /\ IsHead(a)
      /\ fate[a] = "done" \/ \E x \in parked : x.alarm = a
  BY <1>1 DEF JobIsSound
<1>3. /\ cursor \in CursorType /\ saved \in CursorType /\ seq \in [Alarm -> Nat]
      /\ cursor.next \in Nat /\ cursor.committed \in Nat /\ saved.next \in Nat
      /\ saved.committed \in Nat /\ synced \in Nat /\ log \subseteq Alarm
      /\ saved.committed = cursor.committed
  BY <1>1 DEF AlarmType, CursorType, SpoolIsSound
<1>4. /\ a \in log /\ seq[a] \in Nat /\ seq[a] > cursor.committed /\ seq[a] < cursor.next
      /\ \A b \in log : seq[b] > cursor.committed => seq[a] <= seq[b]
  BY <1>2, <1>3 DEF IsHead, Uncommitted, SpoolIsSound
<1>5. /\ cursor' \in CursorType /\ cursor'.committed = seq[a] /\ cursor'.next = cursor.next
  <2>1. cursor' = [cursor EXCEPT !.committed = seq[a]]
    BY <1>0, <1>3, <1>4 DEF Committed
  <2> QED
    BY <2>1, <1>3, <1>4 DEF CursorType
<1>6. /\ saved' \in CursorType /\ saved'.committed \in Nat
      /\ saved.committed <= saved'.committed /\ saved.next <= saved'.next
      /\ saved'.committed <= seq[a] /\ saved'.next <= cursor.next
      /\ saved'.committed < saved'.next
      /\ drainer' # "ended" => saved'.committed = seq[a]
      /\ faults' \in 0..MaxFaults /\ drainer' \in {"up", "ended"}
      /\ budget' \in [seq : Nat, count : Nat]
      /\ budget' = NoBudget \/ (budget' = budget /\ drainer' = "ended")
  <2>1. /\ saved.next <= cursor.next /\ saved.committed < saved.next
        /\ budget \in [seq : Nat, count : Nat] /\ faults \in 0..MaxFaults
    BY DEF SpoolIsSound, AlarmType
  <2>2. NoBudget \in [seq : Nat, count : Nat]
    BY DEF NoBudget
  <2>3. CASE saved' = cursor' /\ drainer' = drainer /\ budget' = NoBudget /\ faults' = faults
    BY ONLY <2>1, <2>2, <2>3, <1>1, <1>3, <1>4, <1>5
  <2>4. CASE /\ saved' = saved /\ drainer' = "ended" /\ budget' = budget
             /\ faults < MaxFaults /\ faults' = faults + 1
    BY ONLY <2>1, <2>4, <1>1, <1>3, <1>4, FaultBound
  <2> QED
    BY <1>0, <2>3, <2>4
<1>7. AlarmType'
  BY <1>0, <1>5, <1>6 DEF AlarmType
<1>8. SpoolIsSound'
  <2>1. synced < saved'.next
    BY <1>3, <1>6 DEF SpoolIsSound, CursorType
  <2>2. \A x \in parked, b \in log :
           x.alarm \in log /\ seq[b] > saved'.committed => seq[x.alarm] <= seq[b]
    BY <1>3, <1>6 DEF SpoolIsSound
  <2> QED
    BY <1>0, <1>3, <1>4, <1>5, <1>6, <2>1, <2>2 DEF SpoolIsSound
<1>9. JobIsSound' /\ PlanIsSound' /\ HoldsAreSound' /\ LedgerIsSound' /\ AlarmIsBacked'
      /\ DoneIsPublished' /\ OneEntryEach' /\ ParkedWasRefused'
  BY <1>0 DEF JobIsSound, PlanIsSound, HoldsAreSound, LedgerIsSound, AlarmIsBacked,
              DoneIsPublished, OneEntryEach, ParkedWasRefused, SameWork
<1>10. BudgetIsSound'
  <2>1. CASE budget' = NoBudget
    BY <2>1, <1>0, <1>3, <1>4, <1>5, BudgetAssumption DEF BudgetIsSound, NoBudget, AlarmType
  <2>2. CASE budget' = budget /\ drainer' = "ended"
    BY <2>2, <1>0, <1>5 DEF BudgetIsSound
  <2> QED
    BY <1>6, <2>1, <2>2
<1>11. NothingLost'
  <2>1. ASSUME NEW b \in Alarm, seq[b] # 0, fate[b] = "none"
        PROVE  b \in Uncommitted' \/ \E x \in parked : x.alarm = b
    <3>1. CASE b \in Uncommitted
      <4>1. b \in log /\ seq[a] <= seq[b] /\ seq[b] \in Nat
        BY <3>1, <1>3, <1>4 DEF Uncommitted
      <4>2. CASE seq[b] > seq[a]
        BY <4>1, <4>2, <1>0, <1>5 DEF Uncommitted
      <4>3. CASE seq[b] = seq[a]
        BY <4>1, <4>3, <2>1, <1>2, <1>4 DEF SpoolIsSound
      <4> QED
        BY <4>1, <4>2, <4>3, <1>4
    <3>2. CASE \E x \in parked : x.alarm = b
      BY <3>2
    <3> QED
      BY <2>1, <3>1, <3>2 DEF NothingLost
  <2> QED
    BY <1>0, <2>1 DEF NothingLost
<1> QED
  BY <1>7, <1>8, <1>9, <1>10, <1>11

\* What a record was served for leaves the dead-letter, and nothing else does.
LEMMA LeaveSafe ==
    ASSUME Safe, Leave, NEW a, a = job.alarm
    PROVE  Safe'
<1> USE DEF Safe, AlarmInv
<1> DEFINE rest == {x \in parked : seq[x.alarm] # seq[a]}
<1>0. /\ UNCHANGED <<faults, emitted, hold, noticed, log, seq, synced, cursor, saved, ledger,
                     routed, created, drainer, foreign, budget, stalled, channels, sent, timeline,
                     refusals, fate>>
      /\ Discharging("parked") /\ job' = None /\ parked' = Ages(rest)
  BY DEF Leave, daemon, spool, routing, task, relay
<1>1. /\ job \in Job /\ job # None /\ a \in Alarm /\ drainer = "up"
      /\ job.at = "discharge" /\ job.from = "parked"
  BY <1>0 DEF Discharging, AlarmType, Job
<1>2. fate[a] = "done" /\ \E x \in parked : x.alarm = a
  BY <1>1 DEF JobIsSound
<1>3. /\ parked \subseteq ParkedRecord /\ IsFiniteSet(parked)
      /\ \A u, v \in parked : u.alarm = v.alarm => u = v
  BY DEF AlarmType, OneEntryEach, SameWork
<1>4. \A x \in parked : seq[x.alarm] = seq[a] => x.alarm = a
  BY <1>2 DEF OneEntryEach, SameWork
<1>5. rest \subseteq ParkedRecord /\ IsFiniteSet(rest) /\ rest \subseteq parked
  BY <1>3, FS_Subset
<1>6. \A x \in parked : x.alarm # a => x \in rest
  BY <1>4
<1> HIDE DEF rest
<1>7. /\ parked' \subseteq ParkedRecord /\ IsFiniteSet(parked')
      /\ {x.alarm : x \in parked'} = {x.alarm : x \in rest}
      /\ \A u, v \in parked' : u.alarm = v.alarm => u = v
  BY <1>0, <1>3, <1>5, AgesFacts
<1>8. \A x \in parked' : \E y \in parked : y.alarm = x.alarm
  <2> SUFFICES ASSUME NEW x \in parked' PROVE \E y \in parked : y.alarm = x.alarm
    OBVIOUS
  <2>1. x.alarm \in {y.alarm : y \in rest}
    BY <1>7
  <2> QED
    BY <2>1, <1>5
<1>9. \A x \in parked : x.alarm # a => \E y \in parked' : y.alarm = x.alarm
  <2> SUFFICES ASSUME NEW x \in parked, x.alarm # a PROVE \E y \in parked' : y.alarm = x.alarm
    OBVIOUS
  <2>1. x.alarm \in {y.alarm : y \in parked'}
    BY <1>6, <1>7
  <2> QED
    BY <2>1
<1>10. AlarmType'
  BY <1>0, <1>7 DEF AlarmType
<1>11. SpoolIsSound'
  <2>1. \A x \in parked' : seq[x.alarm] # 0
    BY <1>8 DEF SpoolIsSound
  <2>2. \A x \in parked', b \in log :
            x.alarm \in log /\ seq[b] > saved.committed => seq[x.alarm] <= seq[b]
    BY <1>8 DEF SpoolIsSound
  <2> QED
    BY <1>0, <2>1, <2>2 DEF SpoolIsSound
<1>12. JobIsSound' /\ PlanIsSound' /\ HoldsAreSound' /\ LedgerIsSound' /\ AlarmIsBacked'
       /\ DoneIsPublished'
  BY <1>0 DEF JobIsSound, PlanIsSound, HoldsAreSound, LedgerIsSound, AlarmIsBacked,
              DoneIsPublished
<1>13. BudgetIsSound'
  BY <1>0, <1>1, BudgetAssumption DEF BudgetIsSound, NoBudget
<1>14. OneEntryEach'
  <2> SUFFICES ASSUME NEW x \in parked', NEW y \in parked', SameWork(x, y.alarm)'
               PROVE  x = y
    BY DEF OneEntryEach
  <2>1. PICK u \in parked : u.alarm = x.alarm
    BY <1>8
  <2>2. PICK v \in parked : v.alarm = y.alarm
    BY <1>8
  <2>3. SameWork(u, v.alarm)
    BY <1>0, <2>1, <2>2 DEF SameWork
  <2> QED
    BY <1>7, <2>1, <2>2, <2>3 DEF OneEntryEach
<1>15. ParkedWasRefused'
  BY <1>0, <1>8 DEF ParkedWasRefused
<1>16. NothingLost'
  BY <1>0, <1>2, <1>9 DEF NothingLost, Uncommitted
<1> QED
  BY <1>10, <1>11, <1>12, <1>13, <1>14, <1>15, <1>16

\* The dead-letter with the record in hand, and what it then holds too much.
Filed(a) == Ages(Kept(a)) \cup {Entry(a)}
Evicted(a) == IF Cardinality(Filed(a)) > Capacity THEN Oldest(Filed(a)) ELSE {}

\* Parking keeps one entry for the record in hand, and every other but those it stands for
\* and those the capacity makes it evict.
LEMMA ParkFacts ==
    ASSUME Safe, NEW a \in Alarm
    PROVE  /\ Filed(a) \ Evicted(a) \subseteq ParkedRecord /\ IsFiniteSet(Filed(a) \ Evicted(a))
           /\ Entry(a) \in Filed(a) \ Evicted(a)
           /\ \A x \in Filed(a) : x = Entry(a) \/ \E u \in Kept(a) : u.alarm = x.alarm
           /\ \A x, y \in Filed(a) : x.alarm = y.alarm => x = y
           /\ \A u \in Kept(a) : \E x \in Filed(a) : x.alarm = u.alarm
           /\ Evicted(a) \subseteq Filed(a)
           /\ Kept(a) \subseteq parked /\ \A u \in Kept(a) : u.alarm # a
<1>1. /\ parked \subseteq ParkedRecord /\ IsFiniteSet(parked)
      /\ \A u, v \in parked : u.alarm = v.alarm => u = v
  BY DEF Safe, AlarmInv, AlarmType, OneEntryEach, SameWork
<1>2. Kept(a) \subseteq parked /\ \A u \in Kept(a) : u.alarm # a
  BY DEF Kept, SameWork
<1>3. Kept(a) \subseteq ParkedRecord /\ IsFiniteSet(Kept(a))
  BY <1>1, <1>2, FS_Subset
<1> DEFINE rest == Ages(Kept(a))
<1>4. /\ rest \subseteq ParkedRecord /\ IsFiniteSet(rest)
      /\ {x.alarm : x \in rest} = {x.alarm : x \in Kept(a)}
      /\ \A x \in rest : x.age > 0
      /\ \A u, v \in rest : u.alarm = v.alarm => u = v
  BY <1>1, <1>2, <1>3, AgesFacts
<1>5. Entry(a) \in ParkedRecord /\ Entry(a).alarm = a /\ Entry(a).age = 0
  BY DEF Entry, ParkedRecord
<1> HIDE DEF rest
<1>6. Filed(a) = rest \cup {Entry(a)}
  BY DEF rest, Filed
<1>7. \A x \in rest : \E u \in Kept(a) : u.alarm = x.alarm
  <2> SUFFICES ASSUME NEW x \in rest PROVE \E u \in Kept(a) : u.alarm = x.alarm
    OBVIOUS
  <2>1. x.alarm \in {u.alarm : u \in Kept(a)}
    BY <1>4
  <2> QED
    BY <2>1
<1>8. \A u \in Kept(a) : \E x \in rest : x.alarm = u.alarm
  <2> SUFFICES ASSUME NEW u \in Kept(a) PROVE \E x \in rest : x.alarm = u.alarm
    OBVIOUS
  <2>1. u.alarm \in {x.alarm : x \in rest}
    BY <1>4
  <2> QED
    BY <2>1
<1>9. \A x \in rest : x.alarm # a
  BY <1>2, <1>7
<1>10. IsFiniteSet(Filed(a)) /\ Filed(a) \subseteq ParkedRecord
  BY <1>4, <1>5, <1>6, FS_AddElement
<1>11. Evicted(a) \subseteq Filed(a)
  BY DEF Oldest, Evicted
<1>12. Entry(a) \notin Evicted(a)
  <2> SUFFICES ASSUME Entry(a) \in Evicted(a) PROVE FALSE
    OBVIOUS
  <2>1. Cardinality(Filed(a)) > Capacity /\ \A y \in Filed(a) : y.age <= Entry(a).age
    BY DEF Oldest, Evicted
  <2>2. rest = {}
    <3> SUFFICES ASSUME NEW y \in rest PROVE FALSE
      OBVIOUS
    <3>1. y.age \in Nat /\ y.age > 0 /\ y.age <= 0
      BY <2>1, <1>4, <1>5, <1>6 DEF ParkedRecord
    <3> QED
      BY <3>1
  <2>3. Filed(a) = {Entry(a)}
    BY <1>6, <2>2
  <2>4. Cardinality(Filed(a)) = 1
    BY <2>3, FS_Singleton
  <2> QED
    BY <2>1, <2>4, CapacityAssumption
<1>13. IsFiniteSet(Filed(a) \ Evicted(a))
  BY <1>10, FS_Subset
<1>14. \A x, y \in Filed(a) : x.alarm = y.alarm => x = y
  BY <1>4, <1>5, <1>6, <1>9
<1> QED
  BY <1>2, <1>6, <1>7, <1>8, <1>10, <1>11, <1>12, <1>13, <1>14

\* Parking keeps the properties.
LEMMA ParkSafe ==
    ASSUME Safe, Park, NEW a, a = job.alarm
    PROVE  Safe'
<1> USE DEF Safe, AlarmInv
<1>0. /\ UNCHANGED <<faults, emitted, hold, noticed, log, seq, synced, cursor, saved, ledger,
                     routed, created, drainer, foreign, budget, stalled, channels, sent, timeline,
                     refusals>>
      /\ drainer = "up" /\ job # None /\ job.at = "park"
      /\ parked' = Filed(a) \ Evicted(a)
      /\ fate' = [b \in Alarm |->
                     IF fate[b] # "none" THEN fate[b]
                     ELSE IF \E x \in Evicted(a) : x.alarm = b THEN "dropped"
                     ELSE IF b # a /\ \E x \in parked : x.alarm = b /\ SameWork(x, a)
                     THEN "replaced" ELSE "none"]
      /\ job' = [job EXCEPT !.at = "discharge"]
  BY DEF Park, Filed, Evicted, daemon, spool, routing, task, relay
<1>1. /\ job \in Job /\ a \in Alarm /\ job.from = "head" /\ refusals[a] = RefusalBudget
      /\ IsHead(a) /\ seq[a] # 0
      /\ Kind[a] = "created" => EndIsNews(Subject[a])
  BY <1>0 DEF AlarmType, Job, JobIsSound
<1>2. /\ Filed(a) \ Evicted(a) \subseteq ParkedRecord /\ IsFiniteSet(Filed(a) \ Evicted(a))
      /\ Entry(a) \in Filed(a) \ Evicted(a)
      /\ \A x \in Filed(a) : x = Entry(a) \/ \E u \in Kept(a) : u.alarm = x.alarm
      /\ \A x, y \in Filed(a) : x.alarm = y.alarm => x = y
      /\ \A u \in Kept(a) : \E x \in Filed(a) : x.alarm = u.alarm
      /\ Evicted(a) \subseteq Filed(a)
      /\ Kept(a) \subseteq parked /\ \A u \in Kept(a) : u.alarm # a
  BY <1>1, ParkFacts
<1>3. Entry(a).alarm = a
  BY DEF Entry
<1>4. /\ job' \in Job /\ job' # None /\ job'.alarm = a /\ job'.from = "head"
      /\ job'.at = "discharge"
  BY <1>0, <1>1, AlarmNoneAssumption DEF Job
<1>5. /\ fate' \in [Alarm -> Fates]
      /\ \A b \in Alarm :
            /\ fate[b] # "none" => fate'[b] = fate[b]
            /\ fate[b] = "none" /\ (\E x \in Evicted(a) : x.alarm = b) => fate'[b] = "dropped"
            /\ fate[b] = "none" /\ ~(\E x \in Evicted(a) : x.alarm = b) =>
                  fate'[b] = IF b # a /\ \E x \in parked : x.alarm = b /\ SameWork(x, a)
                             THEN "replaced" ELSE "none"
  BY <1>0 DEF AlarmType, Fates
<1>6. \A x \in Filed(a) : x.alarm = a \/ \E u \in parked : u.alarm = x.alarm
  BY <1>2, <1>3
<1>7. /\ seq \in [Alarm -> Nat] /\ log \subseteq Alarm /\ a \in log
      /\ saved.committed = cursor.committed
      /\ \A b \in log : seq[b] > saved.committed => seq[a] <= seq[b]
      /\ seq[a] > saved.committed
  BY <1>0, <1>1 DEF AlarmType, SpoolIsSound, IsHead, Uncommitted
<1>8. AlarmType'
  BY <1>0, <1>2, <1>4, <1>5 DEF AlarmType
<1>9. SpoolIsSound'
  <2>1. \A x \in Filed(a) : seq[x.alarm] # 0
    BY <1>1, <1>6 DEF SpoolIsSound
  <2>2. \A x \in Filed(a), b \in log :
           x.alarm \in log /\ seq[b] > saved.committed => seq[x.alarm] <= seq[b]
    BY <1>6, <1>7 DEF SpoolIsSound
  <2>3. \A b \in Alarm : fate'[b] # "none" => seq[b] # 0
    <3> SUFFICES ASSUME NEW b \in Alarm, fate'[b] # "none" PROVE seq[b] # 0
      OBVIOUS
    <3>1. CASE fate[b] # "none"
      BY <3>1 DEF SpoolIsSound
    <3>2. CASE \E x \in Evicted(a) : x.alarm = b
      BY <3>2, <2>1, <1>2
    <3>3. CASE \E x \in parked : x.alarm = b
      BY <3>3 DEF SpoolIsSound
    <3> QED
      BY <3>1, <3>2, <3>3, <1>5
  <2>4. \A b \in Alarm : fate'[b] = "none" => fate[b] = "none"
    BY <1>5
  <2>5. /\ \A x \in parked' : seq[x.alarm] # 0
        /\ \A x \in parked', b \in log :
              x.alarm \in log /\ seq[b] > saved.committed => seq[x.alarm] <= seq[b]
    BY <1>0, <2>1, <2>2
  <2> QED
    BY <1>0, <2>3, <2>4, <2>5 DEF SpoolIsSound
<1>10. JobIsSound'
  <2>1. \E x \in parked' : x.alarm = a
    BY <1>0, <1>2, <1>3
  <2>2. IsHead(a)'
    BY <1>0, <1>1 DEF IsHead, Uncommitted
  <2> QED
    BY <1>0, <1>1, <1>4, <2>1, <2>2 DEF JobIsSound
<1>11. BudgetIsSound'
  BY <1>0, <1>1, <1>4 DEF BudgetIsSound
<1>12. PlanIsSound'
  BY <1>4 DEF PlanIsSound
<1>13. LedgerIsSound' /\ HoldsAreSound' /\ AlarmIsBacked'
  BY <1>0 DEF LedgerIsSound, HoldsAreSound, AlarmIsBacked
<1>14. DoneIsPublished'
  <2>1. \A b \in Alarm : fate'[b] = "done" => fate[b] = "done"
    BY <1>5
  <2> QED
    BY <1>0, <2>1 DEF DoneIsPublished
<1>15. OneEntryEach'
  <2> SUFFICES ASSUME NEW x \in Filed(a), NEW y \in Filed(a), SameWork(x, y.alarm)'
               PROVE  x.alarm = y.alarm
    BY <1>0, <1>2 DEF OneEntryEach
  <2>0. SameWork(x, y.alarm)
    BY <1>0 DEF SameWork
  <2>1. CASE x = Entry(a) /\ y = Entry(a)
    BY <2>1
  <2>2. ASSUME NEW u \in Kept(a), u.alarm = x.alarm, NEW v \in Kept(a), v.alarm = y.alarm
        PROVE  x.alarm = y.alarm
    BY <2>0, <2>2, <1>2 DEF OneEntryEach, SameWork
  <2>3. ASSUME NEW u \in Kept(a), u.alarm = x.alarm, y = Entry(a) PROVE FALSE
    BY <2>0, <2>3, <1>3 DEF Kept, SameWork
  <2>4. ASSUME NEW v \in Kept(a), v.alarm = y.alarm, x = Entry(a) PROVE FALSE
    BY <2>0, <2>4, <1>3 DEF Kept, SameWork
  <2> QED
    BY <1>2, <2>1, <2>2, <2>3, <2>4
<1>16. ParkedWasRefused'
  BY <1>0, <1>1, <1>6 DEF ParkedWasRefused
<1>17. NothingLost'
  <2>1. ASSUME NEW b \in Alarm, seq[b] # 0, fate'[b] = "none"
        PROVE  b \in Uncommitted \/ \E x \in parked' : x.alarm = b
    <3>1. fate[b] = "none" /\ ~(\E x \in Evicted(a) : x.alarm = b)
      BY <2>1, <1>5
    <3>2. ASSUME NEW x \in parked, x.alarm = b PROVE \E y \in parked' : y.alarm = b
      <4>1. CASE b = a
        BY <4>1, <1>0, <1>2, <1>3
      <4>2. CASE b # a
        <5>1. ~SameWork(x, a)
          BY <4>2, <3>1, <3>2, <2>1, <1>5
        <5>2. PICK y \in Filed(a) : y.alarm = b
          BY <5>1, <3>2, <1>2 DEF Kept
        <5> QED
          BY <5>2, <3>1, <1>0
      <4> QED
        BY <4>1, <4>2
    <3> QED
      BY <2>1, <3>1, <3>2 DEF NothingLost
  <2>2. ASSUME NEW b \in Alarm, fate'[b] = "replaced"
        PROVE  \E c \in Alarm : /\ Subject[c] = Subject[b] /\ seq[c] > seq[b]
                                /\ Kind[b] = "ended" => Kind[c] = "ended"
    <3>1. CASE fate[b] = "replaced"
      BY <3>1 DEF NothingLost
    <3>2. CASE fate[b] # "replaced"
      <4>1. fate[b] = "none" /\ b # a /\ \E x \in parked : x.alarm = b /\ SameWork(x, a)
        BY <2>2, <3>2, <1>5
      <4>2. PICK x \in parked : x.alarm = b /\ SameWork(x, a)
        BY <4>1
      <4>3. b \in log /\ seq[b] # seq[a] /\ seq[b] <= seq[a]
        BY <4>1, <4>2, <1>7 DEF SpoolIsSound
      <4>4. Subject[b] = Subject[a] /\ seq[a] > seq[b]
        BY <4>2, <4>3, <1>7 DEF SameWork
      <4>5. ASSUME Kind[b] = "ended" PROVE Kind[a] = "ended"
        <5>1. Kind[a] # "promoted"
          BY <1>1, <4>4, <4>5, PromotionsApart
        <5>2. Kind[a] # "created"
          BY <4>2, <4>4, <4>5, <1>1 DEF EndIsNews
        <5> QED
          BY <1>1, <5>1, <5>2, KindAssumption DEF Kinds
      <4> QED
        BY <4>4, <4>5, <1>1
    <3> QED
      BY <3>1, <3>2
  <2>3. Uncommitted' = Uncommitted /\ seq' = seq
    BY <1>0 DEF Uncommitted
  <2> HIDE DEF Uncommitted
  <2> QED
    BY <2>1, <2>2, <2>3 DEF NothingLost
<1> QED
  BY <1>8, <1>9, <1>10, <1>11, <1>12, <1>13, <1>14, <1>15, <1>16, <1>17

\* A new process finds the files as a step of the old one left them, less what a power cut
\* took from the segment.
LEMMA OpenSafe ==
    ASSUME Safe, NEW left, NEW stored \in CursorType, NEW torn \in Nat, Open(left, stored, torn),
           left \subseteq log,
           saved.committed <= stored.committed, stored.committed <= cursor.committed,
           stored.committed < stored.next, synced' \in Nat, synced' < stored.next,
           faults' \in 0..MaxFaults, fate' \in [Alarm -> Fates],
           \A b \in Alarm :
               fate'[b] = fate[b] \/ (fate[b] = "none" /\ fate'[b] = "torn" /\ b \in log),
           \A b \in log \ left : fate'[b] # "none"
    PROVE  Safe'
<1> USE DEF Safe, AlarmInv
<1>0. /\ UNCHANGED <<emitted, hold, noticed, seq, parked, ledger, routed, created, channels,
                     sent, timeline, refusals>>
      /\ log' = left /\ saved' = cursor'
      /\ drainer' = "starting" /\ foreign' \in {foreign, Foreign}
      /\ budget' = NoBudget /\ stalled' = {} /\ job' = None
  BY DEF Open, daemon, routing, relay
<1>1. PICK last \in 0..cursor.next :
          IsLast(last, left) /\ cursor' = [stored EXCEPT !.next = NextSeq(last, stored, torn)]
  BY DEF Open
<1>2. /\ cursor.next \in Nat /\ cursor.committed \in Nat /\ saved.committed \in Nat
      /\ stored.next \in Nat /\ stored.committed \in Nat /\ last \in Nat
      /\ seq \in [Alarm -> Nat] /\ log \subseteq Alarm
  BY <1>1 DEF AlarmType, CursorType
<1> DEFINE n == NextSeq(last, stored, torn)
<1>3. n \in Nat /\ n >= stored.next /\ n > last
  BY <1>2 DEF NextSeq
<1> HIDE DEF n
<1>4. /\ cursor' \in CursorType /\ cursor'.next = n /\ cursor'.committed = stored.committed
  <2>1. cursor' = [stored EXCEPT !.next = n]
    BY <1>1 DEF n
  <2> QED
    BY <2>1, <1>3 DEF CursorType
<1>5. \A b \in left : seq[b] \in Nat /\ seq[b] <= last /\ seq[b] # 0
  BY <1>1, <1>2 DEF IsLast, SpoolIsSound
<1>6. AlarmType'
  BY <1>0, <1>2, <1>4, ForeignAssumption DEF AlarmType, NoBudget
<1>7. SpoolIsSound'
  <2>1. \A b \in left : seq[b] \in 1..(n - 1)
    BY <1>2, <1>3, <1>5
  <2>2. \A x \in parked, b \in left :
           x.alarm \in left /\ seq[b] > stored.committed => seq[x.alarm] <= seq[b]
    BY <1>2, <1>5 DEF SpoolIsSound
  <2>3. /\ \A b \in Alarm : fate'[b] = "none" /\ seq[b] # 0 => b \in left
        /\ \A b \in Alarm : fate'[b] # "none" => seq[b] # 0
    BY DEF SpoolIsSound
  <2>4. /\ synced' < n /\ stored.committed < n
    BY <1>2, <1>3
  <2>5. \A b, c \in left : seq[b] = seq[c] => b = c
    BY DEF SpoolIsSound
  <2> QED
    BY <1>0, <1>2, <1>3, <1>4, <2>1, <2>2, <2>3, <2>4, <2>5 DEF SpoolIsSound
<1>8. JobIsSound' /\ PlanIsSound'
  BY <1>0 DEF JobIsSound, PlanIsSound
<1>9. BudgetIsSound'
  BY <1>0, <1>2, <1>3, <1>4, BudgetAssumption DEF BudgetIsSound, NoBudget, AlarmType
<1>10. LedgerIsSound' /\ HoldsAreSound' /\ AlarmIsBacked' /\ OneEntryEach' /\ ParkedWasRefused'
  BY <1>0 DEF LedgerIsSound, HoldsAreSound, AlarmIsBacked, OneEntryEach, ParkedWasRefused, SameWork
<1>11. DoneIsPublished'
  <2>1. \A b \in Alarm : fate'[b] = "done" => fate[b] = "done"
    OBVIOUS
  <2> QED
    BY <1>0, <2>1 DEF DoneIsPublished
<1>12. NothingLost'
  <2>1. \A b \in Alarm : fate'[b] = "replaced" => fate[b] = "replaced"
    OBVIOUS
  <2>2. ASSUME NEW b \in Alarm, seq[b] # 0, fate'[b] = "none"
        PROVE  b \in Uncommitted' \/ \E x \in parked : x.alarm = b
    <3>1. fate[b] = "none" /\ (b \in log => b \in left)
      BY <2>2
    <3>2. CASE b \in Uncommitted
      BY <3>1, <3>2, <1>0, <1>2, <1>4 DEF Uncommitted
    <3> QED
      BY <2>2, <3>1, <3>2 DEF NothingLost
  <2> QED
    BY <1>0, <2>1, <2>2 DEF NothingLost
<1> QED
  BY <1>6, <1>7, <1>8, <1>9, <1>10, <1>11, <1>12

\* A restart, a crash and a power cut keep the properties.
LEMMA RestartSafe ==
    ASSUME Safe, Restart \/ Crash \/ PowerCut
    PROVE  Safe'
<1>1. /\ cursor \in CursorType /\ saved \in CursorType /\ seq \in [Alarm -> Nat]
      /\ cursor.next \in Nat /\ saved.next \in Nat /\ saved.committed \in Nat
      /\ cursor.committed \in Nat /\ synced \in Nat /\ log \subseteq Alarm
      /\ saved.committed <= cursor.committed
      /\ cursor.committed < cursor.next /\ saved.committed < saved.next
      /\ synced < saved.next
      /\ \A a \in log : seq[a] \in 1..(cursor.next - 1)
      /\ faults \in 0..MaxFaults /\ fate \in [Alarm -> Fates]
  BY DEF Safe, AlarmInv, SpoolIsSound, AlarmType, CursorType
<1>2. CASE Restart
  <2>1. /\ synced' \in Nat /\ synced' < cursor.next /\ Open(log, cursor, 0)
        /\ fate' = fate /\ faults' = faults
    <3>1. PICK n \in 0..cursor.next : IsLast(n, log) /\ synced' = n
      BY <1>2 DEF Restart
    <3>2. n < cursor.next
      BY <3>1, <1>1 DEF IsLast
    <3> QED
      BY <1>1, <1>2, <3>1, <3>2 DEF Restart
  <2> QED
    BY <1>1, <2>1, OpenSafe
<1>3. CASE Crash
  <2>1. /\ synced' = synced /\ Open(log, saved, 0) /\ fate' = fate
        /\ faults < MaxFaults /\ faults' = faults + 1
    BY <1>3 DEF Crash
  <2>2. faults' \in 0..MaxFaults
    BY <1>1, <2>1, FaultBound
  <2> QED
    BY <1>1, <2>1, <2>2, OpenSafe
<1>4. CASE PowerCut
  <2>1. PICK end \in {synced} \cup {seq[a] : a \in log} :
            LET left == {a \in log : seq[a] <= end} IN
            /\ faults < MaxFaults
            /\ faults' = faults + 1
            /\ \E torn \in {0} \cup {seq[a] : a \in log \ left} : Open(left, saved, torn)
            /\ fate' = [a \in Alarm |->
                           IF a \in log \ left /\ fate[a] = "none" THEN "torn" ELSE fate[a]]
            /\ UNCHANGED synced
    BY <1>4 DEF PowerCut
  <2> DEFINE left == {a \in log : seq[a] <= end}
  <2>2. /\ faults < MaxFaults
        /\ faults' = faults + 1
        /\ \E torn \in {0} \cup {seq[a] : a \in log \ left} : Open(left, saved, torn)
        /\ fate' = [a \in Alarm |->
                       IF a \in log \ left /\ fate[a] = "none" THEN "torn" ELSE fate[a]]
        /\ synced' = synced
        /\ left \subseteq log
    BY <2>1
  <2> HIDE DEF left
  <2>3. PICK torn \in {0} \cup {seq[a] : a \in log \ left} : Open(left, saved, torn)
    BY <2>2
  <2>4. torn \in Nat
    BY <1>1, <2>3
  <2>5. faults' \in 0..MaxFaults
    BY <1>1, <2>2, FaultBound
  <2>6. /\ fate' \in [Alarm -> Fates]
        /\ \A b \in Alarm :
              fate'[b] = fate[b] \/ (fate[b] = "none" /\ fate'[b] = "torn" /\ b \in log)
        /\ \A b \in log \ left : fate'[b] # "none"
    BY <1>1, <2>2 DEF Fates
  <2> QED
    BY <1>1, <2>2, <2>3, <2>4, <2>5, <2>6, OpenSafe
<1> QED
  BY <1>2, <1>3, <1>4

\* A record taken up keeps the properties.
LEMMA TakeSafe ==
    ASSUME Safe,
           \/ \E a \in Alarm : TakeHead(a)
           \/ \E x \in parked : TakeParked(x)
    PROVE  Safe'
<1>1. ASSUME NEW a \in Alarm, TakeHead(a) PROVE Safe'
  <2>1. /\ drainer = "up" /\ job = None /\ IsHead(a) /\ Begin(a, "head")
        /\ UNCHANGED <<faults, emitted, hold, noticed, log, seq, synced, cursor, saved, parked,
                       ledger, created, drainer, foreign, budget, stalled, channels, sent,
                       timeline, refusals>>
    BY <1>1 DEF TakeHead, Ready, daemon, spool, task, relay
  <2>2. seq[a] # 0
    BY <2>1 DEF Safe, AlarmInv, SpoolIsSound, IsHead, Uncommitted
  <2> QED
    BY <2>1, <2>2, BeginSafe
<1>2. ASSUME NEW x \in parked, TakeParked(x) PROVE Safe'
  <2>1. /\ drainer = "up" /\ job = None /\ Begin(x.alarm, "parked") /\ budget' = NoBudget
        /\ UNCHANGED <<faults, emitted, hold, noticed, log, seq, synced, cursor, saved, parked,
                       ledger, created, drainer, foreign, stalled, channels, sent, timeline,
                       refusals>>
    BY <1>2 DEF TakeParked, Idle, Ready, daemon, spool, relay
  <2>2. x.alarm \in Alarm /\ seq[x.alarm] # 0
    BY DEF Safe, AlarmInv, AlarmType, ParkedRecord, SpoolIsSound
  <2> QED
    BY <2>1, <2>2, BeginSafe
<1> QED
  BY <1>1, <1>2

\* Every step keeps the properties.
LEMMA NextSafe == Safe /\ [Next]_vars => Safe'
<1> SUFFICES ASSUME Safe, [Next]_vars PROVE Safe'
  OBVIOUS
<1>1. CASE Receive
  BY <1>1, ReceiveSafe DEF Receive
<1>2. CASE Tick
  BY <1>2, TakeSafe, QuietSafe, EntrySafe DEF Tick
<1>3. CASE Answer
  BY <1>3, AcceptedSafe, UnansweredSafe, RefusedSafe DEF Answer
<1>4. CASE Discharge
  BY <1>4, ParkSafe, CommitSafe, LeaveSafe DEF Discharge
<1>5. CASE \/ \E w \in Work : HoldEnds(w)
           \/ \E h \in Hunts : RelayForgets(h)
           \/ TaskEnds \/ Start
  BY <1>5, QuietSafe
<1>6. CASE IntervalPasses
  BY <1>6, EntrySafe
<1>7. CASE Restart \/ Crash \/ PowerCut
  BY <1>7, RestartSafe
<1>8. CASE UNCHANGED vars
  <2> USE <1>8 DEF vars, daemon, spool, routing, task, relay
  <2>1. AlarmType' /\ SpoolIsSound' /\ JobIsSound' /\ BudgetIsSound' /\ PlanIsSound'
    BY DEF Safe, AlarmInv, AlarmType, SpoolIsSound, JobIsSound, BudgetIsSound, PlanIsSound,
           IsHead, Uncommitted, EndIsNews
  <2>2. LedgerIsSound' /\ HoldsAreSound' /\ NothingLost' /\ OneEntryEach'
    BY DEF Safe, AlarmInv, LedgerIsSound, HoldsAreSound, NothingLost, OneEntryEach, SameWork,
           Uncommitted
  <2>3. ParkedWasRefused' /\ DoneIsPublished' /\ AlarmIsBacked'
    BY DEF Safe, ParkedWasRefused, DoneIsPublished, AlarmIsBacked
  <2> QED
    BY <2>1, <2>2, <2>3 DEF Safe, AlarmInv
<1> QED
  BY <1>1, <1>2, <1>3, <1>4, <1>5, <1>6, <1>7, <1>8 DEF Next

LEMMA AlwaysSafe == Spec => []Safe
  BY InitSafe, NextSafe, PTL DEF Spec

\* What the actions rely on from one write to the next is so in every state, and so is
\* that the dead-letter has one entry for one piece of work, refused as often as the budget
\* says.
THEOREM LaneInvariant == Spec => []LaneInv
<1>1. Safe => LaneInv
  BY DEF Safe, LaneInv
<1> QED
  BY <1>1, AlwaysSafe, PTL

\* The cursor passes no record that is neither served nor in the dead-letter, and a record
\* leaves the dead-letter only as served, evicted, or for newer word of its work: whatever
\* crashes, power cuts and failed writes fall between the files.
THEOREM NoAlarmIsLost == Spec => []NothingLost
<1>1. Safe => NothingLost
  BY DEF Safe
<1> QED
  BY <1>1, AlwaysSafe, PTL

\* One piece of work never has two entries in the dead-letter.
THEOREM EntriesAreSingle == Spec => []OneEntryEach
<1>1. Safe => OneEntryEach
  BY DEF Safe
<1> QED
  BY <1>1, AlwaysSafe, PTL

\* Nothing is parked that the relay has not refused as often as the budget says.
THEOREM RefusalsPark == Spec => []ParkedWasRefused
<1>1. Safe => ParkedWasRefused
  BY DEF Safe
<1> QED
  BY <1>1, AlwaysSafe, PTL

\* What left the lane as done is on the relay, whichever attempts published its frames.
THEOREM DoneIsOnTheRelay == Spec => []DoneIsPublished
<1>1. Safe => DoneIsPublished
  BY DEF Safe
<1> QED
  BY <1>1, AlwaysSafe, PTL

\* The relay never has a page without the card and the notice behind it, nor a notice in a
\* channel nobody was let into.
THEOREM PagesAreBacked == Spec => []AlarmIsBacked
<1>1. Safe => AlarmIsBacked
  BY DEF Safe
<1> QED
  BY <1>1, AlwaysSafe, PTL

\* A frame the relay takes does not open a closed timeline.
LEMMA TakesKeepClosed ==
    ASSUME Safe, NEW s \in Frames, Publishing(s), Takes(s), UNCHANGED <<hold, routed>>
    PROVE  \A w \in Work : timeline[w] = "terminal" => timeline'[w] = "terminal"
  BY TakesFacts

\* A hold the timeline shows as closed is never shown as open again, whether the open event
\* is replayed, re-filed, or served late from the dead-letter.
THEOREM ClosedStaysClosed == Spec => StaysClosed
<1> DEFINE NotReopened == \A w \in Work : timeline[w] = "terminal" => timeline'[w] = "terminal"
<1>1. Safe /\ [Next]_vars => [NotReopened]_vars
  <2> SUFFICES ASSUME Safe, Next PROVE NotReopened
    OBVIOUS
  <2>1. ASSUME NEW s \in Frames, StepAccepted(s) PROVE NotReopened
    BY <2>1, TakesKeepClosed DEF StepAccepted, daemon
  <2>2. ASSUME NEW s \in Frames, StepUnrecorded(s) PROVE NotReopened
    BY <2>2, TakesKeepClosed DEF StepUnrecorded, daemon, routing
  <2>3. ASSUME NEW s \in Frames, StepStalled(s) PROVE NotReopened
    BY <2>3, TakesKeepClosed DEF StepStalled, daemon, routing, relay
  <2>4. ASSUME NEW s \in Frames, StepForgotten(s) \/ StepRefused(s) PROVE NotReopened
    BY <2>4 DEF StepForgotten, StepRefused, relay
  <2>5. CASE Receive \/ Tick \/ Discharge
    BY <2>5 DEF Receive, Append, Refuse, Lag, Tick, TakeHead, HeadUnreadable, TakeParked,
                MarkUnreadable, PassEnds, Discharge, Park, Commit, CommitFails, Leave, relay
  <2>6. CASE \/ \E w \in Work : HoldEnds(w)
             \/ \E h \in Hunts : RelayForgets(h)
             \/ TaskEnds \/ IntervalPasses \/ Start
    BY <2>6 DEF HoldEnds, RelayForgets, TaskEnds, IntervalPasses, Start, relay
  <2>7. CASE Restart \/ Crash \/ PowerCut
    BY <2>7 DEF Restart, Crash, PowerCut, Open, relay
  <2> QED
    BY <2>1, <2>2, <2>3, <2>4, <2>5, <2>6, <2>7 DEF Next, Answer
<1> QED
  BY <1>1, AlwaysSafe, PTL DEF Spec, StaysClosed

=============================================================================
