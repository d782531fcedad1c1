------------------------ MODULE DispatchJournalProofs ------------------------
(***************************************************************************)
(* TLAPS proofs for DispatchJournal.  IInv is inductive: one lemma per     *)
(* group of actions shows that a step preserves it.  The safety properties *)
(* and the refinement of OnceDispatch follow from it.                      *)
(***************************************************************************)
EXTENDS DispatchJournal, TLAPS

-----------------------------------------------------------------------------
(* What an appended line adds to a journal *)

\* An appended line adds its own entry to what the journal records, and nothing else.
LEMMA RecordedAppend ==
    ASSUME NEW s \in Seq(Entry), NEW e \in Entry, NEW x
    PROVE  Recorded(Append(s, e), x) <=> Recorded(s, x) \/ x = e
  <1>1. /\ Len(Append(s, e)) = Len(s) + 1
        /\ Len(s) \in Nat
        /\ \A i \in 1..Len(s) : Append(s, e)[i] = s[i]
        /\ Append(s, e)[Len(s) + 1] = e
    OBVIOUS
  <1>2. QED  BY <1>1 DEF Recorded

\* Appending loses no intent.
LEMMA IntentsAppend ==
    ASSUME NEW s \in Seq(Entry), NEW e \in Entry
    PROVE  Intents(s) \subseteq Intents(Append(s, e))
  BY RecordedAppend DEF Intents

\* A journal that replays still does with a new entry, if a completion follows its intent.
LEMMA ReplaysAppend ==
    ASSUME NEW s \in Seq(Entry), NEW e \in Entry, Replays(s),
           ~Recorded(s, e), e.kind = "completion" => Recorded(s, Intent(e.id))
    PROVE  Replays(Append(s, e))
  <1>1. /\ Len(Append(s, e)) = Len(s) + 1
        /\ Len(s) \in Nat
        /\ \A i \in 1..Len(s) : Append(s, e)[i] = s[i]
        /\ Append(s, e)[Len(s) + 1] = e
    OBVIOUS
  <1>2. SUFFICES ASSUME NEW i \in 1..(Len(s) + 1)
                 PROVE  /\ \A j \in 1..(i - 1) : Append(s, e)[j] # Append(s, e)[i]
                        /\ Append(s, e)[i].kind = "completion" =>
                             \E j \in 1..(i - 1) :
                                Append(s, e)[j] = Intent(Append(s, e)[i].id)
    BY <1>1 DEF Replays
  <1>3. CASE i \in 1..Len(s)
    BY <1>1, <1>3 DEF Replays
  <1>4. CASE i = Len(s) + 1
    BY <1>1, <1>4 DEF Recorded
  <1>5. QED  BY <1>1, <1>3, <1>4

\* In a journal that replays, every completion has its intent.
LEMMA CompletionNeedsIntent ==
    ASSUME NEW s \in Seq(Entry), Replays(s), NEW d, Recorded(s, Completion(d))
    PROVE  Recorded(s, Intent(d))
  <1>1. PICK i \in 1..Len(s) : s[i] = Completion(d)
    BY DEF Recorded
  <1>2. s[i].kind = "completion" /\ s[i].id = d
    BY <1>1 DEF Completion
  <1>3. PICK j \in 1..(i - 1) : s[j] = Intent(d)
    BY <1>2 DEF Replays
  <1>4. QED  BY <1>3 DEF Recorded

\* A prefix of a journal that replays does so too: what a power cut leaves.
LEMMA ReplaysPrefix ==
    ASSUME NEW s \in Seq(Entry), Replays(s), NEW n \in 0..Len(s)
    PROVE  /\ SubSeq(s, 1, n) \in Seq(Entry)
           /\ Len(SubSeq(s, 1, n)) = n
           /\ \A i \in 1..n : SubSeq(s, 1, n)[i] = s[i]
           /\ Replays(SubSeq(s, 1, n))
  <1>1. /\ SubSeq(s, 1, n) \in Seq(Entry)
        /\ Len(SubSeq(s, 1, n)) = n
        /\ \A i \in 1..n : SubSeq(s, 1, n)[i] = s[i]
    OBVIOUS
  <1>2. Replays(SubSeq(s, 1, n))
    BY <1>1 DEF Replays
  <1>3. QED  BY <1>1, <1>2

-----------------------------------------------------------------------------

\* The empty directory, with no process and no call, satisfies the invariant.
LEMMA InitIInv == Init => IInv
  <1> SUFFICES ASSUME Init PROVE IInv
    OBVIOUS
  <1> USE NoneAssumption
  <1>1. TypeOK
    <2>1. <<>> \in Seq(Entry)
      OBVIOUS
    <2>2. mem \in [Process -> Seq(Entry)]
      BY <2>1 DEF Init
    <2>3. /\ pending \in [Process -> [task : Task, entry : Entry] \cup {NoPending}]
          /\ NoTask \in TaskRecord
      BY DEF Init, NoTask, TaskRecord
    <2>4. QED  BY <2>1, <2>2, <2>3 DEF Init, TypeOK, Opening, Steps
  <1>2. ProcessInv
    BY DEF Init, ProcessInv, Holding, Waiting, NoTask, NoPending
  <1>3. DirectoryInv
    BY DEF Init, DirectoryInv, Replays, Extends
  <1>4. WriterInv
    BY DEF Init, WriterInv
  <1>5. SpendInv
    BY DEF Init, SpendInv, Spent, Waiting, Kept, NoTask
  <1>6. QED  BY <1>1, <1>2, <1>3, <1>4, <1>5 DEF IInv

\* The steps of open() that leave the files' contents alone.
LEMMA OpenStep ==
    ASSUME IInv, NEW p \in Process,
           \/ OpenSync(p) \/ OpenLockFile(p) \/ OpenTryLock(p)
           \/ OpenLoad(p) \/ OpenFails(p)
    PROVE  IInv'
  <1> USE NoneAssumption
  <1>1. CASE OpenLockFile(p)
    <2> USE <1>1 DEF OpenLockFile
    <2>1. TypeOK'
      BY DEF IInv, TypeOK, Opening
    <2>2. ProcessInv'
      BY DEF IInv, TypeOK, ProcessInv, Holding, Waiting
    <2>3. DirectoryInv'
      BY DEF IInv, TypeOK, DirectoryInv, Extends
    <2>4. WriterInv'
      BY DEF IInv, TypeOK, WriterInv, Target
    <2>5. SpendInv'
      BY DEF IInv, TypeOK, DirectoryInv, Extends, SpendInv, Spent, Waiting, Kept, Intents
    <2>6. QED  BY <2>1, <2>2, <2>3, <2>4, <2>5 DEF IInv
  <1>2. CASE OpenTryLock(p)
    <2> USE <1>2 DEF OpenTryLock, diskVars, taskVars
    <2>1. TypeOK'
      BY DEF IInv, TypeOK, Opening
    <2>2. ProcessInv'
      BY DEF IInv, TypeOK, ProcessInv, Holding, Waiting
    <2>3. DirectoryInv'
      BY DEF IInv, TypeOK, DirectoryInv, Extends
    <2>4. WriterInv'
      BY DEF IInv, TypeOK, WriterInv, Target
    <2>5. SpendInv'
      BY DEF IInv, TypeOK, SpendInv, Spent, Waiting, Kept
    <2>6. QED  BY <2>1, <2>2, <2>3, <2>4, <2>5 DEF IInv
  <1>3. CASE OpenLoad(p)
    <2> USE <1>3 DEF OpenLoad, CloseLock, diskVars, taskVars
    <2>1. TypeOK'
      <3>1. mem' \in [Process -> Seq(Entry)] /\ poisoned' \in [Process -> BOOLEAN]
        <4>1. CASE Loadable
          <5>1. mem' = [mem EXCEPT ![p] = journal] /\ journal \in Seq(Entry)
            BY <4>1 DEF IInv, TypeOK
          <5>2. QED  BY <4>1, <5>1 DEF IInv, TypeOK
        <4>2. CASE ~Loadable
          BY <4>2 DEF IInv, TypeOK
        <4>3. QED  BY <4>1, <4>2
      <3>2. proc' \in [Process -> Opening \cup {"down", "open"}]
        BY DEF IInv, TypeOK
      <3>3. lockOwner' \in Process \cup {None}
        BY DEF IInv, TypeOK
      <3>4. QED  BY <3>1, <3>2, <3>3 DEF IInv, TypeOK
    <2>2. ProcessInv'
      <3>1. CASE Loadable
        BY <3>1 DEF IInv, TypeOK, ProcessInv, Holding, Waiting
      <3>2. CASE ~Loadable
        BY <3>2 DEF IInv, TypeOK, ProcessInv, Holding, Waiting
      <3>3. QED  BY <3>1, <3>2
    <2>3. DirectoryInv'
      BY DEF IInv, TypeOK, DirectoryInv, Extends
    <2>4. WriterInv'
      <3>1. CASE Loadable
        <4>1. /\ ~tmp /\ checkpoint = journal /\ named
              /\ durable = Len(journal)
          BY <3>1 DEF IInv, TypeOK, DirectoryInv, Loadable
        <4>2. /\ step[p] = "idle" /\ pending[p].task = None
              /\ \A q \in Process \ {p} : proc[q] # "open"
          BY DEF IInv, TypeOK, ProcessInv, Holding, NoPending
        <4>3. mem'[p] = journal
          BY <3>1 DEF IInv, TypeOK
        <4>4. \A q \in Process : proc'[q] = "open" => q = p
          BY <3>1, <4>2 DEF IInv, TypeOK
        <4>5. step'[p] = "idle"
          BY <4>2
        <4>6. UNCHANGED <<tmp, checkpoint, named, journal, durable>>
          OBVIOUS
        <4>7. QED  BY ONLY <4>1, <4>3, <4>4, <4>5, <4>6 DEF WriterInv
      <3>2. CASE ~Loadable
        BY <3>2 DEF IInv, TypeOK, WriterInv, Target
      <3>3. QED  BY <3>1, <3>2
    <2>5. SpendInv'
      BY DEF IInv, TypeOK, SpendInv, Spent, Waiting, Kept
    <2>6. QED  BY <2>1, <2>2, <2>3, <2>4, <2>5 DEF IInv
  <1>4. CASE OpenFails(p)
    <2> USE <1>4 DEF OpenFails, CloseLock, diskVars, taskVars, Opening
    <2>1. TypeOK'
      BY DEF IInv, TypeOK, Steps
    <2>2. ProcessInv'
      BY DEF IInv, TypeOK, ProcessInv, Holding, Waiting
    <2>3. DirectoryInv'
      BY DEF IInv, TypeOK, DirectoryInv, Extends
    <2>4. WriterInv'
      BY DEF IInv, TypeOK, ProcessInv, WriterInv, Target
    <2>5. SpendInv'
      BY DEF IInv, TypeOK, SpendInv, Spent, Waiting, Kept
    <2>6. QED  BY <2>1, <2>2, <2>3, <2>4, <2>5 DEF IInv
  <1>5. CASE OpenSync(p)
    <2> USE <1>5 DEF OpenSync
    <2>1. TypeOK'
      BY DEF IInv, TypeOK, Opening
    <2>2. ProcessInv'
      <3>1. /\ proc'[p] = "synced" /\ proc[p] = "down"
            /\ \A q \in Process : q # p => proc'[q] = proc[q]
            /\ UNCHANGED <<lockOwner, mem, poisoned, step, pending, task>>
        BY DEF IInv, TypeOK
      <3>2. QED  BY <3>1 DEF IInv, ProcessInv, Holding, Waiting
    <2>3. DirectoryInv'
      BY DEF IInv, TypeOK, DirectoryInv, Extends
    <2>4. WriterInv'
      BY DEF IInv, TypeOK, WriterInv, Target
    <2>5. SpendInv'
      BY DEF IInv, TypeOK, DirectoryInv, Extends, SpendInv, Spent, Waiting, Kept, Intents
    <2>6. QED  BY <2>1, <2>2, <2>3, <2>4, <2>5 DEF IInv
  <1>6. QED  BY <1>1, <1>2, <1>3, <1>4, <1>5

-----------------------------------------------------------------------------
(* What the invariant says of the process that is about to act *)

\* A step that touches only files keeps SpendInv if it keeps the permissions
\* and adds no completion for a waiting call.
LEMMA FilesKeepSpend ==
    ASSUME SpendInv, UNCHANGED <<task, effects>>,
           \A d \in DispatchId : Kept(d) => Kept(d)',
           \A t \in Task : Waiting(t) => ~Recorded(journal', Completion(task[t].id)),
           \A t \in Task : Recorded(journal, Intent(task[t].id))
                              => Recorded(journal', Intent(task[t].id))
    PROVE  SpendInv'
  BY DEF SpendInv, Spent, Waiting

\* Two processes never hold the advisory lock at once.
LEMMA OnlyHolder ==
    ASSUME ProcessInv, NEW p \in Process, NEW q \in Process, Holding(p), Holding(q)
    PROVE  p = q
  BY DEF ProcessInv

\* A process in the middle of an append: one task waits for one entry.
LEMMA AppendFacts ==
    ASSUME IInv, NEW p \in Process, proc[p] = "open", step[p] # "idle"
    PROVE  /\ pending[p].task \in Task /\ pending[p].entry \in Entry
           /\ pending[p].task # None
           /\ mem[p] \in Seq(Entry)
           /\ Target(p) = Append(mem[p], pending[p].entry)
           /\ Target(p) \in Seq(Entry)
           /\ Len(Target(p)) = Len(mem[p]) + 1
           /\ ~poisoned[p]
           /\ ~Recorded(mem[p], pending[p].entry)
           /\ pending[p].entry.kind = "completion" =>
                 Recorded(mem[p], Intent(pending[p].entry.id))
           /\ pending[p].entry.id \in DispatchId
           /\ task[pending[p].task].proc = p
           /\ task[pending[p].task].id = pending[p].entry.id
           /\ task[pending[p].task].pc =
                 IF pending[p].entry.kind = "intent" THEN "reserving" ELSE "completing"
  <1>1. pending[p] # NoPending /\ ~poisoned[p]
    BY DEF IInv, ProcessInv
  <1>2. pending[p] \in [task : Task, entry : Entry]
    BY <1>1 DEF IInv, TypeOK
  <1>3. /\ pending[p].task \in Task /\ pending[p].entry \in Entry
        /\ pending[p].task # None
        /\ pending[p].entry.id \in DispatchId
    BY <1>2, NoneAssumption DEF Entry
  <1>4. mem[p] \in Seq(Entry)
    BY DEF IInv, TypeOK
  <1>5. Target(p) = Append(mem[p], pending[p].entry)
    BY <1>3 DEF Target
  <1>6. Target(p) \in Seq(Entry) /\ Len(Target(p)) = Len(mem[p]) + 1
    BY <1>3, <1>4, <1>5
  <1>7. /\ ~Recorded(mem[p], pending[p].entry)
        /\ pending[p].entry.kind = "completion" =>
                 Recorded(mem[p], Intent(pending[p].entry.id))
    BY <1>1 DEF IInv, WriterInv
  <1>8. /\ task[pending[p].task].proc = p
        /\ task[pending[p].task].id = pending[p].entry.id
        /\ task[pending[p].task].pc =
                 IF pending[p].entry.kind = "intent" THEN "reserving" ELSE "completing"
    BY <1>1 DEF IInv, ProcessInv
  <1>9. QED  BY <1>1, <1>3, <1>4, <1>5, <1>6, <1>7, <1>8

\* A process writing the first checkpoint of a new journal.
LEMMA FirstCheckpointFacts ==
    ASSUME IInv, NEW p \in Process, proc[p] = "checkpoint"
    PROVE  /\ pending[p] = NoPending /\ pending[p].task = None
           /\ mem[p] = <<>> /\ Target(p) = <<>>
           /\ named /\ journal = <<>> /\ durable = 0
  BY DEF IInv, ProcessInv, DirectoryInv, NoPending, Target

\* The steps of open() that create the journal.
LEMMA CreateStep ==
    ASSUME IInv, NEW p \in Process, OpenInit(p) \/ OpenHeader(p)
    PROVE  IInv'
  <1> USE NoneAssumption
  <1>1. CASE OpenInit(p)
    <2> USE <1>1 DEF OpenInit, CloseLock, taskVars
    <2>1. TypeOK'
      BY DEF IInv, TypeOK, Opening, Steps
    <2>2. ProcessInv'
      <3>1. CASE journalFile \/ checkpoint # None
        <4>1. /\ lockOwner = p /\ lockOwner' = None
              /\ proc' = [proc EXCEPT ![p] = "down"]
              /\ UNCHANGED <<mem, poisoned, step, pending, task>>
          BY <3>1 DEF IInv, ProcessInv, Holding
        <4>2. QED  BY <4>1 DEF IInv, TypeOK, ProcessInv, Holding, Waiting
      <3>2. CASE ~(journalFile \/ checkpoint # None)
        BY <3>2 DEF IInv, TypeOK, ProcessInv, Holding, Waiting
      <3>3. QED  BY <3>1, <3>2
    <2>3. DirectoryInv'
      BY DEF IInv, TypeOK, ProcessInv, DirectoryInv, Extends
    <2>4. WriterInv'
      BY DEF IInv, TypeOK, ProcessInv, WriterInv, Target
    <2>5. SpendInv'
      BY DEF IInv, TypeOK, SpendInv, Spent, Waiting, Kept
    <2>6. QED  BY <2>1, <2>2, <2>3, <2>4, <2>5 DEF IInv
  <1>2. CASE OpenHeader(p)
    <2> USE <1>2 DEF OpenHeader, taskVars
    <2>1. TypeOK'
      BY DEF IInv, TypeOK, Opening, Steps
    <2>2. ProcessInv'
      BY DEF IInv, TypeOK, ProcessInv, Holding, Waiting
    <2>3. DirectoryInv'
      <3>1. ~named /\ journalFile /\ lockFile
        BY DEF IInv, DirectoryInv
      <3>2. \A q \in Process : q # p => proc[q] \notin {"header", "checkpoint"}
        BY OnlyHolder DEF IInv, Holding
      <3>3. QED  BY <3>1, <3>2 DEF IInv, TypeOK, DirectoryInv, Extends
    <2>4. WriterInv'
      BY DEF IInv, TypeOK, ProcessInv, WriterInv, Target
    <2>5. SpendInv'
      BY DEF IInv, TypeOK, SpendInv, Spent, Waiting, Kept
    <2>6. QED  BY <2>1, <2>2, <2>3, <2>4, <2>5 DEF IInv
  <1>3. QED  BY <1>1, <1>2

\* The disk operations of an append.
LEMMA AppendWriteStep ==
    ASSUME IInv, NEW p \in Process, AppendWrite(p)
    PROVE  IInv'
  <1> USE NoneAssumption DEF AppendWrite, taskVars
  <1> DEFINE e == pending[p].entry
  <1>1. /\ proc[p] = "open" /\ step[p] = "write"
        /\ \A q \in Process : q # p => ~Holding(q)
    BY OnlyHolder DEF IInv, ProcessInv, Holding
  <1>2. /\ pending[p].task \in Task /\ e \in Entry
        /\ mem[p] \in Seq(Entry) /\ Len(mem[p]) \in Nat
        /\ Target(p) = Append(mem[p], e)
        /\ ~poisoned[p]
        /\ ~Recorded(mem[p], e)
        /\ e.kind = "completion" => Recorded(mem[p], Intent(e.id))
    BY <1>1, AppendFacts
  <1>3. /\ journal = mem[p] /\ durable = Len(mem[p]) /\ checkpoint = mem[p]
        /\ named /\ ~tmp
    BY <1>1, <1>2 DEF IInv, WriterInv
  <1>4. /\ journal' = Append(journal, e) /\ journal' \in Seq(Entry)
        /\ Len(journal') = Len(journal) + 1
        /\ \A i \in 1..Len(journal) : journal'[i] = journal[i]
    BY <1>2, <1>3
  <1>5. TypeOK'
    BY <1>4 DEF IInv, TypeOK, Steps
  <1>6. ProcessInv'
    BY DEF IInv, TypeOK, ProcessInv, Holding, Waiting
  <1>7. DirectoryInv'
    <2>1. Replays(journal')
      BY <1>2, <1>3, <1>4, ReplaysAppend DEF IInv, DirectoryInv
    <2>2. durable' <= Len(journal')
      BY <1>2, <1>3, <1>4
    <2>3. \A q \in Process : proc[q] \notin {"header", "checkpoint"}
      BY <1>1 DEF Holding
    <2>4. QED  BY <1>3, <2>1, <2>2, <2>3 DEF IInv, TypeOK, DirectoryInv, Extends
  <1>8. WriterInv'
    <2>1. \A q \in Process : proc'[q] = "open" => q = p
      BY <1>1 DEF Holding
    <2>2. step'[p] = "sync" /\ Target(p)' = Target(p) /\ journal' = Target(p)
      BY <1>2, <1>3, <1>4 DEF IInv, TypeOK, Target
    <2>3. QED  BY <1>2, <1>3, <2>1, <2>2 DEF WriterInv
  <1>9. SpendInv'
    <2>1. \A x : Recorded(journal', x) <=> Recorded(journal, x) \/ x = e
      BY <1>2, <1>3, <1>4, RecordedAppend
    <2>2. \A t \in Task : Waiting(t) => e # Completion(task[t].id)
      <3> SUFFICES ASSUME NEW t \in Task, Waiting(t), e = Completion(task[t].id)
                   PROVE  FALSE
        OBVIOUS
      <3>1. /\ task[pending[p].task].id = task[t].id
            /\ task[pending[p].task].pc = "completing"
        BY <1>1, <1>2, AppendFacts DEF Completion
      <3>2. pending[p].task = t
        BY <1>2, <3>1 DEF IInv, SpendInv, Waiting
      <3>3. QED  BY <3>1, <3>2 DEF Waiting
    <2>3. \A i \in 1..durable : journal'[i] = journal[i]
      BY <1>3, <1>4
    <2>4. \A d \in DispatchId : Kept(d) => Kept(d)'
      BY <2>3 DEF Kept
    <2>5. QED  BY <2>1, <2>2, <2>4, FilesKeepSpend DEF IInv, SpendInv
  <1>10. QED  BY <1>5, <1>6, <1>7, <1>8, <1>9 DEF IInv

\* The fsync of the journal: the new line is durable and not yet covered by a manifest.
LEMMA AppendSyncStep ==
    ASSUME IInv, NEW p \in Process, AppendSync(p)
    PROVE  IInv'
  <1> USE NoneAssumption DEF AppendSync, taskVars
  <1>1. /\ proc[p] = "open" /\ step[p] = "sync"
        /\ \A q \in Process : q # p => ~Holding(q)
    BY OnlyHolder DEF IInv, ProcessInv, Holding
  <1>2. mem[p] \in Seq(Entry) /\ ~poisoned[p] /\ Len(journal) \in Nat
    BY <1>1, AppendFacts DEF IInv, TypeOK
  <1>3. /\ journal = Target(p) /\ durable = Len(mem[p]) /\ checkpoint = mem[p]
        /\ named /\ ~tmp
        /\ durable <= Len(journal)
    BY <1>1, <1>2 DEF IInv, WriterInv, DirectoryInv
  <1>4. TypeOK'
    BY <1>2 DEF IInv, TypeOK, Steps
  <1>5. ProcessInv'
    BY DEF IInv, TypeOK, ProcessInv, Holding, Waiting
  <1>6. DirectoryInv'
    <2>1. \A q \in Process : proc[q] \notin {"header", "checkpoint"}
      BY <1>1 DEF Holding
    <2>2. QED  BY <1>2, <1>3, <2>1 DEF IInv, TypeOK, DirectoryInv, Extends
  <1>7. WriterInv'
    <2>1. \A q \in Process : proc'[q] = "open" => q = p
      BY <1>1 DEF Holding
    <2>2. step'[p] = "tmp" /\ Target(p)' = Target(p)
      BY DEF IInv, TypeOK, Target
    <2>3. /\ ~Recorded(mem[p], pending[p].entry)
          /\ pending[p].entry.kind = "completion" =>
                Recorded(mem[p], Intent(pending[p].entry.id))
      BY <1>1, AppendFacts
    <2>4. QED  BY <1>2, <1>3, <2>1, <2>2, <2>3 DEF WriterInv
  <1>8. SpendInv'
    <2>1. durable \in Nat /\ 1..durable \subseteq 1..durable'
      BY <1>2, <1>3 DEF IInv, TypeOK
    <2>2. \A d \in DispatchId : Kept(d) => Kept(d)'
      BY <2>1 DEF Kept
    <2>3. QED  BY <2>2, FilesKeepSpend DEF IInv, SpendInv
  <1>9. QED  BY <1>4, <1>5, <1>6, <1>7, <1>8 DEF IInv

\* Writing the temporary manifest touches nothing that counts.
LEMMA CheckpointTmpStep ==
    ASSUME IInv, NEW p \in Process, CheckpointTmp(p)
    PROVE  IInv'
  <1> USE NoneAssumption DEF CheckpointTmp, taskVars
  <1>1. Holding(p) /\ \A q \in Process : q # p => ~Holding(q)
    BY OnlyHolder DEF IInv, ProcessInv, Holding
  <1>2. named
    <2>1. CASE proc[p] = "checkpoint"
      BY <2>1 DEF IInv, DirectoryInv
    <2>2. CASE proc[p] = "open"
      BY <2>2, AppendFacts DEF IInv, WriterInv
    <2>3. QED  BY <2>1, <2>2 DEF IInv, ProcessInv
  <1>3. TypeOK'
    BY DEF IInv, TypeOK, Steps
  <1>4. ProcessInv'
    BY DEF IInv, TypeOK, ProcessInv, Holding, Waiting
  <1>5. DirectoryInv'
    BY <1>1, <1>2 DEF IInv, TypeOK, DirectoryInv, Extends
  <1>6. WriterInv'
    <2>1. \A q \in Process : proc'[q] = "open" => q = p
      BY <1>1 DEF Holding
    <2>2. step'[p] = "rename" /\ Target(p)' = Target(p)
      BY DEF IInv, TypeOK, Target
    <2>3. QED  BY <2>1, <2>2 DEF IInv, WriterInv
  <1>7. SpendInv'
    BY DEF IInv, TypeOK, SpendInv, Spent, Waiting, Kept
  <1>8. QED  BY <1>3, <1>4, <1>5, <1>6, <1>7 DEF IInv

\* The rename: the manifest covers the new line, or the empty journal of a new directory.
LEMMA CheckpointRenameStep ==
    ASSUME IInv, NEW p \in Process, CheckpointRename(p)
    PROVE  IInv'
  <1> USE NoneAssumption DEF CheckpointRename, taskVars
  <1>1. Holding(p) /\ \A q \in Process : q # p => ~Holding(q)
    BY OnlyHolder DEF IInv, ProcessInv, Holding
  <1>2. proc[p] \in {"checkpoint", "open"}
    BY DEF IInv, ProcessInv
  <1>3. Target(p) \in Seq(Entry) /\ Target(p) # None
    BY <1>2, AppendFacts, FirstCheckpointFacts DEF IInv, TypeOK
  <1>4. /\ named
        /\ Len(Target(p)) <= durable
        /\ Extends(synced, Target(p))
    <2>1. CASE proc[p] = "checkpoint"
      <3>1. checkpoint = None /\ synced = None /\ named /\ durable = 0
            /\ Target(p) = <<>>
        BY <2>1, FirstCheckpointFacts DEF IInv, DirectoryInv, Extends
      <3>2. QED  BY <3>1 DEF Extends
    <2>2. CASE proc[p] = "open"
      <3>1. /\ named /\ journal = Target(p) /\ durable = Len(journal)
            /\ checkpoint = mem[p]
        BY <2>2, AppendFacts DEF IInv, WriterInv
      <3>2. Intents(mem[p]) \subseteq Intents(Target(p))
        <4>1. /\ mem[p] \in Seq(Entry) /\ pending[p].entry \in Entry
              /\ Target(p) = Append(mem[p], pending[p].entry)
          BY <2>2, AppendFacts
        <4>2. QED  BY <4>1, IntentsAppend
      <3>3. Extends(synced, mem[p])
        BY <3>1 DEF IInv, DirectoryInv
      <3>4. durable \in Nat
        BY DEF IInv, TypeOK
      <3>5. QED  BY <1>3, <3>1, <3>2, <3>3, <3>4 DEF Extends
    <2>3. QED  BY <1>2, <2>1, <2>2
  <1>5. TypeOK'
    BY <1>3 DEF IInv, TypeOK, Steps
  <1>6. ProcessInv'
    BY DEF IInv, TypeOK, ProcessInv, Holding, Waiting
  <1>7. step'[p] = "dirsync" /\ Target(p)' = Target(p)
    BY DEF IInv, TypeOK, Target
  <1>8. DirectoryInv'
    <2>1. \A q \in Process : proc'[q] = "checkpoint" =>
             q = p /\ checkpoint' = <<>>
      BY <1>1, FirstCheckpointFacts DEF Holding
    <2>2. Extends(synced', checkpoint')
      BY <1>4
    <2>3. QED  BY <1>3, <1>4, <1>7, <2>1, <2>2 DEF IInv, TypeOK, DirectoryInv
  <1>9. WriterInv'
    <2>1. \A q \in Process : proc'[q] = "open" => q = p
      BY <1>1 DEF Holding
    <2>2. QED  BY <1>7, <2>1 DEF IInv, WriterInv
  <1>10. SpendInv'
    BY DEF IInv, TypeOK, SpendInv, Spent, Waiting, Kept
  <1>11. QED  BY <1>5, <1>6, <1>8, <1>9, <1>10 DEF IInv

\* The directory's fsync ends an append: the entry is the writer's, and its caller goes on.
LEMMA CheckpointDirSyncStep ==
    ASSUME IInv, NEW p \in Process, CheckpointDirSync(p)
    PROVE  IInv'
  <1> USE NoneAssumption DEF CheckpointDirSync
  <1>1. Holding(p) /\ \A q \in Process : q # p => ~Holding(q)
    BY OnlyHolder DEF IInv, ProcessInv, Holding
  <1>2. proc[p] \in {"checkpoint", "open"}
    BY DEF IInv, ProcessInv
  <1>3. CASE proc[p] = "checkpoint"
    <2>1. /\ pending[p] = NoPending /\ pending[p].task = None
          /\ mem[p] = <<>> /\ Target(p) = <<>>
          /\ named /\ journal = <<>> /\ durable = 0
      BY <1>3, FirstCheckpointFacts
    <2>2. /\ mem' = mem /\ pending' = pending
          /\ proc' = [proc EXCEPT ![p] = "load"] /\ task' = task
      BY <2>1 DEF IInv, TypeOK
    <2>3. TypeOK'
      BY <2>2 DEF IInv, TypeOK, Steps, Opening
    <2>4. ProcessInv'
      BY <1>3, <2>1, <2>2 DEF IInv, TypeOK, ProcessInv, Holding, Waiting
    <2>5. DirectoryInv'
      BY <1>1, <1>3, <2>1, <2>2 DEF IInv, TypeOK, DirectoryInv, Extends, Holding
    <2>6. WriterInv'
      BY <1>1, <1>3, <2>2 DEF IInv, TypeOK, WriterInv, Holding
    <2>7. SpendInv'
      <3>1. \A d \in DispatchId : ~Kept(d)
        BY <2>1 DEF Kept
      <3>2. QED  BY <2>2, <3>1, FilesKeepSpend DEF IInv, SpendInv
    <2>8. QED  BY <2>3, <2>4, <2>5, <2>6, <2>7 DEF IInv
  <1>4. CASE proc[p] = "open"
    <2> DEFINE t == pending[p].task
               e == pending[p].entry
    <2>1. /\ t \in Task /\ e \in Entry /\ t # None
          /\ mem[p] \in Seq(Entry)
          /\ Target(p) = Append(mem[p], e)
          /\ Target(p) \in Seq(Entry)
          /\ ~poisoned[p]
          /\ ~Recorded(mem[p], e)
          /\ e.id \in DispatchId
          /\ task[t].proc = p
          /\ task[t].id = e.id
          /\ task[t].pc = IF e.kind = "intent" THEN "reserving" ELSE "completing"
      BY <1>4, AppendFacts
    <2>2. /\ named /\ ~tmp /\ checkpoint = Target(p) /\ journal = Target(p)
          /\ durable = Len(journal)
      BY <1>4, <2>1 DEF IInv, WriterInv
    <2>3. /\ proc' = proc
          /\ mem' = [mem EXCEPT ![p] = Target(p)]
          /\ synced' = journal
          /\ UNCHANGED <<journal, durable, checkpoint, effects, poisoned>>
      BY <2>1, <2>2
    <2>4. /\ task'[t].id = e.id
          /\ e.kind = "intent" =>
                /\ task'[t].pc = "executing" /\ task'[t].proc = p
                /\ task'[t].outcome = task[t].outcome
          /\ e.kind # "intent" =>
                task'[t].pc = "idle" /\ task'[t].outcome = "attempted"
          /\ \A u \in Task : u # t => task'[u] = task[u]
          /\ task' \in [Task -> TaskRecord]
      <3>1. task \in [Task -> TaskRecord]
        BY DEF IInv, TypeOK
      <3>2. CASE e.kind = "intent"
        <4>1. task' = [task EXCEPT ![t] = [task[t] EXCEPT !.pc = "executing"]]
          BY <2>1, <3>2
        <4>2. [task[t] EXCEPT !.pc = "executing"] \in TaskRecord
          BY <2>1, <3>1 DEF TaskRecord
        <4>3. QED  BY <2>1, <3>1, <3>2, <4>1, <4>2 DEF TaskRecord
      <3>3. CASE e.kind # "intent"
        <4>1. Answer(t, e.id, "attempted")
          BY <2>1, <3>3
        <4>2. QED  BY <2>1, <3>1, <3>3, <4>1 DEF Answer, TaskRecord
      <3>4. QED  BY <3>2, <3>3
    <2>5. TypeOK'
      <3>1. mem' \in [Process -> Seq(Entry)]
        BY <2>1, <2>3 DEF IInv, TypeOK
      <3>2. task' \in [Task -> TaskRecord]
        BY <2>4
      <3>3. synced' \in Seq(Entry) \cup {None}
        BY <2>3 DEF IInv, TypeOK
      <3>4. QED  BY <2>3, <3>1, <3>2, <3>3 DEF IInv, TypeOK, Steps
    <2>6. ProcessInv'
      <3>1. step' = [step EXCEPT ![p] = "idle"] /\ pending' = [pending EXCEPT ![p] = NoPending]
        OBVIOUS
      <3>2. \A u \in Task : task[u].pc # "idle" => task[u].proc = p
        BY <1>1 DEF IInv, ProcessInv, Holding
      <3>3. \A u \in Task : u # t => task[u].pc = "idle" \/ Waiting(u)
        BY <3>2 DEF IInv, ProcessInv
      <3>4. \A u \in Task : task'[u].pc # "idle" =>
              /\ task'[u].proc \in Process /\ proc'[task'[u].proc] = "open"
              /\ task'[u].id \in DispatchId
              /\ Waiting(u)'
        <4> SUFFICES ASSUME NEW u \in Task, task'[u].pc # "idle"
                     PROVE  /\ task'[u].proc \in Process /\ proc'[task'[u].proc] = "open"
                            /\ task'[u].id \in DispatchId
                            /\ Waiting(u)'
          OBVIOUS
        <4>1. CASE u = t
          BY <1>4, <2>1, <2>3, <2>4, <4>1 DEF Waiting
        <4>2. CASE u # t
          BY <2>3, <2>4, <3>3, <4>2 DEF IInv, ProcessInv, Waiting
        <4>3. QED  BY <4>1, <4>2
      <3>5. \A q \in Process : q # p => pending[q] = NoPending /\ step[q] = "idle"
        BY <1>1 DEF IInv, TypeOK, ProcessInv, Holding
      <3>6. QED  BY <1>4, <2>3, <3>1, <3>4, <3>5 DEF IInv, TypeOK, ProcessInv, Holding
    <2>7. DirectoryInv'
      <3>1. \A q \in Process : proc[q] \notin {"header", "checkpoint"}
        BY <1>1, <1>4 DEF Holding
      <3>2. Extends(synced', checkpoint')
        BY <2>2, <2>3 DEF Extends, IInv, TypeOK
      <3>3. QED  BY <2>2, <2>3, <3>1, <3>2 DEF IInv, TypeOK, DirectoryInv
    <2>8. WriterInv'
      <3>1. \A q \in Process : proc'[q] = "open" => q = p
        BY <1>1, <2>3 DEF Holding
      <3>2. mem'[p] = Target(p) /\ step'[p] = "idle"
        BY <2>3 DEF IInv, TypeOK
      <3>3. QED  BY <2>2, <2>3, <3>1, <3>2 DEF WriterInv
    <2>9. SpendInv'
      <3>1. \A d \in DispatchId : Kept(d)' <=> Recorded(journal, Intent(d))
        BY <2>2, <2>3 DEF Kept, Recorded, IInv, TypeOK
      <3>2. \A d \in DispatchId : Kept(d) => Recorded(journal, Intent(d))
        BY <2>2 DEF Kept, Recorded
      <3>3. CASE e.kind = "intent"
        <4>1. e = Intent(e.id) /\ Recorded(journal, Intent(e.id))
          <5>1. e = Intent(e.id)
            BY <2>1, <3>3 DEF Entry, Intent
          <5>2. QED  BY <2>1, <2>2, <5>1, RecordedAppend
        <4>2. ~Recorded(journal, Completion(e.id))
          <5>1. ~Recorded(mem[p], Intent(e.id))
            BY <2>1, <4>1
          <5>2. Completion(e.id) # e
            BY <3>3 DEF Completion
          <5>3. Replays(mem[p])
            <6>1. \A i \in 1..Len(mem[p]) : journal[i] = mem[p][i]
              BY <2>1, <2>2
            <6>2. Len(journal) = Len(mem[p]) + 1 /\ Len(mem[p]) \in Nat
              BY <2>1, <2>2
            <6>3. QED  BY <6>1, <6>2 DEF IInv, DirectoryInv, Replays
          <5>4. ~Recorded(mem[p], Completion(e.id))
            BY <2>1, <5>1, <5>3, CompletionNeedsIntent
          <5>5. QED  BY <2>1, <2>2, <5>2, <5>4, RecordedAppend
        <4>3. effects[e.id] = 0
          BY <2>1, <3>3 DEF IInv, TypeOK, SpendInv, Spent
        <4>4. \A d \in DispatchId : Spent(d)' => Spent(d) \/ d = e.id
          BY <2>1, <2>3, <2>4 DEF Spent, Waiting
        <4>5. ~Spent(e.id)
          BY <2>1, <3>3 DEF IInv, SpendInv
        <4>6. \A u \in Task : task'[u].pc = "reserving" => ~Spent(task[u].id)'
          <5> SUFFICES ASSUME NEW u \in Task, task'[u].pc = "reserving"
                       PROVE  ~Spent(task[u].id)'
            OBVIOUS
          <5>1. u # t /\ task'[u] = task[u]
            BY <2>4, <3>3
          <5>2. task[u].id # e.id /\ ~Spent(task[u].id)
            BY <2>1, <3>3, <5>1 DEF IInv, SpendInv
          <5>3. task[u].id \in DispatchId
            BY <5>1 DEF IInv, ProcessInv
          <5>4. QED  BY <4>4, <5>1, <5>2, <5>3
        <4>7. \A u \in Task : task'[u].pc = "executing" => effects'[task'[u].id] = 0
          BY <2>3, <2>4, <4>3 DEF IInv, SpendInv
        <4>8. \A u \in Task : Waiting(u)' => ~Recorded(journal', Completion(task'[u].id))
          BY <2>3, <2>4, <4>2 DEF IInv, SpendInv, Waiting
        <4>9. \A u, v \in Task :
                 task'[u].pc # "idle" /\ task'[v].pc # "idle" /\ task'[u].id = task'[v].id
                 => u = v
          BY <2>1, <2>4, <3>3 DEF IInv, SpendInv
        <4>10. \A u \in Task :
                 task'[u].outcome = "prior" => Recorded(journal', Intent(task'[u].id))
          BY <2>1, <2>3, <2>4, <3>3 DEF IInv, SpendInv
        <4>11. \A d \in DispatchId : (Spent(d)' => Kept(d)') /\ effects'[d] <= 1
          BY <2>3, <3>1, <3>2, <4>1, <4>4 DEF IInv, SpendInv
        <4>12. QED
          BY <4>6, <4>7, <4>8, <4>9, <4>10, <4>11 DEF SpendInv
      <3>4. CASE e.kind # "intent"
        <4>1. \A d \in DispatchId : Spent(d)' => Spent(d)
          BY <2>3, <2>4, <3>4 DEF Spent, Waiting
        <4>2. \A u \in Task : task'[u].pc # "idle" => u # t /\ task'[u] = task[u]
          BY <2>4, <3>4
        <4>3. \A u \in Task : task[u].pc # "idle" => task[u].id \in DispatchId
          BY DEF IInv, ProcessInv
        <4>4. QED
          BY <2>3, <2>4, <3>1, <3>2, <3>4, <4>1, <4>2, <4>3
             DEF IInv, SpendInv, Waiting
      <3>5. QED  BY <3>3, <3>4
    <2>10. QED  BY <2>5, <2>6, <2>7, <2>8, <2>9 DEF IInv
  <1>5. QED  BY <1>2, <1>3, <1>4

-----------------------------------------------------------------------------
(* Failed appends, crashes and power cuts *)

\* Whatever part of a line a failed write left, no recorded entry is lost, and
\* no completion appears for a call that still waits.
LEMMA PartialWriteFacts ==
    ASSUME IInv, NEW p \in Process, PartialWrite(p)
    PROVE  /\ journal' \in Seq(Entry) /\ torn' \in BOOLEAN
           /\ Replays(journal') /\ durable <= Len(journal')
           /\ \A i \in 1..durable : journal'[i] = journal[i]
           /\ \A x : Recorded(journal, x) => Recorded(journal', x)
           /\ \A u \in Task : Waiting(u) => ~Recorded(journal', Completion(task[u].id))
           /\ ~named => journal' = <<>>
           /\ proc[p] # "open" => journal' = journal
  <1>1. /\ journal \in Seq(Entry) /\ torn \in BOOLEAN /\ durable \in Nat
        /\ Replays(journal) /\ durable <= Len(journal)
        /\ \A u \in Task : Waiting(u) => ~Recorded(journal, Completion(task[u].id))
        /\ ~named => journal = <<>>
    BY DEF IInv, TypeOK, DirectoryInv, SpendInv
  <1>2. CASE journal' = journal /\ torn' \in BOOLEAN
    BY <1>1, <1>2
  <1>3. CASE /\ step[p] = "write" /\ torn' = torn
             /\ journal' = Append(journal, pending[p].entry)
    <2> DEFINE e == pending[p].entry
    <2>1. proc[p] = "open"
      BY <1>3 DEF IInv, ProcessInv
    <2>2. /\ pending[p].task \in Task /\ e \in Entry /\ mem[p] \in Seq(Entry)
          /\ ~poisoned[p] /\ ~Recorded(mem[p], e)
          /\ e.kind = "completion" => Recorded(mem[p], Intent(e.id))
          /\ task[pending[p].task].id = e.id
          /\ task[pending[p].task].pc =
                IF e.kind = "intent" THEN "reserving" ELSE "completing"
      BY <1>3, <2>1, AppendFacts
    <2>3. journal = mem[p] /\ named
      BY <1>3, <2>1, <2>2 DEF IInv, WriterInv
    <2>4. /\ journal' \in Seq(Entry) /\ Len(journal') = Len(journal) + 1
          /\ \A i \in 1..Len(journal) : journal'[i] = journal[i]
      BY <1>1, <1>3, <2>2
    <2>5. Replays(journal')
      BY <1>1, <1>3, <2>2, <2>3, ReplaysAppend
    <2>6. \A x : Recorded(journal', x) <=> Recorded(journal, x) \/ x = e
      BY <1>1, <1>3, <2>2, RecordedAppend
    <2>7. \A u \in Task : Waiting(u) => e # Completion(task[u].id)
      <3> SUFFICES ASSUME NEW u \in Task, Waiting(u), e = Completion(task[u].id)
                   PROVE  FALSE
        OBVIOUS
      <3>1. /\ task[pending[p].task].id = task[u].id
            /\ task[pending[p].task].pc = "completing"
        BY <2>2 DEF Completion
      <3>2. pending[p].task = u
        BY <2>2, <3>1 DEF IInv, SpendInv, Waiting
      <3>3. QED  BY <3>1, <3>2 DEF Waiting
    <2>8. QED  BY <1>1, <1>3, <2>1, <2>3, <2>4, <2>5, <2>6, <2>7
  <1>4. QED  BY <1>1, <1>2, <1>3 DEF PartialWrite

\* Calls that end, whatever their answer, and files that keep the permissions
\* leave SpendInv true.
LEMMA TasksEndSpend ==
    ASSUME IInv, UNCHANGED effects,
           \A d \in DispatchId : Kept(d) => Kept(d)',
           \A u \in Task :
              \/ /\ task'[u] = task[u]
                 /\ Waiting(u) => ~Recorded(journal', Completion(task[u].id))
                 /\ Recorded(journal, Intent(task[u].id))
                       => Recorded(journal', Intent(task[u].id))
              \/ /\ task'[u].pc = "idle"
                 /\ task'[u].outcome = "prior" => Recorded(journal', Intent(task'[u].id))
    PROVE  SpendInv'
  <1>1. \A d \in DispatchId : Spent(d)' => Spent(d)
    BY DEF Spent, Waiting
  <1>2. \A u \in Task : task'[u].pc # "idle" =>
           task'[u] = task[u] /\ task[u].id \in DispatchId
    BY DEF IInv, ProcessInv
  <1>3. \A d \in DispatchId : (Spent(d)' => Kept(d)') /\ effects'[d] <= 1
    BY <1>1 DEF IInv, SpendInv
  <1>4. \A u \in Task : task'[u].pc = "executing" => effects'[task'[u].id] = 0
    BY <1>2 DEF IInv, SpendInv
  <1>5. \A u \in Task : task'[u].pc = "reserving" => ~Spent(task[u].id)'
    BY <1>1, <1>2 DEF IInv, SpendInv
  <1>6. \A u \in Task : Waiting(u)' => ~Recorded(journal', Completion(task'[u].id))
    BY <1>2 DEF IInv, SpendInv, Waiting
  <1>7. \A u, v \in Task :
           task'[u].pc # "idle" /\ task'[v].pc # "idle" /\ task'[u].id = task'[v].id
           => u = v
    BY <1>2 DEF IInv, SpendInv
  <1>8. \A u \in Task :
           task'[u].outcome = "prior" => Recorded(journal', Intent(task'[u].id))
    BY DEF IInv, SpendInv
  <1>9. QED  BY <1>3, <1>4, <1>5, <1>6, <1>7, <1>8 DEF SpendInv

\* An I/O error in the middle of an append poisons the writer and refuses the call.
LEMMA AppendFailsStep ==
    ASSUME IInv, NEW p \in Process, AppendFails(p)
    PROVE  IInv'
  <1> USE NoneAssumption DEF AppendFails
  <1> DEFINE t == pending[p].task
             o == IF pending[p].entry.kind = "intent" THEN "refused" ELSE "unrecorded"
  <1>1. \A q \in Process : q # p => ~Holding(q)
    BY OnlyHolder DEF IInv, Holding
  <1>2. t \in Task /\ pending[p].entry.id \in DispatchId /\ ~poisoned[p]
    BY AppendFacts
  <1>3. named
    BY <1>2 DEF IInv, WriterInv
  <1>4. /\ task'[t] = [pc |-> "idle", proc |-> None, id |-> pending[p].entry.id, outcome |-> o]
        /\ task' \in [Task -> TaskRecord]
        /\ \A u \in Task : u # t => task'[u] = task[u]
    BY <1>2 DEF IInv, TypeOK, Answer, TaskRecord
  <1>5. TypeOK'
    <2>1. journal' \in Seq(Entry) /\ torn' \in BOOLEAN
      BY PartialWriteFacts
    <2>2. QED  BY <1>4, <2>1 DEF IInv, TypeOK, Steps
  <1>6. ProcessInv'
    <2>1. step' = [step EXCEPT ![p] = "idle"] /\ pending' = [pending EXCEPT ![p] = NoPending]
      OBVIOUS
    <2>2. \A u \in Task : task[u].pc # "idle" => task[u].proc = p
      BY <1>1 DEF IInv, ProcessInv, Holding
    <2>3. \A u \in Task : task'[u].pc # "idle" =>
             u # t /\ task'[u] = task[u] /\ Waiting(u)
      BY <1>4, <2>2 DEF IInv, ProcessInv
    <2>4. \A q \in Process : q # p => pending[q] = NoPending /\ step[q] = "idle"
      BY <1>1 DEF IInv, TypeOK, ProcessInv, Holding
    <2>5. QED  BY <2>1, <2>3, <2>4 DEF IInv, TypeOK, ProcessInv, Holding, Waiting
  <1>7. DirectoryInv'
    <2>1. \A q \in Process : proc[q] \notin {"header", "checkpoint"}
      BY <1>1 DEF Holding
    <2>2. Replays(journal') /\ durable' <= Len(journal')
      BY PartialWriteFacts
    <2>3. QED  BY <1>3, <2>1, <2>2 DEF IInv, TypeOK, DirectoryInv, Extends
  <1>8. WriterInv'
    BY <1>1 DEF IInv, TypeOK, WriterInv, Holding
  <1>9. SpendInv'
    <2>1. \A d \in DispatchId : Kept(d) => Kept(d)'
      BY PartialWriteFacts DEF Kept
    <2>2. o # "prior"
      OBVIOUS
    <2>3. QED  BY <1>4, <2>1, <2>2, PartialWriteFacts, TasksEndSpend
  <1>10. QED  BY <1>5, <1>6, <1>7, <1>8, <1>9 DEF IInv

\* A process that dies drops the lock and its calls, and leaves the files as they are.
LEMMA CrashStep ==
    ASSUME IInv, NEW p \in Process, Crash(p)
    PROVE  IInv'
  <1> USE NoneAssumption DEF Crash, CloseLock
  <1>1. \A u \in Task : \/ task'[u] = task[u] /\ task[u].proc # p
                        \/ task'[u] = NoTask
    OBVIOUS
  <1>2. TypeOK'
    <2>1. journal' \in Seq(Entry) /\ torn' \in BOOLEAN
      BY PartialWriteFacts
    <2>2. mem' \in [Process -> Seq(Entry)]
      BY DEF IInv, TypeOK
    <2>3. task' \in [Task -> TaskRecord]
      BY <1>1 DEF IInv, TypeOK, TaskRecord, NoTask
    <2>4. QED  BY <2>1, <2>2, <2>3 DEF IInv, TypeOK, Steps
  <1>3. ProcessInv'
    <2>1. \A u \in Task : task'[u].pc # "idle" => task'[u] = task[u] /\ task[u].proc # p
      BY <1>1 DEF NoTask
    <2>2. QED  BY <2>1 DEF IInv, TypeOK, ProcessInv, Holding, Waiting
  <1>4. DirectoryInv'
    <2>1. Replays(journal') /\ durable' <= Len(journal') /\ (~named => journal' = <<>>)
      BY PartialWriteFacts
    <2>2. \A q \in Process : proc'[q] = "checkpoint" =>
             q # p /\ proc[q] = "checkpoint" /\ journal' = <<>>
      <3> SUFFICES ASSUME NEW q \in Process, proc'[q] = "checkpoint"
                   PROVE  q # p /\ proc[q] = "checkpoint" /\ journal' = <<>>
        OBVIOUS
      <3>1. q # p /\ proc[q] = "checkpoint"
        BY DEF IInv, TypeOK
      <3>2. proc[p] # "open"
        BY <3>1, OnlyHolder DEF IInv, Holding
      <3>3. QED  BY <3>1, <3>2, PartialWriteFacts DEF IInv, DirectoryInv
    <2>3. QED  BY <2>1, <2>2 DEF IInv, TypeOK, DirectoryInv, Extends
  <1>5. WriterInv'
    <2>1. \A q \in Process : proc'[q] = "open" => q # p /\ proc[q] = "open"
      BY DEF IInv, TypeOK
    <2>2. \A q \in Process : proc'[q] = "open" => journal' = journal
      BY <2>1, OnlyHolder, PartialWriteFacts DEF IInv, Holding
    <2>3. \A q \in Process : q # p =>
             /\ mem'[q] = mem[q] /\ poisoned'[q] = poisoned[q]
             /\ step'[q] = step[q] /\ pending'[q] = pending[q]
      BY DEF IInv, TypeOK
    <2>4. QED  BY <2>1, <2>2, <2>3 DEF IInv, WriterInv, Target
  <1>6. SpendInv'
    <2>1. \A d \in DispatchId : Kept(d) => Kept(d)'
      BY PartialWriteFacts DEF Kept
    <2>2. QED  BY <1>1, <2>1, PartialWriteFacts, TasksEndSpend DEF NoTask
  <1>7. QED  BY <1>2, <1>3, <1>4, <1>5, <1>6 DEF IInv

\* A power cut keeps a prefix of the journal that holds every synced line.
LEMMA PowerLossStep ==
    ASSUME IInv, PowerLoss
    PROVE  IInv'
  <1> USE NoneAssumption DEF PowerLoss
  <1>1. PICK n \in durable..Len(journal) : journal' = SubSeq(journal, 1, n)
    OBVIOUS
  <1>2. durable \in Nat /\ n \in 0..Len(journal) /\ durable <= n /\ journal \in Seq(Entry)
    BY <1>1 DEF IInv, TypeOK
  <1>3. /\ journal' \in Seq(Entry) /\ Len(journal') = n
        /\ \A i \in 1..n : journal'[i] = journal[i]
        /\ Replays(journal')
    BY <1>1, <1>2, ReplaysPrefix DEF IInv, DirectoryInv
  <1>4. checkpoint' \in {checkpoint, synced} /\ synced' = checkpoint'
    OBVIOUS
  <1>5. TypeOK'
    <2>1. mem' \in [Process -> Seq(Entry)]
      BY DEF IInv, TypeOK
    <2>2. task' \in [Task -> TaskRecord]
      BY DEF TaskRecord, NoTask
    <2>3. /\ proc' \in [Process -> Opening \cup {"down", "open"}]
          /\ newLock' \in [Process -> BOOLEAN] /\ poisoned' \in [Process -> BOOLEAN]
          /\ step' \in [Process -> Steps]
          /\ pending' \in [Process -> [task : Task, entry : Entry] \cup {NoPending}]
          /\ lockOwner' \in Process \cup {None}
      BY DEF Steps
    <2>4. /\ checkpoint' \in Seq(Entry) \cup {None} /\ synced' \in Seq(Entry) \cup {None}
      BY <1>4 DEF IInv, TypeOK
    <2>5. /\ lockFile' \in BOOLEAN /\ journalFile' \in BOOLEAN /\ named' \in BOOLEAN
          /\ torn' \in BOOLEAN /\ tmp' \in BOOLEAN
      BY DEF IInv, TypeOK
    <2>6. durable' \in Nat /\ effects' \in [DispatchId -> Nat]
      BY <1>2, <1>3 DEF IInv, TypeOK
    <2>7. QED  BY <1>3, <2>1, <2>2, <2>3, <2>4, <2>5, <2>6 DEF TypeOK
  <1>6. ProcessInv'
    BY DEF ProcessInv, Holding, NoTask
  <1>7. DirectoryInv'
    <2>1. ~named => journal' = <<>>
      BY <1>2, <1>3 DEF IInv, DirectoryInv
    <2>2. ~named => ~tmp'
      BY DEF IInv, DirectoryInv
    <2>3. named => lockFile' /\ journalFile'
      BY DEF IInv, DirectoryInv
    <2>4. Extends(synced', checkpoint')
      BY <1>4 DEF Extends
    <2>5. QED  BY <1>2, <1>3, <1>4, <2>1, <2>2, <2>3, <2>4 DEF IInv, TypeOK, DirectoryInv
  <1>8. WriterInv'
    BY DEF WriterInv
  <1>9. SpendInv'
    <2>1. \A d \in DispatchId : Kept(d) => Kept(d)'
      <3> SUFFICES ASSUME NEW d \in DispatchId, Kept(d) PROVE Kept(d)'
        OBVIOUS
      <3>1. \E i \in 1..durable' : journal'[i] = Intent(d)
        BY <1>2, <1>3 DEF Kept
      <3>2. synced' # None /\ Recorded(synced', Intent(d))
        BY <1>4 DEF Kept, IInv, DirectoryInv, Extends, Intents
      <3>3. QED  BY <3>1, <3>2 DEF Kept
    <2>2. QED  BY <2>1, TasksEndSpend DEF NoTask
  <1>10. QED  BY <1>5, <1>6, <1>7, <1>8, <1>9 DEF IInv

\* A lookup that finds the files changed poisons the writer and changes no file.
LEMMA PoisonStep ==
    ASSUME IInv, NEW p \in Process, LookupPersistedFails(p)
    PROVE  IInv'
  <1> USE NoneAssumption DEF LookupPersistedFails, MutexFree, diskVars, taskVars
  <1>1. TypeOK'
    BY DEF IInv, TypeOK
  <1>2. ProcessInv'
    BY DEF IInv, TypeOK, ProcessInv, Holding, Waiting
  <1>3. DirectoryInv'
    BY DEF IInv, DirectoryInv, Extends
  <1>4. WriterInv'
    BY DEF IInv, TypeOK, WriterInv, Target
  <1>5. SpendInv'
    BY DEF IInv, SpendInv, Spent, Waiting, Kept
  <1>6. QED  BY <1>1, <1>2, <1>3, <1>4, <1>5 DEF IInv

\* Files damaged from outside are refused, so nothing rests on what they say.
LEMMA DamageStep ==
    ASSUME IInv, Damage
    PROVE  IInv'
  <1> USE NoneAssumption DEF Damage, procVars, taskVars
  <1>1. TypeOK'
    BY DEF IInv, TypeOK
  <1>2. ProcessInv'
    BY DEF IInv, ProcessInv, Holding, Waiting
  <1>3. DirectoryInv'
    BY DEF IInv, DirectoryInv, Extends
  <1>4. WriterInv'
    BY DEF IInv, WriterInv, Target
  <1>5. SpendInv'
    BY DEF IInv, SpendInv, Spent, Waiting, Kept
  <1>6. QED  BY <1>1, <1>2, <1>3, <1>4, <1>5 DEF IInv

-----------------------------------------------------------------------------
(* dispatch_once *)

\* A call that ends with an answer, by refusal or cancellation, disturbs nothing.
LEMMA AnswerStep ==
    ASSUME IInv, NEW t \in Task,
           \/ \E p \in Process, d \in DispatchId : ReserveRefused(t, p, d)
           \/ CompleteRefused(t) \/ Cancel(t)
    PROVE  IInv'
  <1> USE NoneAssumption
  <1>1. /\ UNCHANGED <<diskVars, procVars, effects>>
        /\ task' \in [Task -> TaskRecord]
        /\ task'[t].pc = "idle"
        /\ task'[t].outcome = "prior" => Recorded(journal, Intent(task'[t].id))
        /\ \A u \in Task : u # t => task'[u] = task[u]
        /\ task[t].pc = "idle" \/ Waiting(t)
    <2>1. task \in [Task -> TaskRecord] /\ NoTask \in TaskRecord
      BY DEF IInv, TypeOK, TaskRecord, NoTask
    <2>2. CASE \E p \in Process, d \in DispatchId : ReserveRefused(t, p, d)
      <3>1. PICK p \in Process, d \in DispatchId : ReserveRefused(t, p, d)
        BY <2>2
      <3>2. ~poisoned[p] => journal = mem[p]
        BY <3>1 DEF ReserveRefused, MutexFree, IInv, WriterInv
      <3>3. QED  BY <2>1, <3>1, <3>2 DEF ReserveRefused, Answer, TaskRecord
    <2>3. CASE CompleteRefused(t)
      BY <2>1, <2>3 DEF CompleteRefused, Answer, TaskRecord, Waiting
    <2>4. CASE Cancel(t)
      BY <2>1, <2>4 DEF Cancel, NoTask, Waiting
    <2>5. QED  BY <2>2, <2>3, <2>4
  <1>2. TypeOK'
    BY <1>1 DEF IInv, TypeOK, diskVars, procVars
  <1>3. ProcessInv'
    <2>1. \A p \in Process : pending[p] # NoPending => pending[p].task # t
      <3> SUFFICES ASSUME NEW p \in Process, pending[p] # NoPending, pending[p].task = t
                   PROVE  FALSE
        OBVIOUS
      <3>1. task[t].pc \in {"reserving", "completing"}
        BY DEF IInv, ProcessInv
      <3>2. QED  BY <1>1, <3>1 DEF Waiting
    <2>2. \A p \in Process : pending[p] # NoPending => pending[p].task \in Task
      BY DEF IInv, TypeOK
    <2>3. \A u \in Task : task'[u].pc # "idle" => u # t /\ task'[u] = task[u]
      BY <1>1
    <2>4. QED  BY <1>1, <2>1, <2>2, <2>3 DEF IInv, ProcessInv, Holding, Waiting, procVars
  <1>4. DirectoryInv'
    BY <1>1 DEF IInv, DirectoryInv, Extends, diskVars, procVars
  <1>5. WriterInv'
    BY <1>1 DEF IInv, WriterInv, Target, diskVars, procVars
  <1>6. SpendInv'
    <2>1. \A d \in DispatchId : Kept(d) => Kept(d)'
      BY <1>1 DEF Kept, diskVars
    <2>2. journal' = journal /\ effects' = effects
      BY <1>1 DEF diskVars
    <2>3. \A u \in Task : Waiting(u) => ~Recorded(journal, Completion(task[u].id))
      BY DEF IInv, SpendInv
    <2>4. QED  BY <1>1, <2>1, <2>2, <2>3, TasksEndSpend
  <1>7. QED  BY <1>2, <1>3, <1>4, <1>5, <1>6 DEF IInv

\* The adapter's call: its permission was unspent and its intent is kept.
LEMMA ExecuteStep ==
    ASSUME IInv, NEW t \in Task, Execute(t)
    PROVE  IInv'
  <1> USE NoneAssumption DEF Execute
  <1> DEFINE d0 == task[t].id
  <1>1. /\ d0 \in DispatchId /\ effects[d0] = 0 /\ Waiting(t)
        /\ task[t].proc \in Process /\ proc[task[t].proc] = "open"
    BY DEF IInv, ProcessInv, SpendInv, Waiting
  <1>2. /\ task'[t] = [task[t] EXCEPT !.pc = "executed"]
        /\ task' \in [Task -> TaskRecord]
        /\ \A u \in Task : u # t => task'[u] = task[u]
    <2>1. task \in [Task -> TaskRecord]
      BY DEF IInv, TypeOK
    <2>2. [task[t] EXCEPT !.pc = "executed"] \in TaskRecord
      BY <2>1 DEF TaskRecord
    <2>3. task' = [task EXCEPT ![t] = [task[t] EXCEPT !.pc = "executed"]]
      OBVIOUS
    <2>4. QED  BY <2>1, <2>2, <2>3
  <1>3. /\ task'[t].pc = "executed" /\ task'[t].proc = task[t].proc
        /\ task'[t].id = d0 /\ task'[t].outcome = task[t].outcome
    BY <1>2 DEF IInv, TypeOK, TaskRecord
  <1>4. /\ effects' \in [DispatchId -> Nat]
        /\ effects'[d0] \in {0, 1}
        /\ \A d \in DispatchId : d # d0 => effects'[d] = effects[d]
    <2>1. effects \in [DispatchId -> Nat]
      BY DEF IInv, TypeOK
    <2>2. CASE effects' = [effects EXCEPT ![d0] = effects[d0] + 1]
      BY <1>1, <2>1, <2>2
    <2>3. CASE effects' = effects
      BY <1>1, <2>1, <2>3
    <2>4. QED  BY <2>2, <2>3
  <1>5. TypeOK'
    BY <1>2, <1>4 DEF IInv, TypeOK, diskVars, procVars
  <1>6. ProcessInv'
    <2>1. \A p \in Process : pending[p] # NoPending =>
             pending[p].task \in Task /\ pending[p].task # t
      <3> SUFFICES ASSUME NEW p \in Process, pending[p] # NoPending
                   PROVE  pending[p].task \in Task /\ pending[p].task # t
        OBVIOUS
      <3>1. pending[p].task \in Task
        BY DEF IInv, TypeOK
      <3>2. task[pending[p].task].pc \in {"reserving", "completing"}
        BY DEF IInv, ProcessInv
      <3>3. QED  BY <3>1, <3>2
    <2>2. QED  BY <1>1, <1>2, <1>3, <2>1 DEF IInv, ProcessInv, Holding, Waiting, procVars
  <1>7. DirectoryInv'
    BY DEF IInv, DirectoryInv, Extends, diskVars, procVars
  <1>8. WriterInv'
    BY DEF IInv, WriterInv, Target, diskVars, procVars
  <1>9. SpendInv'
    <2>1. UNCHANGED <<journal, durable, synced>>
      BY DEF diskVars
    <2>2. \A d \in DispatchId : Spent(d)' => Spent(d)
      <3> SUFFICES ASSUME NEW d \in DispatchId, Spent(d)' PROVE Spent(d)
        OBVIOUS
      <3>1. CASE d = d0
        BY <1>1, <3>1 DEF Spent
      <3>2. CASE d # d0
        BY <1>2, <1>3, <1>4, <3>2 DEF Spent, Waiting
      <3>3. QED  BY <3>1, <3>2
    <2>3. \A d \in DispatchId : (Spent(d)' => Kept(d)') /\ effects'[d] <= 1
      BY <1>4, <2>1, <2>2 DEF IInv, SpendInv, Kept
    <2>4. \A u \in Task : task'[u].pc = "executing" => effects'[task'[u].id] = 0
      <3> SUFFICES ASSUME NEW u \in Task, task'[u].pc = "executing"
                   PROVE  effects'[task'[u].id] = 0
        OBVIOUS
      <3>1. u # t /\ task'[u] = task[u]
        BY <1>2, <1>3
      <3>2. task[u].id \in DispatchId /\ task[u].id # d0 /\ effects[task[u].id] = 0
        BY <3>1 DEF IInv, ProcessInv, SpendInv
      <3>3. QED  BY <1>4, <3>1, <3>2
    <2>5. \A u \in Task : task'[u].pc = "reserving" => ~Spent(task[u].id)'
      <3> SUFFICES ASSUME NEW u \in Task, task'[u].pc = "reserving"
                   PROVE  ~Spent(task[u].id)'
        OBVIOUS
      <3>1. u # t /\ task'[u] = task[u]
        BY <1>2, <1>3
      <3>2. task[u].id \in DispatchId /\ ~Spent(task[u].id)
        BY <3>1 DEF IInv, ProcessInv, SpendInv
      <3>3. QED  BY <2>2, <3>1, <3>2
    <2>6. \A u \in Task : Waiting(u)' => ~Recorded(journal', Completion(task'[u].id))
      BY <1>1, <1>2, <1>3, <2>1 DEF IInv, SpendInv, Waiting
    <2>7. \A u, v \in Task :
             task'[u].pc # "idle" /\ task'[v].pc # "idle" /\ task'[u].id = task'[v].id
             => u = v
      BY <1>2, <1>3 DEF IInv, SpendInv
    <2>8. \A u \in Task :
             task'[u].outcome = "prior" => Recorded(journal', Intent(task'[u].id))
      BY <1>2, <1>3, <2>1 DEF IInv, SpendInv
    <2>9. QED  BY <2>3, <2>4, <2>5, <2>6, <2>7, <2>8 DEF SpendInv
  <1>10. QED  BY <1>5, <1>6, <1>7, <1>8, <1>9 DEF IInv

\* Taking the writer mutex for an entry: the files are validated and the writer
\* goes on to write, or it is poisoned and the call is refused.
LEMMA AppendBeginStep ==
    ASSUME IInv, NEW p \in Process, NEW t \in Task, NEW d \in DispatchId, NEW e \in Entry,
           NEW pc, NEW refusal \in {"refused", "unrecorded"},
           MutexFree(p), ~poisoned[p],
           AppendBegin(p, t, d, e, pc, refusal),
           UNCHANGED <<lockOwner, proc, newLock, mem, diskVars, effects>>,
           \/ /\ task[t].pc = "idle"
              /\ pc = "reserving" /\ e = Intent(d) /\ ~Recorded(mem[p], e)
           \/ /\ task[t].pc = "executed" /\ task[t].id = d
              /\ pc = "completing" /\ e = Completion(d) /\ ~Recorded(mem[p], e)
              /\ Recorded(mem[p], Intent(d))
    PROVE  IInv'
  <1> USE NoneAssumption DEF diskVars
  <1>1. \A q \in Process : q # p => ~Holding(q)
    BY OnlyHolder DEF IInv, Holding, MutexFree
  <1>2. /\ proc[p] = "open" /\ step[p] = "idle" /\ pending[p] = NoPending
        /\ named /\ ~tmp /\ checkpoint = mem[p] /\ journal = mem[p]
        /\ durable = Len(journal)
    BY DEF IInv, MutexFree, ProcessInv, WriterInv
  <1>3. /\ \A q \in Process : pending[q] = NoPending /\ step[q] = "idle"
        /\ \A u \in Task : task[u].pc # "idle" =>
              /\ task[u].proc = p /\ task[u].id \in DispatchId /\ Waiting(u)
    <2>1. \A q \in Process : pending[q] = NoPending /\ step[q] = "idle"
      BY <1>1, <1>2 DEF IInv, TypeOK, ProcessInv, Holding
    <2>2. \A u \in Task : task[u].pc # "idle" =>
              task[u].proc = p /\ task[u].id \in DispatchId
      BY <1>1 DEF IInv, ProcessInv, Holding
    <2>3. \A u \in Task : task[u].pc # "idle" => Waiting(u)
      <3> SUFFICES ASSUME NEW u \in Task, task[u].pc # "idle", ~Waiting(u)
                   PROVE  FALSE
        OBVIOUS
      <3>1. pending[p].task = u
        BY <2>2 DEF IInv, ProcessInv
      <3>2. QED  BY <1>2, <3>1 DEF NoPending
    <2>4. QED  BY <2>1, <2>2, <2>3
  <1>4. \A x \in DispatchId : Kept(x) => Kept(x)'
    BY DEF Kept
  <1>5. /\ e.id = d
        /\ pc = IF e.kind = "intent" THEN "reserving" ELSE "completing"
        /\ e.kind = "completion" => Recorded(mem[p], Intent(e.id))
        /\ ~Recorded(mem[p], e)
    BY DEF Intent, Completion
  <1>6. CASE FilesValid(p)
    <2>1. /\ step' = [step EXCEPT ![p] = "write"]
          /\ pending' = [pending EXCEPT ![p] = [task |-> t, entry |-> e]]
          /\ task' = [task EXCEPT ![t] = [pc |-> pc, proc |-> p, id |-> d, outcome |-> "none"]]
          /\ poisoned' = poisoned
      BY <1>6 DEF AppendBegin
    <2>2. /\ task'[t] = [pc |-> pc, proc |-> p, id |-> d, outcome |-> "none"]
          /\ task' \in [Task -> TaskRecord]
          /\ \A u \in Task : u # t => task'[u] = task[u]
      BY <2>1 DEF IInv, TypeOK, TaskRecord
    <2>3. /\ pending'[p].task = t /\ pending'[p].entry = e /\ pending'[p] # NoPending
          /\ step'[p] = "write"
          /\ pending' \in [Process -> [task : Task, entry : Entry] \cup {NoPending}]
          /\ \A q \in Process : q # p => pending'[q] = NoPending /\ step'[q] = "idle"
      BY <1>3, <2>1 DEF IInv, TypeOK, NoPending
    <2>4. TypeOK'
      BY <2>1, <2>2, <2>3 DEF IInv, TypeOK, Steps
    <2>5. ProcessInv'
      <3>1. \A u \in Task : task'[u].pc # "idle" =>
              /\ task'[u].proc = p /\ task'[u].id \in DispatchId
              /\ ~Waiting(u)' => u = t
        BY <1>3, <2>2 DEF Waiting
      <3>2. /\ pending'[p] # NoPending /\ pending'[p].task = t
            /\ task'[t].proc = p /\ task'[t].id = e.id
            /\ task'[t].pc = IF e.kind = "intent" THEN "reserving" ELSE "completing"
        BY <1>5, <2>2, <2>3
      <3>3. \A q \in Process : Holding(q)' <=> lockOwner' = q
        BY DEF IInv, ProcessInv, Holding
      <3>4. QED  BY <1>1, <1>2, <2>1, <2>3, <3>1, <3>2, <3>3 DEF IInv, ProcessInv, Holding
    <2>6. DirectoryInv'
      <3>1. \A q \in Process : proc[q] \notin {"header", "checkpoint"}
        BY <1>1, <1>2 DEF Holding
      <3>2. QED  BY <3>1 DEF IInv, DirectoryInv, Extends
    <2>7. WriterInv'
      <3>1. \A q \in Process : proc'[q] = "open" => q = p
        BY <1>1 DEF Holding
      <3>2. QED  BY <1>2, <1>5, <2>3, <3>1 DEF WriterInv
    <2>8. SpendInv'
      <3>1. \A x \in DispatchId : Spent(x)' => Spent(x)
        BY <2>2 DEF Spent, Waiting
      <3>2. \A x \in DispatchId : (Spent(x)' => Kept(x)') /\ effects'[x] <= 1
        BY <1>4, <3>1 DEF IInv, SpendInv
      <3>3. \A u \in Task : task'[u].pc = "executing" => effects'[task'[u].id] = 0
        BY <2>2 DEF IInv, SpendInv
      <3>4. pc = "reserving" => ~Spent(d)
        <4> SUFFICES ASSUME pc = "reserving", Spent(d) PROVE FALSE
          OBVIOUS
        <4>1. Kept(d)
          BY DEF IInv, SpendInv
        <4>2. Recorded(journal, Intent(d))
          BY <1>2, <4>1 DEF Kept, Recorded
        <4>3. QED  BY <1>2, <4>2
      <3>5. \A u \in Task : task'[u].pc = "reserving" => ~Spent(task[u].id)'
        <4> SUFFICES ASSUME NEW u \in Task, task'[u].pc = "reserving"
                     PROVE  ~Spent(task[u].id)'
          OBVIOUS
        <4>1. u = t
          BY <1>3, <2>2 DEF Waiting
        <4>2. task'[u].id = d /\ pc = "reserving"
          BY <2>2, <4>1
        <4>3. QED  BY <3>1, <3>4, <4>2
      <3>6. \A u \in Task : Waiting(u)' => ~Recorded(journal', Completion(task'[u].id))
        BY <2>2 DEF IInv, SpendInv, Waiting
      <3>7. \A u \in Task : u # t /\ task[u].pc # "idle" => task[u].id # d
        <4> SUFFICES ASSUME NEW u \in Task, u # t, task[u].pc # "idle", task[u].id = d
                     PROVE  FALSE
          OBVIOUS
        <4>1. Spent(d)
          BY <1>3 DEF Spent
        <4>2. QED  BY <3>4, <4>1 DEF IInv, SpendInv
      <3>8. \A u, v \in Task :
               task'[u].pc # "idle" /\ task'[v].pc # "idle" /\ task'[u].id = task'[v].id
               => u = v
        BY <2>2, <3>7 DEF IInv, SpendInv
      <3>9. \A u \in Task :
               task'[u].outcome = "prior" => Recorded(journal', Intent(task'[u].id))
        BY <2>2 DEF IInv, SpendInv
      <3>10. QED  BY <3>2, <3>3, <3>5, <3>6, <3>8, <3>9 DEF SpendInv
    <2>9. QED  BY <2>4, <2>5, <2>6, <2>7, <2>8 DEF IInv
  <1>7. CASE ~FilesValid(p)
    <2>1. /\ poisoned' = [poisoned EXCEPT ![p] = TRUE]
          /\ UNCHANGED <<step, pending>>
          /\ Answer(t, d, refusal)
      BY <1>7 DEF AppendBegin
    <2>2. /\ task'[t] = [pc |-> "idle", proc |-> None, id |-> d, outcome |-> refusal]
          /\ task' \in [Task -> TaskRecord]
          /\ \A u \in Task : u # t => task'[u] = task[u]
      BY <2>1 DEF IInv, TypeOK, TaskRecord, Answer
    <2>3. TypeOK'
      BY <2>1, <2>2 DEF IInv, TypeOK
    <2>4. ProcessInv'
      <3>1. \A u \in Task : task'[u].pc # "idle" => Waiting(u)' /\ task'[u] = task[u]
        BY <1>3, <2>2 DEF Waiting
      <3>2. QED  BY <1>3, <2>1, <3>1 DEF IInv, ProcessInv, Holding
    <2>5. DirectoryInv'
      BY <2>1 DEF IInv, DirectoryInv, Extends
    <2>6. WriterInv'
      BY <1>1, <2>1 DEF IInv, TypeOK, WriterInv, Holding
    <2>7. SpendInv'
      <3>1. \A u \in Task : Waiting(u) => ~Recorded(journal, Completion(task[u].id))
        BY DEF IInv, SpendInv
      <3>2. QED  BY <1>4, <2>2, <3>1, TasksEndSpend
    <2>8. QED  BY <2>3, <2>4, <2>5, <2>6, <2>7 DEF IInv
  <1>8. QED  BY <1>6, <1>7

\* reserve takes the writer for an intent.
LEMMA ReserveStep ==
    ASSUME IInv, NEW t \in Task, NEW p \in Process, NEW d \in DispatchId, Reserve(t, p, d)
    PROVE  IInv'
  <1>1. Intent(d) \in Entry
    BY DEF Intent, Entry
  <1>2. QED  BY <1>1, AppendBeginStep DEF Reserve

\* complete takes the writer for a completion.
LEMMA CompleteStep ==
    ASSUME IInv, NEW t \in Task, Complete(t)
    PROVE  IInv'
  <1>1. task[t].proc \in Process /\ task[t].id \in DispatchId
    BY DEF Complete, IInv, ProcessInv
  <1>2. Completion(task[t].id) \in Entry
    BY <1>1 DEF Completion, Entry
  <1>3. QED  BY <1>1, <1>2, AppendBeginStep DEF Complete

-----------------------------------------------------------------------------
(* The theorems *)

\* Every step keeps the invariant, one case per action.
LEMMA NextIInv == IInv /\ [Next]_vars => IInv'
  <1> SUFFICES ASSUME IInv, [Next]_vars PROVE IInv'
    OBVIOUS
  <1>1. CASE UNCHANGED vars
    <2> USE <1>1 DEF vars
    <2>1. TypeOK'
      BY DEF IInv, TypeOK
    <2>2. ProcessInv'
      BY DEF IInv, ProcessInv, Holding, Waiting
    <2>3. DirectoryInv'
      BY DEF IInv, DirectoryInv, Extends
    <2>4. WriterInv'
      BY DEF IInv, WriterInv, Target
    <2>5. SpendInv'
      BY DEF IInv, SpendInv, Spent, Waiting, Kept
    <2>6. QED  BY <2>1, <2>2, <2>3, <2>4, <2>5 DEF IInv
  <1>2. ASSUME NEW p \in Process,
               \/ OpenSync(p) \/ OpenLockFile(p) \/ OpenTryLock(p)
               \/ OpenInit(p) \/ OpenHeader(p) \/ OpenLoad(p) \/ OpenFails(p)
               \/ AppendWrite(p) \/ AppendSync(p)
               \/ CheckpointTmp(p) \/ CheckpointRename(p) \/ CheckpointDirSync(p)
               \/ AppendFails(p) \/ LookupPersistedFails(p) \/ Crash(p)
        PROVE  IInv'
    BY <1>2, OpenStep, CreateStep, AppendWriteStep, AppendSyncStep, CheckpointTmpStep,
       CheckpointRenameStep, CheckpointDirSyncStep, AppendFailsStep, PoisonStep, CrashStep
  <1>3. ASSUME NEW t \in Task, NEW p \in Process, NEW d \in DispatchId,
               ReserveRefused(t, p, d) \/ Reserve(t, p, d)
        PROVE  IInv'
    BY <1>3, AnswerStep, ReserveStep
  <1>4. ASSUME NEW t \in Task,
               Execute(t) \/ Cancel(t) \/ Complete(t) \/ CompleteRefused(t)
        PROVE  IInv'
    BY <1>4, AnswerStep, ExecuteStep, CompleteStep
  <1>5. CASE PowerLoss \/ Damage
    BY <1>5, PowerLossStep, DamageStep
  <1>6. QED  BY <1>1, <1>2, <1>3, <1>4, <1>5 DEF Next

\* The invariant that ties the lock, the directory, the writer's memory and the
\* spent permissions together holds for any number of daemons, calls and
\* identities, through every crash and power cut.
THEOREM JournalInvariant == Spec => []IInv
  BY InitIInv, NextIInv, PTL DEF Spec

\* Every variable keeps its type.
THEOREM TypeCorrect == Spec => []TypeOK
  <1>1. IInv => TypeOK
    BY DEF IInv
  <1>2. QED  BY <1>1, JournalInvariant, PTL

\* No dispatch identity has its external effect twice.
THEOREM DispatchAtMostOnce == Spec => []AtMostOnce
  <1>1. IInv => AtMostOnce
    BY DEF IInv, SpendInv, AtMostOnce
  <1>2. QED  BY <1>1, JournalInvariant, PTL

\* The intent of every permission that was ever used survives any power cut.
THEOREM IntentIsDurable == Spec => []IntentBeforeEffect
  <1>1. IInv => IntentBeforeEffect
    BY DEF IInv, SpendInv, IntentBeforeEffect
  <1>2. QED  BY <1>1, JournalInvariant, PTL

\* A refusal that claims a prior reservation is right.
THEOREM PriorReservationIsProof == Spec => []PriorIsProof
  <1>1. IInv => PriorIsProof
    BY DEF IInv, SpendInv, PriorIsProof
  <1>2. QED  BY <1>1, JournalInvariant, PTL

\* No completion is recorded for a call that still waits on its adapter.
THEOREM CompletionsAreTruthful == Spec => []CompletionAfterReturn
  <1>1. IInv => CompletionAfterReturn
    BY DEF IInv, SpendInv, CompletionAfterReturn
  <1>2. QED  BY <1>1, JournalInvariant, PTL

\* Between appends a healthy journal can always be opened again.
THEOREM RestReopens == Spec => []AtRestReopens
  <1>1. IInv => AtRestReopens
    BY NoneAssumption DEF IInv, TypeOK, DirectoryInv, WriterInv, AtRestReopens, MutexFree, Loadable
  <1>2. QED  BY <1>1, JournalInvariant, PTL

-----------------------------------------------------------------------------
(* The journal implements OnceDispatch *)

\* Only an adapter call changes effects; only a directory fsync, or the end of
\* one that a power cut interrupted, changes what is certain to be on disk.
LEMMA OnceStep ==
    ASSUME IInv, Next
    PROVE  \/ UNCHANGED <<synced, effects>>
           \/ synced' \in {synced, checkpoint} /\ UNCHANGED effects
           \/ UNCHANGED synced /\ \E t \in Task : Execute(t)
  <1> USE DEF diskVars, procVars, taskVars
  <1>1. ASSUME NEW p \in Process,
               \/ OpenSync(p) \/ OpenLockFile(p) \/ OpenTryLock(p)
               \/ OpenInit(p) \/ OpenHeader(p) \/ OpenLoad(p) \/ OpenFails(p)
               \/ AppendWrite(p) \/ AppendSync(p)
               \/ CheckpointTmp(p) \/ CheckpointRename(p) \/ CheckpointDirSync(p)
               \/ AppendFails(p) \/ LookupPersistedFails(p) \/ Crash(p)
        PROVE  synced' \in {synced, checkpoint} /\ UNCHANGED effects
    BY <1>1 DEF OpenSync, OpenLockFile, OpenTryLock, OpenInit, OpenHeader, OpenLoad, OpenFails,
       AppendWrite, AppendSync, CheckpointTmp, CheckpointRename, CheckpointDirSync,
       AppendFails, LookupPersistedFails, Crash
  <1>2. ASSUME NEW t \in Task, NEW p \in Process, NEW d \in DispatchId,
               ReserveRefused(t, p, d) \/ Reserve(t, p, d)
        PROVE  UNCHANGED <<synced, effects>>
    BY <1>2 DEF ReserveRefused, Reserve
  <1>3. ASSUME NEW t \in Task, Cancel(t) \/ Complete(t) \/ CompleteRefused(t)
        PROVE  UNCHANGED <<synced, effects>>
    BY <1>3 DEF Cancel, Complete, CompleteRefused
  <1>4. ASSUME NEW t \in Task, Execute(t)
        PROVE  UNCHANGED synced
    BY <1>4 DEF Execute
  <1>5. CASE PowerLoss \/ Damage
    BY <1>5 DEF PowerLoss, Damage
  <1>6. QED  BY <1>1, <1>2, <1>3, <1>4, <1>5 DEF Next

\* The journal keeps the promise its callers rely on: an identity, once spent,
\* stays spent, and takes effect at most once, only after it was spent.
THEOREM JournalImplementsOnce == Spec => ImplementsOnceDispatch
  <1>1. Init => Once!OnceInit
    BY DEF Init, Once!OnceInit, Consumed
  <1>2. IInv /\ [Next]_vars => [Once!OnceNext]_<<Consumed, effects>>
    <2> SUFFICES ASSUME IInv, [Next]_vars
                 PROVE  Once!OnceNext \/ UNCHANGED <<Consumed, effects>>
      OBVIOUS
    <2>1. CASE UNCHANGED <<synced, effects>>
      BY <2>1 DEF Consumed
    <2>2. CASE synced' \in {synced, checkpoint} /\ UNCHANGED effects
      <3>1. Consumed \subseteq Consumed' /\ Consumed' \subseteq DispatchId
        BY <2>2 DEF IInv, DirectoryInv, Extends, Consumed, Intents
      <3>2. CASE Consumed' = Consumed
        BY <2>2, <3>2
      <3>3. CASE Consumed' # Consumed
        <4> DEFINE D == Consumed' \ Consumed
        <4>1. D \in SUBSET DispatchId
          BY <3>1
        <4>2. Once!Consume(D)
          BY <2>2, <3>1, <3>3 DEF Once!Consume
        <4>3. QED  BY <4>1, <4>2 DEF Once!OnceNext
      <3>4. QED  BY <3>2, <3>3
    <2>3. CASE UNCHANGED synced /\ \E t \in Task : Execute(t)
      <3>1. PICK t \in Task : Execute(t)
        BY <2>3
      <3> DEFINE d == task[t].id
      <3>2. d \in DispatchId /\ effects[d] = 0 /\ Spent(d)
        BY <3>1 DEF Execute, IInv, ProcessInv, SpendInv, Spent, Waiting
      <3>3. d \in Consumed
        BY <3>2 DEF IInv, SpendInv, Kept, Consumed, Intents
      <3>4. Consumed' = Consumed
        BY <2>3 DEF Consumed
      <3>5. CASE effects' = [effects EXCEPT ![d] = effects[d] + 1]
        <4>1. effects' = [effects EXCEPT ![d] = 1]
          BY <3>2, <3>5
        <4>2. Once!Effect(d)
          BY <3>2, <3>3, <3>4, <4>1 DEF Once!Effect
        <4>3. QED  BY <3>2, <4>2 DEF Once!OnceNext
      <3>6. CASE UNCHANGED effects
        BY <3>4, <3>6
      <3>7. QED  BY <3>1, <3>5, <3>6 DEF Execute
    <2>4. QED  BY <2>1, <2>2, <2>3, OnceStep DEF vars
  <1>3. QED
    BY <1>1, <1>2, JournalInvariant, PTL DEF Spec, ImplementsOnceDispatch, Once!OnceSpec
=============================================================================
