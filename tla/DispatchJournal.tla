--------------------------- MODULE DispatchJournal ---------------------------
(***************************************************************************)
(* The durable dispatch journal (swarm-runtime/src/dispatch_journal.rs)    *)
(* and its only client, SwarmRuntime::dispatch_once (dispatch.rs).         *)
(*                                                                         *)
(* A daemon process opens the journal directory under an advisory file     *)
(* lock.  Its dispatch tasks reserve an identity (hunt, requester, action),*)
(* poll the adapter, and record the completion.  An append is one critical *)
(* section of the process, but it is five separate disk operations, and a  *)
(* crash or a power cut may fall between any two of them.                  *)
(*                                                                         *)
(* Abstractions.  A line of the journal is an Entry; the byte count and    *)
(* running digest of a prefix are the prefix itself, so that the checkpoint*)
(* is the sequence of entries it covers.  The lease, the evidence and the  *)
(* recorded result never decide anything beyond "refused" and are left out;*)
(* a check on them (nesting depth, size, active lease) is a refusal that   *)
(* may or may not happen.  Besides its writers only Damage, in-place       *)
(* corruption that the digest reveals, touches the directory.              *)
(***************************************************************************)
EXTENDS Naturals, Sequences, FiniteSets

CONSTANTS
    Process,     \* daemon processes configured with this journal directory
    Task,        \* concurrent dispatch_once calls
    DispatchId,  \* request_id: digest of hunt, requester and action
    MaxEntries,  \* JournalLimits::max_entries
    None         \* "no such thing"

ASSUME MaxEntriesAssumption == MaxEntries \in Nat

VARIABLES
    \* the journal directory
    lockFile,      \* writer.lock exists
    journalFile,   \* dispatch-journal.jsonl exists
    named,         \* both names have been fsynced into the directory
    journal,       \* the complete lines after the header
    durable,       \* how many of them an fsync has covered
    torn,          \* the file is not exactly those lines: an incomplete last
                   \* line, no header, or a damaged byte
    checkpoint,    \* what the `initialized` manifest covers, or None
    synced,        \* the manifest a power cut would leave behind
    tmp,           \* initialized.tmp exists
    lockOwner,     \* the process holding the advisory lock, or None
    \* the processes
    proc,          \* where a process is in open()
    newLock,       \* this open() created writer.lock
    mem,           \* JournalState: records, bytes and hasher in one
    poisoned,      \* JournalState::poisoned
    step,          \* the next disk operation of the append in progress
    pending,       \* the task and entry of the append in progress
    \* dispatch_once
    task,
    effects        \* effects[d]: how often an adapter carried out d

diskVars == <<lockFile, journalFile, named, journal, durable, torn,
              checkpoint, synced, tmp>>
procVars == <<lockOwner, proc, newLock, mem, poisoned, step, pending>>
taskVars == <<task, effects>>
vars == <<lockFile, journalFile, named, journal, durable, torn, checkpoint,
          synced, tmp, lockOwner, proc, newLock, mem, poisoned, step, pending,
          task, effects>>

Entry == [kind : {"intent", "completion"}, id : DispatchId]
Intent(d) == [kind |-> "intent", id |-> d]
Completion(d) == [kind |-> "completion", id |-> d]

\* None is none of the things it stands in for.
ASSUME NoneAssumption ==
    None \notin Process /\ None \notin Task /\ None \notin DispatchId
                        /\ None \notin Seq(Entry)

Opening == {"synced", "created", "init", "header", "checkpoint", "load"}
Steps == {"idle", "write", "sync", "tmp", "rename", "dirsync"}

Recorded(log, e) == \E i \in 1..Len(log) : log[i] = e
Intents(log) == {d \in DispatchId : Recorded(log, Intent(d))}

TaskRecord ==
    [pc : {"idle", "reserving", "executing", "executed", "completing"},
     proc : Process \cup {None}, id : DispatchId \cup {None},
     outcome : {"none", "prior", "refused", "attempted", "unrecorded"}]
NoTask == [pc |-> "idle", proc |-> None, id |-> None, outcome |-> "none"]
NoPending == [task |-> None, entry |-> None]

Init ==
    /\ lockFile = FALSE /\ journalFile = FALSE /\ named = FALSE
    /\ journal = <<>> /\ durable = 0 /\ torn = FALSE
    /\ checkpoint = None /\ synced = None /\ tmp = FALSE
    /\ lockOwner = None
    /\ proc = [p \in Process |-> "down"]
    /\ newLock = [p \in Process |-> FALSE]
    /\ mem = [p \in Process |-> <<>>]
    /\ poisoned = [p \in Process |-> FALSE]
    /\ step = [p \in Process |-> "idle"]
    /\ pending = [p \in Process |-> NoPending]
    /\ task = [t \in Task |-> NoTask]
    /\ effects = [d \in DispatchId |-> 0]

-----------------------------------------------------------------------------
(* open_with_directory_sync *)

\* The directory and every ancestor is fsynced, before the lock is even looked for.
OpenSync(p) ==
    /\ proc[p] = "down"
    /\ proc' = [proc EXCEPT ![p] = "synced"]
    /\ synced' = checkpoint
    /\ UNCHANGED <<lockFile, journalFile, named, journal, durable, torn, checkpoint,
                   tmp, lockOwner, newLock, mem, poisoned, step, pending, task, effects>>

\* writer.lock is created or found.
OpenLockFile(p) ==
    /\ proc[p] = "synced"
    /\ proc' = [proc EXCEPT ![p] = "created"]
    /\ newLock' = [newLock EXCEPT ![p] = ~lockFile]
    /\ lockFile' = TRUE
    /\ UNCHANGED <<journalFile, named, journal, durable, torn, checkpoint, synced, tmp,
                   lockOwner, mem, poisoned, step, pending, task, effects>>

\* try_lock; WouldBlock is AlreadyOpen.
OpenTryLock(p) ==
    /\ proc[p] = "created"
    /\ IF lockOwner = None
       THEN /\ lockOwner' = p
            /\ proc' = [proc EXCEPT ![p] = IF newLock[p] THEN "init" ELSE "load"]
       ELSE /\ proc' = [proc EXCEPT ![p] = "down"]
            /\ UNCHANGED lockOwner
    /\ UNCHANGED <<newLock, mem, poisoned, step, pending, diskVars, taskVars>>

\* open() returns an error, or the process dies: the File holding the lock is dropped.
CloseLock(p) ==
    /\ proc' = [proc EXCEPT ![p] = "down"]
    /\ lockOwner' = IF lockOwner = p THEN None ELSE lockOwner

\* A new lock beside an old journal or manifest is Corrupt; otherwise the
\* journal file is created, still without its header.
OpenInit(p) ==
    /\ proc[p] = "init"
    /\ IF journalFile \/ checkpoint # None
       THEN CloseLock(p) /\ UNCHANGED <<journalFile, torn>>
       ELSE /\ proc' = [proc EXCEPT ![p] = "header"]
            /\ journalFile' = TRUE
            /\ torn' = TRUE
            /\ UNCHANGED lockOwner
    /\ UNCHANGED <<lockFile, named, journal, durable, checkpoint, synced, tmp,
                   newLock, mem, poisoned, step, pending, taskVars>>

\* Header written and fsynced, lock fsynced, directory fsynced.
OpenHeader(p) ==
    /\ proc[p] = "header"
    /\ torn' = FALSE
    /\ named' = TRUE
    /\ proc' = [proc EXCEPT ![p] = "checkpoint"]
    /\ step' = [step EXCEPT ![p] = "tmp"]
    /\ UNCHANGED <<lockFile, journalFile, journal, durable, checkpoint, synced,
                   tmp, lockOwner, newLock, mem, poisoned, pending, taskVars>>

\* read_records: the lines replay into records.
Replays(log) ==
    \A i \in 1..Len(log) :
        /\ \A j \in 1..(i - 1) : log[j] # log[i]
        /\ log[i].kind = "completion" =>
              \E j \in 1..(i - 1) : log[j] = Intent(log[i].id)

\* read_checkpoint, read_records and validate_checkpoint all succeed.
Loadable ==
    /\ ~tmp
    /\ checkpoint # None
    /\ journalFile /\ ~torn
    /\ Replays(journal)
    /\ checkpoint = journal

OpenLoad(p) ==
    /\ proc[p] = "load"
    /\ IF Loadable
       THEN /\ proc' = [proc EXCEPT ![p] = "open"]
            /\ mem' = [mem EXCEPT ![p] = journal]
            /\ poisoned' = [poisoned EXCEPT ![p] = FALSE]
            /\ UNCHANGED lockOwner
       ELSE /\ CloseLock(p)
            /\ UNCHANGED <<mem, poisoned>>
    /\ UNCHANGED <<newLock, step, pending, diskVars, taskVars>>

\* An I/O error anywhere else in open().
OpenFails(p) ==
    /\ proc[p] \in Opening
    /\ CloseLock(p)
    /\ step' = [step EXCEPT ![p] = "idle"]
    /\ UNCHANGED <<newLock, mem, poisoned, pending, diskVars, taskVars>>

-----------------------------------------------------------------------------
(* append: one critical section of the process, five disk operations *)

\* validate_files: the files on disk are the ones this writer left.
FilesValid(p) ==
    /\ ~tmp
    /\ checkpoint = mem[p]
    /\ journalFile /\ ~torn
    /\ journal = mem[p]

\* The answer a dispatch_once call returns, and the end of that call.
Answer(t, d, o) ==
    task' = [task EXCEPT ![t] =
                [pc |-> "idle", proc |-> None, id |-> d, outcome |-> o]]

\* The writer mutex is taken and the entry is about to be written, unless
\* validate_files proves a foreign change: that poisons the writer.
AppendBegin(p, t, d, e, pc, refusal) ==
    IF FilesValid(p)
    THEN /\ step' = [step EXCEPT ![p] = "write"]
         /\ pending' = [pending EXCEPT ![p] = [task |-> t, entry |-> e]]
         /\ task' = [task EXCEPT ![t] =
                        [pc |-> pc, proc |-> p, id |-> d, outcome |-> "none"]]
         /\ UNCHANGED poisoned
    ELSE /\ poisoned' = [poisoned EXCEPT ![p] = TRUE]
         /\ Answer(t, d, refusal)
         /\ UNCHANGED <<step, pending>>

\* The prefix the checkpoint being written covers.
Target(p) ==
    IF pending[p].task = None THEN mem[p] ELSE Append(mem[p], pending[p].entry)

AppendWrite(p) ==
    /\ step[p] = "write"
    /\ journal' = Append(journal, pending[p].entry)
    /\ step' = [step EXCEPT ![p] = "sync"]
    /\ UNCHANGED <<lockFile, journalFile, named, durable, torn, checkpoint,
                   synced, tmp, lockOwner, proc, newLock, mem, poisoned,
                   pending, taskVars>>

AppendSync(p) ==
    /\ step[p] = "sync"
    /\ durable' = Len(journal)
    /\ step' = [step EXCEPT ![p] = "tmp"]
    /\ UNCHANGED <<lockFile, journalFile, named, journal, torn, checkpoint,
                   synced, tmp, lockOwner, proc, newLock, mem, poisoned,
                   pending, taskVars>>

\* create_new(initialized.tmp), written and fsynced.
CheckpointTmp(p) ==
    /\ step[p] = "tmp"
    /\ ~tmp
    /\ tmp' = TRUE
    /\ step' = [step EXCEPT ![p] = "rename"]
    /\ UNCHANGED <<lockFile, journalFile, named, journal, durable, torn,
                   checkpoint, synced, lockOwner, proc, newLock, mem, poisoned,
                   pending, taskVars>>

CheckpointRename(p) ==
    /\ step[p] = "rename"
    /\ checkpoint' = Target(p)
    /\ tmp' = FALSE
    /\ step' = [step EXCEPT ![p] = "dirsync"]
    /\ UNCHANGED <<lockFile, journalFile, named, journal, durable, torn, synced,
                   lockOwner, proc, newLock, mem, poisoned, pending, taskVars>>

\* Fault: the directory is not fsynced after the rename.
CheckpointDirSyncSkipped(p) ==
    /\ step[p] = "dirsync"
    /\ step' = [step EXCEPT ![p] = "idle"]
    /\ pending' = [pending EXCEPT ![p] = NoPending]
    /\ mem' = [mem EXCEPT ![p] = Target(p)]
    /\ IF pending[p].task = None
       THEN /\ proc' = [proc EXCEPT ![p] = "load"]
            /\ UNCHANGED task
       ELSE /\ IF pending[p].entry.kind = "intent"
               THEN task' = [task EXCEPT ![pending[p].task].pc = "executing"]
               ELSE Answer(pending[p].task, pending[p].entry.id, "attempted")
            /\ UNCHANGED proc
    /\ UNCHANGED <<diskVars, lockOwner, newLock, poisoned, effects>>

\* sync_directory, then append returns: the in-memory state advances and the
\* caller goes on, holding the permission (reserve) or the answer (complete).
CheckpointDirSync(p) ==
    /\ step[p] = "dirsync"
    /\ synced' = checkpoint
    /\ step' = [step EXCEPT ![p] = "idle"]
    /\ pending' = [pending EXCEPT ![p] = NoPending]
    /\ mem' = [mem EXCEPT ![p] = Target(p)]
    /\ IF pending[p].task = None
       THEN /\ proc' = [proc EXCEPT ![p] = "load"]
            /\ UNCHANGED task
       ELSE /\ IF pending[p].entry.kind = "intent"
               THEN task' = [task EXCEPT ![pending[p].task].pc = "executing"]
               ELSE Answer(pending[p].task, pending[p].entry.id, "attempted")
            /\ UNCHANGED proc
    /\ UNCHANGED <<lockFile, journalFile, named, journal, durable, torn,
                   checkpoint, tmp, lockOwner, newLock, poisoned, effects>>

\* A write that did not return success left none, part or all of the line.
PartialWrite(p) ==
    IF step[p] = "write"
    THEN \/ journal' = journal /\ torn' \in {torn, TRUE}
         \/ journal' = Append(journal, pending[p].entry) /\ torn' = torn
    ELSE UNCHANGED <<journal, torn>>

\* Fault: a failed append leaves the writer usable.
AppendFailsUnpoisoned(p) ==
    /\ proc[p] = "open" /\ step[p] # "idle"
    /\ Answer(pending[p].task, pending[p].entry.id,
              IF pending[p].entry.kind = "intent" THEN "refused" ELSE "unrecorded")
    /\ step' = [step EXCEPT ![p] = "idle"]
    /\ pending' = [pending EXCEPT ![p] = NoPending]
    /\ PartialWrite(p)
    /\ tmp' \in IF step[p] = "tmp" THEN BOOLEAN ELSE {tmp}
    /\ UNCHANGED <<lockFile, journalFile, named, durable, checkpoint, synced,
                   lockOwner, proc, newLock, mem, poisoned, effects>>

\* write_all, sync_all or write_checkpoint returns an error: the writer is
\* poisoned; reserve refuses, complete cannot record the outcome.
AppendFails(p) ==
    /\ proc[p] = "open" /\ step[p] # "idle"
    /\ poisoned' = [poisoned EXCEPT ![p] = TRUE]
    /\ Answer(pending[p].task, pending[p].entry.id,
              IF pending[p].entry.kind = "intent" THEN "refused" ELSE "unrecorded")
    /\ step' = [step EXCEPT ![p] = "idle"]
    /\ pending' = [pending EXCEPT ![p] = NoPending]
    /\ PartialWrite(p)
    /\ tmp' \in IF step[p] = "tmp" THEN BOOLEAN ELSE {tmp}
    /\ UNCHANGED <<lockFile, journalFile, named, durable, checkpoint, synced,
                   lockOwner, proc, newLock, mem, effects>>

-----------------------------------------------------------------------------
(* dispatch_once *)

\* lock() takes the mutex when no append is in progress.
MutexFree(p) == proc[p] = "open" /\ step[p] = "idle"

\* reserve() answers before a byte is written: the writer is poisoned, the
\* identity is taken, a limit is reached, the lease is inactive, the request
\* cannot be serialized, or validate_files cannot read the files.
ReserveRefused(t, p, d) ==
    /\ task[t].pc = "idle" /\ MutexFree(p)
    /\ \E o \in {"refused", "prior"} :
          /\ o = "prior" => ~poisoned[p] /\ Recorded(mem[p], Intent(d))
          /\ Answer(t, d, o)
    /\ UNCHANGED <<diskVars, procVars, effects>>

\* Fault: an identity whose completion is recorded may be reserved again.
ReserveAfterCompletion(t, p, d) ==
    /\ task[t].pc = "idle" /\ MutexFree(p)
    /\ ~poisoned[p]
    /\ Recorded(mem[p], Intent(d)) => Recorded(mem[p], Completion(d))
    /\ Cardinality(Intents(mem[p])) < MaxEntries
    /\ AppendBegin(p, t, d, Intent(d), "reserving", "refused")
    /\ UNCHANGED <<lockOwner, proc, newLock, mem, diskVars, effects>>

Reserve(t, p, d) ==
    /\ task[t].pc = "idle" /\ MutexFree(p)
    /\ ~poisoned[p]
    /\ ~Recorded(mem[p], Intent(d))
    /\ Cardinality(Intents(mem[p])) < MaxEntries
    /\ AppendBegin(p, t, d, Intent(d), "reserving", "refused")
    /\ UNCHANGED <<lockOwner, proc, newLock, mem, diskVars, effects>>

\* lookup_persisted() re-reads the files under the mutex; a foreign change and
\* a failed read both poison the writer.
LookupPersistedFails(p) ==
    /\ MutexFree(p) /\ ~poisoned[p]
    /\ poisoned' = [poisoned EXCEPT ![p] = TRUE]
    /\ UNCHANGED <<lockOwner, proc, newLock, mem, step, pending, diskVars, taskVars>>

\* The adapter future carries the action out, or fails before it takes effect.
Execute(t) ==
    /\ task[t].pc = "executing"
    /\ task' = [task EXCEPT ![t].pc = "executed"]
    /\ \/ effects' = [effects EXCEPT ![task[t].id] = @ + 1]
       \/ UNCHANGED effects
    /\ UNCHANGED <<diskVars, procVars>>

\* The dispatch future is dropped at its await on the adapter.
Cancel(t) ==
    /\ task[t].pc \in {"executing", "executed"}
    /\ task' = [task EXCEPT ![t] = NoTask]
    /\ UNCHANGED <<diskVars, procVars, effects>>

Complete(t) ==
    LET p == task[t].proc
        d == task[t].id
    IN  /\ task[t].pc = "executed" /\ MutexFree(p)
        /\ ~poisoned[p]
        /\ Recorded(mem[p], Intent(d))
        /\ ~Recorded(mem[p], Completion(d))
        /\ AppendBegin(p, t, d, Completion(d), "completing", "unrecorded")
        /\ UNCHANGED <<lockOwner, proc, newLock, mem, diskVars, effects>>

\* complete() answers before a byte is written, for the same reasons.
CompleteRefused(t) ==
    /\ task[t].pc = "executed" /\ MutexFree(task[t].proc)
    /\ Answer(t, task[t].id, "unrecorded")
    /\ UNCHANGED <<diskVars, procVars, effects>>

-----------------------------------------------------------------------------
(* Crashes *)

\* p is killed.  The page cache survives it.
Crash(p) ==
    /\ proc[p] # "down"
    /\ CloseLock(p)
    /\ newLock' = [newLock EXCEPT ![p] = FALSE]
    /\ mem' = [mem EXCEPT ![p] = <<>>]
    /\ poisoned' = [poisoned EXCEPT ![p] = FALSE]
    /\ step' = [step EXCEPT ![p] = "idle"]
    /\ pending' = [pending EXCEPT ![p] = NoPending]
    /\ task' = [t \in Task |-> IF task[t].proc = p THEN NoTask ELSE task[t]]
    /\ PartialWrite(p)
    /\ UNCHANGED <<lockFile, journalFile, named, durable, checkpoint, synced,
                   tmp, effects>>

\* Every process dies; whatever no fsync has covered may be lost.
PowerLoss ==
    /\ \E p \in Process : proc[p] # "down"
    /\ proc' = [p \in Process |-> "down"]
    /\ lockOwner' = None
    /\ newLock' = [p \in Process |-> FALSE]
    /\ mem' = [p \in Process |-> <<>>]
    /\ poisoned' = [p \in Process |-> FALSE]
    /\ step' = [p \in Process |-> "idle"]
    /\ pending' = [p \in Process |-> NoPending]
    /\ task' = [t \in Task |-> NoTask]
    /\ lockFile' \in {named /\ lockFile, lockFile}
    /\ journalFile' \in {named /\ journalFile, journalFile}
    /\ \E n \in durable..Len(journal) :
          /\ journal' = SubSeq(journal, 1, n)
          /\ torn' \in {torn, torn \/ n < Len(journal)}
    /\ checkpoint' \in {checkpoint, synced}
    /\ synced' = checkpoint'
    /\ tmp' \in {tmp, FALSE, checkpoint # synced}
    /\ UNCHANGED <<named, durable, effects>>

\* A byte of the journal file is damaged in place, by hand or by the medium.
Damage ==
    /\ journalFile /\ ~torn
    /\ torn' = TRUE
    /\ UNCHANGED <<lockFile, journalFile, named, journal, durable, checkpoint,
                   synced, tmp, procVars, taskVars>>

-----------------------------------------------------------------------------

Next ==
    \/ \E p \in Process :
          \/ OpenSync(p) \/ OpenLockFile(p) \/ OpenTryLock(p)
          \/ OpenInit(p) \/ OpenHeader(p) \/ OpenLoad(p) \/ OpenFails(p)
          \/ AppendWrite(p) \/ AppendSync(p)
          \/ CheckpointTmp(p) \/ CheckpointRename(p) \/ CheckpointDirSync(p)
          \/ AppendFails(p) \/ LookupPersistedFails(p) \/ Crash(p)
    \/ \E t \in Task, p \in Process, d \in DispatchId :
          ReserveRefused(t, p, d) \/ Reserve(t, p, d)
    \/ \E t \in Task : 
          Execute(t) \/ Cancel(t) \/ Complete(t) \/ CompleteRefused(t)
    \/ PowerLoss \/ Damage

Spec == Init /\ [][Next]_vars

-----------------------------------------------------------------------------
(* Properties *)

\* The types of the directory, of the processes and of the calls.
TypeOK ==
    /\ lockFile \in BOOLEAN /\ journalFile \in BOOLEAN /\ named \in BOOLEAN
    /\ journal \in Seq(Entry) /\ durable \in Nat /\ torn \in BOOLEAN
    /\ checkpoint \in Seq(Entry) \cup {None}
    /\ synced \in Seq(Entry) \cup {None}
    /\ tmp \in BOOLEAN
    /\ lockOwner \in Process \cup {None}
    /\ proc \in [Process -> Opening \cup {"down", "open"}]
    /\ newLock \in [Process -> BOOLEAN]
    /\ mem \in [Process -> Seq(Entry)]
    /\ poisoned \in [Process -> BOOLEAN]
    /\ step \in [Process -> Steps]
    /\ pending \in [Process -> [task : Task, entry : Entry] \cup {NoPending}]
    /\ task \in [Task -> TaskRecord]
    /\ effects \in [DispatchId -> Nat]

\* The external effect of one dispatch identity happens at most once, whatever
\* crashes, power cuts, cancellations, I/O errors and concurrent daemons occur.
AtMostOnce == \A d \in DispatchId : effects[d] <= 1

\* A call holding a permission; a permission spent; a permission no restart
\* and no power cut can forget.
Waiting(t) == task[t].pc \in {"executing", "executed"}
Spent(d) == effects[d] > 0 \/ \E t \in Task : Waiting(t) /\ task[t].id = d
Kept(d) ==
    /\ \E i \in 1..durable : journal[i] = Intent(d)
    /\ synced # None /\ Recorded(synced, Intent(d))

\* Before an adapter is polled for d, and ever after its effect, the intent for
\* d is fsynced in the journal and covered by a manifest no power cut can undo:
\* a restart can always see that the permission was spent.
IntentBeforeEffect == \A d \in DispatchId : Spent(d) => Kept(d)

\* "prior_reservation: true" in a refusal is proof: the intent it speaks of is
\* on disk.  (An I/O error or poison must not be reported that way.)
PriorIsProof ==
    \A t \in Task : task[t].outcome = "prior" => Recorded(journal, Intent(task[t].id))

\* A completion in the journal means the adapter call of that identity is over:
\* no call can still be waiting on its adapter.
CompletionAfterReturn ==
    \A t \in Task : Waiting(t) => ~Recorded(journal, Completion(task[t].id))

\* Killing a daemon between two appends never costs the journal: as long as no
\* append failed and no byte is damaged, the directory opens again.
AtRestReopens ==
    \A p \in Process : MutexFree(p) /\ ~poisoned[p] /\ ~torn => Loadable

\* The inductive invariant behind the theorems, by parts.
Holding(p) == proc[p] \in {"init", "header", "checkpoint", "load", "open"}
Extends(short, long) ==
    short = None \/ (long # None /\ Intents(short) \subseteq Intents(long))

\* Only the lock holder is past try_lock; an append has one waiting task.
ProcessInv ==
    /\ \A p \in Process : Holding(p) <=> lockOwner = p
    /\ \A p \in Process :
          /\ proc[p] # "open" => mem[p] = <<>>
          /\ step[p] # "idle" => proc[p] \in {"checkpoint", "open"}
          /\ proc[p] = "checkpoint" => step[p] \in {"tmp", "rename", "dirsync"}
          /\ pending[p] # NoPending <=> (proc[p] = "open" /\ step[p] # "idle")
          /\ pending[p] # NoPending =>
                LET t == pending[p].task
                    e == pending[p].entry
                IN  /\ ~poisoned[p]
                    /\ task[t].proc = p /\ task[t].id = e.id
                    /\ task[t].pc = IF e.kind = "intent" THEN "reserving" ELSE "completing"
    /\ \A t \in Task : task[t].pc # "idle" =>
          /\ task[t].proc \in Process /\ proc[task[t].proc] = "open"
          /\ task[t].id \in DispatchId
          /\ ~Waiting(t) => pending[task[t].proc].task = t

\* What the directory holds while it is being created, and in between.
DirectoryInv ==
    /\ durable <= Len(journal)
    /\ Replays(journal)
    /\ Extends(synced, checkpoint)
    /\ checkpoint # None => Len(checkpoint) <= durable
    /\ synced # None => Len(synced) <= durable
    /\ named => lockFile /\ journalFile
    /\ ~named => /\ journal = <<>> /\ durable = 0
                 /\ checkpoint = None /\ synced = None /\ ~tmp
    /\ \A p \in Process :
          /\ proc[p] \notin {"down", "synced"} => lockFile
          /\ proc[p] = "header" => ~named /\ journalFile
          /\ proc[p] = "checkpoint" =>
                /\ named /\ journal = <<>> /\ durable = 0
                /\ checkpoint = IF step[p] = "dirsync" THEN <<>> ELSE None

\* What an unpoisoned writer knows of the files at each step of an append.
WriterInv ==
    \A p \in Process : proc[p] = "open" /\ ~poisoned[p] =>
        /\ named
        /\ tmp <=> step[p] = "rename"
        /\ checkpoint = IF step[p] = "dirsync" THEN Target(p) ELSE mem[p]
        /\ journal = IF step[p] \in {"idle", "write"} THEN mem[p] ELSE Target(p)
        /\ durable = IF step[p] = "sync" THEN Len(mem[p]) ELSE Len(journal)
        /\ step[p] # "idle" => LET e == pending[p].entry IN
              /\ ~Recorded(mem[p], e)
              /\ e.kind = "completion" => Recorded(mem[p], Intent(e.id))

\* Permissions are spent on disk first, and each only once.
SpendInv ==
    /\ \A d \in DispatchId : Spent(d) => Kept(d)
    /\ \A d \in DispatchId : effects[d] <= 1
    /\ \A t \in Task : task[t].pc = "executing" => effects[task[t].id] = 0
    /\ \A t \in Task : task[t].pc = "reserving" => ~Spent(task[t].id)
    /\ \A t \in Task : Waiting(t) => ~Recorded(journal, Completion(task[t].id))
    /\ \A t, u \in Task :
          task[t].pc # "idle" /\ task[u].pc # "idle" /\ task[t].id = task[u].id => t = u
    /\ \A t \in Task :
          task[t].outcome = "prior" => Recorded(journal, Intent(task[t].id))

\* The inductive invariant: what the lock, the directory, the writer's memory
\* and the permissions already spent have to do with each other at every step.
IInv == TypeOK /\ ProcessInv /\ DirectoryInv /\ WriterInv /\ SpendInv

\* The journal implements OnceDispatch: the identities a power cut cannot make
\* it forget are the ones consumed.
Consumed == IF synced = None THEN {} ELSE Intents(synced)
Once == INSTANCE OnceDispatch WITH consumed <- Consumed
ImplementsOnceDispatch == Once!OnceSpec
=============================================================================
