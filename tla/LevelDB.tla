------------------------------ MODULE LevelDB ------------------------------
(***************************************************************************)
(* leveldb's DBImpl and VersionSet: writers that queue for one log, the    *)
(* memory tables, the background thread that flushes and compacts them     *)
(* while readers hold old versions, and recovery after the process or the  *)
(* machine stopped at any moment.                                          *)
(*                                                                         *)
(* A step is what a thread does with the mutex held, or one file operation *)
(* without it.  A batch has at most one operation on a key; all operations *)
(* of a batch have one number.                                             *)
(***************************************************************************)
EXTENDS LevelDBVersion, Sequences

CONSTANTS
    MemCapacity,        \* write_buffer_size, in entries
    CompactionTrigger,  \* kL0_CompactionTrigger
    StopWritesTrigger,  \* kL0_StopWritesTrigger
    Budgets,            \* bounds: the batches written, functions from keys to operations;
                        \* writers at once, writes, synced ones, file errors, crashes,
                        \* compactions asked for, snapshots and iterators taken
    None

ASSUME CapacityAssumption == MemCapacity \in Nat \ {0}
Batches == UNION {[keys -> {"put", "delete"}] : keys \in {k \in SUBSET Keys : IsFiniteSet(k)}}

ASSUME BudgetsAssumption ==
    Budgets \subseteq [batches : SUBSET Batches, writers : Nat, writes : Nat, syncs : Nat,
                      errors : Nat, crashes : Nat, seeks : Nat, readers : Nat]
ASSUME TriggerAssumption ==
    /\ CompactionTrigger \in Nat \ {0}
    /\ StopWritesTrigger \in Nat
    /\ CompactionTrigger <= StopWritesTrigger

\* VersionEdit and Compaction, and an iterator.
Versions == [Levels -> SUBSET Nat]
Edits ==
    [kind : {"open", "flush", "move", "compact"}, adds : SUBSET (Levels \X Nat),
     deletes : SUBSET (Levels \X Nat), log : Nat, lastSeq : Nat, next : Nat,
     state : {"new", "written", "failed"}]
Compactions ==
    [level : 0..MaxLevel - 1, upper : SUBSET Nat, lower : SUBSET Nat, version : Versions,
     outputs : SUBSET Nat, built : BOOLEAN, snapshot : Nat]
Iterators ==
    [seq : Nat, mem : SUBSET Entries, imm : SUBSET Entries, version : Versions]

ASSUME NoneAssumption == None \notin Edits \cup Compactions \cup Iterators

VARIABLES
    tables,     \* disk: the table files
    logs,       \* disk: the log files, their records, how many of them are synced
    manifest,   \* disk: what the MANIFEST that CURRENT names says
    db,         \* the fields of DBImpl and VersionSet, nothing of which outlives the process
    queue,      \* writers_
    stage,      \* how far the writer at the front is
    group,      \* writers whose batches it writes with its own
    bg,         \* the background thread
    iterator,   \* a reader: its snapshot, memory tables and version, or None
    committed,  \* history: entries of the writes made visible
    acked,      \* history: those of writes that returned ok
    synced,     \* history: those of synced writes that returned ok
    left,       \* history: keys a compaction left older entries of behind
    repeated,   \* history: an edit was written after a refused one that is on disk
    budget

disk == <<tables, logs, manifest>>
writers == <<queue, stage, group>>
history == <<committed, acked, synced, left, repeated>>
vars == <<disk, db, writers, bg, iterator, history, budget>>

Spend(kind) == budget[kind] > 0 /\ budget' = [budget EXCEPT ![kind] = @ - 1]

\* A log's records, how many are synced, how many come before a damage, if there is one.
EmptyLog == [records |-> <<>>, synced |-> 0, good |-> 0, torn |-> FALSE]
FirstEntries(log, count) == UNION {log.records[i] : i \in 1..count}
LogEntries(log) == FirstEntries(log, Len(log.records))

Closed ==
    [status |-> "closed", mem |-> {}, imm |-> {}, logfile |-> 0, version |-> NoTables,
     logNumber |-> 0, nextFile |-> 0, lastSeq |-> 0, bgError |-> FALSE, pending |-> {},
     hot |-> {}, snapshots |-> {}]
Resting == [scheduled |-> FALSE, edit |-> None, compaction |-> None]

\* A database NewDB made, not opened yet.
Init ==
    /\ tables = [n \in {} |-> {}]
    /\ logs = [n \in {} |-> EmptyLog]
    /\ manifest = [files |-> NoTables, log |-> 0, lastSeq |-> 0, next |-> 2]
    /\ db = Closed
    /\ queue = <<>> /\ stage = "front" /\ group = 0
    /\ bg = Resting
    /\ iterator = None
    /\ committed = {} /\ acked = {} /\ synced = {}
    /\ left = {} /\ repeated = FALSE
    /\ budget \in Budgets

-----------------------------------------------------------------------------
\* The background thread's schedule and files.

NeedsCompaction(version, hot) == Cardinality(version[0]) >= CompactionTrigger \/ hot # {}

\* MaybeScheduleCompaction, for the fields it finds.
Schedules(d) == ~d.bgError /\ (d.imm # {} \/ NeedsCompaction(d.version, d.hot))

\* VersionSet::NewFileNumber and a file of that number: an older one is overwritten.
With(files, number, content) == [n \in DOMAIN files \cup {number} |->
                                   IF n = number THEN content ELSE files[n]]
Keep(files, numbers) == [n \in DOMAIN files \cap numbers |-> files[n]]

\* pending_outputs_ and AddLiveFiles: the tables of every version somebody holds.
Live(d, compaction) ==
    d.pending \cup Numbers(d.version) \cup
    (IF iterator = None THEN {} ELSE Numbers(iterator.version)) \cup
    (IF compaction = None THEN {} ELSE Numbers(compaction.version))

\* After a background error nobody knows which version is on disk: nothing is deleted.
DeleteObsoleteFiles(d, compaction) ==
    IF d.bgError THEN UNCHANGED <<tables, logs>>
    ELSE /\ tables' = Keep(tables, Live(d, compaction))
         /\ logs' = Keep(logs, {n \in DOMAIN logs : n >= d.logNumber})

-----------------------------------------------------------------------------
\* Writers.

\* DBImpl::Write joins the queue.
Write(batch, sync) ==
    /\ db.status = "open"
    /\ Len(queue) < budget["writers"]
    /\ budget["writes"] > 0
    /\ sync => budget["syncs"] > 0
    /\ budget' = [budget EXCEPT !["writes"] = @ - 1, !["syncs"] = IF sync THEN @ - 1 ELSE @]
    /\ queue' = Append(queue, [batch |-> batch, sync |-> sync])
    /\ UNCHANGED <<disk, db, stage, group, bg, iterator, history>>

\* BuildBatchGroup: as many as the sizes allow; a synced write joins none that is not.
MayJoin(n) ==
    /\ n \in 1..Len(queue)
    /\ \A i \in 1..n : queue[i].sync => queue[1].sync

\* (Faulty: the group is not ended.)
ReturnOne(n) ==
    /\ queue' = SubSeq(queue, n + 1, Len(queue))
    /\ stage' = "front"
    /\ group' = group
\* The writers at the front return, with an error or not.
Return(n) ==
    /\ queue' = SubSeq(queue, n + 1, Len(queue))
    /\ stage' = "front"
    /\ group' = 0

AtFront == db.status = "open" /\ stage = "front" /\ queue # <<>>

\* MakeRoomForWrite: after a background error every write fails.
WriteRefused ==
    /\ AtFront
    /\ db.bgError
    /\ Return(1)
    /\ UNCHANGED <<disk, db, bg, iterator, history, budget>>

BuildBatchGroup ==
    /\ \E n \in 1..Len(queue) : MayJoin(n) /\ group' = n
    /\ stage' = "append"
    /\ UNCHANGED queue

BeginWrite ==
    /\ AtFront
    /\ ~db.bgError
    /\ Cardinality(db.mem) < MemCapacity
    /\ BuildBatchGroup
    /\ UNCHANGED <<disk, db, bg, iterator, history, budget>>

NoRoom == AtFront /\ ~db.bgError /\ Cardinality(db.mem) >= MemCapacity

\* The writer sleeps until background work is done: a flush, or a compaction of level 0.
Wait ==
    /\ NoRoom
    /\ db.imm # {} \/ Cardinality(db.version[0]) >= StopWritesTrigger
    /\ stage' = "waiting"
    /\ UNCHANGED <<disk, db, queue, group, bg, iterator, history, budget>>

NeedsSwitch ==
    /\ NoRoom
    /\ db.imm = {}
    /\ Cardinality(db.version[0]) < StopWritesTrigger

SwitchMemTable ==
    /\ NeedsSwitch
    /\ LET d == [db EXCEPT !.imm = db.mem, !.mem = {}, !.logfile = db.nextFile,
                           !.nextFile = @ + 1]
       IN /\ db' = d
          /\ bg' = [bg EXCEPT !.scheduled = @ \/ Schedules(d)]
    /\ logs' = With(logs, db.nextFile, EmptyLog)
    /\ BuildBatchGroup
    /\ UNCHANGED <<tables, manifest, iterator, history, budget>>

\* No new log file: the number is reused, the writer fails.
SwitchFails ==
    /\ NeedsSwitch
    /\ Spend("errors")
    /\ Return(1)
    /\ UNCHANGED <<disk, db, bg, iterator, history>>

\* The group's entries, batch after batch.
GroupEntries ==
    UNION {{[key |-> key, seq |-> db.lastSeq + i, kind |-> queue[i].batch[key]] :
              key \in DOMAIN queue[i].batch} : i \in 1..group}

\* log_->AddRecord: what follows a record that failed half-way may not be read again.
AddRecord ==
    /\ stage = "append"
    /\ logs' = [logs EXCEPT ![db.logfile].records = Append(@, GroupEntries),
                            ![db.logfile].good =
                              IF logs[db.logfile].torn THEN @ ELSE Len(logs[db.logfile].records) + 1]
    /\ stage' = IF queue[1].sync THEN "sync" ELSE "insert"
    /\ UNCHANGED <<tables, manifest, db, queue, group, bg, iterator, history, budget>>

AddRecordFails ==
    /\ stage = "append"
    /\ Spend("errors")
    /\ logs' = [logs EXCEPT ![db.logfile].torn = TRUE]
    /\ stage' = "failed"
    /\ UNCHANGED <<tables, manifest, db, queue, group, bg, iterator, history>>

Sync ==
    /\ stage = "sync"
    /\ logs' = [logs EXCEPT ![db.logfile].synced = Len(logs[db.logfile].records)]
    /\ stage' = "insert"
    /\ UNCHANGED <<tables, manifest, db, queue, group, bg, iterator, history, budget>>

SyncFails ==
    /\ stage = "sync"
    /\ Spend("errors")
    /\ stage' = "unsynced"
    /\ UNCHANGED <<disk, db, queue, group, bg, iterator, history>>

\* InsertInto: readers do not see the entries yet.
InsertInto ==
    /\ stage = "insert"
    /\ db' = [db EXCEPT !.mem = @ \cup GroupEntries]
    /\ stage' = "written"
    /\ UNCHANGED <<disk, queue, group, bg, iterator, history, budget>>

\* The entries of the writers of the group that asked for a sync.
SyncedEntries == {e \in GroupEntries : queue[e.seq - db.lastSeq].sync}

\* The mutex is taken again: the group gets its numbers, its writers return.
EndWrite ==
    /\ stage \in {"written", "failed", "unsynced"}
    /\ db' = [db EXCEPT !.lastSeq = @ + group, !.bgError = @ \/ stage = "unsynced"]
    /\ IF stage = "written"
       THEN LET sound == ~logs[db.logfile].torn IN
            /\ committed' = committed \cup GroupEntries
            /\ acked' = IF sound THEN acked \cup GroupEntries ELSE acked
            /\ synced' = IF sound THEN synced \cup SyncedEntries ELSE synced
            /\ UNCHANGED <<left, repeated>>
       ELSE UNCHANGED history
    /\ Return(group)
    /\ UNCHANGED <<disk, bg, iterator, budget>>

Leader ==
    \/ WriteRefused \/ BeginWrite \/ Wait \/ SwitchMemTable \/ SwitchFails
    \/ AddRecord \/ AddRecordFails \/ Sync \/ SyncFails \/ InsertInto \/ EndWrite

-----------------------------------------------------------------------------
\* Version edits: LogAndApply in two steps.

\* Every edit carries the numbers in use when it is made.
Edit(kind, adds, deletes, log, d) ==
    [kind |-> kind, adds |-> adds, deletes |-> deletes, log |-> log,
     lastSeq |-> d.lastSeq, next |-> d.nextFile, state |-> "new"]

\* VersionSet::Builder
Applied(files, edit) ==
    [level \in Levels |->
       (files[level] \ {n \in Numbers(files) : <<level, n>> \in edit.deletes})
         \cup {add[2] : add \in {a \in edit.adds : a[1] = level}}]

\* The edit is appended to the MANIFEST, maybe after one that was refused.
AppendEdit ==
    /\ manifest' = [files |-> Applied(manifest.files, bg.edit), log |-> bg.edit.log,
                    lastSeq |-> bg.edit.lastSeq, next |-> bg.edit.next]
    /\ repeated' = (repeated \/ manifest.files # db.version)

\* It is synced; a new MANIFEST becomes CURRENT.
WriteManifest ==
    /\ bg.edit # None
    /\ bg.edit.state = "new"
    /\ AppendEdit
    /\ bg' = [bg EXCEPT !.edit.state = "written"]
    /\ UNCHANGED <<tables, logs, db, writers, iterator, committed, acked, synced, left, budget>>

\* An edit whose sync failed is on disk or not; a new MANIFEST is removed again.
WriteManifestFails ==
    /\ bg.edit # None
    /\ bg.edit.state = "new"
    /\ Spend("errors")
    /\ \/ UNCHANGED <<manifest, repeated>>
       \/ bg.edit.kind # "open" /\ AppendEdit
    /\ bg' = [bg EXCEPT !.edit.state = "failed"]
    /\ UNCHANGED <<tables, logs, db, writers, iterator, committed, acked, synced, left>>

EditWritten(kind) == bg.edit # None /\ bg.edit.kind = kind /\ bg.edit.state = "written"

\* The new version becomes current; file_to_compact_ was the old one's.
Installed(d) ==
    [d EXCEPT !.version = Applied(@, bg.edit), !.logNumber = bg.edit.log, !.hot = {}]

\* (Faulty: work left over waits for the next write.)
LeaveScheduled(d) == FALSE
\* BackgroundCall ends: what is left to do is scheduled again.
Reschedule(d) == Schedules(d)

\* background_work_finished_signal_
SignalAll ==
    /\ stage' = IF stage = "waiting" THEN "front" ELSE stage
    /\ UNCHANGED <<queue, group>>

EndBackgroundCall(d) ==
    /\ bg' = [Resting EXCEPT !.scheduled = Reschedule(d)]
    /\ SignalAll

-----------------------------------------------------------------------------
\* The background thread.

\* BackgroundCall begins.
Called == bg.scheduled /\ bg.edit = None /\ bg.compaction = None

\* After an error, and with nothing to do.
NothingToDo ==
    /\ Called
    /\ db.bgError \/ (db.imm = {} /\ ~NeedsCompaction(db.version, db.hot))
    /\ EndBackgroundCall(db)
    /\ UNCHANGED <<disk, db, iterator, history, budget>>

\* CompactMemTable, first of all or in the middle of a compaction.
FlushDue ==
    /\ db.imm # {}
    /\ bg.edit = None
    /\ bg.scheduled
    /\ bg.compaction = None => ~db.bgError

\* (Faulty: the log being written is given up with the one before it.)
NextLog == db.logfile + 1
\* "Earlier logs no longer needed"
LogInUse == db.logfile

\* WriteLevel0Table: a table of the immutable memory table, and its edit.
BuildTable ==
    /\ FlushDue
    /\ LET d == [db EXCEPT !.nextFile = @ + 1] IN
       /\ db' = d
       /\ tables' = With(tables, db.nextFile, db.imm)
       /\ \E level \in LevelsForMemTableOutput(tables, db.version, db.imm) :
             bg' = [bg EXCEPT !.edit = Edit("flush", {<<level, db.nextFile>>}, {}, LogInUse, d)]
    /\ UNCHANGED <<logs, manifest, writers, iterator, history, budget>>

\* BackgroundCall goes on with its compaction or ends.
BackgroundGoesOn(d) ==
    /\ bg' = IF bg.compaction # None THEN [bg EXCEPT !.edit = None]
             ELSE [Resting EXCEPT !.scheduled = Reschedule(d)]
    /\ SignalAll

BuildTableFails ==
    /\ FlushDue
    /\ Spend("errors")
    /\ db' = [db EXCEPT !.nextFile = @ + 1, !.bgError = TRUE]
    /\ BackgroundGoesOn(db')
    /\ UNCHANGED <<disk, iterator, history>>

InstallFlush ==
    /\ EditWritten("flush")
    /\ db' = [Installed(db) EXCEPT !.imm = {}]
    /\ BackgroundGoesOn(db')
    /\ DeleteObsoleteFiles(db', bg.compaction)
    /\ UNCHANGED <<manifest, iterator, history, budget>>

\* PickCompaction: a table of level 0, if there are enough, or the one a read or its
\* level's size asks for.
Candidates ==
    {<<0, n>> : n \in {m \in db.version[0] : Cardinality(db.version[0]) >= CompactionTrigger}}
      \cup db.hot

CompactionDue == Called /\ ~db.bgError /\ db.imm = {}

Grandparents(level, numbers) ==
    IF level + 2 > MaxLevel THEN {}
    ELSE Meeting(tables, db.version[level + 2], Contents(tables, numbers))

PickCompaction ==
    /\ CompactionDue
    /\ \E picked \in Candidates :
       \E inputs \in Inputs(tables, db.version, picked[1], {picked[2]}) :
          /\ \/ Cardinality(inputs.upper) > 1
             \/ inputs.lower # {}
             \/ Grandparents(picked[1], inputs.upper) # {}
          /\ bg' = [bg EXCEPT !.compaction =
                      [level |-> picked[1], upper |-> inputs.upper, lower |-> inputs.lower,
                       version |-> db.version, outputs |-> {}, built |-> FALSE,
                       snapshot |-> IF db.snapshots = {} THEN db.lastSeq
                                    ELSE CHOOSE s \in db.snapshots :
                                           \A t \in db.snapshots : s <= t]]
    /\ UNCHANGED <<disk, db, writers, iterator, history, budget>>

\* IsTrivialMove: a table with nothing below it moves down one level.
TrivialMove ==
    /\ CompactionDue
    /\ \E picked \in Candidates :
       \E inputs \in Inputs(tables, db.version, picked[1], {picked[2]}) :
          /\ Cardinality(inputs.upper) = 1
          /\ inputs.lower = {}
          /\ bg' = [bg EXCEPT !.edit =
                      Edit("move", {<<picked[1] + 1, n>> : n \in inputs.upper},
                           {<<picked[1], n>> : n \in inputs.upper}, db.logNumber, db)]
    /\ UNCHANGED <<disk, db, writers, iterator, history, budget>>

InstallMove ==
    /\ EditWritten("move")
    /\ db' = Installed(db)
    /\ EndBackgroundCall(db')
    /\ UNCHANGED <<disk, iterator, history, budget>>

Compacting == bg.compaction # None /\ bg.edit = None

\* The entries a compaction writes.
Survivors(c) ==
    LET entries == Contents(tables, c.upper \cup c.lower)
    IN entries \ Dropped(tables, c.version, c.level, entries, c.snapshot)

(* DoCompactionWork: the survivors in order, in one table or in two, where it is full.
   The numbers are pending outputs until the compaction is cleaned up. *)
DoCompactionWork ==
    LET c == bg.compaction IN
    /\ Compacting
    /\ ~c.built
    /\ \E first \in SUBSET Survivors(c) :
          LET rest == Survivors(c) \ first
              numbers == {db.nextFile + i : i \in {j \in {0, 1} : <<first, rest>>[j + 1] # {}}}
          IN /\ first = {} => rest = {}
             /\ \A a \in first, b \in rest : Before(a, b)
             /\ tables' = [n \in DOMAIN tables \cup numbers |->
                             IF n \in numbers THEN <<first, rest>>[n - db.nextFile + 1]
                             ELSE tables[n]]
             /\ db' = [db EXCEPT !.nextFile = @ + Cardinality(numbers),
                                 !.pending = @ \cup numbers]
             /\ bg' = [bg EXCEPT !.compaction.built = TRUE, !.compaction.outputs = numbers]
    /\ left' = left \cup LeftBehind(tables, c.version, c.level, c.lower,
                                    Contents(tables, c.upper \cup c.lower), c.snapshot)
    /\ UNCHANGED <<logs, manifest, writers, iterator, committed, acked, synced, repeated, budget>>

\* The compaction is cleaned up after an error: its inputs stay.
DoCompactionWorkFails ==
    /\ Compacting
    /\ ~bg.compaction.built
    /\ Spend("errors")
    /\ db' = [db EXCEPT !.bgError = TRUE]
    /\ EndBackgroundCall(db')
    /\ UNCHANGED <<disk, iterator, history>>

InstallCompactionResults ==
    LET c == bg.compaction IN
    /\ Compacting
    /\ c.built
    /\ bg' = [bg EXCEPT !.edit =
                Edit("compact", {<<c.level + 1, n>> : n \in c.outputs},
                     {<<c.level, n>> : n \in c.upper} \cup {<<c.level + 1, n>> : n \in c.lower},
                     db.logNumber, db)]
    /\ UNCHANGED <<disk, db, writers, iterator, history, budget>>

CleanupCompaction ==
    /\ EditWritten("compact")
    /\ db' = [Installed(db) EXCEPT !.pending = @ \ bg.compaction.outputs]
    /\ EndBackgroundCall(db')
    /\ DeleteObsoleteFiles(db', None)
    /\ UNCHANGED <<manifest, iterator, history, budget>>

\* LogAndApply returned an error: the old version stays, and nothing is deleted any more.
EditRefused ==
    /\ bg.edit # None
    /\ bg.edit.kind # "open"
    /\ bg.edit.state = "failed"
    /\ db' = [db EXCEPT !.bgError = TRUE,
                        !.pending = IF bg.edit.kind = "compact" THEN {} ELSE @]
    /\ IF bg.edit.kind = "flush" THEN BackgroundGoesOn(db') ELSE EndBackgroundCall(db')
    /\ UNCHANGED <<disk, iterator, history, budget>>

Background ==
    \/ NothingToDo \/ BuildTable \/ BuildTableFails \/ InstallFlush
    \/ PickCompaction \/ TrivialMove \/ InstallMove
    \/ DoCompactionWork \/ DoCompactionWorkFails \/ InstallCompactionResults \/ CleanupCompaction
    \/ WriteManifest \/ WriteManifestFails \/ EditRefused

-----------------------------------------------------------------------------
\* Readers.

\* UpdateStats: too many reads passed a table by, or its level has grown too large.
AskCompaction(level, n) ==
    /\ db.status = "open"
    /\ db.hot = {}
    /\ n \in db.version[level]
    /\ Spend("seeks")
    /\ db' = [db EXCEPT !.hot = {<<level, n>>}]
    /\ bg' = [bg EXCEPT !.scheduled = @ \/ Schedules(db')]
    /\ UNCHANGED <<disk, writers, iterator, history>>

\* Get and NewIterator: the tables of now, as of a snapshot or of now.
NewIterator(seq) ==
    /\ db.status = "open"
    /\ iterator = None
    /\ Spend("readers")
    /\ iterator' = [seq |-> seq, mem |-> db.mem, imm |-> db.imm, version |-> db.version]
    /\ UNCHANGED <<disk, db, writers, bg, history>>

ReleaseIterator ==
    /\ iterator # None
    /\ iterator' = None
    /\ UNCHANGED <<disk, db, writers, bg, history, budget>>

GetSnapshot ==
    /\ db.status = "open"
    /\ db.snapshots = {}
    /\ Spend("readers")
    /\ db' = [db EXCEPT !.snapshots = {db.lastSeq}]
    /\ UNCHANGED <<disk, writers, bg, iterator, history>>

ReleaseSnapshot ==
    /\ db.snapshots # {}
    /\ db' = [db EXCEPT !.snapshots = {}]
    /\ UNCHANGED <<disk, writers, bg, iterator, history, budget>>

Reader ==
    \/ \E level \in 0..MaxLevel - 1 : \E n \in db.version[level] : AskCompaction(level, n)
    \/ \E seq \in {db.lastSeq} \cup db.snapshots : NewIterator(seq)
    \/ ReleaseIterator \/ GetSnapshot \/ ReleaseSnapshot

-----------------------------------------------------------------------------
\* The end of the process, and recovery.

(* How many records of a log there may be after the machine stopped: those not synced are
   there or not, and the reader gives all of them, or none after a damage. *)
Survivals(log) == {count \in 0..Len(log.records) : count >= log.synced \/ count = log.good}
\* And after the process stopped.
Remainders(log) == {log.good, Len(log.records)}

RecoverableLogs(ls) == {n \in DOMAIN ls : n >= manifest.log}

\* What recovery will find, with so many records of each log.
Recoverable(lengths) ==
    Contents(tables, Numbers(manifest.files)) \cup
    UNION {FirstEntries(logs[n], lengths[n]) : n \in RecoverableLogs(logs)}

Lengths(ls) == [ls -> 0..Cardinality(UNION {DOMAIN logs[n].records : n \in ls})]

\* The process stops, or the machine.
Crash ==
    /\ db.status # "closed"
    /\ Spend("crashes")
    /\ \E lengths \in Lengths(DOMAIN logs) :
          /\ \A n \in DOMAIN logs : lengths[n] \in Survivals(logs[n])
          /\ logs' = [n \in DOMAIN logs |->
                        [records |-> SubSeq(logs[n].records, 1, lengths[n]),
                         synced |-> lengths[n], good |-> lengths[n], torn |-> FALSE]]
          /\ committed' = Recoverable(lengths)
    /\ acked' = committed'
    /\ synced' = committed'
    /\ db' = Closed
    /\ queue' = <<>> /\ stage' = "front" /\ group' = 0
    /\ bg' = Resting
    /\ iterator' = None
    /\ UNCHANGED <<tables, manifest, left, repeated>>

\* MarkFileNumberUsed
MarkFileNumberUsed(next, log) == IF next <= log THEN log + 1 ELSE next

\* The last number in use, of the MANIFEST and of the logs.
LastSequence(entries) ==
    CHOOSE s \in {manifest.lastSeq} \cup {e.seq : e \in entries} :
        \A t \in {manifest.lastSeq} \cup {e.seq : e \in entries} : t <= s

\* "Recover in the order in which the logs were generated."
InOrder(numbers) ==
    CHOOSE order \in [1..Cardinality(numbers) -> numbers] :
        \A i, j \in 1..Cardinality(numbers) : i < j => order[i] < order[j]

\* The next file number once the first logs of an order are replayed.
NextNumbers(order) ==
    LET next[i \in 0..Len(order)] ==
            IF i = 0 THEN manifest.next + 1
            ELSE MarkFileNumberUsed(
                   next[i - 1] + (IF LogEntries(logs[order[i]]) = {} THEN 0 ELSE 1), order[i])
    IN next

(* DB::Open and DBImpl::Recover: every log from the one the MANIFEST names on becomes a
   table of level 0, in order, and a new log begins. *)
Recover ==
    LET order == InOrder(RecoverableLogs(logs))
        next == NextNumbers(order)
        full == {i \in DOMAIN order : LogEntries(logs[order[i]]) # {}}
        new == next[Len(order)]
        d == [Closed EXCEPT !.status = "opening", !.version = manifest.files,
                            !.logNumber = manifest.log, !.logfile = new, !.nextFile = new + 1,
                            !.lastSeq = LastSequence(
                                UNION {LogEntries(logs[order[i]]) : i \in full})]
    IN /\ db.status = "closed"
       /\ Numbers(manifest.files) \subseteq DOMAIN tables
       /\ tables' = [n \in DOMAIN tables \cup {next[i - 1] : i \in full} |->
                       IF \E i \in full : n = next[i - 1]
                         THEN LogEntries(logs[order[CHOOSE i \in full : n = next[i - 1]]])
                         ELSE tables[n]]
       /\ logs' = With(logs, new, EmptyLog)
       /\ db' = d
       /\ bg' = [Resting EXCEPT !.edit =
                   Edit("open", {<<0, next[i - 1]>> : i \in full}, {}, new, d)]
       /\ UNCHANGED <<manifest, writers, iterator, history, budget>>

OpenDone ==
    /\ EditWritten("open")
    /\ db' = [Installed(db) EXCEPT !.status = "open"]
    /\ EndBackgroundCall(db')
    /\ DeleteObsoleteFiles(db', None)
    /\ UNCHANGED <<manifest, iterator, history, budget>>

OpenFails ==
    /\ bg.edit # None
    /\ bg.edit.kind = "open"
    /\ bg.edit.state = "failed"
    /\ db' = Closed
    /\ bg' = Resting
    /\ UNCHANGED <<disk, writers, iterator, history, budget>>

-----------------------------------------------------------------------------
Next ==
    \/ \E batch \in budget["batches"], sync \in BOOLEAN : Write(batch, sync)
    \/ Leader
    \/ Background
    \/ Reader
    \/ Crash
    \/ Recover
    \/ OpenDone
    \/ OpenFails

Spec == Init /\ [][Next]_vars

\* The threads run: the writer at the front, and the background thread.
Fairness == WF_vars(Leader) /\ WF_vars(Background)

FairSpec == Spec /\ Fairness

-----------------------------------------------------------------------------
\* Properties.

\* The variables' types.
TypeOK ==
    /\ \A n \in DOMAIN tables : n \in Nat /\ tables[n] \subseteq Entries
    /\ \A n \in DOMAIN logs :
          /\ n \in Nat
          /\ \A i \in DOMAIN logs[n].records : logs[n].records[i] \subseteq Entries
          /\ {logs[n].synced, logs[n].good} \subseteq 0..Len(logs[n].records)
          /\ logs[n].torn \in BOOLEAN
    /\ manifest.files \in Versions
    /\ db.status \in {"closed", "opening", "open"}
    /\ db.mem \cup db.imm \subseteq Entries
    /\ db.version \in Versions
    /\ db.bgError \in BOOLEAN
    /\ stage \in {"front", "append", "sync", "insert", "written", "failed", "unsynced",
                 "waiting"}
    /\ group \in 0..Len(queue)
    /\ bg.scheduled \in BOOLEAN
    /\ bg.edit \in Edits \cup {None}
    /\ bg.compaction \in Compactions \cup {None}
    /\ iterator \in Iterators \cup {None}
    /\ committed \cup acked \cup synced \subseteq Entries
    /\ left \subseteq Keys
    /\ repeated \in BOOLEAN

\* What DBImpl::Get finds of a key, in memory tables and a version, as of a number.
Lookup(mem, imm, version, key, seq) ==
    IF Visible(mem, key, seq) # {} THEN Latest(Visible(mem, key, seq))
    ELSE IF Visible(imm, key, seq) # {} THEN Latest(Visible(imm, key, seq))
    ELSE Get(tables, version, key, seq)

ReadsAsOf(keys, mem, imm, version, seq) ==
    /\ Numbers(version) \subseteq DOMAIN tables
    /\ \A key \in keys :
          Value(Lookup(mem, imm, version, key, seq)) =
          Value(Latest(Visible(committed, key, seq)))

ReadsLatestOf(keys) ==
    /\ db.status = "open" =>
         \A seq \in {db.lastSeq} \cup db.snapshots :
            ReadsAsOf(keys, db.mem, db.imm, db.version, seq)
    /\ iterator # None =>
         ReadsAsOf(keys, iterator.mem, iterator.imm, iterator.version, iterator.seq)

(* A read returns the newest write before its snapshot and nothing of a write under
   way, in whatever table flushes and compactions have put it, and finds every table of
   its version on disk: for a read made now, for a snapshot, and for a reader that began
   with an older version.  The exceptions are the keys of which a compaction left older
   entries behind a deletion it dropped, and a database whose MANIFEST was written again
   after a refused edit. *)
ReadsLatest == repeated \/ ReadsLatestOf(Keys \ left)

(* What the comment at the dropping of deletions says: older entries of the key are dropped
   with them or have been before, so that a deleted key stays deleted. *)
DeletedStaysDeleted == ReadsLatestOf(Keys)

\* What recovery reads of a key is some promised write, or a later one.
Covers(entries, promised) ==
    \A e \in promised :
       LET found == Latest({f \in entries : f.key = e.key}) IN
       \/ e.key \in left
       \/ \E f \in found : f.seq >= e.seq
       \/ /\ Value(found) = 0
          /\ \E f \in committed : f.key = e.key /\ f.kind = "delete" /\ f.seq >= e.seq

(* After the process ends at any moment, recovery finds every write that returned ok;
   after the machine stops, every one that was synced.  What is no longer in a log it
   reads is in a table the MANIFEST names, and on disk.  The exceptions are those of
   ReadsLatest, and writes to a log after a record whose writing failed half-way: leveldb
   goes on with such a log. *)
Durable ==
    LET lengths(outcomes(_)) ==
          {f \in Lengths(RecoverableLogs(logs)) : \A n \in DOMAIN f : f[n] \in outcomes(logs[n])}
    IN \/ repeated
       \/ /\ Numbers(manifest.files) \subseteq DOMAIN tables
          /\ \A f \in lengths(Remainders) : Covers(Recoverable(f), acked)
          /\ \A f \in lengths(Survivals) : Covers(Recoverable(f), synced)

(* "Must not overlap": below level 0 tables follow one another, in the current version
   and in the one recovery would build, though memory tables are flushed below level 0
   and compactions go on meanwhile.  The exception is a MANIFEST written again after a
   refused edit: the memory table flushed twice may be in it twice. *)
LevelsSorted ==
    \/ repeated
    \/ /\ Sorted(tables, db.version)
       /\ Sorted(tables, manifest.files)

(* No write waits for ever: not for room in a memory table whose flush failed, nor for
   a compaction of level 0 that nobody scheduled.  Once writers stop coming, all have
   returned. *)
EveryWriteReturns == queue # <<>> ~> queue = <<>>

=============================================================================
