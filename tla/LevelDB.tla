------------------------------- MODULE LevelDB -------------------------------
(***************************************************************************)
(* One database of leveldb (ios/Pods/leveldb-library), the store Firestore *)
(* keeps its documents in: the writers' queue and its leader, the log and  *)
(* the two memory tables, the background thread that flushes and compacts, *)
(* the manifest, and what a crash leaves for DB::Open to recover.          *)
(*                                                                         *)
(* One action is one stretch of the code under mutex_, or one call to the  *)
(* disk made without it.  A value is told apart by its sequence number.    *)
(***************************************************************************)
EXTENDS LevelDBVersion

CONSTANTS
  Writes,       \* the calls of Write: [batch |-> a sequence of [key, del], sync]
  MemLimit,     \* Options::write_buffer_size, in entries
  L0Stop,       \* config::kL0_StopWritesTrigger
  MaxWriters,   \* bound: writers waiting at once
  MaxCrashes,   \* bound: crashes of the process or the machine
  MaxFails,     \* bound: calls to the disk that fail
  MaxReads,     \* bound: iterators and snapshots taken
  None

ASSUME WritesAssumption ==
  \A w \in Writes : w.batch \in Seq([key : Key, del : BOOLEAN]) /\ w.sync \in BOOLEAN
\* SanitizeOptions: a memory table has room.
ASSUME MemAssumption == MemLimit \in Nat \ {0}
\* A null pointer is no memory table.
ASSUME NoneAssumption == \A A \in SUBSET Entry : A # None

VARIABLES
  logs, synced,      \* log files: their records, and how many of them are synced
  tables,            \* table files: their entries
  manifest,          \* what VersionSet::Recover may find: one state, or more after an error
  up,                \* "open"; after a crash "closed", and "replayed" within DB::Open
  queue, stage, group,   \* writers_; the leader's progress and the length of its group
  mem, imm, logfile, \* mem_, imm_, logfile_number_
  lastSeq, nextFile, version, logNumber,  \* the VersionSet
  scheduled, pending, bgError,  \* bg_compaction_scheduled_, pending_outputs_, bg_error_
  bg, outputs,       \* where the background thread is: [at, file, comp, edit]; the tables
                     \* its compaction has written
  snapshot, iterator,    \* a snapshot's number; the table files an iterator holds
  truth, safe,       \* what has been written, and what of it with sync
  crashes, fails, reads

disk_    == <<logs, synced, tables, manifest>>
writers_ == <<queue, stage, group>>
memory_  == <<mem, imm, logfile>>
files_   == <<version, logNumber>>
thread_  == <<scheduled, pending, bg, outputs>>
readers_ == <<snapshot, iterator, reads>>
written_ == <<truth, safe>>
bounds_  == <<crashes, fails>>
vars     == <<disk_, up, writers_, memory_, files_, lastSeq, nextFile, thread_,
              bgError, readers_, written_, bounds_>>

NoFiles == [f \in {} |-> 0]
Idle    == [at |-> "idle", file |-> 0, comp |-> None, edit |-> None]

TypeOK ==
  /\ \A n \in DOMAIN logs : logs[n] \in Seq(SUBSET Entry) /\ synced[n] \in 0 .. Len(logs[n])
  /\ DOMAIN synced = DOMAIN logs
  /\ \A f \in DOMAIN tables : tables[f] \in (SUBSET Entry) \ {{}}
  /\ manifest # {}
  /\ up \in {"open", "closed", "replayed"}
  /\ \A i \in DOMAIN queue : queue[i] \in Writes
  /\ stage \in {"idle", "append", "sync", "insert", "publish"}
  /\ group \in 0 .. Len(queue) /\ (stage = "idle") = (group = 0)
  /\ mem \subseteq Entry /\ (imm = None \/ imm \subseteq Entry)
  /\ up = "open" => logfile \in DOMAIN logs
  /\ lastSeq \in 0 .. MaxSequence
  /\ \A f \in DOMAIN version : f < nextFile /\ version[f] \in 0 .. NumLevels - 1
  /\ logNumber <= logfile
  /\ scheduled \in BOOLEAN /\ bgError \in BOOLEAN /\ pending \subseteq 0 .. nextFile
  /\ bg.at \in {"idle", "build", "merge", "edit"} /\ (bg.at # "idle" => scheduled)
  /\ snapshot = None \/ snapshot \in 0 .. MaxSequence
  /\ truth \subseteq Entry /\ safe \subseteq Entry

Init ==
  /\ logs = [n \in {1} |-> <<>>] /\ synced = [n \in {1} |-> 0] /\ tables = [f \in {} |-> {}]
  /\ manifest = {[version |-> NoFiles, log |-> 1, next |-> 2, seq |-> 0]}
  /\ up = "open" /\ queue = <<>> /\ stage = "idle" /\ group = 0
  /\ mem = {} /\ imm = None /\ logfile = 1
  /\ lastSeq = 0 /\ nextFile = 2 /\ version = NoFiles /\ logNumber = 1
  /\ scheduled = FALSE /\ pending = {} /\ bgError = FALSE /\ bg = Idle /\ outputs = {}
  /\ snapshot = None /\ iterator = {} /\ truth = {} /\ safe = {}
  /\ crashes = 0 /\ fails = 0 /\ reads = 0

Fails == fails < MaxFails /\ fails' = fails + 1

-----------------------------------------------------------------------------
(* Writers.  The first of the queue leads: it logs and inserts for those   *)
(* that joined it, and the others wait.                                    *)

\* The operations of the first n writers: a writer, and a place in its batch.
Joined(n) == {o \in (1 .. n) \X Sequence : o[2] <= Len(queue[o[1]].batch)}

\* Their entries, numbered in order from the last sequence number.
Place(o)     == Cardinality({p \in Joined(group) : p[1] < o[1] \/ (p[1] = o[1] /\ p[2] <= o[2])})
Numbered(o)  == [key |-> queue[o[1]].batch[o[2]].key, seq |-> lastSeq + Place(o),
                 del |-> queue[o[1]].batch[o[2]].del]
GroupEntries == {Numbered(o) : o \in Joined(group)}
SyncEntries  == {Numbered(o) : o \in {p \in Joined(group) : queue[p[1]].sync}}

\* Mutant: a memory table that waits is not work to be done.
Wanted_Level0(waiting, v, failed) == ~failed /\ Cardinality(Level(v, 0)) >= L0Trigger

\* MaybeScheduleCompaction, with the memory table and the version as they will be.
Wanted(waiting, v, failed) == ~failed /\ (waiting # None \/ Cardinality(Level(v, 0)) >= L0Trigger)

\* DBImpl::Write waits for its turn.
Write(w) ==
  /\ up = "open" /\ Len(queue) < MaxWriters
  /\ lastSeq + Cardinality(Joined(Len(queue))) + Len(w.batch) <= MaxSequence
  /\ queue' = Append(queue, w)
  /\ UNCHANGED <<disk_, up, stage, group, memory_, files_, lastSeq, nextFile, thread_,
                 bgError, readers_, written_, bounds_>>

\* MakeRoomForWrite: room in the memory table, or a new one with a log of its own.
HasRoom    == Cardinality(mem) < MemLimit /\ UNCHANGED <<memory_, logs, synced, nextFile, scheduled>>
MaySwitch  == Cardinality(mem) >= MemLimit /\ imm = None /\ Cardinality(Level(version, 0)) < L0Stop
SwitchMemTable ==
  /\ MaySwitch
  /\ logs' = Over([n \in {nextFile} |-> <<>>], logs)
  /\ synced' = Over([n \in {nextFile} |-> 0], synced)
  /\ logfile' = nextFile /\ nextFile' = nextFile + 1
  /\ imm' = mem /\ mem' = {}
  /\ scheduled' = (scheduled \/ Wanted(mem, version, bgError))

\* Mutant: a writer that wants its data synced joins one that does not.
MayJoin_Any(q, n) == TRUE

\* BuildBatchGroup: a writer with sync does not join one without.  Fewer may
\* join: the group has a size.
MayJoin(q, n) == q[1].sync \/ \A i \in 1 .. n : ~q[i].sync

\* The leader's time under the mutex.
Lead ==
  /\ up = "open" /\ stage = "idle" /\ queue # <<>> /\ ~bgError
  /\ HasRoom \/ SwitchMemTable
  /\ \E n \in 1 .. Len(queue) : MayJoin(queue, n) /\ group' = n
  /\ stage' = "append"
  /\ UNCHANGED <<tables, manifest, up, queue, files_, lastSeq, pending, bg, outputs, bgError,
                 readers_, written_, bounds_>>

\* MakeRoomForWrite fails: after a background error, or for want of a new log.
LeadFails ==
  /\ up = "open" /\ stage = "idle" /\ queue # <<>>
  /\ \/ bgError /\ UNCHANGED fails
     \/ ~bgError /\ MaySwitch /\ Fails
  /\ queue' = Tail(queue)
  /\ UNCHANGED <<disk_, up, stage, group, memory_, files_, lastSeq, nextFile, thread_, bgError,
                 readers_, written_, crashes>>

AddRecord ==
  /\ stage = "append"
  /\ logs' = [logs EXCEPT ![logfile] = Append(@, GroupEntries)]
  /\ stage' = IF queue[1].sync THEN "sync" ELSE "insert"
  /\ UNCHANGED <<synced, tables, manifest, up, queue, group, memory_, files_, lastSeq, nextFile,
                 thread_, bgError, readers_, written_, bounds_>>

Sync ==
  /\ stage = "sync"
  /\ synced' = [synced EXCEPT ![logfile] = Len(logs[logfile])]
  /\ stage' = "insert"
  /\ UNCHANGED <<logs, tables, manifest, up, queue, group, memory_, files_, lastSeq, nextFile,
                 thread_, bgError, readers_, written_, bounds_>>

InsertInto ==
  /\ stage = "insert"
  /\ mem' = mem \cup GroupEntries /\ stage' = "publish"
  /\ UNCHANGED <<disk_, up, queue, group, imm, logfile, files_, lastSeq, nextFile,
                 thread_, bgError, readers_, written_, bounds_>>

\* The mutex again: the numbers are used up whatever became of the group, and its
\* writers return.
Return ==
  /\ lastSeq' = lastSeq + Cardinality(Joined(group))
  /\ queue' = SubSeq(queue, group + 1, Len(queue))
  /\ stage' = "idle" /\ group' = 0

Publish ==
  /\ stage = "publish" /\ Return
  /\ truth' = truth \cup GroupEntries /\ safe' = safe \cup SyncEntries
  /\ UNCHANGED <<disk_, up, memory_, files_, nextFile, thread_, bgError, readers_, bounds_>>

\* AddRecord or Sync fails.  Only the second is a background error.
WriteFails ==
  /\ stage \in {"append", "sync"} /\ Fails /\ Return
  /\ bgError' = (bgError \/ stage = "sync")
  /\ UNCHANGED <<disk_, up, memory_, files_, nextFile, thread_, readers_, written_, crashes>>

-----------------------------------------------------------------------------
(* Readers.                                                                *)

\* DBImpl::Get, at a sequence number.
Get(k, s) ==
  IF Newest(mem, k, s) # {} THEN Newest(mem, k, s)
  ELSE IF imm # None /\ Newest(imm, k, s) # {} THEN Newest(imm, k, s)
  ELSE InVersion(version, tables, k, s)

GetSnapshot ==
  /\ up = "open" /\ snapshot = None /\ reads < MaxReads
  /\ snapshot' = lastSeq /\ reads' = reads + 1
  /\ UNCHANGED <<disk_, up, writers_, memory_, files_, lastSeq, nextFile, thread_, bgError,
                 iterator, written_, bounds_>>

ReleaseSnapshot ==
  /\ snapshot # None /\ snapshot' = None
  /\ UNCHANGED <<disk_, up, writers_, memory_, files_, lastSeq, nextFile, thread_, bgError,
                 iterator, reads, written_, bounds_>>

\* NewInternalIterator holds the version it begins with.
NewIterator ==
  /\ up = "open" /\ iterator = {} /\ reads < MaxReads
  /\ DOMAIN version # {}
  /\ iterator' = DOMAIN version /\ reads' = reads + 1
  /\ UNCHANGED <<disk_, up, writers_, memory_, files_, lastSeq, nextFile, thread_, bgError,
                 snapshot, written_, bounds_>>

CleanupIterator ==
  /\ iterator # {} /\ iterator' = {}
  /\ UNCHANGED <<disk_, up, writers_, memory_, files_, lastSeq, nextFile, thread_, bgError,
                 snapshot, reads, written_, bounds_>>

\* The tables a compaction may begin with: of a level too large (how large a level
\* above 0 is is left open), or one of level 0 that reads pass through too often.
Pickable ==
  {f \in DOMAIN version :
     /\ version[f] < NumLevels - 1
     /\ version[f] = 0 /\ Cardinality(Level(version, 0)) < L0Trigger =>
          \E l \in 0 .. NumLevels - 1 :
            Meeting(version, tables, l, Smallest(tables, f), Largest(tables, f)) \ {f} # {}}

\* Get: UpdateStats asks for a compaction, or a level has grown.
Reschedule ==
  /\ up = "open" /\ ~scheduled /\ ~bgError /\ Pickable # {}
  /\ scheduled' = TRUE
  /\ UNCHANGED <<disk_, up, writers_, memory_, files_, lastSeq, nextFile, pending, bg, outputs, bgError,
                 readers_, written_, bounds_>>

-----------------------------------------------------------------------------
(* The background thread: one call at a time.                              *)

\* A version edit, and what it makes of a version or of the manifest's state.
Edit(add, drop, log, next) ==
  [add |-> add, drop |-> drop, log |-> log, next |-> next, seq |-> lastSeq]
Edited(v, e) == [f \in (DOMAIN v \ e.drop) \cup DOMAIN e.add |->
                   IF f \in DOMAIN e.add THEN e.add[f] ELSE v[f]]
Recorded(m, e) == [version |-> Edited(m.version, e), log |-> e.log, next |-> e.next, seq |-> e.seq]

\* The end of BackgroundCall.
EndCall(waiting, v, failed) ==
  bg' = Idle /\ scheduled' = Wanted(waiting, v, failed)

\* BackgroundCall has nothing to do.
NothingToDo ==
  /\ scheduled /\ bg.at = "idle"
  /\ bgError \/ (imm = None /\ Pickable = {})
  /\ EndCall(imm, version, bgError)
  /\ UNCHANGED <<disk_, up, writers_, memory_, files_, lastSeq, nextFile, pending, outputs,
                 bgError, readers_, written_, bounds_>>

\* CompactMemTable, WriteLevel0Table: first of all when it is called, and within a
\* compaction when a memory table waits.
BeginFlush ==
  /\ imm # None
  /\ \/ bg.at = "idle" /\ scheduled /\ ~bgError
     \/ bg.at = "merge"
  /\ bg' = [bg EXCEPT !.at = "build", !.file = nextFile]
  /\ pending' = pending \cup {nextFile} /\ nextFile' = nextFile + 1
  /\ UNCHANGED <<disk_, up, writers_, memory_, files_, lastSeq, scheduled, outputs,
                 bgError, readers_, written_, bounds_>>

\* Mutant: the log in use is counted as no longer needed.
FlushedLog_Next == nextFile

\* Earlier logs are no longer needed.
FlushedLog == logfile

\* BuildTable, and LogAndApply up to where it gives up the mutex.
BuildTable ==
  /\ bg.at = "build"
  /\ tables' = Over([f \in {bg.file} |-> imm], tables)
  /\ pending' = pending \ {bg.file}
  /\ LET keys  == {e.key : e \in imm}
         level == PickLevel(version, tables, Min(keys), Max(keys))
     IN bg' = [bg EXCEPT !.at = "edit", !.edit = Edit([f \in {bg.file} |-> level], {}, FlushedLog, nextFile)]
  /\ UNCHANGED <<logs, synced, manifest, up, writers_, memory_, files_, lastSeq, nextFile, scheduled,
                 outputs, bgError, readers_, written_, bounds_>>

BuildTableFails ==
  /\ bg.at = "build" /\ Fails
  /\ pending' = pending \ {bg.file}
  /\ bgError' = TRUE
  /\ IF bg.comp # None THEN bg' = [bg EXCEPT !.at = "merge", !.file = 0] /\ UNCHANGED scheduled
     ELSE EndCall(imm, version, TRUE)
  /\ UNCHANGED <<disk_, up, writers_, memory_, files_, lastSeq, nextFile, outputs, readers_,
                 written_, crashes>>

\* PickCompaction: a table of one level moves to the next, or a merge begins.
BeginCompaction ==
  /\ scheduled /\ bg.at = "idle" /\ ~bgError /\ imm = None
  /\ \E f \in Pickable :
       LET l == version[f]
           c == Inputs(version, tables, l, Picked(version, tables, l, f))
           oldest == IF snapshot = None THEN lastSeq ELSE snapshot
       IN bg' = IF TrivialMove(c)
                THEN [bg EXCEPT !.at = "edit", !.edit = Edit([g \in {f} |-> l + 1], {}, logNumber, nextFile)]
                ELSE [bg EXCEPT !.at = "merge", !.comp = [c EXCEPT !.oldest = oldest]]
  /\ outputs' = {}
  /\ UNCHANGED <<disk_, up, writers_, memory_, files_, lastSeq, nextFile, scheduled, pending, bgError,
                 readers_, written_, bounds_>>

\* DoCompactionWork has its outputs to write, one by one and without the mutex:
\* flushes come between them.  One counts as written from when its file is opened,
\* since nobody reads it before it is installed.
Wanting     == Outputs(bg.comp, tables, bg.comp.oldest)
IsMade(out) == \E f \in outputs : tables[f] = out

WriteOutput ==
  /\ bg.at = "merge"
  /\ \E i \in DOMAIN Wanting :
       /\ ~IsMade(Wanting[i]) /\ \A j \in DOMAIN Wanting : j < i => IsMade(Wanting[j])
       /\ tables' = Over([f \in {nextFile} |-> Wanting[i]], tables)
  /\ nextFile' = nextFile + 1
  /\ pending' = pending \cup {nextFile} /\ outputs' = outputs \cup {nextFile}
  /\ UNCHANGED <<logs, synced, manifest, up, writers_, memory_, files_, lastSeq, scheduled, bg, bgError,
                 readers_, written_, bounds_>>

\* When all are written, InstallCompactionResults calls LogAndApply.
Merge ==
  /\ bg.at = "merge" /\ \A i \in DOMAIN Wanting : IsMade(Wanting[i])
  /\ bg' = [bg EXCEPT !.at = "edit",
              !.edit = Edit([f \in outputs |-> bg.comp.level + 1], bg.comp.in0 \cup bg.comp.in1,
                            logNumber, nextFile)]
  /\ UNCHANGED <<disk_, up, writers_, memory_, files_, lastSeq, nextFile, scheduled, pending, outputs,
                 bgError, readers_, written_, bounds_>>

\* Mutant: files are deleted whatever has failed.
CannotTell_Never(failed) == FALSE

\* DeleteObsoleteFiles: after an error nobody knows which version was committed.
CannotTell(failed) == failed

\* Mutant: the tables being written are not live.
Live_Written(v, comp, writing) == DOMAIN v \cup iterator \cup IF comp = None THEN {} ELSE DOMAIN comp.base

\* AddLiveFiles, pending_outputs_: the tables of every version somebody holds, and
\* those being written.
Live(v, comp, writing) == DOMAIN v \cup writing \cup iterator
                            \cup IF comp = None THEN {} ELSE DOMAIN comp.base

DeleteObsoleteFiles(v, log, comp, writing, failed) ==
  IF CannotTell(failed) THEN UNCHANGED <<tables, logs, synced>>
  ELSE /\ tables' = Restrict(tables, DOMAIN tables \cap Live(v, comp, writing))
       /\ logs'   = Restrict(logs, {n \in DOMAIN logs : n >= log})
       /\ synced' = Restrict(synced, {n \in DOMAIN logs : n >= log})

\* CleanupCompaction: what it has written is no longer protected.
CleanupCompaction == pending' = pending \ outputs /\ outputs' = {}

MergeFails ==
  /\ bg.at = "merge" /\ Fails
  /\ bgError' = TRUE /\ EndCall(imm, version, TRUE) /\ CleanupCompaction
  /\ DeleteObsoleteFiles(version, logNumber, None, pending', TRUE)
  /\ UNCHANGED <<manifest, up, writers_, memory_, files_, lastSeq, nextFile, readers_, written_, crashes>>

\* What the call was about: a memory table, a compaction or a move.
Flushing == bg.file # 0
Moving   == ~Flushing /\ bg.comp = None

\* LogAndApply takes the mutex again: the manifest is written.
Install ==
  /\ bg.at = "edit"
  /\ manifest' = {Recorded(m, bg.edit) : m \in manifest}
  /\ version' = Edited(version, bg.edit) /\ logNumber' = bg.edit.log
  /\ imm' = IF Flushing THEN None ELSE imm
  /\ IF Flushing THEN UNCHANGED <<pending, outputs>> ELSE CleanupCompaction
  /\ IF Moving THEN UNCHANGED <<tables, logs, synced>>
     ELSE DeleteObsoleteFiles(version', logNumber', IF Flushing THEN bg.comp ELSE None, pending', bgError)
  /\ IF Flushing /\ bg.comp # None
     THEN bg' = [bg EXCEPT !.at = "merge", !.file = 0, !.edit = None] /\ UNCHANGED scheduled
     ELSE EndCall(imm', version', bgError)
  /\ UNCHANGED <<up, writers_, mem, logfile, lastSeq, nextFile, bgError, readers_, written_, bounds_>>

\* The write of the manifest fails: it may have reached the disk or not.  A
\* compaction that fails goes on to DeleteObsoleteFiles.
InstallFails ==
  /\ bg.at = "edit" /\ Fails
  /\ manifest' = manifest \cup {Recorded(m, bg.edit) : m \in manifest}
  /\ bgError' = TRUE
  /\ IF Flushing THEN UNCHANGED <<pending, outputs>> ELSE CleanupCompaction
  /\ IF Flushing /\ bg.comp # None
     THEN bg' = [bg EXCEPT !.at = "merge", !.file = 0, !.edit = None] /\ UNCHANGED scheduled
     ELSE EndCall(imm, version, TRUE)
  /\ IF Flushing \/ Moving THEN UNCHANGED <<tables, logs, synced>>
     ELSE DeleteObsoleteFiles(version, logNumber, None, pending', TRUE)
  /\ UNCHANGED <<up, writers_, memory_, files_, lastSeq, nextFile,
                 readers_, written_, crashes>>

-----------------------------------------------------------------------------
(* Crashes, and DB::Open.                                                  *)

\* What the logs from some number on say.
Logged(ls, log) == UNION {UNION ToSet(ls[n]) : n \in {i \in DOMAIN ls : i >= log}}

\* The process ends, and the logs stay as they are; or the machine does, and each
\* log keeps what was synced and perhaps more.  Lost is what stood in a log the
\* manifest does not count as done with, and stands in no table of its version.
Crash ==
  /\ up # "closed" /\ crashes < MaxCrashes /\ crashes' = crashes + 1
  /\ \E m \in manifest \cup (IF bg.at = "edit" THEN {Recorded(d, bg.edit) : d \in manifest} ELSE {}) :
     \E kept \in [DOMAIN logs -> 0 .. Max({Len(logs[n]) : n \in DOMAIN logs})] :
       /\ \/ \A n \in DOMAIN logs : kept[n] = Len(logs[n])
          \/ \A n \in DOMAIN logs : kept[n] \in synced[n] .. Len(logs[n])
       /\ manifest' = {m}
       /\ logs' = [n \in DOMAIN logs |-> SubSeq(logs[n], 1, kept[n])]
       /\ LET there == Logged(logs', m.log) \cup Entries(tables, DOMAIN m.version)
          IN truth' = (truth \ (Logged(logs, m.log) \ there)) \cup Logged(logs', m.log)
  /\ synced' = [n \in DOMAIN logs |-> Len(logs'[n])]
  /\ up' = "closed" /\ queue' = <<>> /\ stage' = "idle" /\ group' = 0
  /\ mem' = {} /\ imm' = None /\ version' = NoFiles
  /\ scheduled' = FALSE /\ bg' = Idle /\ outputs' = {} /\ pending' = {}
  /\ bgError' = FALSE /\ snapshot' = None /\ iterator' = {}
  /\ UNCHANGED <<tables, logfile, lastSeq, nextFile, logNumber, reads, safe, fails>>

\* Mutant: the logs' sequence numbers are not looked at.
RecoveredSequence_Manifest(m) == m.seq

RecoveredSequence(m) == Max({m.seq} \cup {e.seq : e \in Logged(logs, m.log)})

\* The manifest's state, and every later log made into a table of level 0, in order.
RecoverLogs ==
  /\ up = "closed" /\ up' = "replayed"
  /\ \E m \in manifest :
       LET old == {n \in DOMAIN logs : n >= m.log /\ UNION ToSet(logs[n]) # {}}
           number(n) == m.next + Cardinality({k \in old : k <= n})
           new == [f \in {number(n) : n \in old} |-> UNION ToSet(logs[CHOOSE n \in old : number(n) = f])]
       IN /\ tables' = Over(new, tables)
          /\ version' = Edited(m.version, [drop |-> {}, add |-> [f \in DOMAIN new |-> 0]])
          /\ nextFile' = Max({m.next + Cardinality(old) + 1} \cup {n + 1 : n \in {i \in DOMAIN logs : i >= m.log}})
          /\ lastSeq' = RecoveredSequence(m)
  /\ UNCHANGED <<logs, synced, manifest, writers_, memory_, logNumber, thread_, bgError, readers_,
                 written_, bounds_>>

\* The new log and the new manifest; then the old files go.
Open ==
  /\ up = "replayed" /\ up' = "open"
  /\ logfile' = nextFile /\ logNumber' = nextFile /\ nextFile' = nextFile + 1
  /\ manifest' = {[version |-> version, log |-> nextFile, next |-> nextFile + 1, seq |-> lastSeq]}
  /\ logs' = [n \in {nextFile} |-> <<>>] /\ synced' = [n \in {nextFile} |-> 0]
  /\ tables' = Restrict(tables, DOMAIN version)
  /\ scheduled' = Wanted(None, version, FALSE)
  /\ UNCHANGED <<writers_, mem, imm, version, lastSeq, pending, bg, outputs, bgError, readers_, written_,
                 bounds_>>

-----------------------------------------------------------------------------
Writer == Lead \/ LeadFails \/ AddRecord \/ Sync \/ InsertInto \/ Publish
Thread == NothingToDo \/ BeginFlush \/ BuildTable \/ BeginCompaction \/ WriteOutput \/ Merge
            \/ Install

Next ==
  \/ \E w \in Writes : Write(w)
  \/ Lead \/ LeadFails \/ AddRecord \/ Sync \/ InsertInto \/ Publish \/ WriteFails
  \/ GetSnapshot \/ ReleaseSnapshot \/ NewIterator \/ CleanupIterator \/ Reschedule
  \/ NothingToDo \/ BeginFlush \/ BuildTable \/ BuildTableFails
  \/ BeginCompaction \/ WriteOutput \/ Merge \/ MergeFails \/ Install \/ InstallFails
  \/ Crash \/ RecoverLogs \/ Open

Spec == Init /\ [][Next]_vars /\ WF_vars(Writer) /\ WF_vars(Thread)

-----------------------------------------------------------------------------
(* Properties.                                                             *)

\* A read at the last sequence number, or at a snapshot's, finds the newest entry
\* of its key written up to there, whatever is in the log, in the memory tables, or
\* under way in the background; and after a crash what the disk kept of it.
ReadsNewest ==
  up = "open" =>
    \A s \in {lastSeq} \cup ({snapshot} \ {None}), k \in Key :
      Value(Get(k, s)) = Value(Newest(truth, k, s))

\* What was written with sync outlives every crash.
SyncedSurvives == safe \subseteq truth

\* version_set.cc:742: the tables of a level above 0 do not overlap, and the search
\* in a level looks into one of them - unless a flush within a compaction, whose
\* manifest record failed, is tried again, and a crash leaves the manifest with both
\* of its tables.
LevelsDisjoint == Disjoint(version, tables)

\* version_set.cc:346, "entries never hop across levels": of two tables that hold a
\* key, the one of the smaller level has its newer entries.
SmallerLevelIsNewer ==
  \A f, g \in DOMAIN version : version[f] < version[g] =>
    \A d \in tables[f], e \in tables[g] : d.key = e.key => d.seq > e.seq

\* No table somebody may still read is deleted: of the version, of an iterator, of a
\* compaction, or of what the manifest may say.
NeededTablesExist ==
  /\ DOMAIN version \cup iterator \subseteq DOMAIN tables
  /\ bg.comp # None => bg.comp.in0 \cup bg.comp.in1 \cup outputs \subseteq DOMAIN tables
  /\ \A m \in manifest : DOMAIN m.version \subseteq DOMAIN tables

\* Every writer's call returns (the queue is first in, first out): the leader is not
\* left waiting for a memory table nobody flushes or for a level 0 nobody compacts.
EveryWriteReturns == <>[](queue = <<>>) \/ []<><<Len(queue') < Len(queue)>>_queue
=============================================================================
