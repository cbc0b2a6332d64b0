---------------------------- MODULE LevelDBProofs ----------------------------
(***************************************************************************)
(* Proofs about LevelDB, for any keys, writes, levels and bounds: what a   *)
(* database must never lose, and what its state is made of.                *)
(*                                                                         *)
(* No table is deleted that somebody may read.  A deletion keeps what the  *)
(* version has, what iterators hold, and what a compaction that waits for  *)
(* a flush was begun with; and as long as nothing has failed, the manifest *)
(* says no more than the version has (TablesInv).  What a compaction has   *)
(* written so far is protected until it ends (OutputsHeld), and is what it *)
(* had to write, each table once (OutputsInv).                             *)
(*                                                                         *)
(* What was written with sync outlives every crash.  A log holds no synced *)
(* entry in a part that is not (Safe), because new records have numbers    *)
(* above all earlier ones (Latest).  And the numbers stay above them after *)
(* a crash too, because the manifest covers each synced entry: either its  *)
(* last sequence number does, or a log it replays (SyncInv).               *)
(*                                                                         *)
(* The sequence numbers fit, because a writer joins the queue only if      *)
(* there is room for all that waits (RoomInv).  What logs and tables hold  *)
(* are therefore entries, and no table is empty (EntriesInv): a memory     *)
(* table that is flushed was full, and an output of a compaction begins    *)
(* with an entry.  Each version has files below its next number, on levels *)
(* there are, and the edit under way too (FilesInv).                       *)
(***************************************************************************)
EXTENDS LevelDB, FiniteSetTheorems, SequenceTheorems, WellFoundedInduction, TLAPS

\* The records of the background thread and of a compaction.
ThreadRecord ==
  [at : {"idle", "build", "merge", "edit"}, file : {bg.file}, comp : {bg.comp}, edit : {bg.edit}]
CompactionRecord ==
  [level : {bg.comp.level}, in0 : {bg.comp.in0}, in1 : {bg.comp.in1},
   base : {bg.comp.base}, oldest : {bg.comp.oldest}]

\* What the background thread works on.
ThreadInv ==
  /\ bg \in ThreadRecord
  /\ bg.at = "idle" => bg.comp = None /\ bg.file = 0
  /\ bg.at = "merge" => bg.file = 0
  /\ bg.at = "edit" => DOMAIN bg.edit.add \subseteq DOMAIN tables
  /\ bg.at = "merge" \/ bg.comp # None =>
       /\ bg.comp \in CompactionRecord
       /\ bg.comp.in0 \cup bg.comp.in1 \subseteq DOMAIN bg.comp.base
       /\ DOMAIN bg.comp.base \subseteq DOMAIN tables

TablesInv ==
  /\ DOMAIN version \cup iterator \subseteq DOMAIN tables
  /\ \A m \in manifest : DOMAIN m.version \subseteq DOMAIN tables
  /\ up = "open" /\ ~bgError => \A m \in manifest : DOMAIN m.version \subseteq DOMAIN version
  /\ up # "open" => bg = Idle /\ iterator = {} /\ scheduled = FALSE
  /\ ThreadInv

\* What a compaction has written so far is kept until it ends, though flushes delete
\* files meanwhile.
OutputsHeld ==
  /\ outputs \subseteq DOMAIN tables /\ outputs \subseteq pending
  /\ \A f \in outputs : f \in Nat /\ f < nextFile
  /\ bg.at = "build" => bg.file \notin outputs
  /\ bg.at = "edit" /\ bg.file # 0 => outputs \cap DOMAIN bg.edit.add = {}
  /\ up # "open" => outputs = {}

-----------------------------------------------------------------------------
(* Files.                                                                  *)

\* Writing files only adds to what there is.
LEMMA OverAdds == ASSUME NEW f, NEW g PROVE DOMAIN Over(g, f) = DOMAIN g \cup DOMAIN f
BY DEF Over

\* The files of a version after an edit.
LEMMA EditedFiles ==
  ASSUME NEW v, NEW e PROVE DOMAIN Edited(v, e) = (DOMAIN v \ e.drop) \cup DOMAIN e.add
BY DEF Edited

\* And of the manifest's states.
LEMMA RecordedFiles ==
  ASSUME NEW m, NEW e
  PROVE  DOMAIN Recorded(m, e).version = (DOMAIN m.version \ e.drop) \cup DOMAIN e.add
BY EditedFiles DEF Recorded

\* A compaction begins with files of the version.
LEMMA InputsOfVersion ==
  ASSUME NEW v, NEW T, NEW l, NEW picked, picked \subseteq DOMAIN v
  PROVE  LET c == Inputs(v, T, l, picked)
         IN /\ c.in0 \cup c.in1 \subseteq DOMAIN v /\ c.base = v
            /\ c = [level |-> c.level, in0 |-> c.in0, in1 |-> c.in1, base |-> c.base, oldest |-> c.oldest]
<1>1. ASSUME NEW n, NEW lo, NEW hi PROVE Overlapping(v, T, n, lo, hi) \subseteq DOMAIN v
  BY DEF Overlapping, Meeting, Level
<1> QED
  BY <1>1 DEF Inputs

\* So do the files it is picked from.
LEMMA PickedOfVersion ==
  ASSUME NEW v, NEW T, NEW l, NEW f \in DOMAIN v
  PROVE  Picked(v, T, l, f) \subseteq DOMAIN v
BY DEF Picked, Overlapping, Meeting, Level

-----------------------------------------------------------------------------
(* The invariant, one step per action.                                     *)

\* Steps that leave the tables, and what refers to them, alone.
LEMMA TablesSame ==
  ASSUME TablesInv, UNCHANGED <<tables, manifest, up, version, iterator, bg>>,
         bgError => bgError', up = "open" \/ scheduled' = scheduled
  PROVE  TablesInv'
BY DEF TablesInv, ThreadInv, ThreadRecord, CompactionRecord, Idle

\* The thread writes tables, or goes on with what it was doing.
LEMMA ThreadGoesOn ==
  ASSUME TablesInv, up = "open", UNCHANGED <<manifest, up, version, iterator>>,
         DOMAIN tables \subseteq DOMAIN tables', bgError => bgError', ThreadInv'
  PROVE  TablesInv'
BY DEF TablesInv

\* The thread goes idle.
LEMMA IdleInv ==
  ASSUME bg' = Idle
  PROVE  ThreadInv'
BY DEF ThreadInv, ThreadRecord, Idle

\* Init establishes the invariant.
LEMMA TablesInit == ASSUME Init PROVE TablesInv
<1>1. /\ DOMAIN tables = {} /\ version = NoFiles /\ iterator = {} /\ bg = Idle /\ up = "open"
      /\ \A m \in manifest : m.version = NoFiles
  BY DEF Init
<1>2. DOMAIN NoFiles = {}
  BY DEF NoFiles
<1>3. ThreadInv
  BY <1>1 DEF ThreadInv, ThreadRecord, Idle
<1> QED
  BY <1>1, <1>2, <1>3 DEF TablesInv

\* A memory table is about to be written.
LEMMA BeginFlushInv == ASSUME TablesInv, BeginFlush PROVE TablesInv'
<1>1. /\ bg.at \in {"idle", "merge"} /\ bg' = [bg EXCEPT !.at = "build", !.file = nextFile]
      /\ UNCHANGED <<tables, manifest, up, version, iterator, bgError>>
  BY DEF BeginFlush, disk_, files_, readers_
<1>2. ThreadInv
  BY DEF TablesInv
<1>3. /\ bg'.at = "build" /\ bg'.file = nextFile /\ bg'.comp = bg.comp /\ bg' \in ThreadRecord'
  BY <1>1, <1>2 DEF ThreadInv, ThreadRecord
<1>4. ThreadInv'
  BY <1>1, <1>2, <1>3 DEF ThreadInv, CompactionRecord
<1>5. up = "open"
  <2>1. bg.at = "merge" \/ scheduled
    BY DEF BeginFlush
  <2> QED
    BY <2>1 DEF TablesInv, Idle
<1> QED
  BY <1>1, <1>4, <1>5, ThreadGoesOn

\* It is written.
LEMMA BuildTableInv == ASSUME TablesInv, BuildTable PROVE TablesInv'
<1>1. \E e : /\ bg.at = "build" /\ bg' = [bg EXCEPT !.at = "edit", !.edit = e]
              /\ DOMAIN e.add = {bg.file}
  <2> DEFINE level == PickLevel(version, tables, Min({e.key : e \in imm}), Max({e.key : e \in imm}))
             edit  == Edit([f \in {bg.file} |-> level], {}, FlushedLog, nextFile)
  <2>1. bg.at = "build" /\ bg' = [bg EXCEPT !.at = "edit", !.edit = edit]
    BY DEF BuildTable
  <2>2. DOMAIN edit.add = {bg.file}
    BY DEF Edit
  <2> HIDE DEF edit
  <2> QED
    BY <2>1, <2>2
<1> PICK e : /\ bg.at = "build" /\ bg' = [bg EXCEPT !.at = "edit", !.edit = e]
             /\ DOMAIN e.add = {bg.file}
  BY <1>1
<1>2. /\ UNCHANGED <<manifest, up, version, iterator, bgError>>
      /\ DOMAIN tables' = {bg.file} \cup DOMAIN tables
  BY OverAdds DEF BuildTable, files_, readers_
<1>3. ThreadInv
  BY DEF TablesInv
<1>4. /\ bg'.at = "edit" /\ bg'.file = bg.file /\ bg'.comp = bg.comp /\ bg'.edit = e
      /\ bg' \in ThreadRecord'
  BY <1>3 DEF ThreadInv, ThreadRecord
<1>5. ThreadInv'
  BY <1>2, <1>3, <1>4 DEF ThreadInv, CompactionRecord
<1>6. up = "open"
  BY DEF TablesInv, Idle
<1> QED
  BY <1>2, <1>5, <1>6, ThreadGoesOn

\* Or it is not, and a compaction it interrupted goes on.
LEMMA BuildTableFailsInv == ASSUME TablesInv, BuildTableFails PROVE TablesInv'
<1>1. /\ bg.at = "build" /\ bgError' = TRUE
      /\ UNCHANGED <<tables, manifest, up, version, iterator>>
      /\ IF bg.comp # None THEN bg' = [bg EXCEPT !.at = "merge", !.file = 0] ELSE bg' = Idle
  BY DEF BuildTableFails, EndCall, disk_, files_, readers_
<1>2. ThreadInv
  BY DEF TablesInv
<1>3. ThreadInv'
  <2>1. CASE bg.comp = None
    BY <1>1, <2>1, IdleInv
  <2>2. CASE bg.comp # None
    <3>1. /\ bg'.at = "merge" /\ bg'.file = 0 /\ bg'.comp = bg.comp /\ bg' \in ThreadRecord'
      BY <1>1, <1>2, <2>2 DEF ThreadInv, ThreadRecord
    <3> QED
      BY <1>1, <1>2, <2>2, <3>1 DEF ThreadInv, CompactionRecord
  <2> QED
    BY <2>1, <2>2
<1>4. up = "open"
  BY <1>1 DEF TablesInv, Idle
<1> QED
  BY <1>1, <1>3, <1>4, ThreadGoesOn

\* A compaction begins, or a table is about to move down.
LEMMA BeginCompactionInv == ASSUME TablesInv, BeginCompaction PROVE TablesInv'
<1>1. PICK f \in Pickable :
        LET l == version[f]
            c == Inputs(version, tables, l, Picked(version, tables, l, f))
            oldest == IF snapshot = None THEN lastSeq ELSE snapshot
        IN bg' = IF TrivialMove(c)
                 THEN [bg EXCEPT !.at = "edit", !.edit = Edit([g \in {f} |-> l + 1], {}, logNumber, nextFile)]
                 ELSE [bg EXCEPT !.at = "merge", !.comp = [c EXCEPT !.oldest = oldest]]
  BY DEF BeginCompaction
<1>2. /\ bg.at = "idle" /\ scheduled /\ UNCHANGED <<tables, manifest, up, version, iterator, bgError>>
      /\ f \in DOMAIN version
  BY DEF BeginCompaction, Pickable, disk_, files_, readers_
<1>3. /\ bg \in ThreadRecord /\ bg.comp = None /\ DOMAIN version \subseteq DOMAIN tables
      /\ up = "open"
  BY <1>2 DEF TablesInv, ThreadInv
<1> DEFINE l == version[f]
           c == Inputs(version, tables, l, Picked(version, tables, l, f))
           oldest == IF snapshot = None THEN lastSeq ELSE snapshot
           e == Edit([g \in {f} |-> l + 1], {}, logNumber, nextFile)
<1>4. CASE TrivialMove(c)
  <2>1. bg' = [bg EXCEPT !.at = "edit", !.edit = e]
    BY <1>1, <1>4
  <2>2. DOMAIN e.add = {f}
    BY DEF Edit
  <2> HIDE DEF e
  <2>3. bg'.at = "edit" /\ bg'.comp = None /\ bg'.edit = e /\ bg' \in ThreadRecord'
    BY <1>3, <2>1 DEF ThreadRecord
  <2>4. ThreadInv'
    BY <1>2, <1>3, <2>2, <2>3 DEF ThreadInv
  <2> QED
    BY <1>2, <1>3, <2>4, ThreadGoesOn
<1>5. CASE ~TrivialMove(c)
  <2>1. bg' = [bg EXCEPT !.at = "merge", !.comp = [c EXCEPT !.oldest = oldest]]
    BY <1>1, <1>5
  <2>2. /\ c.in0 \cup c.in1 \subseteq DOMAIN version /\ c.base = version
        /\ c = [level |-> c.level, in0 |-> c.in0, in1 |-> c.in1, base |-> c.base, oldest |-> c.oldest]
    BY <1>2, PickedOfVersion, InputsOfVersion
  <2> HIDE DEF c, oldest
  <2> DEFINE d == [c EXCEPT !.oldest = oldest]
  <2>3. /\ d.in0 \cup d.in1 \subseteq DOMAIN version /\ d.base = version
        /\ d = [level |-> d.level, in0 |-> d.in0, in1 |-> d.in1, base |-> d.base, oldest |-> d.oldest]
    BY <2>2
  <2> HIDE DEF d
  <2>4. bg'.at = "merge" /\ bg'.file = bg.file /\ bg'.comp = d /\ bg' \in ThreadRecord'
    BY <1>3, <2>1 DEF ThreadRecord, d
  <2>5. bg'.comp \in CompactionRecord'
    BY <2>3, <2>4 DEF CompactionRecord
  <2>6. /\ bg'.at = "merge" /\ bg'.file = bg.file /\ bg'.comp.base = version
        /\ bg'.comp.in0 \cup bg'.comp.in1 \subseteq DOMAIN version
        /\ bg' \in ThreadRecord' /\ bg'.comp \in CompactionRecord'
    BY <2>3, <2>4, <2>5
  <2>7. bg.file = 0
    BY <1>2, <1>3 DEF TablesInv, ThreadInv, Idle
  <2>8. ThreadInv'
    BY <1>2, <1>3, <2>6, <2>7 DEF ThreadInv
  <2> QED
    BY <1>2, <1>3, <2>8, ThreadGoesOn
<1> QED
  BY <1>4, <1>5

\* A compaction writes a table.
LEMMA WriteOutputInv == ASSUME TablesInv, WriteOutput PROVE TablesInv'
<1>1. PICK i : tables' = Over([f \in {nextFile} |-> Wanting[i]], tables)
  BY DEF WriteOutput
<1>2. bg.at = "merge" /\ UNCHANGED <<manifest, up, version, iterator, bgError, bg>>
  BY DEF WriteOutput, files_, readers_
<1>3. DOMAIN tables \subseteq DOMAIN tables'
  BY <1>1, OverAdds
<1>4. ThreadInv'
  BY <1>2, <1>3 DEF TablesInv, ThreadInv, ThreadRecord, CompactionRecord
<1>5. up = "open"
  BY <1>2 DEF TablesInv, Idle
<1> QED
  BY <1>2, <1>3, <1>4, <1>5, ThreadGoesOn

\* What it has written is what its edit adds.
LEMMA MergeInv == ASSUME TablesInv, OutputsHeld, Merge PROVE TablesInv'
<1> DEFINE e == Edit([f \in outputs |-> bg.comp.level + 1], bg.comp.in0 \cup bg.comp.in1, logNumber, nextFile)
<1>1. /\ bg.at = "merge" /\ bg' = [bg EXCEPT !.at = "edit", !.edit = e]
      /\ UNCHANGED <<tables, manifest, up, version, iterator, bgError>>
  BY DEF Merge, disk_, files_, readers_
<1>2. DOMAIN e.add = outputs
  BY DEF Edit
<1> HIDE DEF e
<1>3. ThreadInv
  BY DEF TablesInv
<1>4. bg'.at = "edit" /\ bg'.edit = e /\ bg'.comp = bg.comp /\ bg' \in ThreadRecord'
  BY <1>1, <1>3 DEF ThreadInv, ThreadRecord
<1>5. ThreadInv'
  BY <1>1, <1>2, <1>3, <1>4 DEF ThreadInv, CompactionRecord, OutputsHeld
<1>6. up = "open"
  BY <1>1 DEF TablesInv, Idle
<1> QED
  BY <1>1, <1>5, <1>6, ThreadGoesOn

\* Or their writing fails: nothing is deleted after that.
LEMMA MergeFailsInv == ASSUME TablesInv, MergeFails PROVE TablesInv'
<1>1. /\ bg.at = "merge" /\ bgError' = TRUE /\ bg' = Idle
      /\ UNCHANGED <<tables, manifest, up, version, iterator>>
  BY DEF MergeFails, EndCall, DeleteObsoleteFiles, CannotTell, files_, readers_
<1>2. up = "open"
  BY <1>1 DEF TablesInv, Idle
<1> QED
  BY <1>1, <1>2, IdleInv, ThreadGoesOn

\* A call that finds nothing to do.
LEMMA NothingToDoInv == ASSUME TablesInv, NothingToDo PROVE TablesInv'
<1>1. /\ scheduled /\ bg' = Idle
      /\ UNCHANGED <<tables, manifest, up, version, iterator, bgError>>
  BY DEF NothingToDo, EndCall, disk_, files_, readers_
<1>2. up = "open"
  BY <1>1 DEF TablesInv
<1> QED
  BY <1>1, <1>2, IdleInv, ThreadGoesOn

\* The edit is installed.  What is deleted then is neither in the new version nor,
\* unless something has failed, in what the manifest says.
LEMMA InstallInv == ASSUME TablesInv, Install PROVE TablesInv'
<1>1. /\ bg.at = "edit" /\ manifest' = {Recorded(m, bg.edit) : m \in manifest}
      /\ version' = Edited(version, bg.edit) /\ UNCHANGED <<up, iterator, bgError>>
      /\ IF Moving THEN UNCHANGED <<tables, logs, synced>>
         ELSE DeleteObsoleteFiles(version', logNumber', IF Flushing THEN bg.comp ELSE None, pending', bgError)
      /\ IF Flushing /\ bg.comp # None
         THEN bg' = [bg EXCEPT !.at = "merge", !.file = 0, !.edit = None] ELSE bg' = Idle
  BY DEF Install, EndCall, readers_
<1>2. ThreadInv /\ up = "open"
  BY <1>1 DEF TablesInv, Idle
<1>3. DOMAIN bg.edit.add \subseteq DOMAIN tables
  BY <1>1, <1>2 DEF ThreadInv
<1>4. DOMAIN version' \subseteq DOMAIN tables
  BY <1>1, <1>3, EditedFiles DEF TablesInv
<1>5. \A m \in manifest' : DOMAIN m.version \subseteq DOMAIN tables
  BY <1>1, <1>3, RecordedFiles DEF TablesInv
<1>6. ~bgError => \A m \in manifest' : DOMAIN m.version \subseteq DOMAIN version'
  <2> SUFFICES ASSUME ~bgError, NEW d \in manifest
               PROVE  DOMAIN Recorded(d, bg.edit).version \subseteq DOMAIN version'
    BY <1>1
  <2>1. DOMAIN d.version \subseteq DOMAIN version
    BY <1>2 DEF TablesInv
  <2>2. DOMAIN version' = (DOMAIN version \ bg.edit.drop) \cup DOMAIN bg.edit.add
    BY <1>1, EditedFiles
  <2>3. DOMAIN Recorded(d, bg.edit).version = (DOMAIN d.version \ bg.edit.drop) \cup DOMAIN bg.edit.add
    BY RecordedFiles
  <2> QED
    BY <2>1, <2>2, <2>3
<1>7. /\ DOMAIN tables' \subseteq DOMAIN tables
      /\ UNCHANGED tables \/
         /\ ~bgError
         /\ DOMAIN tables \cap (DOMAIN version' \cup iterator) \subseteq DOMAIN tables'
         /\ Flushing /\ bg.comp # None => DOMAIN tables \cap DOMAIN bg.comp.base \subseteq DOMAIN tables'
  BY <1>1 DEF DeleteObsoleteFiles, CannotTell, Live, Restrict
<1>8. /\ DOMAIN version' \cup iterator' \subseteq DOMAIN tables'
      /\ \A m \in manifest' : DOMAIN m.version \subseteq DOMAIN tables'
  BY <1>1, <1>4, <1>5, <1>6, <1>7 DEF TablesInv
<1>9. ThreadInv'
  <2>1. CASE ~(Flushing /\ bg.comp # None)
    BY <1>1, <2>1, IdleInv
  <2>2. CASE Flushing /\ bg.comp # None
    <3>1. /\ bg'.at = "merge" /\ bg'.file = 0 /\ bg'.comp = bg.comp /\ bg' \in ThreadRecord'
      BY <1>1, <1>2, <2>2 DEF ThreadInv, ThreadRecord
    <3>2. /\ bg.comp \in CompactionRecord /\ bg.comp.in0 \cup bg.comp.in1 \subseteq DOMAIN bg.comp.base
          /\ DOMAIN bg.comp.base \subseteq DOMAIN tables
      BY <1>1, <1>2, <2>2 DEF ThreadInv, Flushing
    <3>3. DOMAIN bg.comp.base \subseteq DOMAIN tables'
      BY <1>7, <2>2, <3>2
    <3> QED
      BY <3>1, <3>2, <3>3 DEF ThreadInv, CompactionRecord
  <2> QED
    BY <2>1, <2>2
<1> QED
  BY <1>1, <1>2, <1>6, <1>8, <1>9 DEF TablesInv

\* The manifest could not be written: it may say one thing or the other.
LEMMA InstallFailsInv == ASSUME TablesInv, InstallFails PROVE TablesInv'
<1>1. /\ bg.at = "edit" /\ manifest' = manifest \cup {Recorded(m, bg.edit) : m \in manifest}
      /\ bgError' = TRUE /\ UNCHANGED <<tables, version, up, iterator>>
      /\ IF Flushing /\ bg.comp # None
         THEN bg' = [bg EXCEPT !.at = "merge", !.file = 0, !.edit = None] ELSE bg' = Idle
  BY DEF InstallFails, EndCall, DeleteObsoleteFiles, CannotTell, files_, readers_
<1>2. ThreadInv /\ up = "open"
  BY <1>1 DEF TablesInv, Idle
<1>3. DOMAIN bg.edit.add \subseteq DOMAIN tables
  BY <1>1, <1>2 DEF ThreadInv
<1>4. \A m \in manifest' : DOMAIN m.version \subseteq DOMAIN tables
  BY <1>1, <1>3, RecordedFiles DEF TablesInv
<1>5. ThreadInv'
  <2>1. CASE ~(Flushing /\ bg.comp # None)
    BY <1>1, <2>1, IdleInv
  <2>2. CASE Flushing /\ bg.comp # None
    <3>1. /\ bg'.at = "merge" /\ bg'.file = 0 /\ bg'.comp = bg.comp /\ bg' \in ThreadRecord'
      BY <1>1, <1>2, <2>2 DEF ThreadInv, ThreadRecord
    <3>2. /\ bg.comp \in CompactionRecord /\ bg.comp.in0 \cup bg.comp.in1 \subseteq DOMAIN bg.comp.base
          /\ DOMAIN bg.comp.base \subseteq DOMAIN tables
      BY <1>1, <1>2, <2>2 DEF ThreadInv, Flushing
    <3> QED
      BY <1>1, <3>1, <3>2 DEF ThreadInv, CompactionRecord
  <2> QED
    BY <2>1, <2>2
<1> QED
  BY <1>1, <1>2, <1>4, <1>5 DEF TablesInv

\* A crash leaves one of the states the manifest may be in.
LEMMA CrashInv == ASSUME TablesInv, Crash PROVE TablesInv'
<1> DEFINE left == manifest \cup (IF bg.at = "edit" THEN {Recorded(d, bg.edit) : d \in manifest} ELSE {})
<1>1. /\ \E m \in left : manifest' = {m}
      /\ up' = "closed" /\ version' = NoFiles /\ scheduled' = FALSE /\ bg' = Idle /\ iterator' = {}
      /\ UNCHANGED tables
  BY DEF Crash
<1>2. ThreadInv
  BY DEF TablesInv
<1>3. \A m \in left : DOMAIN m.version \subseteq DOMAIN tables
  <2>1. \A m \in manifest : DOMAIN m.version \subseteq DOMAIN tables
    BY DEF TablesInv
  <2>2. bg.at = "edit" => \A d \in manifest : DOMAIN Recorded(d, bg.edit).version \subseteq DOMAIN tables
    BY <1>2, <2>1, RecordedFiles DEF ThreadInv
  <2> QED
    BY <2>1, <2>2
<1> HIDE DEF left
<1>4. \A m \in manifest' : DOMAIN m.version \subseteq DOMAIN tables
  BY <1>1, <1>3
<1>5. ThreadInv'
  BY <1>1, IdleInv
<1>6. DOMAIN NoFiles = {}
  BY DEF NoFiles
<1> QED
  BY <1>1, <1>4, <1>5, <1>6 DEF TablesInv

\* DB::Open makes tables of the logs.
LEMMA RecoverLogsInv == ASSUME TablesInv, RecoverLogs PROVE TablesInv'
<1>1. /\ up = "closed" /\ up' = "replayed" /\ UNCHANGED <<manifest, iterator, bg, scheduled, bgError>>
      /\ \E m \in manifest : \E made, add :
           /\ tables' = Over(made, tables) /\ DOMAIN add = DOMAIN made
           /\ version' = Edited(m.version, [drop |-> {}, add |-> add])
  <2>1. PICK m \in manifest :
          LET old == {n \in DOMAIN logs : n >= m.log /\ UNION ToSet(logs[n]) # {}}
              number(n) == m.next + Cardinality({k \in old : k <= n})
              new == [f \in {number(n) : n \in old} |-> UNION ToSet(logs[CHOOSE n \in old : number(n) = f])]
          IN /\ tables' = Over(new, tables)
             /\ version' = Edited(m.version, [drop |-> {}, add |-> [f \in DOMAIN new |-> 0]])
    BY DEF RecoverLogs
  <2> DEFINE old == {n \in DOMAIN logs : n >= m.log /\ UNION ToSet(logs[n]) # {}}
             number(n) == m.next + Cardinality({k \in old : k <= n})
             made == [f \in {number(n) : n \in old} |-> UNION ToSet(logs[CHOOSE n \in old : number(n) = f])]
             add  == [f \in DOMAIN made |-> 0]
  <2>2. tables' = Over(made, tables) /\ version' = Edited(m.version, [drop |-> {}, add |-> add])
    BY <2>1
  <2> HIDE DEF made
  <2>3. DOMAIN add = DOMAIN made
    OBVIOUS
  <2> HIDE DEF add
  <2>4. up = "closed" /\ up' = "replayed" /\ UNCHANGED <<manifest, iterator, bg, scheduled, bgError>>
    BY DEF RecoverLogs, thread_, readers_
  <2> QED
    BY <2>2, <2>3, <2>4
<1> PICK m \in manifest : \E made, add :
           /\ tables' = Over(made, tables) /\ DOMAIN add = DOMAIN made
           /\ version' = Edited(m.version, [drop |-> {}, add |-> add])
  BY <1>1
<1>2. PICK made, add :
        /\ tables' = Over(made, tables) /\ DOMAIN add = DOMAIN made
        /\ version' = Edited(m.version, [drop |-> {}, add |-> add])
  OBVIOUS
<1>3. DOMAIN version' = DOMAIN m.version \cup DOMAIN made
  BY <1>2 DEF Edited
<1>4. DOMAIN tables' = DOMAIN made \cup DOMAIN tables
  BY <1>2, OverAdds
<1>5. bg = Idle /\ iterator = {} /\ scheduled = FALSE
  BY <1>1 DEF TablesInv
<1>6. ThreadInv'
  BY <1>1, <1>5, IdleInv
<1> QED
  BY <1>1, <1>3, <1>4, <1>5, <1>6 DEF TablesInv

\* And begins a manifest of its own; only then do old tables go.
LEMMA OpenInv == ASSUME TablesInv, Open PROVE TablesInv'
<1>1. /\ up = "replayed" /\ up' = "open" /\ UNCHANGED <<version, iterator, bg>>
      /\ \A m \in manifest' : m.version = version
      /\ tables' = Restrict(tables, DOMAIN version)
  BY DEF Open, readers_
<1>2. bg = Idle /\ iterator = {} /\ DOMAIN version \subseteq DOMAIN tables
  BY <1>1 DEF TablesInv
<1>3. DOMAIN tables' = DOMAIN version
  BY <1>1, <1>2 DEF Restrict
<1>4. ThreadInv'
  BY <1>1, <1>2, IdleInv
<1> QED
  BY <1>1, <1>2, <1>3, <1>4 DEF TablesInv

\* An iterator holds tables of the version, and lets them go.
LEMMA IteratorInv == ASSUME TablesInv, NewIterator \/ CleanupIterator PROVE TablesInv'
<1>1. /\ UNCHANGED <<tables, manifest, up, version, bg, bgError, scheduled>>
      /\ iterator' = {} \/ (up = "open" /\ iterator' = DOMAIN version)
  BY DEF NewIterator, CleanupIterator, disk_, files_, thread_
<1> QED
  BY <1>1 DEF TablesInv, ThreadInv, ThreadRecord, CompactionRecord, Idle

\* Writers and the other readers leave the tables alone.
LEMMA WritersInv ==
  ASSUME TablesInv,
         \/ \E w \in Writes : Write(w)
         \/ Lead \/ LeadFails \/ AddRecord \/ Sync \/ InsertInto \/ Publish \/ WriteFails
         \/ GetSnapshot \/ ReleaseSnapshot \/ Reschedule
  PROVE  TablesInv'
<1> USE DEF disk_, files_, readers_, thread_
<1>1. UNCHANGED <<tables, manifest, up, version, iterator, bg>> /\ (bgError => bgError')
      /\ (up = "open" \/ scheduled' = scheduled)
  <2>1. CASE \E w \in Writes : Write(w)  BY <2>1 DEF Write
  <2>2. CASE Lead  BY <2>2 DEF Lead
  <2>3. CASE LeadFails  BY <2>3 DEF LeadFails
  <2>4. CASE AddRecord  BY <2>4 DEF AddRecord
  <2>5. CASE Sync  BY <2>5 DEF Sync
  <2>6. CASE InsertInto  BY <2>6 DEF InsertInto
  <2>7. CASE Publish  BY <2>7 DEF Publish
  <2>8. CASE WriteFails  BY <2>8 DEF WriteFails
  <2>9. CASE GetSnapshot \/ ReleaseSnapshot  BY <2>9 DEF GetSnapshot, ReleaseSnapshot
  <2>10. CASE Reschedule  BY <2>10 DEF Reschedule
  <2> QED
    BY <2>1, <2>2, <2>3, <2>4, <2>5, <2>6, <2>7, <2>8, <2>9, <2>10
<1> QED
  BY <1>1, TablesSame

-----------------------------------------------------------------------------
\* Every step preserves the invariant.
LEMMA TablesStep == ASSUME TablesInv, OutputsHeld, [Next]_vars PROVE TablesInv'
<1>1. CASE UNCHANGED vars
  BY <1>1, TablesSame DEF vars, disk_, files_, readers_, thread_
<1>2. CASE Next
  BY <1>2, BeginFlushInv, BuildTableInv, BuildTableFailsInv, BeginCompactionInv, WriteOutputInv, MergeInv,
     MergeFailsInv, NothingToDoInv, InstallInv, InstallFailsInv, CrashInv, RecoverLogsInv,
     OpenInv, IteratorInv, WritersInv DEF Next
<1> QED
  BY <1>1, <1>2

-----------------------------------------------------------------------------
(* What a compaction has written.                                          *)

\* Steps that leave it, and the thread, alone.
LEMMA OutputsStay ==
  ASSUME OutputsHeld, UNCHANGED <<tables, pending, outputs, bg, up>>, nextFile \in Nat,
         nextFile' \in {nextFile, nextFile + 1}
  PROVE  OutputsHeld'
BY DEF OutputsHeld

\* Writers and readers; only the leader takes a number.
LEMMA WritersOutputs ==
  ASSUME OutputsHeld, nextFile \in Nat,
         \/ \E w \in Writes : Write(w)
         \/ Lead \/ LeadFails \/ AddRecord \/ Sync \/ InsertInto \/ Publish \/ WriteFails
         \/ GetSnapshot \/ ReleaseSnapshot \/ NewIterator \/ CleanupIterator \/ Reschedule \/ UNCHANGED vars
  PROVE  OutputsHeld'
<1>1. UNCHANGED <<tables, pending, outputs, bg, up>>
  BY DEF Write, Lead, LeadFails, AddRecord, Sync, InsertInto, Publish, WriteFails, GetSnapshot,
     ReleaseSnapshot, NewIterator, CleanupIterator, Reschedule, vars, disk_, thread_
<1>2. nextFile' \in {nextFile, nextFile + 1}
  BY DEF Write, Lead, HasRoom, SwitchMemTable, LeadFails, AddRecord, Sync, InsertInto, Publish, WriteFails,
     GetSnapshot, ReleaseSnapshot, NewIterator, CleanupIterator, Reschedule, vars
<1> QED
  BY <1>1, <1>2, OutputsStay

\* A flush takes a number of its own.
LEMMA BeginFlushOutputs == ASSUME TablesInv, OutputsHeld, nextFile \in Nat, BeginFlush PROVE OutputsHeld'
<1>1. /\ UNCHANGED <<tables, outputs, up>> /\ pending' = pending \cup {nextFile} /\ nextFile' = nextFile + 1
      /\ bg' = [bg EXCEPT !.at = "build", !.file = nextFile] /\ bg \in ThreadRecord
  BY DEF BeginFlush, disk_, TablesInv, ThreadInv
<1>2. bg'.at = "build" /\ bg'.file = nextFile
  BY <1>1 DEF ThreadRecord
<1> QED
  BY <1>1, <1>2 DEF OutputsHeld

\* And so does its table.
LEMMA BuildTableOutputs == ASSUME TablesInv, OutputsHeld, BuildTable PROVE OutputsHeld'
<1> DEFINE add  == [f \in {bg.file} |-> PickLevel(version, tables, Min({e.key : e \in imm}), Max({e.key : e \in imm}))]
           edit == Edit(add, {}, FlushedLog, nextFile)
<1>1. /\ bg.at = "build" /\ bg \in ThreadRecord /\ bg' = [bg EXCEPT !.at = "edit", !.edit = edit]
      /\ UNCHANGED <<outputs, up, nextFile>> /\ pending' = pending \ {bg.file}
      /\ DOMAIN tables' = {bg.file} \cup DOMAIN tables
  BY OverAdds DEF BuildTable, TablesInv, ThreadInv
<1>2. DOMAIN edit.add = {bg.file}
  BY DEF Edit
<1> HIDE DEF edit
<1>3. bg'.at = "edit" /\ bg'.file = bg.file /\ bg'.edit = edit
  BY <1>1 DEF ThreadRecord
<1> QED
  BY <1>1, <1>2, <1>3 DEF OutputsHeld

\* A compaction begins with nothing written.
LEMMA BeginCompactionOutputs == ASSUME TablesInv, OutputsHeld, BeginCompaction PROVE OutputsHeld'
BY DEF BeginCompaction, OutputsHeld

LEMMA WriteOutputOutputs == ASSUME TablesInv, OutputsHeld, nextFile \in Nat, WriteOutput PROVE OutputsHeld'
<1>1. PICK i : tables' = Over([f \in {nextFile} |-> Wanting[i]], tables)
  BY DEF WriteOutput
<1>2. DOMAIN tables' = {nextFile} \cup DOMAIN tables
  BY <1>1, OverAdds
<1>3. /\ bg.at = "merge" /\ UNCHANGED <<bg, up>> /\ nextFile' = nextFile + 1
      /\ pending' = pending \cup {nextFile} /\ outputs' = outputs \cup {nextFile}
  BY DEF WriteOutput
<1>4. up = "open"
  BY <1>3 DEF TablesInv, Idle
<1> QED
  BY <1>2, <1>3, <1>4 DEF OutputsHeld

\* The other steps begin no edit: the call ends, or the compaction goes on.
LEMMA CallEnds ==
  ASSUME TablesInv, NothingToDo \/ BuildTableFails \/ MergeFails \/ Install \/ InstallFails
  PROVE  /\ up = "open"
         /\ \/ bg' = Idle /\ scheduled' \in BOOLEAN
            \/ /\ bg'.at = "merge" /\ bg'.file = 0 /\ bg'.comp = bg.comp /\ bg.comp # None
               /\ bg.at \in {"build", "edit"} /\ UNCHANGED scheduled
<1>1. bg \in ThreadRecord /\ (up # "open" => bg = Idle /\ scheduled = FALSE)
  BY DEF TablesInv, ThreadInv
<1>2. ASSUME NEW w, NEW v, NEW b PROVE Wanted(w, v, b) \in BOOLEAN
  BY DEF Wanted
<1>3. up = "open"
  <2>1. bg.at # "idle" \/ scheduled
    BY DEF NothingToDo, BuildTableFails, MergeFails, Install, InstallFails
  <2> QED
    BY <1>1, <2>1 DEF Idle
<1>4. \/ bg' = Idle /\ \E w, v, b : scheduled' = Wanted(w, v, b)
      \/ /\ \E x : bg' = [bg EXCEPT !.at = "merge", !.file = 0, !.edit = x]
         /\ bg.comp # None /\ bg.at \in {"build", "edit"} /\ UNCHANGED scheduled
      \/ /\ bg' = [bg EXCEPT !.at = "merge", !.file = 0]
         /\ bg.comp # None /\ bg.at \in {"build", "edit"} /\ UNCHANGED scheduled
  <2>1. CASE NothingToDo \/ MergeFails
    BY <2>1 DEF NothingToDo, MergeFails, EndCall
  <2>2. CASE BuildTableFails
    BY <2>2 DEF BuildTableFails, EndCall
  <2>3. CASE Install
    BY <2>3 DEF Install, EndCall
  <2>4. CASE InstallFails
    BY <2>4 DEF InstallFails, EndCall
  <2> QED
    BY <2>1, <2>2, <2>3, <2>4
<1>5. CASE bg' = Idle /\ \E w, v, b : scheduled' = Wanted(w, v, b)
  BY <1>2, <1>3, <1>5, Zenon
<1>6. CASE /\ \E x : bg' = [bg EXCEPT !.at = "merge", !.file = 0, !.edit = x]
           /\ bg.comp # None /\ bg.at \in {"build", "edit"} /\ UNCHANGED scheduled
  BY <1>1, <1>3, <1>6 DEF ThreadRecord
<1>7. CASE /\ bg' = [bg EXCEPT !.at = "merge", !.file = 0]
           /\ bg.comp # None /\ bg.at \in {"build", "edit"} /\ UNCHANGED scheduled
  BY <1>1, <1>3, <1>7 DEF ThreadRecord
<1> QED
  BY <1>4, <1>5, <1>6, <1>7

\* The merge, and calls that fail.
LEMMA CallsOutputs ==
  ASSUME TablesInv, OutputsHeld, Merge \/ MergeFails \/ NothingToDo \/ BuildTableFails \/ InstallFails
  PROVE  OutputsHeld'
<1>1. bg \in ThreadRecord /\ (bg.at = "merge" => bg.file = 0)
  BY DEF TablesInv, ThreadInv
<1>2. /\ UNCHANGED <<up, nextFile>> /\ DOMAIN tables' = DOMAIN tables
      /\ \/ outputs' = {}
         \/ outputs' = outputs /\ (pending' = pending \/ (bg.at = "build" /\ pending' = pending \ {bg.file}))
  <2>1. CASE Merge \/ NothingToDo \/ BuildTableFails
    BY <2>1 DEF Merge, NothingToDo, BuildTableFails, disk_
  <2>2. CASE MergeFails \/ InstallFails
    BY <2>2 DEF MergeFails, InstallFails, CleanupCompaction, DeleteObsoleteFiles, CannotTell
  <2> QED
    BY <2>1, <2>2
<1>3. bg'.at # "build" /\ (bg'.at = "edit" => bg'.file = 0)
  <2>1. CASE Merge
    <3>1. PICK x : bg' = [bg EXCEPT !.at = "edit", !.edit = x]
      BY <2>1 DEF Merge
    <3>2. bg.at = "merge" /\ bg.file = 0
      BY <1>1, <2>1 DEF Merge
    <3>3. bg'.at = "edit" /\ bg'.file = bg.file
      BY <1>1, <3>1 DEF ThreadRecord
    <3> QED
      BY <3>2, <3>3
  <2>2. CASE MergeFails \/ NothingToDo \/ BuildTableFails \/ InstallFails
    <3>1. bg'.at = "merge" \/ bg' = Idle
      BY <2>2, CallEnds
    <3> QED
      BY <3>1 DEF Idle
  <2> QED
    BY <2>1, <2>2
<1>4. CASE outputs' = {}
  BY <1>3, <1>4 DEF OutputsHeld
<1>5. CASE outputs' = outputs /\ (pending' = pending \/ (bg.at = "build" /\ pending' = pending \ {bg.file}))
  <2>1. outputs' \subseteq pending'
    BY <1>5 DEF OutputsHeld
  <2>2. /\ outputs' \subseteq DOMAIN tables' /\ \A f \in outputs' : f \in Nat /\ f < nextFile'
        /\ up' # "open" => outputs' = {}
    BY <1>2, <1>5 DEF OutputsHeld
  <2> QED
    BY <1>3, <2>1, <2>2 DEF OutputsHeld
<1> QED
  BY <1>2, <1>4, <1>5

\* A flush that ends within a compaction deletes nothing that is protected.
LEMMA InstallOutputs == ASSUME TablesInv, OutputsHeld, Install PROVE OutputsHeld'
<1>1. bg'.at = "merge" \/ bg' = Idle
  BY CallEnds
<1>2. bg'.at \notin {"build", "edit"}
  BY <1>1 DEF Idle
<1>3. UNCHANGED <<up, nextFile>>
  BY DEF Install
<1>4. CASE Flushing
  <2>1. /\ UNCHANGED <<pending, outputs>>
        /\ DeleteObsoleteFiles(version', logNumber', bg.comp, pending', bgError)
    BY <1>4 DEF Install, Moving
  <2>2. DOMAIN tables \cap pending \subseteq DOMAIN tables'
    BY <2>1 DEF DeleteObsoleteFiles, Live, Restrict
  <2> QED
    BY <1>2, <1>3, <2>1, <2>2 DEF OutputsHeld
<1>5. CASE ~Flushing
  <2>1. outputs' = {}
    BY <1>5 DEF Install, CleanupCompaction
  <2> QED
    BY <1>2, <2>1 DEF OutputsHeld
<1> QED
  BY <1>4, <1>5

\* Every step preserves it.
LEMMA OutputsStep == ASSUME TablesInv, OutputsHeld, nextFile \in Nat, [Next]_vars PROVE OutputsHeld'
<1>1. CASE Crash
  BY <1>1 DEF Crash, Idle, OutputsHeld
<1>2. CASE RecoverLogs \/ Open
  <2>1. outputs = {} /\ bg = Idle /\ UNCHANGED <<outputs, bg>>
    BY <1>2 DEF RecoverLogs, Open, thread_, TablesInv, OutputsHeld
  <2> QED
    BY <2>1 DEF OutputsHeld, Idle
<1> QED
  BY <1>1, <1>2, WritersOutputs, BeginFlushOutputs, BuildTableOutputs, BeginCompactionOutputs,
     WriteOutputOutputs, CallsOutputs, InstallOutputs DEF Next

-----------------------------------------------------------------------------
(* Synced writes.                                                          *)

Written == [key : Key, seq : Nat, del : BOOLEAN]

\* e is in the part of log n that is synced.
InSynced(n, e) == \E i \in 1 .. synced[n] : e \in logs[n][i]

\* One who has read the manifest's sequence number and its logs knows of every
\* synced entry.
Covers(seq, log) ==
  \A e \in safe : e.seq <= seq \/ \E n \in DOMAIN logs : n >= log /\ InSynced(n, e)

LogsTyped ==
  /\ logs \in [DOMAIN logs -> Seq(SUBSET Written)] /\ synced \in [DOMAIN logs -> Nat]
  /\ \A n \in DOMAIN logs : synced[n] <= Len(logs[n])
  /\ safe \subseteq Written

\* There are finitely many logs, and a greatest number in them.
Bounded ==
  \E b \in Nat : /\ DOMAIN logs \subseteq 0 .. b
                 /\ \A n \in DOMAIN logs : \A i \in 1 .. Len(logs[n]) : \A e \in logs[n][i] : e.seq <= b

Numbers ==
  /\ lastSeq \in Nat /\ nextFile \in Nat /\ logNumber \in Nat
  /\ \A m \in manifest : m.seq \in Nat /\ m.log \in Nat /\ m.next \in Nat
  /\ bg.at = "edit" => bg.edit.seq \in Nat /\ bg.edit.log \in Nat /\ bg.edit.next \in Nat

\* The leader's record is in the log from AddRecord on, and synced if it asked for that.
HasRecord == stage \in {"sync", "insert", "publish"}
Leading ==
  /\ queue \in Seq(Writes)
  /\ stage \in {"idle", "append", "sync", "insert", "publish"}
  /\ stage # "idle" => up = "open" /\ group \in 1 .. Len(queue) /\ MayJoin(queue, group)
  /\ HasRecord => \E i \in 1 .. Len(logs[logfile]) : logs[logfile][i] = GroupEntries
  /\ stage \in {"insert", "publish"} /\ queue[1].sync => synced[logfile] = Len(logs[logfile])

\* Only the leader's record has numbers that are not yet used up.
Latest ==
  up = "open" =>
    /\ logfile \in DOMAIN logs /\ \A n \in DOMAIN logs : n < nextFile
    /\ logNumber <= logfile /\ \A m \in manifest : m.log <= logfile
    /\ bg.at = "edit" => bg.edit.log <= logfile
    /\ \A n \in DOMAIN logs : \A i \in 1 .. Len(logs[n]) : \A e \in logs[n][i] :
         \/ e.seq <= lastSeq
         \/ n = logfile /\ HasRecord /\ e.seq <= lastSeq + Cardinality(Joined(group))

Safe ==
  /\ up # "closed" => \A e \in safe : e.seq <= lastSeq
  /\ \A n \in DOMAIN logs : \A i \in 1 .. Len(logs[n]) : \A e \in logs[n][i] \cap safe : InSynced(n, e)
  /\ \A m \in manifest : Covers(m.seq, m.log)
  /\ bg.at = "edit" => Covers(bg.edit.seq, bg.edit.log)

SyncInv == LogsTyped /\ Bounded /\ Numbers /\ Leading /\ Latest /\ Safe /\ SyncedSurvives

-----------------------------------------------------------------------------
(* Numbers.                                                                *)

\* A set of natural numbers up to some b that is not empty has a greatest element.
LEMMA MaxIsGreatest ==
  ASSUME NEW S, NEW b \in Nat, S \subseteq 0 .. b, S # {}
  PROVE  Max(S) \in S /\ \A y \in S : y <= Max(S)
<1> DEFINE Less == {ss \in Nat \X Nat : ss[1] < ss[2]}
           T    == {b - y : y \in S}
<1>1. Less = OpToRel(<, Nat)
  BY DEF OpToRel
<1>2. IsWellFoundedOn(Less, Nat)
  BY <1>1, NatLessThanWellFounded, Zenon
<1>3. T \subseteq Nat /\ T # {}
  <2>1. ASSUME NEW y \in S PROVE b - y \in Nat
    <3>1. y \in 0 .. b
      OBVIOUS
    <3> QED
      BY <3>1
  <2>2. PICK y \in S : TRUE
    OBVIOUS
  <2>3. b - y \in T
    OBVIOUS
  <2> QED
    BY <2>1, <2>3
<1> HIDE DEF T
<1>4. PICK t \in T : \A y \in T : ~(<<y, t>> \in Less)
  BY <1>2, <1>3, WFMin, Zenon
<1>5. PICK x \in S : t = b - x
  BY DEF T
<1>6. ASSUME NEW y \in S PROVE y <= x
  <2>1. b - y \in T
    BY DEF T
  <2>2. ~(<<b - y, t>> \in Less) /\ t \in Nat /\ b - y \in Nat
    BY <1>3, <1>4, <2>1
  <2>3. ~(b - y < t)
    BY <2>2
  <2> QED
    BY <1>5, <2>3
<1> HIDE DEF Less
<1>7. \A z \in S : (\A y \in S : y <= z) => \A y \in S : z >= y
  OBVIOUS
<1> QED
  BY <1>6, <1>7 DEF Max

\* What is made of the elements of a finite set is finite.
LEMMA ImageIsFinite ==
  ASSUME NEW f, IsFiniteSet(DOMAIN f), f = [x \in DOMAIN f |-> f[x]]
  PROVE  IsFiniteSet({f[x] : x \in DOMAIN f})
<1> DEFINE T == {f[x] : x \in DOMAIN f}
<1>1. f \in Surjection(DOMAIN f, T)
  BY DEF Surjection
<1> QED
  BY <1>1, FS_Surjection, Zenon

\* There are finitely many entries.
LEMMA EntryIsFinite == IsFiniteSet(Entry)
<1> DEFINE P == (Key \X Sequence) \X BOOLEAN
           f == [p \in P |-> [key |-> p[1][1], seq |-> p[1][2], del |-> p[2]]]
<1>1. IsFiniteSet(Key) /\ IsFiniteSet(Sequence)
  BY LevelsAssumption, FS_Interval DEF Key, Sequence
<1>2. IsFiniteSet(BOOLEAN)
  <2>1. BOOLEAN = {TRUE} \cup {FALSE}
    OBVIOUS
  <2>2. IsFiniteSet({TRUE}) /\ IsFiniteSet({FALSE})
    BY FS_Singleton
  <2> QED
    BY <2>1, <2>2, FS_Union
<1>3. IsFiniteSet(P)
  BY <1>1, <1>2, FS_Product
<1>4. Entry = {f[p] : p \in P}
  <2>1. ASSUME NEW e \in Entry PROVE \E p \in P : e = f[p]
    <3>1. e.key \in Key /\ e.seq \in Sequence /\ e.del \in BOOLEAN
          /\ e = [key |-> e.key, seq |-> e.seq, del |-> e.del]
      BY DEF Entry
    <3>2. <<<<e.key, e.seq>>, e.del>> \in P
      BY <3>1
    <3> QED
      BY <3>1, <3>2
  <2>2. \A p \in P : f[p] \in Entry
    BY DEF Entry
  <2> QED
    BY <2>1, <2>2
<1> QED
  BY <1>3, <1>4, ImageIsFinite

\* The outputs are numbered, and the entries of a later one are greater.
LEMMA OutputsInOrder ==
  ASSUME NEW c, NEW T, NEW oldest
  PROVE  LET outs == Outputs(c, T, oldest)
         IN /\ \E b \in Nat : DOMAIN outs \subseteq 0 .. b
            /\ \A i, j \in DOMAIN outs : i < j => \A d \in outs[i], e \in outs[j] : Order(d) < Order(e)
<1> DEFINE outs == Outputs(c, T, oldest)
           kept == {e \in Entry : e \in Entries(T, c.in0 \cup c.in1) /\ ~Dropped(c, T, e, oldest)}
           before(e) == {d \in kept : Order(d) < Order(e)}
           place(e) == Cardinality(before(e)) \div OutputSize
<1>1. outs = [j \in {place(e) : e \in kept} |-> {e \in kept : place(e) = j}]
  BY DEF Outputs
<1>2. IsFiniteSet(kept) /\ Cardinality(kept) \in Nat
  BY EntryIsFinite, FS_Subset, FS_CardinalityType
<1>3. \A e \in kept : Order(e) \in Int
  <2>1. ASSUME NEW e \in Entry PROVE Order(e) \in Int
    <3>1. e.key \in Nat /\ e.seq \in Nat /\ MaxSequence \in Nat
      BY LevelsAssumption DEF Entry, Key, Sequence
    <3> QED
      BY <3>1 DEF Order, InternalKey
  <2> QED
    BY <2>1
<1> HIDE DEF kept
<1>4. ASSUME NEW e
      PROVE  /\ IsFiniteSet(before(e)) /\ Cardinality(before(e)) \in Nat
             /\ Cardinality(before(e)) <= Cardinality(kept)
  BY <1>2, FS_Subset, FS_CardinalityType
<1>5. ASSUME NEW d \in kept, NEW e \in kept, ~(Order(d) < Order(e)) PROVE place(e) <= place(d)
  <2>1. Order(e) <= Order(d)
    BY <1>3, <1>5
  <2>2. before(e) \subseteq before(d)
    BY <1>3, <2>1
  <2>3. Cardinality(before(e)) <= Cardinality(before(d))
    BY <1>4, <2>2, FS_Subset
  <2>4. \A a, b \in Nat : a <= b => a \div OutputSize <= b \div OutputSize
    <3>1. OutputSize \in Nat \ {0}
      BY LevelsAssumption
    <3> QED
      BY <3>1
  <2> HIDE DEF before
  <2> QED
    BY <1>4, <2>3, <2>4
<1>6. ASSUME NEW e \in kept PROVE place(e) \in 0 .. Cardinality(kept)
  <2>1. OutputSize \in Nat \ {0}
    BY LevelsAssumption
  <2>2. \A a \in Nat : a \div OutputSize \in Nat /\ a \div OutputSize <= a
    BY <2>1
  <2> HIDE DEF before
  <2> QED
    BY <1>2, <1>4, <2>2
<1> HIDE DEF place
<1>7. DOMAIN outs \subseteq 0 .. Cardinality(kept)
  BY <1>1, <1>6
<1>8. ASSUME NEW i \in DOMAIN outs, NEW j \in DOMAIN outs, i < j, NEW d \in outs[i], NEW e \in outs[j]
      PROVE  Order(d) < Order(e)
  <2>1. d \in kept /\ e \in kept /\ place(d) = i /\ place(e) = j
    BY <1>1
  <2>2. i \in Int /\ j \in Int
    BY <1>7
  <2>3. ~(place(e) <= place(d))
    BY <1>8, <2>1, <2>2
  <2> QED
    BY <1>5, <2>1, <2>3
<1> QED
  BY <1>2, <1>7, <1>8

-----------------------------------------------------------------------------
(* The leader's group.                                                     *)

\* Its operations have places from 1 on.
LEMMA Places ==
  ASSUME group \in Nat
  PROVE  /\ Cardinality(Joined(group)) \in Nat
         /\ \A o \in Joined(group) : Place(o) \in 1 .. Cardinality(Joined(group))
<1>1. IsFiniteSet((1 .. group) \X Sequence)
  <2>1. IsFiniteSet(1 .. group)
    BY FS_Interval
  <2>2. IsFiniteSet(Sequence)
    BY LevelsAssumption, FS_Interval DEF Sequence
  <2> QED
    BY <2>1, <2>2, FS_Product, Zenon
<1>2. IsFiniteSet(Joined(group))
  BY <1>1, FS_Subset DEF Joined
<1>3. Cardinality(Joined(group)) \in Nat
  BY <1>2, FS_CardinalityType
<1>4. ASSUME NEW o \in Joined(group) PROVE Place(o) \in 1 .. Cardinality(Joined(group))
  <2> DEFINE P == {p \in Joined(group) : p[1] < o[1] \/ (p[1] = o[1] /\ p[2] <= o[2])}
  <2>1. o \in P
    BY DEF Joined, Sequence
  <2>2. IsFiniteSet(P) /\ Cardinality(P) <= Cardinality(Joined(group)) /\ P # {}
    BY <1>2, <2>1, FS_Subset
  <2>3. Cardinality(P) \in Nat /\ Cardinality(P) # 0
    BY <2>2, FS_CardinalityType, FS_EmptySet
  <2>4. Place(o) = Cardinality(P)
    BY DEF Place
  <2> HIDE DEF P
  <2> QED
    BY <1>3, <2>2, <2>3, <2>4
<1> QED
  BY <1>3, <1>4

\* So its entries have numbers that are not used up yet.
LEMMA GroupIsNew ==
  ASSUME queue \in Seq(Writes), group \in 1 .. Len(queue), lastSeq \in Nat
  PROVE  /\ SyncEntries \subseteq GroupEntries /\ GroupEntries \subseteq Written
         /\ Cardinality(Joined(group)) \in Nat
         /\ \A e \in GroupEntries : lastSeq < e.seq /\ e.seq <= lastSeq + Cardinality(Joined(group))
<1>1. ASSUME NEW o \in Joined(group)
      PROVE  /\ Numbered(o) \in Written
             /\ lastSeq < Numbered(o).seq /\ Numbered(o).seq <= lastSeq + Cardinality(Joined(group))
  <2>1. Place(o) \in 1 .. Cardinality(Joined(group)) /\ Cardinality(Joined(group)) \in Nat
    BY Places
  <2>2. o[1] \in 1 .. group /\ o[2] \in Nat /\ 1 <= o[2] /\ o[2] <= Len(queue[o[1]].batch)
    BY DEF Joined, Sequence
  <2>3. queue[o[1]] \in Writes
    BY <2>2
  <2>4. queue[o[1]].batch \in Seq([key : Key, del : BOOLEAN])
    BY <2>3, WritesAssumption
  <2>5. queue[o[1]].batch[o[2]] \in [key : Key, del : BOOLEAN]
    <3>1. \A S : \A b \in Seq(S) : \A i \in Nat : 1 <= i /\ i <= Len(b) => b[i] \in S
      OBVIOUS
    <3> QED
      BY <2>2, <2>4, <3>1
  <2>6. lastSeq + Place(o) \in Nat /\ Numbered(o).seq = lastSeq + Place(o)
    BY <2>1 DEF Numbered
  <2>7. Numbered(o) \in Written
    <3>1. queue[o[1]].batch[o[2]].key \in Key /\ queue[o[1]].batch[o[2]].del \in BOOLEAN
      BY <2>5
    <3> QED
      BY <2>6, <3>1 DEF Numbered, Written
  <2> QED
    BY <2>1, <2>6, <2>7
<1>2. Cardinality(Joined(group)) \in Nat
  BY Places
<1> QED
  BY <1>1, <1>2 DEF GroupEntries, SyncEntries

\* They stay the same while others join the queue behind.
LEMMA SameGroup ==
  ASSUME UNCHANGED <<group, lastSeq>>, \A i \in 1 .. group : queue'[i] = queue[i]
  PROVE  Joined(group)' = Joined(group) /\ GroupEntries' = GroupEntries /\ SyncEntries' = SyncEntries
<1>1. Joined(group)' = Joined(group)
  BY DEF Joined
<1>2. \A o \in Joined(group) : Numbered(o)' = Numbered(o)
  BY <1>1 DEF Numbered, Place, Joined
<1>3. GroupEntries' = GroupEntries
  BY <1>1, <1>2 DEF GroupEntries
<1>4. \A o \in Joined(group) : queue'[o[1]].sync = queue[o[1]].sync
  BY DEF Joined
<1>5. SyncEntries' = SyncEntries
  BY <1>1, <1>2, <1>4 DEF SyncEntries
<1> QED
  BY <1>1, <1>3, <1>5

-----------------------------------------------------------------------------
(* The background thread, as long as it leaves the logs alone.             *)

\* The edit under way may be written to the manifest.
EditOK ==
  bg.at = "edit" =>
    /\ bg.edit.seq \in Nat /\ bg.edit.log \in Nat /\ bg.edit.next \in Nat
    /\ up = "open" => bg.edit.log <= logfile
    /\ Covers(bg.edit.seq, bg.edit.log)

\* What is in a record.
LEMMA RecordsTyped ==
  ASSUME LogsTyped, NEW n \in DOMAIN logs, NEW i \in 1 .. Len(logs[n])
  PROVE  logs[n][i] \subseteq Written /\ \A e \in logs[n][i] : e.seq \in Nat
<1>1. logs[n] \in Seq(SUBSET Written)
  BY DEF LogsTyped
<1>2. logs[n][i] \in SUBSET Written
  BY <1>1
<1> QED
  BY <1>2 DEF Written

LEMMA LogfileIsNat == ASSUME SyncInv, up = "open" PROVE logfile \in Nat /\ DOMAIN logs \subseteq Nat
BY DEF SyncInv, Bounded, Latest

\* An edit that is begun now.
LEMMA EditNow ==
  ASSUME SyncInv, up = "open", UNCHANGED <<safe, logfile>>,
         bg'.edit.seq = lastSeq, bg'.edit.log \in {logfile, logNumber}, bg'.edit.next \in Nat
  PROVE  EditOK'
<1>1. lastSeq \in Nat /\ logNumber \in Nat /\ logfile \in Nat /\ logNumber <= logfile
  BY LogfileIsNat DEF SyncInv, Numbers, Latest
<1>2. \A e \in safe : e.seq <= lastSeq
  BY DEF SyncInv, Safe
<1> QED
  BY <1>1, <1>2 DEF EditOK, Covers

\* A step of the thread, or of a reader.
LEMMA ThreadFrame ==
  ASSUME SyncInv, nextFile' \in Nat, nextFile' >= nextFile, EditOK',
         UNCHANGED <<logs, synced, safe, truth, queue, stage, group, logfile, lastSeq, up,
                     manifest, logNumber>>
  PROVE  SyncInv'
<1>1. LogsTyped' /\ SyncedSurvives'
  BY DEF SyncInv, LogsTyped, SyncedSurvives
<1>2. Bounded'
  BY DEF SyncInv, Bounded
<1>3. Numbers'
  BY DEF SyncInv, Numbers, EditOK
<1>4. /\ Joined(group)' = Joined(group) /\ GroupEntries' = GroupEntries
  BY SameGroup
<1>5. Leading'
  BY <1>4 DEF SyncInv, Leading, HasRecord
<1>6. Latest'
  <2> SUFFICES ASSUME up = "open" PROVE Latest'
    BY DEF Latest
  <2>1. \A n \in DOMAIN logs : n < nextFile'
    <3>1. \A n \in DOMAIN logs : n \in Nat /\ n < nextFile
      BY LogfileIsNat DEF SyncInv, Latest
    <3> QED
      BY <3>1 DEF SyncInv, Numbers
  <2> QED
    BY <1>4, <2>1 DEF SyncInv, Latest, HasRecord, EditOK
<1>7. Safe'
  BY DEF SyncInv, Safe, EditOK, Covers, InSynced
<1> QED
  BY <1>1, <1>2, <1>3, <1>5, <1>6, <1>7 DEF SyncInv

LEMMA BeginFlushSync == ASSUME TablesInv, SyncInv, BeginFlush PROVE SyncInv'
<1>1. bg \in ThreadRecord
  BY DEF TablesInv, ThreadInv
<1>2. bg'.at = "build"
  BY <1>1 DEF BeginFlush, ThreadRecord
<1>3. nextFile' = nextFile + 1 /\ nextFile \in Nat
  BY DEF BeginFlush, SyncInv, Numbers
<1>4. UNCHANGED <<logs, synced, safe, truth, queue, stage, group, logfile, lastSeq, up, manifest, logNumber>>
  BY DEF BeginFlush, disk_, writers_, memory_, files_, written_
<1> QED
  BY <1>2, <1>3, <1>4, ThreadFrame DEF EditOK

LEMMA BuildTableSync == ASSUME TablesInv, SyncInv, BuildTable PROVE SyncInv'
<1> DEFINE level == PickLevel(version, tables, Min({e.key : e \in imm}), Max({e.key : e \in imm}))
           edit  == Edit([f \in {bg.file} |-> level], {}, FlushedLog, nextFile)
<1>1. bg \in ThreadRecord /\ up = "open"
  BY DEF TablesInv, ThreadInv, Idle, BuildTable
<1>2. bg' = [bg EXCEPT !.at = "edit", !.edit = edit]
  BY DEF BuildTable
<1>3. edit.seq = lastSeq /\ edit.log = logfile /\ edit.next = nextFile
  BY DEF Edit, FlushedLog
<1> HIDE DEF edit
<1>4. bg'.edit = edit
  BY <1>1, <1>2 DEF ThreadRecord
<1>5. UNCHANGED <<logs, synced, safe, truth, queue, stage, group, logfile, lastSeq, up, manifest,
                  logNumber, nextFile>> /\ nextFile \in Nat
  BY DEF BuildTable, writers_, memory_, files_, written_, SyncInv, Numbers
<1>6. EditOK'
  BY <1>1, <1>3, <1>4, <1>5, EditNow
<1> QED
  BY <1>5, <1>6, ThreadFrame

LEMMA BeginCompactionSync == ASSUME TablesInv, SyncInv, BeginCompaction PROVE SyncInv'
<1>1. bg \in ThreadRecord /\ up = "open"
  BY DEF TablesInv, ThreadInv, BeginCompaction
<1>2. \/ \E add : bg' = [bg EXCEPT !.at = "edit", !.edit = Edit(add, {}, logNumber, nextFile)]
      \/ \E c : bg' = [bg EXCEPT !.at = "merge", !.comp = c]
  <2>1. PICK f \in Pickable :
          LET l == version[f]
              c == Inputs(version, tables, l, Picked(version, tables, l, f))
              oldest == IF snapshot = None THEN lastSeq ELSE snapshot
          IN bg' = IF TrivialMove(c)
                   THEN [bg EXCEPT !.at = "edit", !.edit = Edit([g \in {f} |-> l + 1], {}, logNumber, nextFile)]
                   ELSE [bg EXCEPT !.at = "merge", !.comp = [c EXCEPT !.oldest = oldest]]
    BY DEF BeginCompaction
  <2> DEFINE l == version[f]
             c == Inputs(version, tables, l, Picked(version, tables, l, f))
             d == [c EXCEPT !.oldest = IF snapshot = None THEN lastSeq ELSE snapshot]
             add == [g \in {f} |-> l + 1]
  <2>2. bg' = IF TrivialMove(c)
              THEN [bg EXCEPT !.at = "edit", !.edit = Edit(add, {}, logNumber, nextFile)]
              ELSE [bg EXCEPT !.at = "merge", !.comp = d]
    BY <2>1
  <2> HIDE DEF c, d, add
  <2> QED
    BY <2>2
<1>3. UNCHANGED <<logs, synced, safe, truth, queue, stage, group, logfile, lastSeq, up, manifest,
                  logNumber, nextFile>> /\ nextFile \in Nat
  BY DEF BeginCompaction, disk_, writers_, memory_, files_, written_, SyncInv, Numbers
<1>4. EditOK'
  <2>1. ASSUME NEW add, bg' = [bg EXCEPT !.at = "edit", !.edit = Edit(add, {}, logNumber, nextFile)]
        PROVE  EditOK'
    <3>1. bg'.edit.seq = lastSeq /\ bg'.edit.log = logNumber /\ bg'.edit.next = nextFile
      BY <1>1, <2>1 DEF ThreadRecord, Edit
    <3> QED
      BY <1>1, <1>3, <3>1, EditNow
  <2>2. ASSUME NEW c, bg' = [bg EXCEPT !.at = "merge", !.comp = c]
        PROVE  EditOK'
    BY <1>1, <2>2 DEF ThreadRecord, EditOK
  <2> QED
    BY <1>2, <2>1, <2>2
<1> QED
  BY <1>3, <1>4, ThreadFrame

LEMMA WriteOutputSync == ASSUME TablesInv, SyncInv, WriteOutput PROVE SyncInv'
<1>1. nextFile' = nextFile + 1 /\ nextFile \in Nat /\ bg.at = "merge" /\ UNCHANGED bg
  BY DEF WriteOutput, SyncInv, Numbers
<1>2. UNCHANGED <<logs, synced, safe, truth, queue, stage, group, logfile, lastSeq, up, manifest, logNumber>>
  BY DEF WriteOutput, writers_, memory_, files_, written_
<1> QED
  BY <1>1, <1>2, ThreadFrame DEF EditOK

LEMMA MergeSync == ASSUME TablesInv, SyncInv, Merge PROVE SyncInv'
<1> DEFINE e == Edit([f \in outputs |-> bg.comp.level + 1], bg.comp.in0 \cup bg.comp.in1, logNumber, nextFile)
<1>1. bg' = [bg EXCEPT !.at = "edit", !.edit = e]
  BY DEF Merge
<1>2. e.seq = lastSeq /\ e.log = logNumber /\ e.next = nextFile
  BY DEF Edit
<1> HIDE DEF e
<1>3. bg \in ThreadRecord /\ up = "open"
  BY DEF TablesInv, ThreadInv, Idle, Merge
<1>4. bg'.edit = e
  BY <1>1, <1>3 DEF ThreadRecord
<1>5. UNCHANGED <<logs, synced, safe, truth, queue, stage, group, logfile, lastSeq, up, manifest, logNumber,
                  nextFile>> /\ nextFile \in Nat
  BY DEF Merge, disk_, writers_, memory_, files_, written_, SyncInv, Numbers
<1>6. EditOK'
  BY <1>2, <1>3, <1>4, <1>5, EditNow
<1> QED
  BY <1>5, <1>6, ThreadFrame

\* Steps of the thread that come to no edit, and those of readers.
LEMMA OthersSync ==
  ASSUME TablesInv, SyncInv,
         \/ BuildTableFails \/ MergeFails \/ NothingToDo
         \/ GetSnapshot \/ ReleaseSnapshot \/ NewIterator \/ CleanupIterator \/ Reschedule
         \/ UNCHANGED vars
  PROVE  SyncInv'
<1> USE DEF disk_, writers_, memory_, files_, written_, thread_
<1>1. bg \in ThreadRecord
  BY DEF TablesInv, ThreadInv
<1>2. /\ UNCHANGED <<logs, synced, safe, truth, queue, stage, group, logfile, lastSeq, up, manifest,
                     logNumber, nextFile>>
      /\ bg'.at # "edit" \/ UNCHANGED bg
  <2>1. CASE BuildTableFails
    <3>1. IF bg.comp # None THEN bg' = [bg EXCEPT !.at = "merge", !.file = 0] ELSE bg' = Idle
      BY <2>1 DEF BuildTableFails, EndCall
    <3>2. bg'.at # "edit"
      <4>1. CASE bg' = Idle
        BY <4>1 DEF Idle
      <4>2. CASE bg' = [bg EXCEPT !.at = "merge", !.file = 0]
        <5>1. bg'.at = "merge"
          BY <1>1, <4>2 DEF ThreadRecord
        <5> QED
          BY <5>1
      <4> QED
        BY <3>1, <4>1, <4>2
    <3>3. UNCHANGED <<logs, synced, safe, truth, queue, stage, group, logfile, lastSeq, up, manifest,
                      logNumber, nextFile>>
      BY <2>1 DEF BuildTableFails
    <3> QED
      BY <3>2, <3>3
  <2>2. CASE MergeFails
    BY <2>2 DEF MergeFails, EndCall, Idle, DeleteObsoleteFiles, CannotTell
  <2>3. CASE NothingToDo
    BY <2>3 DEF NothingToDo, EndCall, Idle
  <2>4. CASE GetSnapshot \/ ReleaseSnapshot
    BY <2>4 DEF GetSnapshot, ReleaseSnapshot
  <2>5. CASE NewIterator \/ CleanupIterator
    BY <2>5 DEF NewIterator, CleanupIterator
  <2>6. CASE Reschedule
    BY <2>6 DEF Reschedule
  <2>7. CASE UNCHANGED vars
    BY <2>7 DEF vars
  <2> QED
    BY <2>1, <2>2, <2>3, <2>4, <2>5, <2>6, <2>7
<1>3. EditOK'
  BY <1>2 DEF EditOK, SyncInv, Numbers, Latest, Safe, Covers, InSynced
<1>4. nextFile \in Nat
  BY DEF SyncInv, Numbers
<1> QED
  BY <1>2, <1>3, <1>4, ThreadFrame

-----------------------------------------------------------------------------
(* The writers.                                                            *)

\* An edit stays good as long as the logs only grow.
LEMMA EditStays ==
  ASSUME SyncInv, UNCHANGED <<bg, safe, up>>, up = "open" => logfile' \in Nat /\ logfile' >= logfile,
         \A n \in DOMAIN logs : n \in DOMAIN logs' /\ \A e : InSynced(n, e) => InSynced(n, e)'
  PROVE  EditOK' /\ \A m \in manifest : Covers(m.seq, m.log)'
<1>1. \A m \in manifest : Covers(m.seq, m.log)'
  BY DEF SyncInv, Safe, Covers
<1>2. ASSUME bg.at = "edit" PROVE Covers(bg.edit.seq, bg.edit.log)'
  BY <1>2 DEF SyncInv, Safe, Covers
<1>3. ASSUME bg.at = "edit", up = "open" PROVE bg.edit.log <= logfile'
  <2>1. bg.edit.log <= logfile /\ bg.edit.log \in Nat /\ logfile \in Nat
    BY <1>3, LogfileIsNat DEF SyncInv, Latest, Numbers
  <2> QED
    BY <1>3, <2>1
<1> QED
  BY <1>1, <1>2, <1>3 DEF EditOK, SyncInv, Numbers

\* A step that leaves the logs alone.
LEMMA WriterFrame ==
  ASSUME SyncInv, lastSeq' \in Nat, lastSeq' >= lastSeq, Leading', Latest',
         UNCHANGED <<logs, synced, safe, truth, logfile, up, manifest, logNumber, nextFile, bg>>
  PROVE  SyncInv'
<1>1. LogsTyped' /\ SyncedSurvives' /\ Bounded' /\ Numbers'
  BY DEF SyncInv, LogsTyped, SyncedSurvives, Bounded, Numbers
<1>2. up # "closed" => \A e \in safe : e.seq <= lastSeq'
  <2>1. up # "closed" => \A e \in safe : e.seq <= lastSeq /\ e.seq \in Nat
    BY DEF SyncInv, Safe, LogsTyped, Written
  <2>2. lastSeq \in Nat
    BY DEF SyncInv, Numbers
  <2> QED
    BY <2>1, <2>2
<1>3. Safe'
  BY <1>2 DEF SyncInv, Safe, Covers, InSynced
<1> QED
  BY <1>1, <1>3 DEF SyncInv

LEMMA WriteSync == ASSUME SyncInv, NEW w \in Writes, Write(w) PROVE SyncInv'
<1>1. /\ queue' = Append(queue, w) /\ up = "open"
      /\ UNCHANGED <<logs, synced, safe, truth, stage, group, logfile, lastSeq, up, manifest,
                     logNumber, nextFile, bg>>
  BY DEF Write, disk_, memory_, files_, thread_, written_
<1>2. queue' \in Seq(Writes) /\ Len(queue') = Len(queue) + 1 /\ Len(queue) \in Nat
      /\ \A i \in 1 .. Len(queue) : queue'[i] = queue[i]
  BY <1>1 DEF SyncInv, Leading
<1>3. lastSeq \in Nat
  BY DEF SyncInv, Numbers
<1>4. CASE stage = "idle"
  <2>1. Leading' /\ Latest'
    BY <1>1, <1>2, <1>4 DEF SyncInv, Leading, Latest, HasRecord
  <2> QED
    BY <1>1, <1>3, <2>1, WriterFrame
<1>5. CASE stage # "idle"
  <2>1. group \in 1 .. Len(queue) /\ MayJoin(queue, group)
    BY <1>5 DEF SyncInv, Leading
  <2>2. \A i \in 1 .. group : queue'[i] = queue[i]
    BY <1>2, <2>1
  <2>3. Joined(group)' = Joined(group) /\ GroupEntries' = GroupEntries
    BY <1>1, <2>2, SameGroup
  <2>4. group \in 1 .. Len(queue') /\ MayJoin(queue', group) /\ queue'[1] = queue[1]
    BY <1>2, <2>1, <2>2 DEF MayJoin
  <2>5. Leading'
    BY <1>1, <1>2, <2>3, <2>4 DEF SyncInv, Leading, HasRecord
  <2>6. Latest'
    BY <1>1, <2>3 DEF SyncInv, Latest, HasRecord
  <2> QED
    BY <1>1, <1>3, <2>5, <2>6, WriterFrame
<1> QED
  BY <1>4, <1>5

\* A leader that cannot make room returns.
LEMMA LeadFailsSync == ASSUME SyncInv, LeadFails PROVE SyncInv'
<1>1. /\ queue' = Tail(queue) /\ queue # <<>> /\ stage = "idle"
      /\ UNCHANGED <<logs, synced, safe, truth, stage, group, logfile, lastSeq, up, manifest,
                     logNumber, nextFile, bg>>
  BY DEF LeadFails, disk_, memory_, files_, thread_, written_
<1>2. queue' \in Seq(Writes) /\ lastSeq \in Nat
  BY <1>1 DEF SyncInv, Leading, Numbers
<1>3. Leading' /\ Latest'
  BY <1>1, <1>2 DEF SyncInv, Leading, Latest, HasRecord
<1> QED
  BY <1>1, <1>2, <1>3, WriterFrame

\* A leader with its group; it may have changed logs.
LEMMA LeadSync == ASSUME SyncInv, Lead PROVE SyncInv'
<1>1. /\ up = "open" /\ stage = "idle" /\ stage' = "append" /\ group' \in 1 .. Len(queue)
      /\ MayJoin(queue, group')
      /\ UNCHANGED <<queue, safe, truth, lastSeq, up, manifest, logNumber, bg>>
  BY DEF Lead, files_, written_
<1>2. Leading'
  BY <1>1 DEF SyncInv, Leading, HasRecord
<1>3. lastSeq \in Nat
  BY DEF SyncInv, Numbers
<1>4. CASE HasRoom
  <2>1. UNCHANGED <<logs, synced, logfile, nextFile>>
    BY <1>4 DEF HasRoom, memory_
  <2>2. Latest'
    BY <1>1, <2>1 DEF SyncInv, Latest, HasRecord
  <2> QED
    BY <1>1, <1>2, <1>3, <2>1, <2>2, WriterFrame
<1>5. CASE SwitchMemTable
  <2>1. /\ logs' = Over([n \in {nextFile} |-> <<>>], logs)
        /\ synced' = Over([n \in {nextFile} |-> 0], synced)
        /\ logfile' = nextFile /\ nextFile' = nextFile + 1
    BY <1>5 DEF SwitchMemTable
  <2>2. /\ nextFile \in Nat /\ logfile \in DOMAIN logs /\ DOMAIN logs \subseteq Nat
        /\ \A n \in DOMAIN logs : n < nextFile
        /\ DOMAIN synced = DOMAIN logs
    BY <1>1, LogfileIsNat DEF SyncInv, Latest, Numbers, LogsTyped
  <2>3. /\ DOMAIN logs' = DOMAIN logs \cup {nextFile} /\ DOMAIN synced' = DOMAIN logs'
        /\ nextFile \notin DOMAIN logs
        /\ logs'[nextFile] = <<>> /\ synced'[nextFile] = 0
        /\ \A n \in DOMAIN logs : logs'[n] = logs[n] /\ synced'[n] = synced[n]
        /\ logs' = [n \in DOMAIN logs' |-> logs'[n]] /\ synced' = [n \in DOMAIN synced' |-> synced'[n]]
    BY <2>1, <2>2 DEF Over
  <2>4. LogsTyped'
    <3>1. ASSUME NEW n \in DOMAIN logs'
          PROVE  logs'[n] \in Seq(SUBSET Written) /\ synced'[n] \in Nat /\ synced'[n] <= Len(logs'[n])
      <4>1. CASE n = nextFile
        BY <2>3, <4>1
      <4>2. CASE n \in DOMAIN logs
        BY <2>3, <4>2 DEF SyncInv, LogsTyped
      <4> QED
        BY <2>3, <4>1, <4>2
    <3> QED
      BY <1>1, <2>3, <3>1 DEF SyncInv, LogsTyped
  <2>5. Bounded'
    <3>0. PICK b \in Nat : /\ DOMAIN logs \subseteq 0 .. b
                           /\ \A n \in DOMAIN logs : \A i \in 1 .. Len(logs[n]) :
                                \A e \in logs[n][i] : e.seq <= b
      BY DEF SyncInv, Bounded
    <3>1. /\ DOMAIN logs \subseteq 0 .. b
          /\ \A n \in DOMAIN logs : \A i \in 1 .. Len(logs[n]) :
               \A e \in logs[n][i] : e.seq <= b /\ e.seq \in Nat
      BY <3>0, RecordsTyped DEF SyncInv
    <3>2. DOMAIN logs' \subseteq 0 .. (b + nextFile)
      BY <2>2, <2>3, <3>1
    <3>3. ASSUME NEW n \in DOMAIN logs', NEW i \in 1 .. Len(logs'[n]), NEW e \in logs'[n][i]
          PROVE  e.seq <= b + nextFile
      BY <2>2, <2>3, <3>1, <3>3
    <3>4. b + nextFile \in Nat
      BY <2>2
    <3> QED
      BY <3>2, <3>3, <3>4 DEF Bounded
  <2>6. Numbers'
    BY <1>1, <2>1 DEF SyncInv, Numbers
  <2>7. Latest'
    <3>1. \A n \in DOMAIN logs' : n < nextFile'
      BY <2>1, <2>2, <2>3
    <3>2. \A m \in manifest : m.log <= logfile'
      BY <1>1, <2>1, <2>2 DEF SyncInv, Latest, Numbers
    <3>3. logNumber <= logfile' /\ (bg.at = "edit" => bg.edit.log <= logfile')
      BY <1>1, <2>1, <2>2 DEF SyncInv, Latest, Numbers
    <3>4. ASSUME NEW n \in DOMAIN logs', NEW i \in 1 .. Len(logs'[n]), NEW e \in logs'[n][i]
          PROVE  e.seq <= lastSeq
      BY <1>1, <2>3, <3>4 DEF SyncInv, Latest, HasRecord
    <3> QED
      BY <1>1, <2>1, <2>3, <3>1, <3>2, <3>3, <3>4 DEF Latest
  <2>8. \A n \in DOMAIN logs : n \in DOMAIN logs' /\ \A e : InSynced(n, e) => InSynced(n, e)'
    BY <2>3 DEF InSynced
  <2>9. EditOK' /\ \A m \in manifest : Covers(m.seq, m.log)'
    BY <1>1, <2>1, <2>2, <2>8, EditStays
  <2>10. Safe'
    <3>1. ASSUME NEW n \in DOMAIN logs', NEW i \in 1 .. Len(logs'[n]), NEW e \in logs'[n][i] \cap safe
          PROVE  InSynced(n, e)'
      <4>1. n \in DOMAIN logs
        BY <2>3, <3>1
      <4> QED
        BY <2>3, <2>8, <3>1, <4>1 DEF SyncInv, Safe
    <3> QED
      BY <1>1, <2>9, <3>1 DEF SyncInv, Safe, EditOK
  <2> QED
    BY <1>1, <1>2, <2>4, <2>5, <2>6, <2>7, <2>10 DEF SyncInv, SyncedSurvives
<1> QED
  BY <1>4, <1>5 DEF Lead

\* What the invariant says of a leader at work.
LEMMA LeaderAtWork ==
  ASSUME SyncInv, stage # "idle"
  PROVE  /\ up = "open" /\ group \in 1 .. Len(queue) /\ MayJoin(queue, group) /\ queue \in Seq(Writes)
         /\ lastSeq \in Nat /\ Cardinality(Joined(group)) \in Nat /\ logfile \in DOMAIN logs
         /\ SyncEntries \subseteq GroupEntries /\ GroupEntries \subseteq Written
         /\ \A e \in GroupEntries : lastSeq < e.seq /\ e.seq <= lastSeq + Cardinality(Joined(group))
<1>1. /\ up = "open" /\ group \in 1 .. Len(queue) /\ MayJoin(queue, group) /\ queue \in Seq(Writes)
      /\ lastSeq \in Nat /\ logfile \in DOMAIN logs
  BY DEF SyncInv, Leading, Latest, Numbers
<1> QED
  BY <1>1, GroupIsNew

\* The record is appended; its numbers are above those of every synced entry.
LEMMA AddRecordSync == ASSUME SyncInv, AddRecord PROVE SyncInv'
<1>1. /\ stage = "append" /\ logs' = [logs EXCEPT ![logfile] = Append(@, GroupEntries)]
      /\ stage' = IF queue[1].sync THEN "sync" ELSE "insert"
      /\ UNCHANGED <<synced, safe, truth, queue, group, logfile, lastSeq, up, manifest, logNumber,
                     nextFile, bg>>
  BY DEF AddRecord, memory_, files_, thread_, written_
<1>2. /\ up = "open" /\ group \in 1 .. Len(queue) /\ MayJoin(queue, group) /\ queue \in Seq(Writes)
      /\ lastSeq \in Nat /\ Cardinality(Joined(group)) \in Nat /\ logfile \in DOMAIN logs
      /\ GroupEntries \subseteq Written
      /\ \A e \in GroupEntries : lastSeq < e.seq /\ e.seq <= lastSeq + Cardinality(Joined(group))
  BY <1>1, LeaderAtWork
<1>3. logs[logfile] \in Seq(SUBSET Written)
  BY <1>2 DEF SyncInv, LogsTyped
<1>4. /\ DOMAIN logs' = DOMAIN logs
      /\ \A n \in DOMAIN logs : n # logfile => logs'[n] = logs[n]
      /\ logs'[logfile] = Append(logs[logfile], GroupEntries)
      /\ logs' = [n \in DOMAIN logs |-> logs'[n]]
  BY <1>1, <1>2 DEF SyncInv, LogsTyped
<1>5. /\ logs'[logfile] \in Seq(SUBSET Written) /\ Len(logs'[logfile]) = Len(logs[logfile]) + 1
      /\ \A i \in 1 .. Len(logs[logfile]) : logs'[logfile][i] = logs[logfile][i]
      /\ logs'[logfile][Len(logs[logfile]) + 1] = GroupEntries /\ Len(logs[logfile]) \in Nat
  BY <1>2, <1>3, <1>4
<1>6. ASSUME NEW n \in DOMAIN logs', NEW i \in 1 .. Len(logs'[n])
      PROVE  \/ i \in 1 .. Len(logs[n]) /\ logs'[n][i] = logs[n][i]
             \/ n = logfile /\ logs'[n][i] = GroupEntries
  BY <1>4, <1>5
<1>7. Joined(group)' = Joined(group) /\ GroupEntries' = GroupEntries
  BY <1>1, SameGroup
<1>8. LogsTyped'
  <2>1. \A n \in DOMAIN logs : /\ logs'[n] \in Seq(SUBSET Written)
                               /\ synced[n] \in Nat /\ synced[n] <= Len(logs'[n])
    <3>1. \A n \in DOMAIN logs : /\ logs[n] \in Seq(SUBSET Written)
                                 /\ synced[n] \in Nat /\ synced[n] <= Len(logs[n])
      BY DEF SyncInv, LogsTyped
    <3>2. synced[logfile] <= Len(logs'[logfile])
      BY <1>2, <1>5, <3>1
    <3> QED
      BY <1>4, <1>5, <3>1, <3>2
  <2> QED
    BY <1>1, <1>4, <2>1 DEF SyncInv, LogsTyped
<1>9. Bounded'
  <2>1. PICK b \in Nat : /\ DOMAIN logs \subseteq 0 .. b
                         /\ \A n \in DOMAIN logs : \A i \in 1 .. Len(logs[n]) : \A e \in logs[n][i] : e.seq <= b
    BY DEF SyncInv, Bounded
  <2>2. PICK c \in Nat : c = lastSeq + Cardinality(Joined(group))
    BY <1>2
  <2>3. ASSUME NEW n \in DOMAIN logs', NEW i \in 1 .. Len(logs'[n]), NEW e \in logs'[n][i]
        PROVE  e.seq <= b + c
    <3>1. CASE i \in 1 .. Len(logs[n]) /\ logs'[n][i] = logs[n][i]
      <4>1. e.seq <= b /\ e.seq \in Nat
        <5>1. n \in DOMAIN logs /\ i \in 1 .. Len(logs[n]) /\ e \in logs[n][i]
          BY <1>4, <3>1
        <5> QED
          BY <2>1, <5>1, RecordsTyped DEF SyncInv
      <4> QED
        BY <4>1
    <3>2. CASE logs'[n][i] = GroupEntries
      <4>1. e.seq <= c /\ e.seq \in Nat
        BY <1>2, <2>2, <3>2 DEF Written
      <4> QED
        BY <4>1
    <3> QED
      BY <1>6, <3>1, <3>2
  <2>4. DOMAIN logs' \subseteq 0 .. (b + c)
    BY <1>4, <2>1
  <2>5. PICK d \in Nat : d = b + c
    OBVIOUS
  <2> QED
    BY <2>3, <2>4, <2>5 DEF Bounded
<1>10. Numbers'
  BY <1>1 DEF SyncInv, Numbers
<1>11. Leading'
  <2>1. Len(logs[logfile]) + 1 \in 1 .. Len(logs'[logfile])
    BY <1>5
  <2>2. HasRecord' => \E i \in 1 .. Len(logs'[logfile]) : logs'[logfile][i] = GroupEntries
    BY <1>5, <2>1
  <2>3. stage' \in {"sync", "insert"} /\ (queue[1].sync => stage' = "sync")
    BY <1>1
  <2> QED
    BY <1>1, <1>2, <1>7, <2>2, <2>3 DEF Leading
<1>12. Latest'
  <2>1. ASSUME NEW n \in DOMAIN logs', NEW i \in 1 .. Len(logs'[n]), NEW e \in logs'[n][i]
        PROVE  e.seq <= lastSeq \/ (n = logfile /\ e.seq <= lastSeq + Cardinality(Joined(group)))
    <3>1. CASE i \in 1 .. Len(logs[n]) /\ logs'[n][i] = logs[n][i]
      BY <1>1, <1>2, <1>4, <3>1 DEF SyncInv, Latest, HasRecord
    <3>2. CASE n = logfile /\ logs'[n][i] = GroupEntries
      BY <1>2, <3>2
    <3> QED
      BY <1>6, <3>1, <3>2
  <2>2. HasRecord'
    BY <1>1 DEF HasRecord
  <2> QED
    BY <1>1, <1>2, <1>4, <1>7, <2>1, <2>2 DEF SyncInv, Latest
<1>13. \A n \in DOMAIN logs : n \in DOMAIN logs' /\ \A e : InSynced(n, e) => InSynced(n, e)'
  <2>1. ASSUME NEW n \in DOMAIN logs, NEW e, InSynced(n, e) PROVE InSynced(n, e)'
    <3>1. PICK i \in 1 .. synced[n] : e \in logs[n][i]
      BY <2>1 DEF InSynced
    <3>2. i \in 1 .. Len(logs[n])
      BY <3>1 DEF SyncInv, LogsTyped
    <3>3. logs'[n][i] = logs[n][i]
      BY <1>4, <1>5, <3>2
    <3> QED
      BY <1>1, <3>1, <3>3 DEF InSynced
  <2> QED
    BY <1>4, <2>1
<1>14. EditOK' /\ \A m \in manifest : Covers(m.seq, m.log)'
  BY <1>1, <1>2, <1>13, LogfileIsNat, EditStays
<1>15. Safe'
  <2>1. ASSUME NEW n \in DOMAIN logs', NEW i \in 1 .. Len(logs'[n]), NEW e \in logs'[n][i] \cap safe
        PROVE  InSynced(n, e)'
    <3>1. e \notin GroupEntries
      <4>1. e.seq <= lastSeq /\ e.seq \in Nat
        BY <1>2 DEF SyncInv, Safe, LogsTyped, Written
      <4> QED
        BY <1>2, <4>1
    <3>2. i \in 1 .. Len(logs[n]) /\ logs'[n][i] = logs[n][i] /\ n \in DOMAIN logs
      BY <1>4, <1>6, <3>1
    <3>3. InSynced(n, e)
      BY <3>2 DEF SyncInv, Safe
    <3> QED
      BY <1>13, <3>2, <3>3
  <2> QED
    BY <1>1, <1>14, <2>1 DEF SyncInv, Safe, EditOK
<1> QED
  BY <1>1, <1>8, <1>9, <1>10, <1>11, <1>12, <1>15 DEF SyncInv, SyncedSurvives

\* The log is synced.
LEMMA SyncSync == ASSUME SyncInv, Sync PROVE SyncInv'
<1>1. /\ stage = "sync" /\ synced' = [synced EXCEPT ![logfile] = Len(logs[logfile])] /\ stage' = "insert"
      /\ UNCHANGED <<logs, safe, truth, queue, group, logfile, lastSeq, up, manifest, logNumber,
                     nextFile, bg>>
  BY DEF Sync, memory_, files_, thread_, written_
<1>2. /\ up = "open" /\ logfile \in DOMAIN logs /\ logs[logfile] \in Seq(SUBSET Written)
  BY <1>1, LeaderAtWork DEF SyncInv, LogsTyped
<1>3. /\ synced' \in [DOMAIN logs -> Nat] /\ synced'[logfile] = Len(logs[logfile])
      /\ \A n \in DOMAIN logs : synced[n] <= synced'[n] /\ synced'[n] <= Len(logs[n]) /\ synced[n] \in Nat
  BY <1>1, <1>2 DEF SyncInv, LogsTyped
<1>4. Joined(group)' = Joined(group) /\ GroupEntries' = GroupEntries
  BY <1>1, SameGroup
<1>5. LogsTyped' /\ Bounded' /\ Numbers'
  BY <1>1, <1>3 DEF SyncInv, LogsTyped, Bounded, Numbers
<1>6. Leading' /\ Latest'
  BY <1>1, <1>2, <1>3, <1>4 DEF SyncInv, Leading, Latest, HasRecord
<1>7. \A n \in DOMAIN logs : \A e : InSynced(n, e) => InSynced(n, e)'
  <2>1. \A n \in DOMAIN logs : 1 .. synced[n] \subseteq 1 .. synced'[n]
    BY <1>3
  <2> QED
    BY <1>1, <2>1 DEF InSynced
<1>8. EditOK' /\ \A m \in manifest : Covers(m.seq, m.log)'
  BY <1>1, <1>2, <1>7, LogfileIsNat, EditStays
<1>9. Safe'
  BY <1>1, <1>7, <1>8 DEF SyncInv, Safe, EditOK
<1> QED
  BY <1>1, <1>5, <1>6, <1>9 DEF SyncInv, SyncedSurvives

LEMMA InsertIntoSync == ASSUME SyncInv, InsertInto PROVE SyncInv'
<1>1. /\ stage = "insert" /\ stage' = "publish"
      /\ UNCHANGED <<logs, synced, safe, truth, queue, group, logfile, lastSeq, up, manifest,
                     logNumber, nextFile, bg>>
  BY DEF InsertInto, disk_, files_, thread_, written_
<1>2. Joined(group)' = Joined(group) /\ GroupEntries' = GroupEntries
  BY <1>1, SameGroup
<1>3. Leading' /\ Latest' /\ lastSeq \in Nat
  BY <1>1, <1>2 DEF SyncInv, Leading, Latest, HasRecord, Numbers
<1> QED
  BY <1>1, <1>3, WriterFrame

\* The group returns, and its numbers are used up.
LEMMA ReturnSync ==
  ASSUME SyncInv, stage # "idle", Return, UNCHANGED <<logs, synced, logfile, up, manifest, logNumber, nextFile, bg>>
  PROVE  lastSeq' \in Nat /\ lastSeq' >= lastSeq /\ Leading' /\ Latest'
<1>1. /\ group \in 1 .. Len(queue) /\ queue \in Seq(Writes) /\ lastSeq \in Nat
      /\ Cardinality(Joined(group)) \in Nat
  BY LeaderAtWork
<1>2. /\ lastSeq' = lastSeq + Cardinality(Joined(group)) /\ stage' = "idle"
      /\ queue' = SubSeq(queue, group + 1, Len(queue))
  BY DEF Return
<1>3. lastSeq' \in Nat /\ lastSeq' >= lastSeq
  BY <1>1, <1>2
<1>4. queue' \in Seq(Writes)
  <2>1. \A i \in group + 1 .. Len(queue) : queue[i] \in Writes
    BY <1>1
  <2> QED
    BY <1>1, <1>2, <2>1, SubSeqProperties
<1>5. Leading'
  BY <1>2, <1>4 DEF Leading, HasRecord
<1>6. Latest'
  <2>1. ASSUME up = "open", NEW n \in DOMAIN logs, NEW i \in 1 .. Len(logs[n]), NEW e \in logs[n][i]
        PROVE  e.seq <= lastSeq'
    <3>1. e.seq <= lastSeq \/ e.seq <= lastSeq + Cardinality(Joined(group))
      BY <2>1 DEF SyncInv, Latest
    <3>2. e.seq \in Nat
      BY RecordsTyped DEF SyncInv
    <3> QED
      BY <1>1, <1>2, <3>1, <3>2
  <2> QED
    BY <2>1 DEF SyncInv, Latest
<1> QED
  BY <1>3, <1>5, <1>6

LEMMA WriteFailsSync == ASSUME SyncInv, WriteFails PROVE SyncInv'
<1>1. /\ stage \in {"append", "sync"} /\ Return
      /\ UNCHANGED <<logs, synced, safe, truth, logfile, up, manifest, logNumber, nextFile, bg>>
  BY DEF WriteFails, disk_, memory_, files_, thread_, written_
<1> QED
  BY <1>1, ReturnSync, WriterFrame

\* What a writer with sync is told is true: its record is in a log that is synced.
LEMMA PublishSync == ASSUME SyncInv, Publish PROVE SyncInv'
<1>1. /\ stage = "publish" /\ Return /\ truth' = truth \cup GroupEntries /\ safe' = safe \cup SyncEntries
      /\ UNCHANGED <<logs, synced, logfile, up, manifest, logNumber, nextFile, bg>>
  BY DEF Publish, disk_, memory_, files_, thread_
<1>2. lastSeq' \in Nat /\ lastSeq' >= lastSeq /\ Leading' /\ Latest'
  BY <1>1, ReturnSync
<1>3. /\ up = "open" /\ group \in 1 .. Len(queue) /\ MayJoin(queue, group)
      /\ lastSeq \in Nat /\ Cardinality(Joined(group)) \in Nat /\ logfile \in DOMAIN logs
      /\ SyncEntries \subseteq GroupEntries /\ GroupEntries \subseteq Written
      /\ \A e \in GroupEntries : lastSeq < e.seq /\ e.seq <= lastSeq + Cardinality(Joined(group))
  BY <1>1, LeaderAtWork
<1>4. lastSeq' = lastSeq + Cardinality(Joined(group))
  BY <1>1 DEF Return
<1>5. ASSUME NEW e \in SyncEntries PROVE InSynced(logfile, e)
  <2>1. PICK o \in Joined(group) : queue[o[1]].sync
    BY DEF SyncEntries
  <2>2. o[1] \in 1 .. group
    BY DEF Joined
  <2>3. queue[1].sync
    BY <1>3, <2>1, <2>2 DEF MayJoin
  <2>4. synced[logfile] = Len(logs[logfile])
    BY <1>1, <2>3 DEF SyncInv, Leading
  <2>5. PICK i \in 1 .. Len(logs[logfile]) : logs[logfile][i] = GroupEntries
    BY <1>1 DEF SyncInv, Leading, HasRecord
  <2> QED
    BY <1>3, <2>4, <2>5 DEF InSynced
<1>6. \A n, e : InSynced(n, e)' = InSynced(n, e)
  BY <1>1 DEF InSynced
<1>7. LogsTyped' /\ Bounded' /\ Numbers' /\ SyncedSurvives'
  BY <1>1, <1>2, <1>3 DEF SyncInv, LogsTyped, Bounded, Numbers, SyncedSurvives
<1>8. \A e \in safe' : e.seq <= lastSeq'
  <2>1. \A e \in safe : e.seq <= lastSeq /\ e.seq \in Nat
    BY <1>3 DEF SyncInv, Safe, LogsTyped, Written
  <2> QED
    BY <1>1, <1>2, <1>3, <1>4, <2>1
<1>9. ASSUME NEW n \in DOMAIN logs, NEW i \in 1 .. Len(logs[n]), NEW e \in logs[n][i], e \in safe'
      PROVE  InSynced(n, e)
  <2>1. CASE e \in safe
    BY <2>1 DEF SyncInv, Safe
  <2>2. CASE e \in SyncEntries
    <3>1. lastSeq < e.seq /\ e.seq \in Nat
      BY <1>3, <2>2 DEF Written
    <3>2. n = logfile
      BY <1>3, <3>1 DEF SyncInv, Latest
    <3> QED
      BY <1>5, <2>2, <3>2
  <2> QED
    BY <1>1, <1>9, <2>1, <2>2
<1>10. ASSUME NEW seq, NEW log, Covers(seq, log), logfile >= log PROVE Covers(seq, log)'
  BY <1>1, <1>3, <1>5, <1>6, <1>10 DEF Covers
<1>11. \A m \in manifest : Covers(m.seq, m.log)'
  <2>1. \A m \in manifest : Covers(m.seq, m.log) /\ logfile >= m.log
    BY <1>3, LogfileIsNat DEF SyncInv, Safe, Latest, Numbers
  <2> QED
    BY <1>10, <2>1
<1>12. ASSUME bg.at = "edit" PROVE Covers(bg.edit.seq, bg.edit.log)'
  <2>1. Covers(bg.edit.seq, bg.edit.log) /\ logfile >= bg.edit.log
    BY <1>3, <1>12, LogfileIsNat DEF SyncInv, Safe, Latest, Numbers
  <2> QED
    BY <1>1, <1>3, <1>5, <1>6, <2>1 DEF Covers
<1>13. Safe'
  BY <1>1, <1>6, <1>8, <1>9, <1>11, <1>12 DEF Safe
<1> QED
  BY <1>2, <1>7, <1>13 DEF SyncInv

-----------------------------------------------------------------------------
(* The manifest, crashes and recovery.                                     *)

\* Logs are deleted that the new manifest does not need.
LEMMA InstallSync == ASSUME TablesInv, SyncInv, Install PROVE SyncInv'
<1>1. /\ bg.at = "edit" /\ manifest' = {Recorded(m, bg.edit) : m \in manifest} /\ logNumber' = bg.edit.log
      /\ UNCHANGED <<safe, truth, queue, stage, group, logfile, lastSeq, up, nextFile>>
      /\ \/ UNCHANGED <<logs, synced>>
         \/ /\ logs' = Restrict(logs, {n \in DOMAIN logs : n >= logNumber'})
            /\ synced' = Restrict(synced, {n \in DOMAIN logs : n >= logNumber'})
  BY DEF Install, DeleteObsoleteFiles, writers_, readers_, written_
<1>2. bg'.at # "edit"
  <2>1. bg \in ThreadRecord
    BY DEF TablesInv, ThreadInv
  <2>2. bg' = [bg EXCEPT !.at = "merge", !.file = 0, !.edit = None] \/ bg' = Idle
    BY DEF Install, EndCall
  <2>3. ASSUME bg' = [bg EXCEPT !.at = "merge", !.file = 0, !.edit = None] PROVE bg'.at = "merge"
    BY <2>1, <2>3 DEF ThreadRecord
  <2> QED
    BY <2>2, <2>3 DEF Idle
<1>3. \A m \in manifest' : m.log = bg.edit.log /\ m.seq = bg.edit.seq /\ m.next = bg.edit.next
  BY <1>1 DEF Recorded
<1>4. /\ up = "open" /\ logfile \in DOMAIN logs /\ DOMAIN logs \subseteq Nat
      /\ bg.edit.log \in Nat /\ bg.edit.seq \in Nat /\ bg.edit.next \in Nat /\ bg.edit.log <= logfile
      /\ Covers(bg.edit.seq, bg.edit.log)
  <2>1. up = "open"
    BY <1>1 DEF TablesInv, Idle
  <2> QED
    BY <1>1, <2>1, LogfileIsNat DEF SyncInv, Latest, Numbers, Safe
<1>5. /\ DOMAIN logs' \subseteq DOMAIN logs /\ DOMAIN synced' = DOMAIN logs'
      /\ \A n \in DOMAIN logs' : logs'[n] = logs[n] /\ synced'[n] = synced[n]
      /\ \A n \in DOMAIN logs : n >= bg.edit.log => n \in DOMAIN logs'
      /\ logs' = [n \in DOMAIN logs' |-> logs'[n]] /\ synced' = [n \in DOMAIN logs' |-> synced'[n]]
  <2>1. DOMAIN synced = DOMAIN logs /\ logs = [n \in DOMAIN logs |-> logs[n]]
        /\ synced = [n \in DOMAIN logs |-> synced[n]]
    BY DEF SyncInv, LogsTyped
  <2>2. CASE UNCHANGED <<logs, synced>>
    BY <2>1, <2>2
  <2>3. CASE /\ logs' = Restrict(logs, {n \in DOMAIN logs : n >= logNumber'})
             /\ synced' = Restrict(synced, {n \in DOMAIN logs : n >= logNumber'})
    BY <1>1, <2>1, <2>3 DEF Restrict
  <2> QED
    BY <1>1, <2>2, <2>3
<1>6. logfile \in DOMAIN logs'
  BY <1>4, <1>5
<1>7. Joined(group)' = Joined(group) /\ GroupEntries' = GroupEntries
  BY <1>1, SameGroup
<1>8. LogsTyped' /\ SyncedSurvives'
  BY <1>1, <1>5 DEF SyncInv, LogsTyped, SyncedSurvives
<1>9. Bounded'
  BY <1>5 DEF SyncInv, Bounded
<1>10. Numbers'
  BY <1>1, <1>2, <1>3, <1>4 DEF SyncInv, Numbers
<1>11. Leading'
  BY <1>1, <1>5, <1>6, <1>7 DEF SyncInv, Leading, HasRecord
<1>12. Latest'
  BY <1>1, <1>2, <1>3, <1>4, <1>5, <1>6, <1>7 DEF SyncInv, Latest, HasRecord
<1>13. \A n \in DOMAIN logs' : \A e : InSynced(n, e) <=> InSynced(n, e)'
  BY <1>5 DEF InSynced
<1>14. \A m \in manifest' : Covers(m.seq, m.log)'
  <2>1. \A e \in safe : e.seq <= bg.edit.seq \/ \E n \in DOMAIN logs' : n >= bg.edit.log /\ InSynced(n, e)'
    BY <1>4, <1>5, <1>13 DEF Covers
  <2> QED
    BY <1>1, <1>3, <2>1 DEF Covers
<1>15. Safe'
  BY <1>1, <1>2, <1>5, <1>13, <1>14 DEF SyncInv, Safe
<1> QED
  BY <1>8, <1>9, <1>10, <1>11, <1>12, <1>15 DEF SyncInv

\* After an error both states are there, and no log is deleted.
LEMMA InstallFailsSync == ASSUME TablesInv, SyncInv, InstallFails PROVE SyncInv'
<1>1. /\ bg.at = "edit" /\ manifest' = manifest \cup {Recorded(m, bg.edit) : m \in manifest}
      /\ UNCHANGED <<logs, synced, safe, truth, queue, stage, group, logfile, lastSeq, up, nextFile, logNumber>>
  BY DEF InstallFails, DeleteObsoleteFiles, CannotTell, writers_, memory_, files_, written_
<1>2. bg'.at # "edit"
  <2>1. bg \in ThreadRecord
    BY DEF TablesInv, ThreadInv
  <2>2. bg' = [bg EXCEPT !.at = "merge", !.file = 0, !.edit = None] \/ bg' = Idle
    BY DEF InstallFails, EndCall
  <2>3. ASSUME bg' = [bg EXCEPT !.at = "merge", !.file = 0, !.edit = None] PROVE bg'.at = "merge"
    BY <2>1, <2>3 DEF ThreadRecord
  <2> QED
    BY <2>2, <2>3 DEF Idle
<1>3. \A m \in manifest' : m \in manifest \/ (m.log = bg.edit.log /\ m.seq = bg.edit.seq /\ m.next = bg.edit.next)
  BY <1>1 DEF Recorded
<1>4. up = "open"
  BY <1>1 DEF TablesInv, Idle
<1>5. Joined(group)' = Joined(group) /\ GroupEntries' = GroupEntries
  BY <1>1, SameGroup
<1>6. LogsTyped' /\ SyncedSurvives' /\ Bounded'
  BY <1>1 DEF SyncInv, LogsTyped, SyncedSurvives, Bounded
<1>7. Numbers'
  BY <1>1, <1>2, <1>3 DEF SyncInv, Numbers
<1>8. Leading'
  BY <1>1, <1>5 DEF SyncInv, Leading, HasRecord
<1>9. Latest'
  BY <1>1, <1>2, <1>3, <1>4, <1>5 DEF SyncInv, Latest, HasRecord
<1>10. \A m \in manifest' : Covers(m.seq, m.log)
  BY <1>1, <1>3 DEF SyncInv, Safe
<1>11. Safe'
  BY <1>1, <1>2, <1>10 DEF SyncInv, Safe, Covers, InSynced
<1> QED
  BY <1>6, <1>7, <1>8, <1>9, <1>11 DEF SyncInv

\* A crash takes no more than what was not synced.
LEMMA CrashSync == ASSUME TablesInv, SyncInv, Crash PROVE SyncInv'
<1>1. PICK m \in manifest \cup (IF bg.at = "edit" THEN {Recorded(d, bg.edit) : d \in manifest} ELSE {}) :
      \E kept \in [DOMAIN logs -> 0 .. Max({Len(logs[n]) : n \in DOMAIN logs})] :
       /\ \/ \A n \in DOMAIN logs : kept[n] = Len(logs[n])
          \/ \A n \in DOMAIN logs : kept[n] \in synced[n] .. Len(logs[n])
       /\ manifest' = {m}
       /\ logs' = [n \in DOMAIN logs |-> SubSeq(logs[n], 1, kept[n])]
       /\ LET there == Logged(logs', m.log) \cup Entries(tables, DOMAIN m.version)
          IN truth' = (truth \ (Logged(logs, m.log) \ there)) \cup Logged(logs', m.log)
  BY DEF Crash
<1>2. PICK kept :
       /\ \/ \A n \in DOMAIN logs : kept[n] = Len(logs[n])
          \/ \A n \in DOMAIN logs : kept[n] \in synced[n] .. Len(logs[n])
       /\ manifest' = {m}
       /\ logs' = [n \in DOMAIN logs |-> SubSeq(logs[n], 1, kept[n])]
       /\ LET there == Logged(logs', m.log) \cup Entries(tables, DOMAIN m.version)
          IN truth' = (truth \ (Logged(logs, m.log) \ there)) \cup Logged(logs', m.log)
  BY <1>1
<1>3. /\ synced' = [n \in DOMAIN logs |-> Len(logs'[n])] /\ up' = "closed" /\ queue' = <<>>
      /\ stage' = "idle" /\ bg' = Idle /\ UNCHANGED <<lastSeq, nextFile, logNumber, safe>>
  BY DEF Crash
<1>4. \A n \in DOMAIN logs : /\ logs[n] \in Seq(SUBSET Written) /\ synced[n] \in Nat /\ kept[n] \in Nat
                             /\ synced[n] <= kept[n] /\ kept[n] <= Len(logs[n])
  BY <1>2 DEF SyncInv, LogsTyped
<1>5. /\ DOMAIN logs' = DOMAIN logs /\ logs' = [n \in DOMAIN logs |-> logs'[n]]
      /\ \A n \in DOMAIN logs : /\ logs'[n] \in Seq(SUBSET Written) /\ Len(logs'[n]) = kept[n]
                                /\ \A i \in 1 .. kept[n] : logs'[n][i] = logs[n][i]
  <2>1. ASSUME NEW n \in DOMAIN logs
        PROVE  /\ logs'[n] \in Seq(SUBSET Written) /\ Len(logs'[n]) = kept[n]
               /\ \A i \in 1 .. kept[n] : logs'[n][i] = logs[n][i]
    <3>1. logs'[n] = SubSeq(logs[n], 1, kept[n])
      BY <1>2
    <3>2. \A i \in 1 .. kept[n] : logs[n][i] \in SUBSET Written
      BY <1>4
    <3> QED
      BY <1>4, <3>1, <3>2, SubSeqProperties
  <2> QED
    BY <1>2, <2>1
<1>6. /\ m.seq \in Nat /\ m.log \in Nat /\ m.next \in Nat /\ Covers(m.seq, m.log)
  <2>1. CASE m \in manifest
    BY <2>1 DEF SyncInv, Numbers, Safe
  <2>2. CASE bg.at = "edit" /\ m \in {Recorded(d, bg.edit) : d \in manifest}
    BY <2>2 DEF SyncInv, Numbers, Safe, Recorded
  <2> QED
    BY <2>1, <2>2
<1>7. \A n \in DOMAIN logs : \A e : InSynced(n, e) => InSynced(n, e)'
  <2>1. ASSUME NEW n \in DOMAIN logs, NEW e, InSynced(n, e) PROVE InSynced(n, e)'
    <3>1. PICK i \in 1 .. synced[n] : e \in logs[n][i]
      BY <2>1 DEF InSynced
    <3>2. i \in 1 .. kept[n]
      BY <1>4, <3>1
    <3>3. e \in logs'[n][i] /\ i \in 1 .. synced'[n]
      BY <1>3, <1>5, <3>1, <3>2
    <3> QED
      BY <3>3 DEF InSynced
  <2> QED
    BY <2>1
<1>8. LogsTyped'
  BY <1>3, <1>5 DEF SyncInv, LogsTyped
<1>9. Bounded'
  <2>1. \A n \in DOMAIN logs : 1 .. Len(logs'[n]) \subseteq 1 .. Len(logs[n])
    BY <1>4, <1>5
  <2>2. \A n \in DOMAIN logs : \A i \in 1 .. Len(logs'[n]) : logs'[n][i] = logs[n][i]
    BY <1>5
  <2> QED
    BY <1>5, <2>1, <2>2 DEF SyncInv, Bounded
<1>10. Numbers' /\ Leading' /\ Latest'
  <2>1. bg'.at # "edit" /\ queue' \in Seq(Writes)
    BY <1>3 DEF Idle
  <2> QED
    BY <1>2, <1>3, <1>6, <2>1 DEF SyncInv, Numbers, Leading, Latest, HasRecord
<1>11. Covers(m.seq, m.log)'
  BY <1>3, <1>5, <1>6, <1>7 DEF Covers
<1>12. \A n \in DOMAIN logs' : \A i \in 1 .. Len(logs'[n]) : \A e \in logs'[n][i] : InSynced(n, e)'
  BY <1>3, <1>5 DEF InSynced
<1>13. Safe'
  BY <1>2, <1>3, <1>11, <1>12 DEF Safe, Idle
<1>14. SyncedSurvives'
  <2>1. ASSUME NEW e \in safe, e \in Logged(logs, m.log) PROVE e \in Logged(logs', m.log)
    <3>1. PICK n \in DOMAIN logs : n >= m.log /\ e \in UNION ToSet(logs[n])
      BY <2>1 DEF Logged
    <3>2. PICK i \in 1 .. Len(logs[n]) : e \in logs[n][i]
      BY <1>4, <3>1 DEF ToSet
    <3>3. InSynced(n, e)'
      BY <1>7, <3>2 DEF SyncInv, Safe
    <3>4. PICK j \in 1 .. Len(logs'[n]) : e \in logs'[n][j]
      BY <1>3, <3>3 DEF InSynced
    <3>5. e \in UNION ToSet(logs'[n])
      BY <1>5, <3>4 DEF ToSet
    <3> QED
      BY <1>5, <3>1, <3>5 DEF Logged
  <2> QED
    BY <1>2, <1>3, <2>1 DEF SyncInv, SyncedSurvives
<1> QED
  BY <1>8, <1>9, <1>10, <1>13, <1>14 DEF SyncInv

\* Recovery finds the number of every synced entry, in the manifest or in the logs.
LEMMA RecoverLogsSync == ASSUME TablesInv, SyncInv, RecoverLogs PROVE SyncInv'
<1>1. /\ up = "closed" /\ up' = "replayed"
      /\ UNCHANGED <<logs, synced, manifest, queue, stage, group, logNumber, bg, truth, safe>>
      /\ \E m \in manifest : /\ lastSeq' = RecoveredSequence(m)
                             /\ \E old \in SUBSET DOMAIN logs :
                                  nextFile' = Max({m.next + Cardinality(old) + 1}
                                                    \cup {n + 1 : n \in {i \in DOMAIN logs : i >= m.log}})
  BY DEF RecoverLogs, writers_, thread_, written_
<1>2. PICK m \in manifest :
        /\ lastSeq' = RecoveredSequence(m)
        /\ \E old \in SUBSET DOMAIN logs :
             nextFile' = Max({m.next + Cardinality(old) + 1}
                               \cup {n + 1 : n \in {i \in DOMAIN logs : i >= m.log}})
  BY <1>1
<1>3. PICK old \in SUBSET DOMAIN logs :
        nextFile' = Max({m.next + Cardinality(old) + 1} \cup {n + 1 : n \in {i \in DOMAIN logs : i >= m.log}})
  BY <1>2
<1>4. PICK b \in Nat : /\ DOMAIN logs \subseteq 0 .. b
                       /\ \A n \in DOMAIN logs : \A i \in 1 .. Len(logs[n]) : \A e \in logs[n][i] : e.seq <= b
  BY DEF SyncInv, Bounded
<1>5. m.seq \in Nat /\ m.next \in Nat /\ Covers(m.seq, m.log)
  BY DEF SyncInv, Numbers, Safe
<1>6. \A e \in Logged(logs, m.log) : e.seq \in 0 .. b
  <2>1. ASSUME NEW e \in Logged(logs, m.log) PROVE e.seq \in 0 .. b
    <3>1. PICK n \in DOMAIN logs : e \in UNION ToSet(logs[n])
      BY DEF Logged
    <3>2. logs[n] \in Seq(SUBSET Written)
      BY DEF SyncInv, LogsTyped
    <3>3. PICK i \in 1 .. Len(logs[n]) : e \in logs[n][i]
      BY <3>1, <3>2 DEF ToSet
    <3>4. e.seq <= b /\ e.seq \in Nat
      BY <1>4, <3>3, RecordsTyped DEF SyncInv
    <3> QED
      BY <3>4
  <2> QED
    BY <2>1
<1>7. /\ lastSeq' \in Nat /\ m.seq <= lastSeq'
      /\ \A e \in Logged(logs, m.log) : e.seq <= lastSeq'
  <2> DEFINE S == {m.seq} \cup {e.seq : e \in Logged(logs, m.log)}
  <2>1. lastSeq' = Max(S)
    BY <1>2 DEF RecoveredSequence
  <2>2. PICK c \in Nat : c = b + m.seq
    BY <1>5
  <2>3. S \subseteq 0 .. c /\ S # {}
    BY <1>5, <1>6, <2>2
  <2>4. m.seq \in S /\ \A e \in Logged(logs, m.log) : e.seq \in S
    OBVIOUS
  <2> HIDE DEF S
  <2>5. PICK x \in S : x = Max(S) /\ \A y \in S : y <= x
    <3>1. Max(S) \in S /\ \A y \in S : y <= Max(S)
      BY <2>3, MaxIsGreatest
    <3> QED
      BY <3>1
  <2>6. x \in Nat /\ m.seq <= x /\ \A e \in Logged(logs, m.log) : e.seq <= x
    <3>1. x \in Nat
      BY <2>3, <2>5
    <3>2. m.seq <= x
      BY <2>4, <2>5
    <3>3. ASSUME NEW e \in Logged(logs, m.log) PROVE e.seq <= x
      BY <2>4, <2>5
    <3> QED
      BY <3>1, <3>2, <3>3
  <2>7. lastSeq' = x
    BY <2>1, <2>5
  <2> QED
    BY <2>6, <2>7
<1>8. nextFile' \in Nat
  <2> DEFINE S == {m.next + Cardinality(old) + 1} \cup {n + 1 : n \in {i \in DOMAIN logs : i >= m.log}}
  <2>1. Cardinality(old) \in Nat
    <3>1. IsFiniteSet(0 .. b)
      BY FS_Interval
    <3>2. IsFiniteSet(old)
      BY <1>4, <3>1, FS_Subset
    <3> QED
      BY <3>2, FS_CardinalityType
  <2>2. PICK k \in Nat : k = m.next + Cardinality(old) + 1
    BY <1>5, <2>1
  <2>3. PICK c \in Nat : c = b + 1 + k
    BY <2>2
  <2>4. S \subseteq 0 .. c /\ S # {}
    BY <1>4, <2>2, <2>3
  <2>5. nextFile' = Max(S)
    BY <1>3
  <2> HIDE DEF S
  <2>6. PICK x \in S : x = Max(S)
    <3>1. Max(S) \in S
      BY <2>4, MaxIsGreatest
    <3> QED
      BY <3>1
  <2>7. x \in Nat
    BY <2>4, <2>6
  <2> QED
    BY <2>5, <2>6, <2>7
<1>9. stage = "idle" /\ bg.at # "edit"
  BY <1>1 DEF SyncInv, Leading, TablesInv, Idle
<1>10. LogsTyped' /\ Bounded' /\ Numbers' /\ Leading' /\ Latest' /\ SyncedSurvives'
  BY <1>1, <1>7, <1>8, <1>9
     DEF SyncInv, LogsTyped, Bounded, Numbers, Leading, Latest, HasRecord, SyncedSurvives
<1>11. \A e \in safe : e.seq <= lastSeq'
  <2>1. ASSUME NEW e \in safe PROVE e.seq <= lastSeq'
    <3>1. CASE e.seq <= m.seq
      <4>1. e.seq \in Nat
        BY DEF SyncInv, LogsTyped, Written
      <4> QED
        BY <1>5, <1>7, <3>1, <4>1
    <3>2. CASE \E n \in DOMAIN logs : n >= m.log /\ InSynced(n, e)
      <4>1. PICK n \in DOMAIN logs : n >= m.log /\ InSynced(n, e)
        BY <3>2
      <4>2. PICK i \in 1 .. synced[n] : e \in logs[n][i]
        BY <4>1 DEF InSynced
      <4>3. logs[n] \in Seq(SUBSET Written) /\ synced[n] \in Nat /\ synced[n] <= Len(logs[n])
        BY DEF SyncInv, LogsTyped
      <4>4. i \in 1 .. Len(logs[n])
        BY <4>2, <4>3
      <4>5. e \in UNION ToSet(logs[n])
        BY <4>2, <4>3, <4>4 DEF ToSet
      <4>6. e \in Logged(logs, m.log)
        BY <4>1, <4>5 DEF Logged
      <4> QED
        BY <1>7, <4>6
    <3> QED
      BY <1>5, <3>1, <3>2 DEF Covers
  <2> QED
    BY <2>1
<1>12. Safe'
  BY <1>1, <1>9, <1>11 DEF SyncInv, Safe, Covers, InSynced
<1> QED
  BY <1>10, <1>12 DEF SyncInv

\* The new manifest's number covers all, and the old logs go.
LEMMA OpenSync == ASSUME TablesInv, SyncInv, Open PROVE SyncInv'
<1>1. /\ up = "replayed" /\ up' = "open" /\ logfile' = nextFile /\ logNumber' = nextFile
      /\ nextFile' = nextFile + 1
      /\ manifest' = {[version |-> version, log |-> nextFile, next |-> nextFile + 1, seq |-> lastSeq]}
      /\ logs' = [n \in {nextFile} |-> <<>>] /\ synced' = [n \in {nextFile} |-> 0]
      /\ UNCHANGED <<queue, stage, group, lastSeq, bg, truth, safe>>
  BY DEF Open, writers_, written_
<1>2. nextFile \in Nat /\ lastSeq \in Nat /\ stage = "idle" /\ bg.at # "edit"
  BY <1>1 DEF SyncInv, Numbers, Leading, TablesInv, Idle
<1>3. /\ DOMAIN logs' = {nextFile} /\ logs'[nextFile] = <<>> /\ synced'[nextFile] = 0
      /\ logs' \in [{nextFile} -> Seq(SUBSET Written)] /\ synced' \in [{nextFile} -> Nat]
  BY <1>1
<1>4. \A m \in manifest' : m.seq = lastSeq /\ m.log = nextFile /\ m.next = nextFile + 1
  BY <1>1
<1>5. LogsTyped' /\ SyncedSurvives'
  BY <1>1, <1>3 DEF SyncInv, LogsTyped, SyncedSurvives
<1>6. Bounded'
  BY <1>2, <1>3 DEF Bounded
<1>7. Numbers'
  BY <1>1, <1>2, <1>4 DEF Numbers
<1>8. Leading'
  BY <1>1, <1>2 DEF SyncInv, Leading, HasRecord
<1>9. Latest'
  BY <1>1, <1>2, <1>3, <1>4 DEF Latest
<1>10. \A e \in safe : e.seq <= lastSeq
  BY <1>1 DEF SyncInv, Safe
<1>11. Safe'
  BY <1>1, <1>2, <1>3, <1>4, <1>10 DEF Safe, Covers
<1> QED
  BY <1>5, <1>6, <1>7, <1>8, <1>9, <1>11 DEF SyncInv

-----------------------------------------------------------------------------
\* Init establishes the invariant.
LEMMA SyncInit == ASSUME Init PROVE SyncInv
<1>1. /\ logs = [n \in {1} |-> <<>>] /\ synced = [n \in {1} |-> 0]
      /\ manifest = {[version |-> NoFiles, log |-> 1, next |-> 2, seq |-> 0]}
      /\ up = "open" /\ queue = <<>> /\ stage = "idle" /\ logfile = 1 /\ lastSeq = 0 /\ nextFile = 2
      /\ logNumber = 1 /\ bg = Idle /\ truth = {} /\ safe = {}
  BY DEF Init
<1>2. DOMAIN logs = {1} /\ logs[1] = <<>> /\ \A m \in manifest : m.log = 1 /\ m.next = 2 /\ m.seq = 0
  BY <1>1
<1>3. bg.at # "edit"
  BY <1>1 DEF Idle
<1>4. LogsTyped /\ SyncedSurvives
  BY <1>1 DEF LogsTyped, SyncedSurvives
<1>5. Bounded
  BY <1>2 DEF Bounded
<1>6. Numbers /\ Leading /\ Latest /\ Safe
  BY <1>1, <1>2, <1>3 DEF Numbers, Leading, HasRecord, Latest, Safe, Covers
<1> QED
  BY <1>4, <1>5, <1>6 DEF SyncInv

\* Every step preserves it.
LEMMA SyncStep == ASSUME TablesInv, SyncInv, [Next]_vars PROVE SyncInv'
<1>1. CASE UNCHANGED vars
  BY <1>1, OthersSync
<1>2. CASE Next
  BY <1>2, WriteSync, LeadSync, LeadFailsSync, AddRecordSync, SyncSync, InsertIntoSync, PublishSync,
     WriteFailsSync, BeginFlushSync, BuildTableSync, BeginCompactionSync, WriteOutputSync, MergeSync,
     InstallSync, InstallFailsSync, CrashSync, RecoverLogsSync, OpenSync, OthersSync DEF Next
<1> QED
  BY <1>1, <1>2

-----------------------------------------------------------------------------
(* The theorems.                                                           *)

\* The invariants hold together: files are numbered for what is written, and kept for
\* what is read.
LEMMA FilesAndLogs == Spec => [](TablesInv /\ OutputsHeld /\ SyncInv)
<1>1. Init => TablesInv /\ OutputsHeld /\ SyncInv
  BY TablesInit, SyncInit DEF Init, OutputsHeld, Idle
<1>2. TablesInv /\ OutputsHeld /\ SyncInv /\ [Next]_vars => (TablesInv /\ OutputsHeld /\ SyncInv)'
  BY TablesStep, OutputsStep, SyncStep DEF SyncInv, Numbers
<1> QED
  BY <1>1, <1>2, PTL DEF Spec

\* No table somebody may still read is deleted, nor one a compaction has written,
\* however flushes, compactions, failed calls, iterators and crashes interleave:
\* DBImpl::DeleteObsoleteFiles.
THEOREM NeededTables == Spec => []NeededTablesExist
<1>1. TablesInv /\ OutputsHeld => NeededTablesExist
  BY DEF TablesInv, ThreadInv, OutputsHeld, NeededTablesExist
<1> QED
  BY <1>1, FilesAndLogs, PTL

\* What was written with sync outlives every crash, whatever joins of writers,
\* flushes, compactions, failed calls and interrupted recoveries came before:
\* DBImpl::Write, DBImpl::Recover.
THEOREM SyncedWritesSurvive == Spec => []SyncedSurvives
<1>1. SyncInv => SyncedSurvives
  BY DEF SyncInv
<1> QED
  BY <1>1, FilesAndLogs, PTL

-----------------------------------------------------------------------------
(* The queue's operations.                                                 *)

\* The operations of the first n writers of a queue q.
Ops(q, n) == {o \in (1 .. n) \X Sequence : o[2] <= Len(q[o[1]].batch)}

\* There are finitely many, and the more writers the more.
LEMMA OpsFinite ==
  ASSUME NEW q, NEW n \in Nat
  PROVE  /\ IsFiniteSet(Ops(q, n)) /\ Cardinality(Ops(q, n)) \in Nat
         /\ \A m \in 0 .. n : Ops(q, m) \subseteq Ops(q, n) /\ Cardinality(Ops(q, m)) <= Cardinality(Ops(q, n))
<1>1. IsFiniteSet((1 .. n) \X Sequence)
  <2>1. IsFiniteSet(1 .. n)
    BY FS_Interval
  <2>2. IsFiniteSet(Sequence)
    BY LevelsAssumption, FS_Interval DEF Sequence
  <2> QED
    BY <2>1, <2>2, FS_Product, Zenon
<1>2. IsFiniteSet(Ops(q, n))
  BY <1>1, FS_Subset DEF Ops
<1>3. ASSUME NEW m \in 0 .. n
      PROVE  Ops(q, m) \subseteq Ops(q, n) /\ Cardinality(Ops(q, m)) <= Cardinality(Ops(q, n))
  <2>1. 1 .. m \subseteq 1 .. n
    OBVIOUS
  <2>2. Ops(q, m) \subseteq Ops(q, n)
    BY <2>1 DEF Ops
  <2> QED
    BY <1>2, <2>2, FS_Subset
<1> QED
  BY <1>2, <1>3, FS_CardinalityType

\* A writer at the end of the queue adds those of its batch.
LEMMA OpsAppended ==
  ASSUME NEW q \in Seq(Writes), NEW w \in Writes
  PROVE  /\ Len(Append(q, w)) \in Nat /\ Len(w.batch) \in Nat
         /\ Cardinality(Ops(Append(q, w), Len(Append(q, w)))) <= Cardinality(Ops(q, Len(q))) + Len(w.batch)
<1> DEFINE n    == Len(q)
           p    == Append(q, w)
           J    == {j \in Sequence : j <= Len(w.batch)}
           last == [j \in J |-> <<n + 1, j>>]
           L    == {last[j] : j \in J}
<1>1. n \in Nat /\ Len(p) = n + 1 /\ p[n + 1] = w /\ \A i \in 1 .. n : p[i] = q[i]
  OBVIOUS
<1>2. Len(w.batch) \in Nat
  BY WritesAssumption
<1>3. IsFiniteSet(J) /\ Cardinality(J) <= Len(w.batch) /\ Cardinality(J) \in Nat
  <2>1. IsFiniteSet(1 .. Len(w.batch)) /\ Cardinality(1 .. Len(w.batch)) = Len(w.batch)
    <3>1. \A k \in Nat : IsFiniteSet(1 .. k) /\ Cardinality(1 .. k) = k
      BY FS_Interval
    <3> QED
      BY <1>2, <3>1, Zenon
  <2>2. J \subseteq 1 .. Len(w.batch)
    BY <1>2 DEF Sequence
  <2> HIDE DEF J
  <2> QED
    BY <2>1, <2>2, FS_Subset, FS_CardinalityType
<1>4. IsFiniteSet(L) /\ Cardinality(L) <= Cardinality(J) /\ Cardinality(L) \in Nat
  <2>1. last \in Surjection(J, L)
    BY DEF Surjection
  <2> HIDE DEF last, L, J
  <2> QED
    BY <1>3, <2>1, FS_Surjection, FS_CardinalityType
<1>5. Ops(p, n + 1) = Ops(q, n) \cup L
  <2>1. ASSUME NEW o \in Ops(p, n + 1) PROVE o \in Ops(q, n) \cup L
    <3>1. o \in (1 .. n + 1) \X Sequence /\ o[2] <= Len(p[o[1]].batch)
      BY DEF Ops
    <3>2. CASE o[1] = n + 1
      <4>1. o = <<n + 1, o[2]>> /\ o[2] \in J
        BY <1>1, <3>1, <3>2
      <4> QED
        BY <4>1
    <3>3. CASE o[1] # n + 1
      <4>1. o[1] \in 1 .. n /\ o \in (1 .. n) \X Sequence
        BY <1>1, <3>1, <3>3
      <4> QED
        BY <1>1, <3>1, <4>1 DEF Ops
    <3> QED
      BY <3>2, <3>3
  <2>2. ASSUME NEW o \in Ops(q, n) PROVE o \in Ops(p, n + 1)
    <3>1. o \in (1 .. n) \X Sequence /\ o[2] <= Len(q[o[1]].batch)
      BY DEF Ops
    <3>2. o \in (1 .. n + 1) \X Sequence /\ p[o[1]] = q[o[1]]
      BY <1>1, <3>1
    <3> QED
      BY <3>1, <3>2 DEF Ops
  <2>3. ASSUME NEW j \in J PROVE <<n + 1, j>> \in Ops(p, n + 1)
    <3>1. <<n + 1, j>> \in (1 .. n + 1) \X Sequence
      BY <1>1
    <3> QED
      BY <1>1, <3>1 DEF Ops
  <2> QED
    BY <2>1, <2>2, <2>3
<1>6. IsFiniteSet(Ops(q, n)) /\ Cardinality(Ops(q, n)) \in Nat
  BY <1>1, OpsFinite
<1>7. Cardinality(Ops(p, n + 1)) <= Cardinality(Ops(q, n)) + Cardinality(L)
  <2>1. /\ Cardinality(Ops(q, n) \cup L)
             = Cardinality(Ops(q, n)) + Cardinality(L) - Cardinality(Ops(q, n) \cap L)
        /\ IsFiniteSet(Ops(q, n) \cap L)
    <3> HIDE DEF n, L
    <3>1. IsFiniteSet(Ops(q, n) \cap L)
      BY <1>6, FS_Subset
    <3> QED
      BY <1>4, <1>6, <3>1, FS_Union
  <2>2. Cardinality(Ops(q, n) \cap L) \in Nat
    BY <2>1, FS_CardinalityType
  <2>3. \A a, b, c \in Nat : a + b - c <= a + b
    OBVIOUS
  <2> HIDE DEF n, L, p
  <2> QED
    BY <1>4, <1>5, <1>6, <2>1, <2>2, <2>3
<1> HIDE DEF L, J, p, n
<1> QED
  <2>1. Cardinality(Ops(p, Len(p))) <= Cardinality(Ops(q, n)) + Len(w.batch)
    BY <1>1, <1>2, <1>3, <1>4, <1>6, <1>7, OpsFinite
  <2> QED
    BY <1>1, <1>2, <2>1 DEF n, p

\* What the first writers leave behind is the rest.
LEMMA OpsSplit ==
  ASSUME NEW q \in Seq(Writes), NEW n \in 0 .. Len(q)
  PROVE  LET r == SubSeq(q, n + 1, Len(q))
         IN Cardinality(Ops(q, n)) + Cardinality(Ops(r, Len(r))) <= Cardinality(Ops(q, Len(q)))
<1> DEFINE r == SubSeq(q, n + 1, Len(q))
           A == Ops(q, n)
           B == Ops(q, Len(q)) \ A
           R == Ops(r, Len(r))
           f == [o \in R |-> <<o[1] + n, o[2]>>]
<1>1. n \in Nat /\ Len(q) \in Nat /\ n <= Len(q)
  OBVIOUS
<1>2. Len(r) = Len(q) - n /\ Len(r) \in Nat /\ \A i \in 1 .. Len(r) : r[i] = q[i + n]
  <2>1. \A i \in n + 1 .. Len(q) : q[i] \in Writes
    OBVIOUS
  <2>2. /\ Len(r) = IF n + 1 <= Len(q) THEN Len(q) - (n + 1) + 1 ELSE 0
        /\ \A i \in 1 .. Len(q) - (n + 1) + 1 : r[i] = q[n + 1 + i - 1]
    BY <1>1, <2>1, SubSeqProperties
  <2>3. Len(r) = Len(q) - n /\ Len(r) \in Nat
    BY <1>1, <2>2
  <2> QED
    BY <1>1, <2>2, <2>3
<1> HIDE DEF r
<1>3. f \in Injection(R, B)
  <2>1. ASSUME NEW o \in R PROVE f[o] \in B
    <3>1. o \in (1 .. Len(r)) \X Sequence /\ o[2] <= Len(r[o[1]].batch)
      BY DEF Ops
    <3>2. o[1] + n \in 1 .. Len(q) /\ r[o[1]] = q[o[1] + n] /\ ~(o[1] + n \in 1 .. n)
      BY <1>1, <1>2, <3>1
    <3>3. <<o[1] + n, o[2]>> \in Ops(q, Len(q)) \ Ops(q, n)
      BY <3>1, <3>2 DEF Ops
    <3> QED
      BY <3>3
  <2>2. ASSUME NEW o \in R, NEW p \in R, f[o] = f[p] PROVE o = p
    <3>1. o \in (1 .. Len(r)) \X Sequence /\ p \in (1 .. Len(r)) \X Sequence
      BY DEF Ops
    <3>2. o[1] + n = p[1] + n /\ o[2] = p[2]
      BY <2>2
    <3>3. o[1] = p[1]
      BY <1>1, <3>1, <3>2
    <3> QED
      BY <3>1, <3>2, <3>3
  <2> HIDE DEF B, R
  <2>3. f \in [R -> B]
    BY <2>1
  <2> HIDE DEF f
  <2> QED
    BY <2>2, <2>3 DEF Injection, IsInjective
<1>4. A \subseteq Ops(q, Len(q)) /\ IsFiniteSet(Ops(q, Len(q))) /\ Cardinality(Ops(q, Len(q))) \in Nat
  BY <1>1, OpsFinite
<1>5. IsFiniteSet(A) /\ IsFiniteSet(B) /\ A \cap B = {} /\ A \cup B = Ops(q, Len(q))
  BY <1>4, FS_Subset
<1> HIDE DEF A, B, R, f
<1>6. Cardinality(R) <= Cardinality(B) /\ IsFiniteSet(R)
  BY <1>3, <1>5, FS_Injection
<1>7. Cardinality(A \cup B) = Cardinality(A) + Cardinality(B) - Cardinality(A \cap B)
  BY <1>5, FS_Union
<1>8. Cardinality(A \cap B) = 0
  BY <1>5, FS_EmptySet
<1>9. Cardinality(A) \in Nat /\ Cardinality(B) \in Nat /\ Cardinality(R) \in Nat
  BY <1>5, <1>6, FS_CardinalityType
<1>10. Cardinality(A) + Cardinality(R) <= Cardinality(A \cup B)
  BY <1>6, <1>7, <1>8, <1>9
<1> QED
  BY <1>5, <1>10 DEF A, R, r

-----------------------------------------------------------------------------
(* What the steps of the background thread make of its record.             *)

\* BuildTable begins an edit with one table.
LEMMA BuildTableDoes ==
  ASSUME TablesInv, BuildTable
  PROVE  /\ up = "open" /\ bg.at = "build" /\ bg'.at = "edit" /\ bg'.file = bg.file /\ bg'.comp = bg.comp
         /\ bg'.edit.add = [f \in {bg.file} |-> PickLevel(version, tables, Min({e.key : e \in imm}), Max({e.key : e \in imm}))]
         /\ bg'.edit.drop = {} /\ bg'.edit.log = logfile /\ bg'.edit.next = nextFile /\ bg'.edit.seq = lastSeq
<1> DEFINE add  == [f \in {bg.file} |-> PickLevel(version, tables, Min({e.key : e \in imm}), Max({e.key : e \in imm}))]
           edit == Edit(add, {}, FlushedLog, nextFile)
<1>1. bg \in ThreadRecord /\ (up # "open" => bg = Idle)
  BY DEF TablesInv, ThreadInv
<1>2. bg.at = "build" /\ bg' = [bg EXCEPT !.at = "edit", !.edit = edit]
  BY DEF BuildTable
<1>3. edit.add = add /\ edit.drop = {} /\ edit.log = logfile /\ edit.next = nextFile /\ edit.seq = lastSeq
  BY DEF Edit, FlushedLog
<1> HIDE DEF edit, add
<1>4. bg'.at = "edit" /\ bg'.edit = edit /\ bg'.file = bg.file /\ bg'.comp = bg.comp
  BY <1>1, <1>2 DEF ThreadRecord
<1>5. up = "open"
  BY <1>1, <1>2 DEF Idle
<1>6. bg'.edit.add = add
  BY <1>3, <1>4
<1> QED
  BY <1>2, <1>3, <1>4, <1>5, <1>6 DEF add

\* BeginCompaction begins an edit that moves a table, or a merge.
LEMMA BeginCompactionDoes ==
  ASSUME TablesInv, BeginCompaction
  PROVE  /\ up = "open" /\ bg.at = "idle" /\ ~bgError
         /\ \E f \in Pickable :
              LET l == version[f]
                  c == Inputs(version, tables, l, Picked(version, tables, l, f))
              IN \/ /\ TrivialMove(c) /\ bg'.at = "edit" /\ bg'.file = 0 /\ bg'.comp = None
                    /\ bg'.edit.add = [g \in {f} |-> l + 1] /\ bg'.edit.drop = {}
                    /\ bg'.edit.log = logNumber /\ bg'.edit.next = nextFile /\ bg'.edit.seq = lastSeq
                 \/ /\ bg'.at = "merge" /\ bg'.file = 0 /\ bg'.comp.level = l
                    /\ bg'.comp.in0 = c.in0 /\ bg'.comp.in1 = c.in1 /\ bg'.comp.base = version
<1>1. bg \in ThreadRecord /\ up = "open" /\ bg.at = "idle" /\ bg.comp = None /\ bg.file = 0 /\ ~bgError
  BY DEF TablesInv, ThreadInv, BeginCompaction
<1>2. PICK f \in Pickable :
        LET l == version[f]
            c == Inputs(version, tables, l, Picked(version, tables, l, f))
            oldest == IF snapshot = None THEN lastSeq ELSE snapshot
        IN bg' = IF TrivialMove(c)
                 THEN [bg EXCEPT !.at = "edit", !.edit = Edit([g \in {f} |-> l + 1], {}, logNumber, nextFile)]
                 ELSE [bg EXCEPT !.at = "merge", !.comp = [c EXCEPT !.oldest = oldest]]
  BY DEF BeginCompaction
<1> DEFINE l == version[f]
           c == Inputs(version, tables, l, Picked(version, tables, l, f))
           oldest == IF snapshot = None THEN lastSeq ELSE snapshot
           d == [c EXCEPT !.oldest = oldest]
           add == [g \in {f} |-> l + 1]
           edit == Edit(add, {}, logNumber, nextFile)
<1>3. bg' = IF TrivialMove(c) THEN [bg EXCEPT !.at = "edit", !.edit = edit] ELSE [bg EXCEPT !.at = "merge", !.comp = d]
  BY <1>2
<1>4. edit.add = add /\ edit.drop = {} /\ edit.log = logNumber /\ edit.next = nextFile /\ edit.seq = lastSeq
  BY DEF Edit
<1>5. d.level = l /\ d.in0 = c.in0 /\ d.in1 = c.in1 /\ d.base = version
  <2>1. c.level = l /\ c.base = version
    BY DEF Inputs
  <2>2. c = [level |-> c.level, in0 |-> c.in0, in1 |-> c.in1, base |-> c.base, oldest |-> c.oldest]
    <3>1. Picked(version, tables, l, f) \subseteq DOMAIN version
      BY PickedOfVersion DEF Pickable
    <3> HIDE DEF l
    <3> QED
      BY <3>1, InputsOfVersion
  <2> HIDE DEF c, oldest
  <2> QED
    BY <2>1, <2>2
<1> HIDE DEF c, d, add, edit
<1>6. CASE TrivialMove(c)
  <2>1. bg'.at = "edit" /\ bg'.file = 0 /\ bg'.comp = None /\ bg'.edit = edit
    BY <1>1, <1>3, <1>6 DEF ThreadRecord
  <2>2. bg'.edit.add = add
    BY <1>4, <2>1
  <2> QED
    BY <1>1, <1>4, <1>6, <2>1, <2>2 DEF add, c
<1>7. CASE ~TrivialMove(c)
  <2>1. bg'.at = "merge" /\ bg'.file = 0 /\ bg'.comp = d
    BY <1>1, <1>3, <1>7 DEF ThreadRecord
  <2>2. bg'.comp.level = l /\ bg'.comp.in0 = c.in0 /\ bg'.comp.in1 = c.in1 /\ bg'.comp.base = version
    BY <1>5, <2>1
  <2> QED
    BY <1>1, <2>1, <2>2 DEF c
<1> QED
  BY <1>6, <1>7

\* WriteOutput adds one table, with one of the contents that are wanted.
LEMMA WriteOutputDoes ==
  ASSUME TablesInv, WriteOutput
  PROVE  /\ up = "open" /\ bg.at = "merge" /\ UNCHANGED <<bg, up, version, manifest, bgError>>
         /\ outputs' = outputs \cup {nextFile} /\ nextFile' = nextFile + 1
         /\ \E i \in DOMAIN Wanting : /\ tables' = Over([f \in {nextFile} |-> Wanting[i]], tables)
                                      /\ ~IsMade(Wanting[i])
<1>1. /\ bg.at = "merge" /\ UNCHANGED <<bg, up, version, manifest, bgError>>
      /\ outputs' = outputs \cup {nextFile} /\ nextFile' = nextFile + 1
      /\ \E i \in DOMAIN Wanting : /\ tables' = Over([f \in {nextFile} |-> Wanting[i]], tables)
                                   /\ ~IsMade(Wanting[i])
  BY DEF WriteOutput, files_
<1>2. up = "open"
  BY <1>1 DEF TablesInv, Idle
<1> QED
  BY <1>1, <1>2

\* Merge begins an edit with the outputs.
LEMMA MergeDoes ==
  ASSUME TablesInv, Merge
  PROVE  /\ up = "open" /\ bg.at = "merge" /\ bg'.at = "edit" /\ bg'.file = 0 /\ bg.file = 0
         /\ \A i \in DOMAIN Wanting : IsMade(Wanting[i])
         /\ UNCHANGED <<tables, up, version, manifest, bgError, nextFile, pending, outputs>>
         /\ bg'.comp = bg.comp /\ bg'.edit.add = [f \in outputs |-> bg.comp.level + 1]
         /\ bg'.edit.drop = bg.comp.in0 \cup bg.comp.in1
         /\ bg'.edit.log = logNumber /\ bg'.edit.next = nextFile /\ bg'.edit.seq = lastSeq
<1> DEFINE add  == [f \in outputs |-> bg.comp.level + 1]
           drop == bg.comp.in0 \cup bg.comp.in1
           edit == Edit(add, drop, logNumber, nextFile)
<1>1. /\ bg.at = "merge" /\ \A i \in DOMAIN Wanting : IsMade(Wanting[i])
      /\ UNCHANGED <<tables, up, version, manifest, bgError, nextFile, pending, outputs>>
      /\ bg' = [bg EXCEPT !.at = "edit", !.edit = edit]
  BY DEF Merge, disk_, files_
<1>2. edit.add = add /\ edit.drop = drop /\ edit.log = logNumber /\ edit.next = nextFile /\ edit.seq = lastSeq
  BY DEF Edit
<1>3. bg \in ThreadRecord /\ up = "open" /\ bg.file = 0
  BY <1>1 DEF TablesInv, ThreadInv, Idle
<1> HIDE DEF add, drop, edit
<1>4. bg'.at = "edit" /\ bg'.file = 0 /\ bg'.edit = edit /\ bg'.comp = bg.comp
  BY <1>1, <1>3 DEF ThreadRecord
<1>5. bg'.edit.add = add /\ bg'.edit.drop = drop
  BY <1>2, <1>4
<1> QED
  BY <1>1, <1>2, <1>3, <1>4, <1>5 DEF add, drop

-----------------------------------------------------------------------------
(* Entries and sequence numbers.                                           *)

\* There is room for the writers that wait, and each number given out is a sequence.
RoomInv ==
  /\ lastSeq + Cardinality(Ops(queue, Len(queue))) <= MaxSequence
  /\ up # "open" => queue = <<>> /\ stage = "idle"
  /\ stage = "idle" => group = 0
  /\ \A m \in manifest : m.seq <= MaxSequence
  /\ bg.at = "edit" => bg.edit.seq <= MaxSequence
  /\ snapshot = None \/ snapshot \in 0 .. MaxSequence

\* Wherever entries are, they are entries; and a table has some.
EntriesInv ==
  /\ \A n \in DOMAIN logs : \A i \in 1 .. Len(logs[n]) : logs[n][i] \subseteq Entry
  /\ mem \subseteq Entry /\ (imm # None => imm \subseteq Entry /\ imm # {})
  /\ bg.at = "build" => imm # None
  /\ \A f \in DOMAIN tables : tables[f] \subseteq Entry /\ tables[f] # {}
  /\ truth \subseteq Entry /\ safe \subseteq Entry

\* The last number leaves room.
LEMMA LastFits ==
  ASSUME SyncInv, RoomInv
  PROVE  /\ lastSeq \in 0 .. MaxSequence /\ Len(queue) \in Nat /\ queue \in Seq(Writes)
         /\ Cardinality(Ops(queue, Len(queue))) \in Nat /\ MaxSequence \in Nat
<1>1. lastSeq \in Nat /\ queue \in Seq(Writes)
  BY DEF SyncInv, Numbers, Leading
<1>2. Len(queue) \in Nat
  BY <1>1
<1>3. Cardinality(Ops(queue, Len(queue))) \in Nat
  BY <1>2, OpsFinite
<1>4. MaxSequence \in Nat
  BY LevelsAssumption
<1> QED
  BY <1>1, <1>2, <1>3, <1>4 DEF RoomInv

\* Steps of the thread and of readers.
LEMMA RoomFrame ==
  ASSUME SyncInv, RoomInv, UNCHANGED <<lastSeq, queue, up, stage, group>>,
         snapshot' \in {snapshot, None, lastSeq},
         \A m \in manifest' : \/ m \in manifest
                              \/ bg.at = "edit" /\ m.seq = bg.edit.seq,
         bg'.at = "edit" => bg'.edit.seq = lastSeq \/ UNCHANGED bg
  PROVE  RoomInv'
<1>1. lastSeq \in 0 .. MaxSequence
  BY LastFits
<1>2. \A m \in manifest' : m.seq <= MaxSequence
  BY <1>1 DEF RoomInv
<1>3. bg'.at = "edit" => bg'.edit.seq <= MaxSequence
  BY <1>1 DEF RoomInv
<1>4. snapshot' = None \/ snapshot' \in 0 .. MaxSequence
  BY <1>1 DEF RoomInv
<1>5. (lastSeq + Cardinality(Ops(queue, Len(queue))))' = lastSeq + Cardinality(Ops(queue, Len(queue)))
  BY DEF Ops
<1> QED
  BY <1>2, <1>3, <1>4, <1>5 DEF RoomInv

\* Steps of the writers that leave the rest alone.
LEMMA RoomWriters ==
  ASSUME RoomInv, UNCHANGED <<manifest, bg, snapshot, up>>, up = "open",
         stage' = "idle" => group' = 0,
         lastSeq' + Cardinality(Ops(queue', Len(queue'))) <= MaxSequence
  PROVE  RoomInv'
<1>1. (lastSeq + Cardinality(Ops(queue, Len(queue))))' = lastSeq' + Cardinality(Ops(queue', Len(queue')))
  BY DEF Ops
<1>2. RoomInv' <=> /\ (lastSeq + Cardinality(Ops(queue, Len(queue))))' <= MaxSequence
                   /\ up' # "open" => queue' = <<>> /\ stage' = "idle"
                   /\ stage' = "idle" => group' = 0
                   /\ \A m \in manifest' : m.seq <= MaxSequence
                   /\ bg'.at = "edit" => bg'.edit.seq <= MaxSequence
                   /\ snapshot' = None \/ snapshot' \in 0 .. MaxSequence
  BY DEF RoomInv
<1> QED
  BY <1>1, <1>2 DEF RoomInv

\* A writer joins the queue if there is room for what it writes.
LEMMA WriteRoom == ASSUME SyncInv, RoomInv, NEW w \in Writes, Write(w) PROVE RoomInv'
<1>1. /\ queue' = Append(queue, w) /\ up = "open"
      /\ lastSeq + Cardinality(Joined(Len(queue))) + Len(w.batch) <= MaxSequence
      /\ UNCHANGED <<manifest, bg, snapshot, up, stage, group, lastSeq>>
  BY DEF Write, disk_, thread_, readers_
<1>2. Joined(Len(queue)) = Ops(queue, Len(queue))
  BY DEF Joined, Ops
<1>3. /\ lastSeq \in Nat /\ MaxSequence \in Nat /\ queue \in Seq(Writes)
      /\ Cardinality(Ops(queue, Len(queue))) \in Nat
  BY LastFits
<1>4. /\ Len(queue') \in Nat /\ Len(w.batch) \in Nat
      /\ Cardinality(Ops(queue', Len(queue'))) <= Cardinality(Ops(queue, Len(queue))) + Len(w.batch)
  BY <1>1, <1>3, OpsAppended
<1>5. Cardinality(Ops(queue', Len(queue'))) \in Nat
  BY <1>4, OpsFinite
<1>6. lastSeq' + Cardinality(Ops(queue', Len(queue'))) <= MaxSequence
  BY <1>1, <1>2, <1>3, <1>4, <1>5
<1>7. stage' = "idle" => group' = 0
  BY <1>1 DEF RoomInv
<1> QED
  BY <1>1, <1>6, <1>7, RoomWriters

\* A leader that cannot make room uses no numbers.
LEMMA LeadFailsRoom == ASSUME SyncInv, RoomInv, LeadFails PROVE RoomInv'
<1>1. /\ queue # <<>> /\ queue' = Tail(queue) /\ up = "open"
      /\ UNCHANGED <<manifest, bg, snapshot, up, stage, group, lastSeq>>
  BY DEF LeadFails, disk_, thread_, readers_
<1>2. /\ lastSeq \in Nat /\ MaxSequence \in Nat /\ queue \in Seq(Writes) /\ Len(queue) \in Nat
      /\ Cardinality(Ops(queue, Len(queue))) \in Nat
  BY LastFits
<1>3. 1 \in 0 .. Len(queue) /\ queue' = SubSeq(queue, 2, Len(queue)) /\ Len(queue') \in Nat
  BY <1>1, <1>2, TailIsSubSeq
<1>4. /\ Cardinality(Ops(queue, 1)) + Cardinality(Ops(queue', Len(queue'))) <= Cardinality(Ops(queue, Len(queue)))
      /\ Cardinality(Ops(queue, 1)) \in Nat /\ Cardinality(Ops(queue', Len(queue'))) \in Nat
  <2>1. Cardinality(Ops(queue, 1)) + Cardinality(Ops(queue', Len(queue'))) <= Cardinality(Ops(queue, Len(queue)))
    BY <1>2, <1>3, OpsSplit
  <2>2. Cardinality(Ops(queue, 1)) \in Nat
    BY OpsFinite
  <2>3. Cardinality(Ops(queue', Len(queue'))) \in Nat
    BY <1>3, OpsFinite
  <2> QED
    BY <2>1, <2>2, <2>3
<1>5. lastSeq' + Cardinality(Ops(queue', Len(queue'))) <= MaxSequence
  BY <1>1, <1>2, <1>4 DEF RoomInv
<1>6. stage' = "idle" => group' = 0
  BY <1>1 DEF RoomInv
<1> QED
  BY <1>1, <1>5, <1>6, RoomWriters

\* A leader that returns has used those of its group.
LEMMA ReturnRoom ==
  ASSUME SyncInv, RoomInv, stage # "idle", Return, UNCHANGED <<manifest, bg, snapshot, up>>
  PROVE  RoomInv'
<1>1. /\ lastSeq' = lastSeq + Cardinality(Joined(group)) /\ stage' = "idle" /\ group' = 0
      /\ queue' = SubSeq(queue, group + 1, Len(queue))
  BY DEF Return
<1>2. /\ lastSeq \in Nat /\ MaxSequence \in Nat /\ queue \in Seq(Writes) /\ Len(queue) \in Nat
      /\ Cardinality(Ops(queue, Len(queue))) \in Nat
  BY LastFits
<1>3. group \in 1 .. Len(queue) /\ up = "open" /\ Joined(group) = Ops(queue, group)
  BY LeaderAtWork DEF Joined, Ops
<1>4. group \in 0 .. Len(queue) /\ group \in Nat
  BY <1>2, <1>3
<1>5. Cardinality(Ops(queue, group)) + Cardinality(Ops(queue', Len(queue'))) <= Cardinality(Ops(queue, Len(queue)))
  BY <1>1, <1>2, <1>4, OpsSplit
<1>6. Cardinality(Ops(queue, group)) \in Nat
  BY <1>4, OpsFinite
<1>7. Cardinality(Ops(queue', Len(queue'))) \in Nat
  <2>1. \A i \in group + 1 .. Len(queue) : queue[i] \in Writes
    BY <1>2, <1>4
  <2>2. queue' \in Seq(Writes)
    BY <1>1, <1>2, <1>4, <2>1, SubSeqProperties
  <2>3. Len(queue') \in Nat
    BY <2>2
  <2> QED
    BY <2>3, OpsFinite
<1>8. lastSeq + Cardinality(Ops(queue, group)) + Cardinality(Ops(queue', Len(queue'))) <= MaxSequence
  BY <1>2, <1>5, <1>6, <1>7 DEF RoomInv
<1>9. lastSeq' + Cardinality(Ops(queue', Len(queue'))) <= MaxSequence
  BY <1>1, <1>3, <1>8
<1> QED
  BY <1>1, <1>3, <1>9, RoomWriters

\* The others at the queue: numbers and the queue stay.
LEMMA LeaderRoom ==
  ASSUME SyncInv, RoomInv, Lead \/ AddRecord \/ Sync \/ InsertInto PROVE RoomInv'
<1>1. UNCHANGED <<manifest, bg, snapshot, up, queue, lastSeq>> /\ stage' # "idle"
  <2>1. CASE Lead
    BY <2>1 DEF Lead, readers_
  <2>2. CASE AddRecord
    BY <2>2 DEF AddRecord, thread_, readers_
  <2>3. CASE Sync
    BY <2>3 DEF Sync, thread_, readers_
  <2>4. CASE InsertInto
    BY <2>4 DEF InsertInto, disk_, thread_, readers_
  <2> QED
    BY <2>1, <2>2, <2>3, <2>4
<1>2. up = "open"
  <2>1. CASE Lead
    BY <2>1 DEF Lead
  <2>2. CASE stage # "idle"
    BY <2>2, LeaderAtWork
  <2> QED
    BY <2>1, <2>2 DEF AddRecord, Sync, InsertInto
<1>3. lastSeq' + Cardinality(Ops(queue', Len(queue'))) <= MaxSequence
  BY <1>1 DEF RoomInv
<1> QED
  BY <1>1, <1>2, <1>3, RoomWriters

\* A group that returns, whatever became of it.
LEMMA ReturnsRoom == ASSUME SyncInv, RoomInv, Publish \/ WriteFails PROVE RoomInv'
<1>1. Return /\ stage # "idle" /\ UNCHANGED <<manifest, bg, snapshot, up>>
  BY DEF Publish, WriteFails, disk_, thread_, readers_
<1> QED
  BY <1>1, ReturnRoom

\* The thread's edits have the last number; the manifest gets theirs.
LEMMA ThreadRoom ==
  ASSUME TablesInv, SyncInv, RoomInv,
         \/ BeginFlush \/ BuildTable \/ BeginCompaction \/ WriteOutput \/ Merge
         \/ NothingToDo \/ BuildTableFails \/ MergeFails \/ Install \/ InstallFails
  PROVE  RoomInv'
<1>1. UNCHANGED <<lastSeq, queue, up, stage, group>> /\ snapshot' \in {snapshot, None, lastSeq}
  BY DEF BeginFlush, BuildTable, BeginCompaction, WriteOutput, Merge, NothingToDo, BuildTableFails, MergeFails,
         Install, InstallFails, writers_, readers_
<1>2. \A m \in manifest' : \/ m \in manifest
                           \/ bg.at = "edit" /\ m.seq = bg.edit.seq
  <2>1. CASE UNCHANGED manifest
    BY <2>1
  <2>2. CASE Install \/ InstallFails
    <3>1. bg.at = "edit" /\ \A m \in manifest' : m \in manifest \/ \E l \in manifest : m = Recorded(l, bg.edit)
      BY <2>2 DEF Install, InstallFails
    <3>2. \A l : Recorded(l, bg.edit).seq = bg.edit.seq
      BY DEF Recorded
    <3> QED
      BY <3>1, <3>2, Zenon
  <2> QED
    BY <2>1, <2>2 DEF BeginFlush, BuildTable, BeginCompaction, WriteOutput, Merge, NothingToDo, BuildTableFails,
       MergeFails, disk_
<1>3. bg'.at = "edit" => bg'.edit.seq = lastSeq \/ UNCHANGED bg
  <2>1. CASE BeginFlush
    <3>1. bg \in ThreadRecord
      BY DEF TablesInv, ThreadInv
    <3> QED
      BY <2>1, <3>1 DEF BeginFlush, ThreadRecord
  <2>2. CASE BuildTable
    BY <2>2, BuildTableDoes
  <2>3. CASE BeginCompaction
    BY <2>3, BeginCompactionDoes
  <2>4. CASE WriteOutput \/ Merge
    BY <2>4, WriteOutputDoes, MergeDoes
  <2>5. CASE NothingToDo \/ BuildTableFails \/ MergeFails \/ Install \/ InstallFails
    BY <2>5, CallEnds DEF Idle
  <2> QED
    BY <2>1, <2>2, <2>3, <2>4, <2>5
<1> QED
  BY <1>1, <1>2, <1>3, RoomFrame

\* A snapshot is taken at the last number.
LEMMA ReadersRoom ==
  ASSUME SyncInv, RoomInv,
         GetSnapshot \/ ReleaseSnapshot \/ NewIterator \/ CleanupIterator \/ Reschedule \/ UNCHANGED vars
  PROVE  RoomInv'
<1>1. /\ UNCHANGED <<lastSeq, queue, up, stage, group, manifest, bg>>
      /\ snapshot' \in {snapshot, None, lastSeq}
  BY DEF GetSnapshot, ReleaseSnapshot, NewIterator, CleanupIterator, Reschedule, vars, disk_, writers_,
         thread_, readers_
<1>2. /\ \A m \in manifest' : \/ m \in manifest
                              \/ bg.at = "edit" /\ m.seq = bg.edit.seq
      /\ bg'.at = "edit" => bg'.edit.seq = lastSeq \/ UNCHANGED bg
  BY <1>1
<1> QED
  BY <1>1, <1>2, RoomFrame

\* A crash leaves a manifest's state, and nobody in the queue.
LEMMA CrashRoom == ASSUME TablesInv, SyncInv, RoomInv, Crash PROVE RoomInv'
<1>1. /\ \A m \in manifest' : m \in manifest \/ (bg.at = "edit" /\ m.seq = bg.edit.seq)
      /\ bg' = Idle /\ queue' = <<>> /\ stage' = "idle" /\ group' = 0 /\ snapshot' = None
      /\ UNCHANGED lastSeq
  <2>1. \A l : Recorded(l, bg.edit).seq = bg.edit.seq
    BY DEF Recorded
  <2> QED
    BY <2>1 DEF Crash
<1>2. \A m \in manifest' : m.seq <= MaxSequence
  BY <1>1 DEF RoomInv
<1>3. bg'.at # "edit"
  BY <1>1 DEF Idle
<1>4. (lastSeq + Cardinality(Ops(queue, Len(queue))))' <= MaxSequence
  <2>1. (lastSeq + Cardinality(Ops(queue, Len(queue))))' = lastSeq + Cardinality(Ops(<<>>, 0))
    BY <1>1 DEF Ops
  <2>2. Ops(<<>>, 0) = {}
    BY DEF Ops
  <2>3. Cardinality(Ops(<<>>, 0)) = 0
    BY <2>2, FS_EmptySet
  <2>4. lastSeq \in 0 .. MaxSequence /\ MaxSequence \in Nat
    BY LastFits
  <2> QED
    BY <2>1, <2>3, <2>4
<1> QED
  BY <1>1, <1>2, <1>3, <1>4 DEF RoomInv

\* Nor does recovery find a number that was not given out.
LEMMA RecoverLogsRoom == ASSUME TablesInv, SyncInv, RoomInv, EntriesInv, RecoverLogs PROVE RoomInv'
<1>1. /\ up = "closed" /\ up' = "replayed" /\ UNCHANGED <<manifest, bg, snapshot, queue, stage, group>>
      /\ \E m \in manifest : lastSeq' = RecoveredSequence(m)
  BY DEF RecoverLogs, writers_, thread_, readers_
<1>2. PICK m \in manifest : lastSeq' = RecoveredSequence(m)
  BY <1>1
<1> DEFINE S == {m.seq} \cup {e.seq : e \in Logged(logs, m.log)}
<1>3. m.seq \in 0 .. MaxSequence
  BY DEF RoomInv, SyncInv, Numbers
<1>4. ASSUME NEW e \in Logged(logs, m.log) PROVE e.seq \in 0 .. MaxSequence
  <2>1. PICK n \in DOMAIN logs : e \in UNION ToSet(logs[n])
    BY DEF Logged
  <2>2. logs[n] \in Seq(SUBSET Written)
    BY DEF SyncInv, LogsTyped
  <2>3. PICK i \in 1 .. Len(logs[n]) : e \in logs[n][i]
    BY <2>1, <2>2 DEF ToSet
  <2>4. e \in Entry
    BY <2>3 DEF EntriesInv
  <2>5. MaxSequence \in Nat
    BY LevelsAssumption
  <2> QED
    BY <2>4, <2>5 DEF Entry, Sequence
<1>5. S \subseteq 0 .. MaxSequence /\ S # {}
  BY <1>3, <1>4
<1>6. lastSeq' = Max(S)
  BY <1>2 DEF RecoveredSequence
<1> HIDE DEF S
<1>7. lastSeq' \in 0 .. MaxSequence
  BY <1>5, <1>6, MaxIsGreatest, LevelsAssumption
<1>8. queue = <<>> /\ stage = "idle"
  BY <1>1 DEF RoomInv
<1>9. (lastSeq + Cardinality(Ops(queue, Len(queue))))' <= MaxSequence
  <2>1. (lastSeq + Cardinality(Ops(queue, Len(queue))))' = lastSeq' + Cardinality(Ops(<<>>, 0))
    BY <1>1, <1>8 DEF Ops
  <2>2. Ops(<<>>, 0) = {}
    BY DEF Ops
  <2>3. Cardinality(Ops(<<>>, 0)) = 0
    BY <2>2, FS_EmptySet
  <2>4. MaxSequence \in Nat
    BY LevelsAssumption
  <2> QED
    BY <1>7, <2>1, <2>3, <2>4
<1> QED
  BY <1>1, <1>8, <1>9 DEF RoomInv

\* The new manifest has the number that was recovered.
LEMMA OpenRoom == ASSUME TablesInv, SyncInv, RoomInv, Open PROVE RoomInv'
<1>1. /\ up = "replayed" /\ up' = "open"
      /\ manifest' = {[version |-> version, log |-> nextFile, next |-> nextFile + 1, seq |-> lastSeq]}
      /\ UNCHANGED <<bg, snapshot, queue, stage, group, lastSeq>>
  BY DEF Open, writers_, readers_
<1>2. lastSeq \in 0 .. MaxSequence
  BY LastFits
<1>3. \A m \in manifest' : m.seq <= MaxSequence
  BY <1>1, <1>2
<1>4. (lastSeq + Cardinality(Ops(queue, Len(queue))))' = lastSeq + Cardinality(Ops(queue, Len(queue)))
  BY <1>1 DEF Ops
<1> QED
  BY <1>1, <1>3, <1>4 DEF RoomInv

\* What a leader writes are entries, since there is room.
LEMMA GroupTyped ==
  ASSUME SyncInv, RoomInv, stage # "idle"
  PROVE  GroupEntries \subseteq Entry /\ SyncEntries \subseteq Entry
<1>1. /\ group \in 1 .. Len(queue) /\ lastSeq \in Nat /\ Cardinality(Joined(group)) \in Nat
      /\ SyncEntries \subseteq GroupEntries /\ GroupEntries \subseteq Written
      /\ \A e \in GroupEntries : lastSeq < e.seq /\ e.seq <= lastSeq + Cardinality(Joined(group))
  BY LeaderAtWork
<1>2. /\ Len(queue) \in Nat /\ Cardinality(Ops(queue, Len(queue))) \in Nat /\ MaxSequence \in Nat
  BY LastFits
<1>3. Joined(group) = Ops(queue, group)
  BY DEF Joined, Ops
<1>4. Cardinality(Joined(group)) <= Cardinality(Ops(queue, Len(queue)))
  BY <1>1, <1>2, <1>3, OpsFinite
<1>5. lastSeq + Cardinality(Joined(group)) <= MaxSequence
  BY <1>1, <1>2, <1>4 DEF RoomInv
<1>6. ASSUME NEW e \in GroupEntries PROVE e \in Entry
  <2>1. e \in Written /\ e.seq \in Nat
    BY <1>1 DEF Written
  <2>2. e.seq \in Sequence
    BY <1>1, <1>2, <1>5, <2>1 DEF Sequence
  <2> QED
    BY <2>1, <2>2 DEF Written, Entry
<1> QED
  BY <1>1, <1>6

\* Steps that write no entries, but may delete tables and logs.
LEMMA EntriesFrame ==
  ASSUME EntriesInv, UNCHANGED <<mem, truth, safe>>, imm' \in {imm, None},
         bg'.at = "build" => imm' # None,
         \A n \in DOMAIN logs' : n \in DOMAIN logs /\ logs'[n] = logs[n],
         \A f \in DOMAIN tables' : f \in DOMAIN tables /\ tables'[f] = tables[f]
  PROVE  EntriesInv'
<1>1. \A n \in DOMAIN logs' : \A i \in 1 .. Len(logs'[n]) : logs'[n][i] \subseteq Entry
  BY DEF EntriesInv
<1>2. \A f \in DOMAIN tables' : tables'[f] \subseteq Entry /\ tables'[f] # {}
  BY DEF EntriesInv
<1>3. mem' \subseteq Entry /\ (imm' # None => imm' \subseteq Entry /\ imm' # {})
  BY DEF EntriesInv
<1>4. truth' \subseteq Entry /\ safe' \subseteq Entry
  BY DEF EntriesInv
<1> QED
  BY <1>1, <1>2, <1>3, <1>4 DEF EntriesInv

\* A memory table waits only when it is full.
LEMMA LeadEntries == ASSUME TablesInv, SyncInv, EntriesInv, Lead PROVE EntriesInv'
<1>1. UNCHANGED <<tables, bg, truth, safe>>
  BY DEF Lead, written_
<1>2. CASE HasRoom
  <2>1. UNCHANGED <<mem, imm, logs>>
    BY <1>2 DEF HasRoom, memory_
  <2>2. bg'.at = "build" => imm' # None
    BY <1>1, <2>1 DEF EntriesInv
  <2> QED
    BY <1>1, <2>1, <2>2, EntriesFrame
<1>3. CASE SwitchMemTable
  <2>1. /\ Cardinality(mem) >= MemLimit /\ imm = None /\ imm' = mem /\ mem' = {}
        /\ logs' = Over([n \in {nextFile} |-> <<>>], logs)
    BY <1>3 DEF SwitchMemTable, MaySwitch
  <2>2. mem # {}
    <3>1. Cardinality({}) = 0
      BY FS_EmptySet
    <3>2. ~(0 >= MemLimit)
      BY MemAssumption
    <3> QED
      BY <2>1, <3>1, <3>2
  <2>3. \A n \in DOMAIN logs' : \A i \in 1 .. Len(logs'[n]) : logs'[n][i] \subseteq Entry
    <3>1. ASSUME NEW n \in DOMAIN logs'
          PROVE  logs'[n] = <<>> \/ (n \in DOMAIN logs /\ logs'[n] = logs[n])
      BY <2>1 DEF Over
    <3>2. 1 .. Len(<<>>) = {}
      OBVIOUS
    <3> QED
      BY <3>1, <3>2 DEF EntriesInv
  <2>4. bg.at # "build"
    BY <2>1 DEF EntriesInv
  <2> QED
    BY <1>1, <2>1, <2>2, <2>3, <2>4 DEF EntriesInv
<1> QED
  BY <1>2, <1>3 DEF Lead

\* The record.
LEMMA AddRecordEntries == ASSUME SyncInv, RoomInv, EntriesInv, AddRecord PROVE EntriesInv'
<1>1. /\ stage = "append" /\ logs' = [logs EXCEPT ![logfile] = Append(@, GroupEntries)]
      /\ UNCHANGED <<tables, bg, truth, safe, mem, imm>>
  BY DEF AddRecord, memory_, thread_, written_
<1>2. GroupEntries \subseteq Entry
  BY <1>1, GroupTyped
<1>3. ASSUME NEW n \in DOMAIN logs', NEW i \in 1 .. Len(logs'[n]) PROVE logs'[n][i] \subseteq Entry
  <2>1. n \in DOMAIN logs /\ logs[n] \in Seq(SUBSET Written)
    BY <1>1 DEF SyncInv, LogsTyped
  <2>2. CASE n = logfile
    <3>1. logs'[n] = Append(logs[n], GroupEntries)
      BY <1>1, <2>1, <2>2
    <3>2. (i \in 1 .. Len(logs[n]) /\ logs'[n][i] = logs[n][i]) \/ logs'[n][i] = GroupEntries
      BY <2>1, <3>1
    <3> QED
      BY <1>2, <2>1, <3>2 DEF EntriesInv
  <2>3. CASE n # logfile
    BY <1>1, <1>3, <2>1, <2>3 DEF EntriesInv
  <2> QED
    BY <2>2, <2>3
<1> QED
  BY <1>1, <1>3 DEF EntriesInv

\* The other steps of writers.
LEMMA WritersEntries ==
  ASSUME SyncInv, RoomInv, EntriesInv,
         \/ \E w \in Writes : Write(w)
         \/ LeadFails \/ Sync \/ InsertInto \/ Publish \/ WriteFails
  PROVE  EntriesInv'
<1>1. CASE (\E w \in Writes : Write(w)) \/ LeadFails \/ Sync \/ WriteFails
  <2>1. UNCHANGED <<logs, tables, bg, truth, safe, mem, imm>>
    BY <1>1 DEF Write, LeadFails, Sync, WriteFails, disk_, memory_, thread_, written_
  <2>2. bg'.at = "build" => imm' # None
    BY <2>1 DEF EntriesInv
  <2> QED
    BY <2>1, <2>2, EntriesFrame
<1>2. CASE InsertInto
  <2>1. /\ stage = "insert" /\ mem' = mem \cup GroupEntries
        /\ UNCHANGED <<logs, tables, bg, truth, safe, imm>>
    BY <1>2 DEF InsertInto, disk_, thread_, written_
  <2>2. GroupEntries \subseteq Entry
    BY <2>1, GroupTyped
  <2> QED
    BY <2>1, <2>2 DEF EntriesInv
<1>3. CASE Publish
  <2>1. /\ stage = "publish" /\ truth' = truth \cup GroupEntries /\ safe' = safe \cup SyncEntries
        /\ UNCHANGED <<logs, tables, bg, mem, imm>>
    BY <1>3 DEF Publish, disk_, memory_, thread_
  <2>2. GroupEntries \subseteq Entry /\ SyncEntries \subseteq Entry
    BY <2>1, GroupTyped
  <2> QED
    BY <2>1, <2>2 DEF EntriesInv
<1> QED
  BY <1>1, <1>2, <1>3

\* A compaction's outputs are made of what is in its inputs, and none is empty.
LEMMA OutputsOfInputs ==
  ASSUME NEW c, NEW T, NEW oldest, NEW i \in DOMAIN Outputs(c, T, oldest)
  PROVE  /\ Outputs(c, T, oldest)[i] \subseteq Entry /\ Outputs(c, T, oldest)[i] # {}
         /\ Outputs(c, T, oldest)[i] \subseteq Entries(T, c.in0 \cup c.in1)
<1> DEFINE kept == {e \in Entry : e \in Entries(T, c.in0 \cup c.in1) /\ ~Dropped(c, T, e, oldest)}
           place(e) == Cardinality({d \in kept : Order(d) < Order(e)}) \div OutputSize
<1>1. Outputs(c, T, oldest) = [j \in {place(e) : e \in kept} |-> {e \in kept : place(e) = j}]
  BY DEF Outputs
<1>2. i \in {place(e) : e \in kept} /\ Outputs(c, T, oldest)[i] = {e \in kept : place(e) = i}
  <2> HIDE DEF kept, place
  <2> QED
    BY <1>1
<1>3. kept \subseteq Entry /\ kept \subseteq Entries(T, c.in0 \cup c.in1)
  OBVIOUS
<1> HIDE DEF kept, place
<1> QED
  BY <1>2, <1>3

\* Files written over others.
LEMMA OverApplied ==
  ASSUME NEW g, NEW f, NEW n \in DOMAIN Over(g, f)
  PROVE  \/ n \in DOMAIN g /\ Over(g, f)[n] = g[n]
         \/ n \in DOMAIN f /\ n \notin DOMAIN g /\ Over(g, f)[n] = f[n]
BY DEF Over

\* The thread writes a memory table, or an output of a compaction.
LEMMA TablesEntries ==
  ASSUME TablesInv, EntriesInv, BuildTable \/ WriteOutput PROVE EntriesInv'
<1>1. UNCHANGED <<logs, truth, safe, mem, imm>>
  BY DEF BuildTable, WriteOutput, memory_, written_
<1>2. bg'.at # "build"
  BY BuildTableDoes, WriteOutputDoes
<1>3. \E new : /\ tables' = Over(new, tables)
               /\ \A f \in DOMAIN new : new[f] \subseteq Entry /\ new[f] # {}
  <2>1. CASE BuildTable
    <3> DEFINE new == [f \in {bg.file} |-> imm]
    <3>1. tables' = Over(new, tables) /\ bg.at = "build"
      BY <2>1 DEF BuildTable
    <3>2. imm \subseteq Entry /\ imm # {}
      BY <3>1 DEF EntriesInv
    <3>3. \A f \in DOMAIN new : new[f] = imm
      OBVIOUS
    <3> QED
      BY <3>1, <3>2, <3>3
  <2>2. CASE WriteOutput
    <3>1. PICK i \in DOMAIN Wanting : tables' = Over([f \in {nextFile} |-> Wanting[i]], tables)
      BY <2>2, WriteOutputDoes
    <3>2. Wanting[i] \subseteq Entry /\ Wanting[i] # {}
      BY OutputsOfInputs DEF Wanting
    <3> DEFINE new == [f \in {nextFile} |-> Wanting[i]]
    <3>3. \A f \in DOMAIN new : new[f] = Wanting[i]
      OBVIOUS
    <3> QED
      BY <3>1, <3>2, <3>3
  <2> QED
    BY <2>1, <2>2
<1>4. PICK new : /\ tables' = Over(new, tables)
                 /\ \A f \in DOMAIN new : new[f] \subseteq Entry /\ new[f] # {}
  BY <1>3
<1>5. \A f \in DOMAIN tables' : tables'[f] \subseteq Entry /\ tables'[f] # {}
  BY <1>4, OverApplied DEF EntriesInv
<1> QED
  BY <1>1, <1>2, <1>5 DEF EntriesInv

\* The thread writes no table, but may delete some; readers write nothing.
LEMMA DeletesEntries ==
  ASSUME TablesInv, SyncInv, EntriesInv,
         \/ BeginFlush \/ BeginCompaction \/ Merge \/ NothingToDo \/ BuildTableFails \/ MergeFails
         \/ Install \/ InstallFails \/ GetSnapshot \/ ReleaseSnapshot \/ NewIterator \/ CleanupIterator \/ Reschedule \/ UNCHANGED vars
  PROVE  EntriesInv'
<1>1. /\ UNCHANGED <<mem, truth, safe>> /\ imm' \in {imm, None}
      /\ \/ UNCHANGED <<tables, logs>>
         \/ \E fs, ns : /\ tables' = Restrict(tables, DOMAIN tables \cap fs)
                        /\ logs' = Restrict(logs, DOMAIN logs \cap ns)
  <2>1. ASSUME NEW v, NEW log, NEW comp, NEW writing, NEW failed, DeleteObsoleteFiles(v, log, comp, writing, failed)
        PROVE  \/ UNCHANGED <<tables, logs>>
               \/ \E fs, ns : /\ tables' = Restrict(tables, DOMAIN tables \cap fs)
                              /\ logs' = Restrict(logs, DOMAIN logs \cap ns)
    <3>1. {n \in DOMAIN logs : n >= log} = DOMAIN logs \cap {n \in DOMAIN logs : n >= log}
      OBVIOUS
    <3> QED
      BY <2>1, <3>1, Zenon DEF DeleteObsoleteFiles
  <2>2. CASE MergeFails \/ Install \/ InstallFails
    <3>1. UNCHANGED <<mem, truth, safe>> /\ imm' \in {imm, None}
      BY <2>2 DEF MergeFails, Install, InstallFails, memory_, written_
    <3>2. \/ UNCHANGED <<tables, logs>>
          \/ \E v, log, comp, writing, failed : DeleteObsoleteFiles(v, log, comp, writing, failed)
      <4>1. CASE MergeFails
        BY <4>1, Zenon DEF MergeFails
      <4>2. CASE Install
        BY <4>2 DEF Install
      <4>3. CASE InstallFails
        BY <4>3 DEF InstallFails
      <4> QED
        BY <2>2, <4>1, <4>2, <4>3
    <3> QED
      BY <2>1, <3>1, <3>2, Zenon
  <2>3. CASE \/ BeginFlush \/ BeginCompaction \/ Merge \/ NothingToDo \/ BuildTableFails
             \/ GetSnapshot \/ ReleaseSnapshot \/ NewIterator \/ CleanupIterator \/ Reschedule \/ UNCHANGED vars
    BY <2>3 DEF BeginFlush, BeginCompaction, Merge, NothingToDo, BuildTableFails, GetSnapshot, ReleaseSnapshot,
       NewIterator, CleanupIterator, Reschedule, vars, disk_, memory_, written_
  <2> QED
    BY <2>2, <2>3
<1>2. /\ \A n \in DOMAIN logs' : n \in DOMAIN logs /\ logs'[n] = logs[n]
      /\ \A f \in DOMAIN tables' : f \in DOMAIN tables /\ tables'[f] = tables[f]
  <2>1. CASE UNCHANGED <<tables, logs>>
    BY <2>1
  <2>2. ASSUME NEW fs, NEW ns, tables' = Restrict(tables, DOMAIN tables \cap fs),
               logs' = Restrict(logs, DOMAIN logs \cap ns)
        PROVE  /\ \A n \in DOMAIN logs' : n \in DOMAIN logs /\ logs'[n] = logs[n]
               /\ \A f \in DOMAIN tables' : f \in DOMAIN tables /\ tables'[f] = tables[f]
    BY <2>2 DEF Restrict
  <2> QED
    BY <1>1, <2>1, <2>2
<1>3. bg'.at = "build" => imm' # None
  <2>1. CASE BeginFlush
    BY <2>1 DEF BeginFlush, memory_
  <2>2. CASE BeginCompaction \/ Merge
    BY <2>2, BeginCompactionDoes, MergeDoes
  <2>3. CASE NothingToDo \/ BuildTableFails \/ MergeFails \/ Install \/ InstallFails
    BY <2>3, CallEnds DEF Idle
  <2>4. CASE GetSnapshot \/ ReleaseSnapshot \/ NewIterator \/ CleanupIterator \/ Reschedule \/ UNCHANGED vars
    <3>1. UNCHANGED <<bg, imm>>
      BY <2>4 DEF GetSnapshot, ReleaseSnapshot, NewIterator, CleanupIterator, Reschedule, vars,
         memory_, thread_
    <3> QED
      BY <3>1 DEF EntriesInv
  <2> QED
    BY <2>1, <2>2, <2>3, <2>4
<1> QED
  BY <1>1, <1>2, <1>3, EntriesFrame

\* What the logs say are entries.
LEMMA LoggedTyped ==
  ASSUME SyncInv, EntriesInv, NEW log
  PROVE  /\ Logged(logs, log) \subseteq Entry
         /\ \A n \in DOMAIN logs : UNION ToSet(logs[n]) \subseteq Entry
<1>1. ASSUME NEW n \in DOMAIN logs PROVE UNION ToSet(logs[n]) \subseteq Entry
  <2>1. logs[n] \in Seq(SUBSET Written)
    BY DEF SyncInv, LogsTyped
  <2>2. \A r \in ToSet(logs[n]) : \E i \in 1 .. Len(logs[n]) : r = logs[n][i]
    BY <2>1 DEF ToSet
  <2> QED
    BY <2>2 DEF EntriesInv
<1> QED
  BY <1>1 DEF Logged

\* A crash loses entries.
LEMMA CrashEntries == ASSUME TablesInv, SyncInv, EntriesInv, Crash PROVE EntriesInv'
<1>1. PICK m : \E kept \in [DOMAIN logs -> 0 .. Max({Len(logs[n]) : n \in DOMAIN logs})] :
       /\ \/ \A n \in DOMAIN logs : kept[n] = Len(logs[n])
          \/ \A n \in DOMAIN logs : kept[n] \in synced[n] .. Len(logs[n])
       /\ manifest' = {m}
       /\ logs' = [n \in DOMAIN logs |-> SubSeq(logs[n], 1, kept[n])]
       /\ LET there == Logged(logs', m.log) \cup Entries(tables, DOMAIN m.version)
          IN truth' = (truth \ (Logged(logs, m.log) \ there)) \cup Logged(logs', m.log)
  BY DEF Crash
<1>2. PICK kept :
       /\ \/ \A n \in DOMAIN logs : kept[n] = Len(logs[n])
          \/ \A n \in DOMAIN logs : kept[n] \in synced[n] .. Len(logs[n])
       /\ logs' = [n \in DOMAIN logs |-> SubSeq(logs[n], 1, kept[n])]
       /\ truth' \subseteq truth \cup Logged(logs', m.log)
  BY <1>1
<1>3. UNCHANGED <<tables, safe>> /\ mem' = {} /\ imm' = None /\ bg' = Idle
  BY DEF Crash
<1>4. \A n \in DOMAIN logs : /\ logs[n] \in Seq(SUBSET Written) /\ synced[n] \in Nat /\ kept[n] \in Nat
                             /\ kept[n] <= Len(logs[n])
  BY <1>2 DEF SyncInv, LogsTyped
<1>5. /\ DOMAIN logs' = DOMAIN logs
      /\ \A n \in DOMAIN logs : /\ logs'[n] \in Seq(SUBSET Written) /\ Len(logs'[n]) = kept[n]
                                /\ \A i \in 1 .. kept[n] : logs'[n][i] = logs[n][i] /\ i \in 1 .. Len(logs[n])
  <2>1. ASSUME NEW n \in DOMAIN logs
        PROVE  /\ logs'[n] \in Seq(SUBSET Written) /\ Len(logs'[n]) = kept[n]
               /\ \A i \in 1 .. kept[n] : logs'[n][i] = logs[n][i] /\ i \in 1 .. Len(logs[n])
    <3>1. logs'[n] = SubSeq(logs[n], 1, kept[n])
      BY <1>2
    <3>2. \A i \in 1 .. kept[n] : logs[n][i] \in SUBSET Written
      BY <1>4
    <3> QED
      BY <1>4, <3>1, <3>2, SubSeqProperties
  <2> QED
    BY <1>2, <2>1
<1>6. \A n \in DOMAIN logs' : \A i \in 1 .. Len(logs'[n]) : logs'[n][i] \subseteq Entry
  BY <1>5 DEF EntriesInv
<1>7. Logged(logs', m.log) \subseteq Entry
  <2>1. ASSUME NEW n \in DOMAIN logs' PROVE UNION ToSet(logs'[n]) \subseteq Entry
    <3>1. logs'[n] \in Seq(SUBSET Written)
      BY <1>5
    <3>2. \A r \in ToSet(logs'[n]) : \E i \in 1 .. Len(logs'[n]) : r = logs'[n][i]
      BY <3>1 DEF ToSet
    <3> QED
      BY <1>6, <3>2
  <2> QED
    BY <2>1 DEF Logged
<1>8. bg'.at # "build"
  BY <1>3 DEF Idle
<1> QED
  BY <1>2, <1>3, <1>6, <1>7, <1>8 DEF EntriesInv

\* Recovery makes tables of the logs that say something, and begins with an empty one.
LEMMA RecoveryEntries == ASSUME TablesInv, SyncInv, EntriesInv, RecoverLogs \/ Open PROVE EntriesInv'
<1>1. CASE RecoverLogs
  <2>1. UNCHANGED <<logs, truth, safe, mem, imm, bg>>
    BY <1>1 DEF RecoverLogs, memory_, written_, thread_
  <2>2. PICK m \in manifest :
          LET old == {n \in DOMAIN logs : n >= m.log /\ UNION ToSet(logs[n]) # {}}
              number(n) == m.next + Cardinality({k \in old : k <= n})
              new == [f \in {number(n) : n \in old} |-> UNION ToSet(logs[CHOOSE n \in old : number(n) = f])]
          IN tables' = Over(new, tables)
    BY <1>1 DEF RecoverLogs
  <2> DEFINE old == {n \in DOMAIN logs : n >= m.log /\ UNION ToSet(logs[n]) # {}}
             number(n) == m.next + Cardinality({k \in old : k <= n})
             new == [f \in {number(n) : n \in old} |-> UNION ToSet(logs[CHOOSE n \in old : number(n) = f])]
  <2>3. tables' = Over(new, tables)
    BY <2>2
  <2>4. \A n \in old : UNION ToSet(logs[n]) \subseteq Entry /\ UNION ToSet(logs[n]) # {}
    BY LoggedTyped
  <2> HIDE DEF old, number
  <2>5. ASSUME NEW f \in DOMAIN new PROVE new[f] \subseteq Entry /\ new[f] # {}
    <3>1. \E n \in old : number(n) = f
      OBVIOUS
    <3>2. (CHOOSE n \in old : number(n) = f) \in old
      BY <3>1
    <3> QED
      BY <2>4, <3>2
  <2> HIDE DEF new
  <2>6. \A f \in DOMAIN tables' : tables'[f] \subseteq Entry /\ tables'[f] # {}
    BY <2>3, <2>5, OverApplied DEF EntriesInv
  <2> QED
    BY <2>1, <2>6 DEF EntriesInv
<1>2. CASE Open
  <2>1. /\ UNCHANGED <<mem, imm, bg, truth, safe>>
        /\ logs' = [n \in {nextFile} |-> <<>>] /\ tables' = Restrict(tables, DOMAIN version)
    BY <1>2 DEF Open, written_
  <2>2. \A n \in DOMAIN logs' : \A i \in 1 .. Len(logs'[n]) : logs'[n][i] \subseteq Entry
    <3>1. \A n \in DOMAIN logs' : logs'[n] = <<>>
      BY <2>1
    <3>2. 1 .. Len(<<>>) = {}
      OBVIOUS
    <3> QED
      BY <3>1, <3>2
  <2>3. \A f \in DOMAIN tables' : f \in DOMAIN tables /\ tables'[f] = tables[f]
    BY <2>1 DEF Restrict, TablesInv
  <2>4. \A f \in DOMAIN tables' : tables'[f] \subseteq Entry /\ tables'[f] # {}
    BY <2>3 DEF EntriesInv
  <2> QED
    BY <2>1, <2>2, <2>4 DEF EntriesInv
<1> QED
  BY <1>1, <1>2

-----------------------------------------------------------------------------
(* Files and levels.                                                       *)

\* The files of a version are on levels, and have numbers below n.
VersionOK(v, n) == \A f \in DOMAIN v : f \in Nat /\ f < n /\ v[f] \in 0 .. NumLevels - 1

FilesInv ==
  /\ nextFile # 0 /\ VersionOK(version, nextFile)
  /\ \A m \in manifest : VersionOK(m.version, m.next) /\ (up = "open" => m.next <= nextFile)
  /\ bg.at = "build" => /\ bg.file # 0 /\ bg.file \in Nat /\ bg.file < nextFile /\ VersionOK(version, bg.file)
                        /\ \A m \in manifest : m.next <= bg.file
  /\ bg.at = "edit" => /\ bg.edit.next <= nextFile /\ VersionOK(bg.edit.add, bg.edit.next)
                       /\ \A m \in manifest : m.next <= bg.edit.next
  /\ bg.at = "merge" \/ bg.comp # None => bg.comp.level \in Nat /\ bg.comp.level + 1 < NumLevels

\* What TypeOK says of the database and its thread.
StateInv ==
  /\ manifest # {} /\ up \in {"open", "closed", "replayed"} /\ logNumber <= logfile
  /\ scheduled \in BOOLEAN /\ bgError \in BOOLEAN /\ pending \subseteq 0 .. nextFile
  /\ bg.at # "idle" => scheduled
  /\ up # "open" => pending = {}

\* A version may be seen with more numbers given out.
LEMMA MoreNumbers ==
  ASSUME NEW v, NEW m \in Nat, NEW n \in Nat, m <= n, VersionOK(v, m)
  PROVE  VersionOK(v, n)
BY DEF VersionOK

\* An edit gives a version.
LEMMA EditedOK ==
  ASSUME NEW v, NEW e, NEW n, VersionOK(v, n), VersionOK(e.add, n)
  PROVE  VersionOK(Edited(v, e), n)
BY DEF VersionOK, Edited

\* A memory table goes to one of the first levels.
LEMMA PickLevelIsLevel ==
  ASSUME NEW v, NEW T, NEW lo, NEW hi
  PROVE  /\ PickLevel(v, T, lo, hi) \in 0 .. MaxMemLevel /\ PickLevel(v, T, lo, hi) \in 0 .. NumLevels - 1
         /\ PickLevel(v, T, lo, hi) > 0 =>
              /\ \A m \in 0 .. PickLevel(v, T, lo, hi) : Meeting(v, T, m, lo, hi) = {}
<1> DEFINE S == {l \in 0 .. MaxMemLevel : \A m \in 1 .. l : Meeting(v, T, m, lo, hi) = {}}
           p == PickLevel(v, T, lo, hi)
<1>1. MaxMemLevel \in Nat /\ NumLevels \in Nat /\ MaxMemLevel + 1 < NumLevels
  BY LevelsAssumption
<1>2. 0 \in S
  <2>1. 1 .. 0 = {}
    OBVIOUS
  <2> QED
    BY <1>1, <2>1
<1>3. S \subseteq 0 .. MaxMemLevel
  OBVIOUS
<1>4. p = IF Meeting(v, T, 0, lo, hi) # {} THEN 0 ELSE Max(S)
  BY DEF PickLevel
<1> HIDE DEF S, p
<1>5. Max(S) \in S
  BY <1>1, <1>2, <1>3, MaxIsGreatest
<1>6. p \in 0 .. MaxMemLevel
  <2>1. 0 \in 0 .. MaxMemLevel
    BY <1>1
  <2> QED
    BY <1>3, <1>4, <1>5, <2>1
<1>7. p \in 0 .. NumLevels - 1
  BY <1>1, <1>6
<1>8. ASSUME p > 0, NEW m \in 0 .. p PROVE Meeting(v, T, m, lo, hi) = {}
  <2>1. p \in S /\ Meeting(v, T, 0, lo, hi) = {}
    BY <1>4, <1>5, <1>8
  <2>2. CASE m = 0
    BY <2>1, <2>2
  <2>3. CASE m # 0
    <3>1. m \in 1 .. p
      BY <1>6, <2>3
    <3> QED
      BY <2>1, <3>1 DEF S
  <2> QED
    BY <2>2, <2>3
<1> QED
  BY <1>6, <1>7, <1>8 DEF p

\* The numbers, and that they are numbers.
LEMMA NumbersTyped ==
  ASSUME SyncInv
  PROVE  /\ nextFile \in Nat /\ logNumber \in Nat /\ \A m \in manifest : m.next \in Nat
         /\ bg.at = "edit" => bg.edit.next \in Nat
BY DEF SyncInv, Numbers

\* Steps that give out numbers at most, and leave versions and the thread alone.
LEMMA FilesFrame ==
  ASSUME SyncInv, FilesInv, UNCHANGED <<manifest, up, version, bg>>, nextFile' \in Nat, nextFile' >= nextFile
  PROVE  FilesInv'
<1>1. nextFile \in Nat /\ \A m \in manifest : m.next \in Nat
  BY NumbersTyped
<1>2. nextFile' # 0
  BY <1>1 DEF FilesInv
<1>3. VersionOK(version, nextFile')
  BY <1>1, MoreNumbers DEF FilesInv
<1>4. up = "open" => \A m \in manifest : m.next <= nextFile'
  BY <1>1 DEF FilesInv
<1>5. bg.at = "build" => bg.file \in Nat /\ bg.file < nextFile'
  BY <1>1 DEF FilesInv
<1>6. bg.at = "edit" => bg.edit.next <= nextFile'
  BY <1>1, NumbersTyped DEF FilesInv
<1>7. VersionOK(version, nextFile)' /\ \A m \in manifest : VersionOK(m.version, m.next)'
  BY <1>3 DEF FilesInv, VersionOK
<1>8. bg.at = "build" => VersionOK(version, bg.file)'
  BY DEF FilesInv, VersionOK
<1>9. bg.at = "edit" => VersionOK(bg.edit.add, bg.edit.next)'
  BY DEF FilesInv, VersionOK
<1> QED
  BY <1>2, <1>4, <1>5, <1>6, <1>7, <1>8, <1>9 DEF FilesInv

\* Writers and readers; only the leader takes a number.
LEMMA WritersFiles ==
  ASSUME SyncInv, FilesInv,
         \/ \E w \in Writes : Write(w)
         \/ Lead \/ LeadFails \/ AddRecord \/ Sync \/ InsertInto \/ Publish \/ WriteFails
         \/ GetSnapshot \/ ReleaseSnapshot \/ NewIterator \/ CleanupIterator \/ Reschedule \/ UNCHANGED vars
  PROVE  FilesInv'
<1>1. nextFile \in Nat
  BY NumbersTyped
<1>2. UNCHANGED <<manifest, up, version, bg>>
  BY DEF Write, Lead, LeadFails, AddRecord, Sync, InsertInto, Publish, WriteFails, GetSnapshot,
     ReleaseSnapshot, NewIterator, CleanupIterator, Reschedule, vars, disk_, files_, thread_
<1>3. nextFile' \in {nextFile, nextFile + 1}
  BY DEF Write, Lead, HasRoom, SwitchMemTable, LeadFails, AddRecord, Sync, InsertInto, Publish, WriteFails,
     GetSnapshot, ReleaseSnapshot, NewIterator, CleanupIterator, Reschedule, vars
<1>4. nextFile' \in Nat /\ nextFile' >= nextFile
  BY <1>1, <1>3
<1> QED
  BY <1>2, <1>4, FilesFrame

\* A table gets a number above all others.
LEMMA BeginFlushFiles == ASSUME TablesInv, SyncInv, FilesInv, BeginFlush PROVE FilesInv'
<1>1. /\ UNCHANGED <<manifest, up, version>> /\ nextFile' = nextFile + 1 /\ bg \in ThreadRecord
      /\ bg' = [bg EXCEPT !.at = "build", !.file = nextFile] /\ bg.at \in {"idle", "merge"}
  BY DEF BeginFlush, disk_, files_, TablesInv, ThreadInv
<1>2. bg'.at = "build" /\ bg'.file = nextFile /\ bg'.comp = bg.comp
  BY <1>1 DEF ThreadRecord
<1>3. nextFile \in Nat /\ \A m \in manifest : m.next \in Nat
  BY NumbersTyped
<1>4. up = "open"
  BY <1>1 DEF TablesInv, Idle, BeginFlush
<1>5. nextFile' # 0 /\ VersionOK(version, nextFile)'
  BY <1>1, <1>3 DEF FilesInv, VersionOK
<1>6. \A m \in manifest' : VersionOK(m.version, m.next)' /\ m.next <= nextFile' /\ m.next <= bg'.file
  BY <1>1, <1>2, <1>3, <1>4 DEF FilesInv, VersionOK
<1>7. bg'.file # 0 /\ bg'.file \in Nat /\ bg'.file < nextFile' /\ VersionOK(version, bg.file)'
  BY <1>1, <1>2, <1>3 DEF FilesInv, VersionOK
<1>8. bg'.comp # None => bg'.comp.level \in Nat /\ bg'.comp.level + 1 < NumLevels
  BY <1>2 DEF FilesInv
<1> QED
  BY <1>2, <1>5, <1>6, <1>7, <1>8 DEF FilesInv

\* Steps of the thread that end in an edit, or in nothing.
LEMMA ThreadFiles ==
  ASSUME SyncInv, FilesInv, UNCHANGED <<manifest, up, version>>, up = "open",
         nextFile' \in Nat, nextFile' >= nextFile,
         bg'.at # "build",
         bg'.at = "edit" => bg'.edit.next = nextFile' /\ VersionOK(bg'.edit.add, nextFile'),
         bg'.at = "merge" \/ bg'.comp # None => bg'.comp.level \in Nat /\ bg'.comp.level + 1 < NumLevels
  PROVE  FilesInv'
<1>1. nextFile \in Nat /\ \A m \in manifest : m.next \in Nat
  BY NumbersTyped
<1>2. nextFile' # 0 /\ VersionOK(version, nextFile)'
  BY <1>1 DEF FilesInv, VersionOK
<1>3. \A m \in manifest' : VersionOK(m.version, m.next)' /\ m.next <= nextFile'
  BY <1>1 DEF FilesInv, VersionOK
<1>4. bg'.at = "edit" => /\ bg'.edit.next <= nextFile' /\ VersionOK(bg.edit.add, bg.edit.next)'
                         /\ \A m \in manifest' : m.next <= bg'.edit.next
  BY <1>3 DEF VersionOK
<1> QED
  BY <1>2, <1>3, <1>4 DEF FilesInv

\* The edit of a memory table.
LEMMA BuildTableFiles == ASSUME TablesInv, SyncInv, FilesInv, BuildTable PROVE FilesInv'
<1> DEFINE level == PickLevel(version, tables, Min({e.key : e \in imm}), Max({e.key : e \in imm}))
<1>1. /\ UNCHANGED <<manifest, up, version, nextFile>> /\ up = "open" /\ bg.at = "build" /\ bg'.at = "edit"
      /\ bg'.comp = bg.comp /\ bg'.edit.add = [f \in {bg.file} |-> level] /\ bg'.edit.next = nextFile
  BY BuildTableDoes DEF BuildTable, files_
<1>2. nextFile \in Nat
  BY NumbersTyped
<1>3. level \in 0 .. NumLevels - 1
  BY PickLevelIsLevel
<1> HIDE DEF level
<1>4. bg.file \in Nat /\ bg.file < nextFile
  BY <1>1 DEF FilesInv
<1>5. VersionOK(bg'.edit.add, nextFile')
  BY <1>1, <1>3, <1>4 DEF VersionOK
<1>6. bg'.comp # None => bg'.comp.level \in Nat /\ bg'.comp.level + 1 < NumLevels
  BY <1>1 DEF FilesInv
<1>7. nextFile' \in Nat /\ nextFile' >= nextFile
  BY <1>1, <1>2
<1> QED
  BY <1>1, <1>5, <1>6, <1>7, ThreadFiles

\* A compaction begins above the last level.
LEMMA BeginCompactionFiles == ASSUME TablesInv, SyncInv, FilesInv, BeginCompaction PROVE FilesInv'
<1>1. UNCHANGED <<manifest, up, version, nextFile>>
  BY DEF BeginCompaction, disk_, files_
<1>2. up = "open"
  BY BeginCompactionDoes
<1>3. PICK f \in Pickable :
        LET l == version[f]
            c == Inputs(version, tables, l, Picked(version, tables, l, f))
        IN \/ /\ TrivialMove(c) /\ bg'.at = "edit" /\ bg'.file = 0 /\ bg'.comp = None
              /\ bg'.edit.add = [g \in {f} |-> l + 1] /\ bg'.edit.drop = {}
              /\ bg'.edit.log = logNumber /\ bg'.edit.next = nextFile /\ bg'.edit.seq = lastSeq
           \/ /\ bg'.at = "merge" /\ bg'.file = 0 /\ bg'.comp.level = l
              /\ bg'.comp.in0 = c.in0 /\ bg'.comp.in1 = c.in1
  BY BeginCompactionDoes
<1>4. f \in DOMAIN version /\ version[f] < NumLevels - 1
  BY DEF Pickable
<1>5. f \in Nat /\ f < nextFile /\ version[f] \in Nat /\ nextFile \in Nat
  BY <1>4, NumbersTyped DEF FilesInv, VersionOK
<1>6. NumLevels \in Nat
  BY LevelsAssumption
<1>7. version[f] + 1 \in 0 .. NumLevels - 1 /\ version[f] + 1 < NumLevels
  BY <1>4, <1>5, <1>6
<1>8. nextFile' \in Nat /\ nextFile' >= nextFile
  BY <1>1, <1>5
<1>9. CASE /\ bg'.at = "edit" /\ bg'.comp = None
           /\ bg'.edit.add = [g \in {f} |-> version[f] + 1] /\ bg'.edit.next = nextFile
  <2>1. VersionOK(bg'.edit.add, nextFile')
    BY <1>1, <1>5, <1>7, <1>9 DEF VersionOK
  <2> QED
    BY <1>1, <1>2, <1>8, <1>9, <2>1, ThreadFiles
<1>10. CASE bg'.at = "merge" /\ bg'.comp.level = version[f]
  <2>1. bg'.comp.level \in Nat /\ bg'.comp.level + 1 < NumLevels
    BY <1>5, <1>7, <1>10
  <2> QED
    BY <1>1, <1>2, <1>8, <1>10, <2>1, ThreadFiles
<1> QED
  BY <1>3, <1>9, <1>10

\* An output gets a number.
LEMMA WriteOutputFiles == ASSUME TablesInv, SyncInv, FilesInv, WriteOutput PROVE FilesInv'
<1>1. UNCHANGED <<manifest, up, version, bg>> /\ nextFile' = nextFile + 1
  BY WriteOutputDoes
<1>2. nextFile' \in Nat /\ nextFile' >= nextFile
  BY <1>1, NumbersTyped
<1> QED
  BY <1>1, <1>2, FilesFrame

\* The outputs are on a level.
LEMMA MergeFiles == ASSUME TablesInv, OutputsHeld, SyncInv, FilesInv, Merge PROVE FilesInv'
<1>1. /\ up = "open" /\ bg.at = "merge" /\ bg'.at = "edit" /\ UNCHANGED <<manifest, up, version, nextFile>>
      /\ bg'.comp = bg.comp /\ bg'.edit.add = [f \in outputs |-> bg.comp.level + 1]
      /\ bg'.edit.next = nextFile
  BY MergeDoes
<1>2. nextFile' \in Nat /\ nextFile' >= nextFile
  BY <1>1, NumbersTyped
<1>3. bg.comp.level \in Nat /\ bg.comp.level + 1 < NumLevels
  BY <1>1 DEF FilesInv
<1>4. bg.comp.level + 1 \in 0 .. NumLevels - 1
  BY <1>3, LevelsAssumption
<1>5. VersionOK(bg'.edit.add, nextFile')
  BY <1>1, <1>4 DEF VersionOK, OutputsHeld
<1> QED
  BY <1>1, <1>2, <1>3, <1>5, ThreadFiles

\* A call that ends without an edit.
LEMMA CallEndsFiles ==
  ASSUME TablesInv, SyncInv, FilesInv, NothingToDo \/ BuildTableFails \/ MergeFails PROVE FilesInv'
<1>1. UNCHANGED <<manifest, up, version, nextFile>>
  BY DEF NothingToDo, BuildTableFails, MergeFails, disk_, files_
<1>2. nextFile' \in Nat /\ nextFile' >= nextFile
  BY <1>1, NumbersTyped
<1>3. /\ up = "open" /\ bg'.at \notin {"build", "edit"}
      /\ bg'.at = "merge" \/ bg'.comp # None => bg'.comp = bg.comp /\ bg.comp # None
  BY CallEnds DEF Idle
<1>4. bg'.at = "merge" \/ bg'.comp # None => bg'.comp.level \in Nat /\ bg'.comp.level + 1 < NumLevels
  BY <1>3 DEF FilesInv
<1> QED
  BY <1>1, <1>2, <1>3, <1>4, ThreadFiles

\* What an edit makes of the manifest's states.
LEMMA RecordedOK ==
  ASSUME SyncInv, FilesInv, bg.at = "edit", NEW m \in manifest
  PROVE  /\ VersionOK(Recorded(m, bg.edit).version, bg.edit.next)
         /\ Recorded(m, bg.edit).next = bg.edit.next
<1>1. m.next \in Nat /\ bg.edit.next \in Nat
  BY NumbersTyped
<1>2. VersionOK(m.version, bg.edit.next)
  BY <1>1, MoreNumbers DEF FilesInv
<1>3. VersionOK(Edited(m.version, bg.edit), bg.edit.next)
  BY <1>2, EditedOK DEF FilesInv
<1> QED
  BY <1>3 DEF Recorded

\* The version and the manifest after an edit.
LEMMA InstallFiles == ASSUME TablesInv, SyncInv, FilesInv, Install \/ InstallFails PROVE FilesInv'
<1>1. /\ bg.at = "edit" /\ UNCHANGED <<up, nextFile>>
      /\ version' \in {version, Edited(version, bg.edit)}
      /\ \A m \in manifest' : m \in manifest \/ \E l \in manifest : m = Recorded(l, bg.edit)
  BY DEF Install, InstallFails, files_
<1>2. /\ up = "open" /\ bg'.at \notin {"build", "edit"}
      /\ bg'.at = "merge" \/ bg'.comp # None => bg'.comp = bg.comp /\ bg.comp # None
  BY CallEnds DEF Idle
<1>3. nextFile \in Nat /\ bg.edit.next \in Nat /\ bg.edit.next <= nextFile
  BY <1>1, NumbersTyped DEF FilesInv
<1>4. VersionOK(version', nextFile)
  <2>1. VersionOK(bg.edit.add, nextFile)
    BY <1>1, <1>3, MoreNumbers DEF FilesInv
  <2>2. VersionOK(Edited(version, bg.edit), nextFile)
    BY <2>1, EditedOK DEF FilesInv
  <2> QED
    BY <1>1, <2>2 DEF FilesInv
<1>5. \A m \in manifest' : VersionOK(m.version, m.next) /\ m.next <= nextFile
  <2>1. \A l \in manifest : /\ VersionOK(Recorded(l, bg.edit).version, bg.edit.next)
                            /\ Recorded(l, bg.edit).next = bg.edit.next
    BY <1>1, RecordedOK
  <2> QED
    BY <1>1, <1>2, <1>3, <2>1 DEF FilesInv
<1>6. bg'.at = "merge" \/ bg'.comp # None => bg'.comp.level \in Nat /\ bg'.comp.level + 1 < NumLevels
  BY <1>2 DEF FilesInv
<1>7. VersionOK(version, nextFile)' /\ \A m \in manifest' : VersionOK(m.version, m.next)'
  BY <1>1, <1>4, <1>5 DEF VersionOK
<1> QED
  BY <1>1, <1>2, <1>5, <1>6, <1>7 DEF FilesInv

\* A crash leaves one of the manifest's states, or what an edit makes of it.
LEMMA CrashFiles == ASSUME TablesInv, SyncInv, FilesInv, Crash PROVE FilesInv'
<1>1. /\ \A m \in manifest' : m \in manifest \/ (bg.at = "edit" /\ \E l \in manifest : m = Recorded(l, bg.edit))
      /\ bg' = Idle /\ version' = NoFiles /\ up' = "closed" /\ UNCHANGED nextFile
  BY DEF Crash
<1>2. \A m \in manifest' : VersionOK(m.version, m.next)
  <2>1. ASSUME bg.at = "edit", NEW l \in manifest
        PROVE  VersionOK(Recorded(l, bg.edit).version, Recorded(l, bg.edit).next)
    BY <2>1, RecordedOK
  <2> QED
    BY <1>1, <2>1 DEF FilesInv
<1>3. \A m \in manifest' : VersionOK(m.version, m.next)'
  BY <1>2 DEF VersionOK
<1>4. VersionOK(version, nextFile)'
  BY <1>1 DEF NoFiles, VersionOK
<1>5. bg'.at = "idle" /\ bg'.comp = None
  BY <1>1 DEF Idle
<1> QED
  BY <1>1, <1>3, <1>4, <1>5 DEF FilesInv

\* How many of a finite set of logs come no later than one of them.
LEMMA Counted ==
  ASSUME NEW old, IsFiniteSet(old), NEW n
  PROVE  /\ Cardinality(old) \in Nat /\ Cardinality({k \in old : k <= n}) \in Nat
         /\ Cardinality({k \in old : k <= n}) <= Cardinality(old)
<1>1. {k \in old : k <= n} \subseteq old
  OBVIOUS
<1> QED
  BY <1>1, FS_Subset, FS_CardinalityType

\* The logs become tables of level 0, with numbers after those of the manifest.
LEMMA RecoverLogsFiles == ASSUME TablesInv, SyncInv, FilesInv, RecoverLogs PROVE FilesInv'
<1>1. /\ up = "closed" /\ up' = "replayed" /\ UNCHANGED <<manifest, bg>>
  BY DEF RecoverLogs, thread_
<1>2. PICK m \in manifest :
        LET old == {n \in DOMAIN logs : n >= m.log /\ UNION ToSet(logs[n]) # {}}
            number(n) == m.next + Cardinality({k \in old : k <= n})
            new == [f \in {number(n) : n \in old} |-> UNION ToSet(logs[CHOOSE n \in old : number(n) = f])]
        IN /\ version' = Edited(m.version, [drop |-> {}, add |-> [f \in DOMAIN new |-> 0]])
           /\ nextFile' = Max({m.next + Cardinality(old) + 1} \cup {n + 1 : n \in {i \in DOMAIN logs : i >= m.log}})
  BY DEF RecoverLogs
<1> DEFINE old == {n \in DOMAIN logs : n >= m.log /\ UNION ToSet(logs[n]) # {}}
           number(n) == m.next + Cardinality({k \in old : k <= n})
           add == [f \in {number(n) : n \in old} |-> 0]
           edit == [drop |-> {}, add |-> add]
           first == m.next + Cardinality(old) + 1
           S == {first} \cup {n + 1 : n \in {i \in DOMAIN logs : i >= m.log}}
<1>3. version' = Edited(m.version, edit) /\ nextFile' = Max(S)
  BY <1>2
<1>4. PICK b \in Nat : DOMAIN logs \subseteq 0 .. b
  BY DEF SyncInv, Bounded
<1>5. IsFiniteSet(old)
  <2>1. IsFiniteSet(0 .. b)
    BY FS_Interval
  <2>2. old \subseteq 0 .. b
    BY <1>4
  <2> QED
    BY <2>1, <2>2, FS_Subset
<1>6. m.next \in Nat
  BY NumbersTyped
<1>7. Cardinality(old) \in Nat /\ \A n : /\ Cardinality({k \in old : k <= n}) \in Nat
                                         /\ Cardinality({k \in old : k <= n}) <= Cardinality(old)
  BY <1>5, Counted
<1> HIDE DEF old
<1>8. first \in Nat
  BY <1>6, <1>7
<1>9. S \subseteq 0 .. first + b + 1 /\ first \in S /\ first + b + 1 \in Nat
  BY <1>4, <1>8
<1>10. m.next < first /\ \A n : number(n) \in Nat /\ number(n) < first
  BY <1>6, <1>7
<1> HIDE DEF S, first, number
<1>11. Max(S) \in S /\ first <= Max(S)
  BY <1>9, MaxIsGreatest
<1>12. nextFile' \in Nat /\ first <= nextFile'
  <2>1. Max(S) \in 0 .. first + b + 1
    BY <1>9, <1>11, Zenon
  <2> QED
    BY <1>3, <1>11, <2>1
<1>13. VersionOK(add, nextFile')
  <2>1. NumLevels \in Nat /\ 0 < NumLevels
    BY LevelsAssumption
  <2>2. \A n : number(n) < nextFile'
    BY <1>8, <1>10, <1>12
  <2> QED
    BY <1>10, <2>1, <2>2 DEF VersionOK
<1>14. VersionOK(m.version, nextFile')
  <2>1. m.next <= nextFile'
    BY <1>6, <1>8, <1>10, <1>12
  <2> QED
    BY <1>6, <1>12, <2>1, MoreNumbers DEF FilesInv
<1>15. VersionOK(version, nextFile)'
  <2>1. edit.add = add
    OBVIOUS
  <2> HIDE DEF edit, add
  <2>2. VersionOK(Edited(m.version, edit), nextFile')
    BY <1>13, <1>14, <2>1, EditedOK
  <2> QED
    BY <1>3, <2>2 DEF VersionOK
<1>16. nextFile' # 0
  BY <1>6, <1>8, <1>10, <1>12
<1>17. \A d \in manifest' : VersionOK(d.version, d.next)'
  BY <1>1 DEF FilesInv, VersionOK
<1>18. bg'.at = "idle" /\ bg'.comp = None
  BY <1>1 DEF TablesInv, Idle
<1> QED
  BY <1>1, <1>15, <1>16, <1>17, <1>18 DEF FilesInv

\* The manifest begins anew.
LEMMA OpenFiles == ASSUME TablesInv, SyncInv, FilesInv, Open PROVE FilesInv'
<1>1. /\ up = "replayed" /\ up' = "open" /\ nextFile' = nextFile + 1 /\ UNCHANGED <<version, bg>>
      /\ manifest' = {[version |-> version, log |-> nextFile, next |-> nextFile + 1, seq |-> lastSeq]}
  BY DEF Open
<1>2. nextFile \in Nat
  BY NumbersTyped
<1>3. \A m \in manifest' : m.version = version /\ m.next = nextFile'
  BY <1>1
<1>4. VersionOK(version, nextFile)'
  BY <1>1, <1>2 DEF FilesInv, VersionOK
<1>5. \A m \in manifest' : VersionOK(m.version, m.next)' /\ m.next <= nextFile'
  BY <1>1, <1>2, <1>3, <1>4 DEF VersionOK
<1>6. bg'.at = "idle" /\ bg'.comp = None
  BY <1>1 DEF TablesInv, Idle
<1> QED
  BY <1>1, <1>2, <1>4, <1>5, <1>6 DEF FilesInv

-----------------------------------------------------------------------------
(* The types.                                                              *)

\* The log in use is no older than those the database needs.
LEMMA LogNumberStays ==
  ASSUME TablesInv, SyncInv, StateInv, [Next]_vars, up = "open", up' = "open"
  PROVE  logNumber' <= logfile'
<1>1. nextFile \in Nat /\ logNumber \in Nat /\ logfile \in Nat /\ logfile < nextFile
  BY NumbersTyped, LogfileIsNat DEF SyncInv, Latest
<1>2. CASE Lead
  BY <1>1, <1>2 DEF Lead, HasRoom, SwitchMemTable, memory_, files_, StateInv
<1>3. CASE Install
  BY <1>3 DEF Install, SyncInv, Latest
<1>4. CASE UNCHANGED <<logfile, logNumber>>
  BY <1>4 DEF StateInv
<1> QED
  BY <1>2, <1>3, <1>4 DEF Next, vars, Write, LeadFails, AddRecord, Sync, InsertInto, Publish, WriteFails,
     GetSnapshot, ReleaseSnapshot, NewIterator, CleanupIterator, Reschedule, NothingToDo, BeginFlush,
     BuildTable, BuildTableFails, BeginCompaction, WriteOutput, Merge, MergeFails, InstallFails, Crash, RecoverLogs,
     Open, memory_, files_

\* Steps that leave the manifest, the thread and its files alone.
LEMMA StateFrame ==
  ASSUME StateInv, UNCHANGED <<manifest, up, pending, bg>>, logNumber' <= logfile',
         scheduled' \in BOOLEAN, scheduled => scheduled', bgError' \in BOOLEAN,
         nextFile \in Nat, nextFile' \in Nat, nextFile' >= nextFile
  PROVE  StateInv'
<1>1. pending' \subseteq 0 .. nextFile'
  BY DEF StateInv
<1> QED
  BY <1>1 DEF StateInv

\* Writers and readers.
LEMMA WritersState ==
  ASSUME SyncInv, SyncInv', StateInv, logNumber' <= logfile',
         \/ \E w \in Writes : Write(w)
         \/ Lead \/ LeadFails \/ AddRecord \/ Sync \/ InsertInto \/ Publish \/ WriteFails
         \/ GetSnapshot \/ ReleaseSnapshot \/ NewIterator \/ CleanupIterator \/ Reschedule \/ UNCHANGED vars
  PROVE  StateInv'
<1>1. nextFile \in Nat /\ nextFile' \in Nat
  BY DEF SyncInv, Numbers
<1>2. scheduled \in BOOLEAN /\ bgError \in BOOLEAN
  BY DEF StateInv
<1>3. UNCHANGED <<manifest, up, pending, bg>>
  BY DEF Write, Lead, LeadFails, AddRecord, Sync, InsertInto, Publish, WriteFails, GetSnapshot,
     ReleaseSnapshot, NewIterator, CleanupIterator, Reschedule, vars, disk_, thread_, HasRoom, SwitchMemTable
<1>4. nextFile' >= nextFile
  <2>1. CASE Lead
    BY <1>1, <2>1 DEF Lead, HasRoom, SwitchMemTable
  <2>2. CASE nextFile' = nextFile
    BY <1>1, <2>2
  <2> QED
    BY <2>1, <2>2 DEF Write, LeadFails, AddRecord, Sync, InsertInto, Publish, WriteFails, GetSnapshot,
       ReleaseSnapshot, NewIterator, CleanupIterator, Reschedule, vars
<1>5. scheduled' \in BOOLEAN /\ (scheduled => scheduled')
  <2>1. CASE Lead
    <3>1. scheduled' = scheduled \/ scheduled' = (scheduled \/ Wanted(mem, version, bgError))
      BY <2>1 DEF Lead, HasRoom, SwitchMemTable
    <3> QED
      BY <1>2, <3>1, Zenon
  <2>2. CASE Reschedule
    BY <2>2 DEF Reschedule
  <2>3. CASE scheduled' = scheduled
    BY <1>2, <2>3
  <2> QED
    BY <2>1, <2>2, <2>3 DEF Write, LeadFails, AddRecord, Sync, InsertInto, Publish, WriteFails, GetSnapshot,
       ReleaseSnapshot, NewIterator, CleanupIterator, vars, thread_
<1>6. bgError' \in BOOLEAN
  <2>1. CASE WriteFails
    <3>1. bgError' = (bgError \/ stage = "sync")
      BY <2>1 DEF WriteFails
    <3> QED
      BY <1>2, <3>1, Zenon
  <2>2. CASE bgError' = bgError
    BY <1>2, <2>2
  <2> QED
    BY <2>1, <2>2 DEF Write, Lead, LeadFails, AddRecord, Sync, InsertInto, Publish, GetSnapshot,
       ReleaseSnapshot, NewIterator, CleanupIterator, Reschedule, vars
<1> QED
  BY <1>1, <1>3, <1>4, <1>5, <1>6, StateFrame

\* The thread is at work only in an open database.
LEMMA ThreadIsOpen ==
  ASSUME TablesInv,
         \/ BeginFlush \/ BuildTable \/ BeginCompaction \/ WriteOutput \/ Merge
         \/ NothingToDo \/ BuildTableFails \/ MergeFails \/ Install \/ InstallFails
  PROVE  up = "open" /\ UNCHANGED up
<1>1. UNCHANGED up
  BY DEF BeginFlush, BuildTable, BeginCompaction, WriteOutput, Merge, NothingToDo, BuildTableFails, MergeFails,
     Install, InstallFails, disk_
<1>2. CASE BeginFlush
  BY <1>2 DEF BeginFlush, TablesInv, Idle
<1>3. CASE BuildTable \/ BeginCompaction \/ WriteOutput \/ Merge
  BY <1>1, <1>3, BuildTableDoes, BeginCompactionDoes, WriteOutputDoes, MergeDoes
<1>4. CASE NothingToDo \/ BuildTableFails \/ MergeFails \/ Install \/ InstallFails
  BY <1>1, <1>4, CallEnds
<1> QED
  BY <1>1, <1>2, <1>3, <1>4

\* The background thread.
LEMMA ThreadState ==
  ASSUME TablesInv, SyncInv, SyncInv', FilesInv, StateInv, logNumber' <= logfile',
         \/ BeginFlush \/ BuildTable \/ BeginCompaction \/ WriteOutput \/ Merge
         \/ NothingToDo \/ BuildTableFails \/ MergeFails \/ Install \/ InstallFails
  PROVE  StateInv'
<1>1. nextFile \in Nat /\ nextFile' \in Nat
  BY DEF SyncInv, Numbers
<1>2. scheduled \in BOOLEAN /\ bgError \in BOOLEAN /\ pending \subseteq 0 .. nextFile
  BY DEF StateInv
<1>3. UNCHANGED up /\ up = "open" /\ manifest' # {} /\ bgError' \in BOOLEAN
  <2>1. UNCHANGED up /\ manifest' # {}
    BY DEF BeginFlush, BuildTable, BeginCompaction, WriteOutput, Merge, NothingToDo, BuildTableFails, MergeFails,
       Install, InstallFails, disk_, StateInv
  <2>2. bgError' \in BOOLEAN
    BY <1>2 DEF BeginFlush, BuildTable, BeginCompaction, WriteOutput, Merge, NothingToDo, BuildTableFails, MergeFails,
       Install, InstallFails
  <2>3. up = "open"
    BY ThreadIsOpen
  <2> QED
    BY <2>1, <2>2, <2>3
<1>4. pending' \subseteq 0 .. nextFile'
  <2>1. CASE WriteOutput \/ BeginFlush
    <3>1. pending' = pending \cup {nextFile} /\ nextFile' = nextFile + 1
      BY <2>1 DEF WriteOutput, BeginFlush
    <3> QED
      BY <1>1, <1>2, <3>1
  <2>2. CASE nextFile' = nextFile /\ pending' \subseteq pending
    BY <1>2, <2>2
  <2> QED
    BY <2>1, <2>2 DEF BuildTable, BeginCompaction, Merge, NothingToDo, BuildTableFails, MergeFails,
       Install, InstallFails, CleanupCompaction, disk_
<1>5. scheduled' \in BOOLEAN /\ (bg'.at # "idle" => scheduled')
  <2>1. CASE BeginFlush
    BY <1>2, <2>1 DEF BeginFlush, StateInv
  <2>2. CASE BuildTable \/ WriteOutput \/ Merge
    BY <1>2, <2>2 DEF BuildTable, WriteOutput, Merge, StateInv
  <2>3. CASE BeginCompaction
    BY <1>2, <2>3 DEF BeginCompaction
  <2>4. CASE NothingToDo \/ BuildTableFails \/ MergeFails \/ Install \/ InstallFails
    <3>1. \/ bg' = Idle /\ scheduled' \in BOOLEAN
          \/ bg'.at = "merge" /\ bg.at \in {"build", "edit"} /\ UNCHANGED scheduled
      BY <2>4, CallEnds
    <3> QED
      BY <1>2, <3>1 DEF Idle, StateInv
  <2> QED
    BY <2>1, <2>2, <2>3, <2>4
<1> QED
  BY <1>3, <1>4, <1>5 DEF StateInv

\* A crash, and DB::Open.
LEMMA RecoveryState ==
  ASSUME TablesInv, SyncInv, SyncInv', StateInv, Crash \/ RecoverLogs \/ Open
  PROVE  StateInv'
<1>1. nextFile' \in Nat
  BY DEF SyncInv, Numbers
<1>2. CASE Crash
  <2>1. /\ manifest' # {} /\ up' = "closed" /\ scheduled' = FALSE /\ bg' = Idle /\ pending' = {} /\ bgError' = FALSE
        /\ UNCHANGED <<logfile, logNumber>>
    BY <1>2 DEF Crash
  <2> QED
    BY <2>1 DEF StateInv, Idle
<1>3. CASE RecoverLogs
  <2>1. /\ up = "closed" /\ up' = "replayed"
        /\ UNCHANGED <<manifest, scheduled, bg, pending, bgError, logfile, logNumber>>
    BY <1>3 DEF RecoverLogs, thread_, memory_
  <2> QED
    BY <2>1 DEF StateInv
<1>4. CASE Open
  <2>1. /\ up = "replayed" /\ up' = "open" /\ logfile' = nextFile /\ logNumber' = nextFile /\ manifest' # {}
        /\ scheduled' = Wanted(None, version, FALSE) /\ UNCHANGED <<bg, pending, bgError>>
    BY <1>4 DEF Open
  <2>2. scheduled' \in BOOLEAN
    BY <2>1 DEF Wanted
  <2>3. bg.at = "idle" /\ pending = {} /\ nextFile \in Nat
    BY <2>1 DEF TablesInv, StateInv, Idle, SyncInv, Numbers
  <2>4. pending' = {} /\ bg'.at = "idle" /\ logNumber' <= logfile' /\ bgError' \in BOOLEAN
    BY <2>1, <2>3 DEF StateInv
  <2>5. manifest' # {} /\ up' = "open"
    BY <2>1
  <2> QED
    BY <2>2, <2>4, <2>5 DEF StateInv
<1> QED
  BY <1>2, <1>3, <1>4

-----------------------------------------------------------------------------
(* The outputs of a compaction.                                            *)

\* Each table written so far is one of those wanted and stands for it alone; the tables
\* the compaction began with stay as they are, whatever is written meanwhile.
OutputsOK(c, T, v, outs) ==
  /\ outs \cap DOMAIN v = {}
  /\ \A f \in outs : \E i \in DOMAIN Outputs(c, T, c.oldest) : T[f] = Outputs(c, T, c.oldest)[i]
  /\ \A f, g \in outs : T[f] = T[g] => f = g

OutputsInv ==
  bg.at = "merge" \/ bg.comp # None =>
    /\ \A f \in DOMAIN bg.comp.base : f \in Nat /\ f < nextFile /\ (bg.at = "build" => f # bg.file)
    /\ OutputsOK(bg.comp, tables, version, outputs)

\* What is wanted depends on the tables the compaction began with.
LEMMA OutputsAgree ==
  ASSUME NEW c, NEW T, NEW U, NEW oldest, c.in0 \cup c.in1 \subseteq DOMAIN c.base,
         \A f \in DOMAIN c.base : U[f] = T[f]
  PROVE  Outputs(c, U, oldest) = Outputs(c, T, oldest)
<1> DEFINE all(V) == Entries(V, c.in0 \cup c.in1)
<1>1. all(U) = all(T)
  <2>1. \A f \in c.in0 \cup c.in1 : U[f] = T[f]
    OBVIOUS
  <2> QED
    BY <2>1, Zenon DEF Entries
<1>2. ASSUME NEW k PROVE BaseLevel(c, U, k) = BaseLevel(c, T, k)
  <2>1. ASSUME NEW l PROVE Meeting(c.base, U, l, k, k) = Meeting(c.base, T, l, k, k)
    BY DEF Meeting, Level, Smallest, Largest, Keys
  <2> QED
    BY <2>1 DEF BaseLevel
<1>3. ASSUME NEW e PROVE Dropped(c, U, e, oldest) = Dropped(c, T, e, oldest)
  BY <1>1, <1>2, Zenon DEF Dropped
<1>4. {e \in Entry : e \in all(U) /\ ~Dropped(c, U, e, oldest)} = {e \in Entry : e \in all(T) /\ ~Dropped(c, T, e, oldest)}
  BY <1>1, <1>3, Zenon
<1> HIDE DEF all
<1> QED
  BY <1>4 DEF Outputs, all

\* What is to be shown after a step.
LEMMA OutputsAfter ==
  ASSUME bg'.at = "merge" \/ bg'.comp # None =>
           /\ \A f \in DOMAIN bg'.comp.base : f \in Nat /\ f < nextFile' /\ (bg'.at = "build" => f # bg'.file)
           /\ OutputsOK(bg'.comp, tables', version', outputs')
  PROVE  OutputsInv'
<1>1. bg'.at = "merge" \/ bg'.comp # None => OutputsOK(bg.comp, tables, version, outputs)'
  BY DEF OutputsOK, Outputs, Dropped, BaseLevel, Meeting, Level, Smallest, Largest, Keys, Entries, Order, InternalKey
<1> QED
  BY <1>1 DEF OutputsInv

\* More tables, or fewer, beside those of the compaction.
LEMMA OutputsFrame ==
  ASSUME NEW c, NEW T, NEW U, NEW v, NEW w, NEW outs, OutputsOK(c, T, v, outs),
         c.in0 \cup c.in1 \subseteq DOMAIN c.base,
         \A f \in DOMAIN c.base \cup outs : U[f] = T[f], outs \cap DOMAIN w = {}
  PROVE  OutputsOK(c, U, w, outs)
<1>1. Outputs(c, U, c.oldest) = Outputs(c, T, c.oldest)
  BY OutputsAgree
<1> QED
  BY <1>1 DEF OutputsOK

\* Steps that leave the compaction as it is.
LEMMA OutputsKept ==
  ASSUME TablesInv, OutputsInv, SyncInv, outputs' = outputs, nextFile' \in Nat, nextFile' >= nextFile,
         bg'.at = "merge" \/ bg'.comp # None =>
           /\ (bg.at = "merge" \/ bg.comp # None) /\ bg'.comp = bg.comp
           /\ bg'.at = "build" => (bg.at = "build" /\ bg'.file = bg.file) \/ bg'.file = nextFile
           /\ \A f \in DOMAIN bg.comp.base \cup outputs : tables'[f] = tables[f]
           /\ outputs \cap DOMAIN version' = {}
  PROVE  OutputsInv'
<1> SUFFICES ASSUME bg'.at = "merge" \/ bg'.comp # None
             PROVE  /\ \A f \in DOMAIN bg'.comp.base : f \in Nat /\ f < nextFile' /\ (bg'.at = "build" => f # bg'.file)
                    /\ OutputsOK(bg'.comp, tables', version', outputs')
  BY OutputsAfter
<1>1. /\ \A f \in DOMAIN bg.comp.base : f \in Nat /\ f < nextFile /\ (bg.at = "build" => f # bg.file)
      /\ OutputsOK(bg.comp, tables, version, outputs) /\ bg'.comp = bg.comp /\ nextFile \in Nat
      /\ bg.comp.in0 \cup bg.comp.in1 \subseteq DOMAIN bg.comp.base
  BY NumbersTyped DEF OutputsInv, TablesInv, ThreadInv
<1>2. OutputsOK(bg.comp, tables', version', outputs)
  BY <1>1, OutputsFrame
<1> QED
  BY <1>1, <1>2

\* Writers and readers.
LEMMA WritersOutputsInv ==
  ASSUME TablesInv, OutputsInv, SyncInv,
         \/ \E w \in Writes : Write(w)
         \/ Lead \/ LeadFails \/ AddRecord \/ Sync \/ InsertInto \/ Publish \/ WriteFails
         \/ GetSnapshot \/ ReleaseSnapshot \/ NewIterator \/ CleanupIterator \/ Reschedule \/ UNCHANGED vars
  PROVE  OutputsInv'
<1>1. UNCHANGED <<tables, version, outputs, bg>>
  BY DEF Write, Lead, LeadFails, AddRecord, Sync, InsertInto, Publish, WriteFails, GetSnapshot,
     ReleaseSnapshot, NewIterator, CleanupIterator, Reschedule, vars, disk_, thread_, files_
<1>2. nextFile' \in {nextFile, nextFile + 1}
  BY DEF Write, Lead, HasRoom, SwitchMemTable, LeadFails, AddRecord, Sync, InsertInto, Publish, WriteFails,
     GetSnapshot, ReleaseSnapshot, NewIterator, CleanupIterator, Reschedule, vars
<1>3. nextFile' \in Nat /\ nextFile' >= nextFile
  BY <1>2, NumbersTyped
<1>4. bg.at = "merge" \/ bg.comp # None => outputs \cap DOMAIN version = {}
  BY DEF OutputsInv, OutputsOK
<1> QED
  BY <1>1, <1>3, <1>4, OutputsKept

\* A compaction begins with tables of the version, and has written nothing.
LEMMA BeginCompactionOutputsInv ==
  ASSUME TablesInv, SyncInv, FilesInv, BeginCompaction PROVE OutputsInv'
<1>1. \/ bg'.at = "edit" /\ bg'.comp = None
      \/ bg'.at = "merge" /\ bg'.comp.base = version
  BY BeginCompactionDoes
<1>2. outputs' = {} /\ nextFile' = nextFile
  BY DEF BeginCompaction
<1>3. \A f \in DOMAIN version : f \in Nat /\ f < nextFile
  BY DEF FilesInv, VersionOK
<1>4. OutputsOK(bg'.comp, tables', version', outputs')
  BY <1>2 DEF OutputsOK
<1> QED
  BY <1>1, <1>2, <1>3, <1>4, OutputsAfter

\* A flush within it takes another number, and adds another table.
LEMMA FlushOutputsInv ==
  ASSUME TablesInv, OutputsHeld, OutputsInv, SyncInv, BeginFlush \/ BuildTable PROVE OutputsInv'
<1>1. bg \in ThreadRecord /\ (bg.at = "idle" => bg.comp = None)
  BY DEF TablesInv, ThreadInv
<1>2. bg.at = "merge" \/ bg.comp # None => outputs \cap DOMAIN version = {}
  BY DEF OutputsInv, OutputsOK
<1>3. CASE BeginFlush
  <2>1. /\ UNCHANGED <<tables, version, outputs>> /\ nextFile' = nextFile + 1 /\ bg.at \in {"idle", "merge"}
        /\ bg' = [bg EXCEPT !.at = "build", !.file = nextFile]
    BY <1>3 DEF BeginFlush, disk_, files_
  <2>2. bg'.at = "build" /\ bg'.file = nextFile /\ bg'.comp = bg.comp
    BY <1>1, <2>1 DEF ThreadRecord
  <2>3. nextFile' \in Nat /\ nextFile' >= nextFile
    BY <2>1, NumbersTyped
  <2> QED
    BY <1>1, <1>2, <2>1, <2>2, <2>3, OutputsKept
<1>4. CASE BuildTable
  <2>1. /\ UNCHANGED <<version, outputs, nextFile>> /\ tables' = Over([f \in {bg.file} |-> imm], tables)
        /\ bg.at = "build" /\ bg'.at = "edit" /\ bg'.comp = bg.comp
    BY <1>4, BuildTableDoes DEF BuildTable, files_
  <2>2. nextFile' \in Nat /\ nextFile' >= nextFile
    BY <2>1, NumbersTyped
  <2>3. ASSUME bg.comp # None, NEW f \in DOMAIN bg.comp.base \cup outputs PROVE tables'[f] = tables[f]
    <3>1. f # bg.file /\ f \in DOMAIN tables
      BY <2>1, <2>3 DEF OutputsInv, OutputsHeld, TablesInv, ThreadInv
    <3> QED
      BY <2>1, <3>1 DEF Over
  <2> QED
    BY <1>2, <2>1, <2>2, <2>3, OutputsKept
<1> QED
  BY <1>3, <1>4

\* One more is written.
LEMMA WriteOutputOutputsInv ==
  ASSUME TablesInv, OutputsHeld, OutputsInv, SyncInv, FilesInv, WriteOutput PROVE OutputsInv'
<1>1. /\ bg.at = "merge" /\ UNCHANGED <<bg, version>> /\ outputs' = outputs \cup {nextFile} /\ nextFile' = nextFile + 1
      /\ \E i \in DOMAIN Wanting : /\ tables' = Over([f \in {nextFile} |-> Wanting[i]], tables)
                                   /\ ~IsMade(Wanting[i])
  BY WriteOutputDoes
<1>2. PICK i \in DOMAIN Wanting : /\ tables' = Over([f \in {nextFile} |-> Wanting[i]], tables)
                                  /\ ~IsMade(Wanting[i])
  BY <1>1
<1>3. /\ \A f \in DOMAIN bg.comp.base : f \in Nat /\ f < nextFile
      /\ OutputsOK(bg.comp, tables, version, outputs) /\ nextFile \in Nat
      /\ bg.comp.in0 \cup bg.comp.in1 \subseteq DOMAIN bg.comp.base
      /\ DOMAIN bg.comp.base \subseteq DOMAIN tables
      /\ \A f \in DOMAIN version : f \in Nat /\ f < nextFile
  BY <1>1, NumbersTyped DEF OutputsInv, TablesInv, ThreadInv, FilesInv, VersionOK
<1>4. \A f \in DOMAIN bg.comp.base \cup outputs : f # nextFile /\ f \in DOMAIN tables
  BY <1>3 DEF OutputsHeld
<1>5. tables'[nextFile] = Wanting[i] /\ \A f \in DOMAIN bg.comp.base \cup outputs : tables'[f] = tables[f]
  BY <1>2, <1>4 DEF Over
<1>6. OutputsOK(bg.comp, tables', version, outputs)
  <2>1. outputs \cap DOMAIN version = {}
    BY <1>3 DEF OutputsOK
  <2>2. bg.comp.in0 \cup bg.comp.in1 \subseteq DOMAIN bg.comp.base
    BY <1>3
  <2>3. \A f \in DOMAIN bg.comp.base \cup outputs : tables'[f] = tables[f]
    BY <1>5
  <2> QED
    BY <1>3, <2>1, <2>2, <2>3, OutputsFrame
<1>7. Outputs(bg.comp, tables', bg.comp.oldest) = Wanting
  BY <1>3, <1>5, OutputsAgree DEF Wanting
<1>8. \A f \in outputs : tables'[f] # tables'[nextFile]
  BY <1>2, <1>5 DEF IsMade
<1>9. OutputsOK(bg.comp, tables', version, outputs \cup {nextFile})
  <2>1. (outputs \cup {nextFile}) \cap DOMAIN version = {}
    BY <1>3, <1>6 DEF OutputsOK
  <2>2. \A f \in outputs \cup {nextFile} : \E j \in DOMAIN Wanting : tables'[f] = Wanting[j]
    BY <1>5, <1>6, <1>7 DEF OutputsOK
  <2>3. \A f, g \in outputs \cup {nextFile} : tables'[f] = tables'[g] => f = g
    BY <1>6, <1>8 DEF OutputsOK
  <2> QED
    BY <1>7, <2>1, <2>2, <2>3 DEF OutputsOK
<1>10. \A f \in DOMAIN bg.comp.base : f \in Nat /\ f < nextFile'
  BY <1>1, <1>3
<1> QED
  BY <1>1, <1>9, <1>10, OutputsAfter

\* The edit of a merge, and calls that end.
LEMMA CallsOutputsInv ==
  ASSUME TablesInv, TablesInv', OutputsHeld, OutputsHeld', OutputsInv, SyncInv,
         Merge \/ NothingToDo \/ BuildTableFails \/ MergeFails \/ Install \/ InstallFails
  PROVE  OutputsInv'
<1>1. CASE bg'.comp = None /\ bg'.at # "merge"
  BY <1>1, OutputsAfter
<1>2. CASE ~(bg'.comp = None /\ bg'.at # "merge")
  <2>1. /\ bg'.comp = bg.comp /\ (bg.at = "merge" \/ bg.comp # None) /\ bg'.at # "build"
    BY <1>2, MergeDoes, CallEnds DEF Idle
  <2>2. /\ nextFile' = nextFile /\ (DOMAIN bg'.comp.base \subseteq DOMAIN tables')
    BY <1>2 DEF Merge, NothingToDo, BuildTableFails, MergeFails, Install, InstallFails, TablesInv, ThreadInv
  <2>3. nextFile' \in Nat /\ nextFile' >= nextFile
    BY <2>2, NumbersTyped
  <2>4. \A f \in DOMAIN tables' : tables'[f] = tables[f]
    <3>1. CASE Merge \/ NothingToDo \/ BuildTableFails
      BY <3>1 DEF Merge, NothingToDo, BuildTableFails, disk_
    <3>2. CASE MergeFails \/ Install \/ InstallFails
      BY <3>2 DEF MergeFails, Install, InstallFails, DeleteObsoleteFiles, Restrict
    <3> QED
      BY <3>1, <3>2
  <2>5. outputs' = outputs /\ outputs \cap DOMAIN version' = {}
    <3>1. outputs \cap DOMAIN version = {}
      BY <2>1 DEF OutputsInv, OutputsOK
    <3>2. CASE Merge \/ NothingToDo \/ BuildTableFails
      BY <3>1, <3>2 DEF Merge, NothingToDo, BuildTableFails, files_
    <3>3. CASE MergeFails
      BY <1>2, <3>3 DEF MergeFails, EndCall, Idle
    <3>4. CASE Install \/ InstallFails
      <4>1. Flushing /\ bg.at = "edit" /\ outputs' = outputs
        <5>1. bg.at = "edit"
          BY <3>4 DEF Install, InstallFails
        <5>2. bg' # Idle
          BY <1>2 DEF Idle
        <5>3. CASE Install
          BY <5>1, <5>2, <5>3 DEF Install, EndCall
        <5>4. CASE InstallFails
          BY <5>1, <5>2, <5>4 DEF InstallFails, EndCall
        <5> QED
          BY <3>4, <5>3, <5>4
      <4>2. version' \in {version, Edited(version, bg.edit)}
        BY <3>4 DEF Install, InstallFails, files_
      <4>3. outputs \cap DOMAIN bg.edit.add = {}
        BY <4>1 DEF OutputsHeld, Flushing
      <4>4. DOMAIN Edited(version, bg.edit) \subseteq DOMAIN version \cup DOMAIN bg.edit.add
        BY EditedFiles
      <4> QED
        BY <3>1, <4>1, <4>2, <4>3, <4>4
    <3> QED
      BY <3>2, <3>3, <3>4
  <2>6. \A f \in DOMAIN bg.comp.base \cup outputs : tables'[f] = tables[f]
    BY <2>1, <2>2, <2>4, <2>5 DEF OutputsHeld
  <2> QED
    BY <2>1, <2>3, <2>5, <2>6, OutputsKept
<1> QED
  BY <1>1, <1>2

\* A crash, and DB::Open: no compaction is under way.
LEMMA RecoveryOutputsInv == ASSUME TablesInv, Crash \/ RecoverLogs \/ Open PROVE OutputsInv'
<1>1. bg' = Idle
  BY DEF Crash, RecoverLogs, Open, thread_, TablesInv
<1> QED
  BY <1>1, OutputsAfter DEF Idle

-----------------------------------------------------------------------------
\* All there is to know for the types.
TypesInv ==
  /\ TablesInv /\ OutputsHeld /\ SyncInv /\ RoomInv /\ EntriesInv /\ FilesInv /\ StateInv
  /\ OutputsInv

\* Init establishes them.
LEMMA TypesInit == ASSUME Init PROVE TypesInv
<1>1. TablesInv /\ SyncInv /\ OutputsHeld /\ OutputsInv
  BY TablesInit, SyncInit DEF Init, OutputsHeld, OutputsInv, Idle
<1>2. RoomInv
  <2>1. queue = <<>> /\ lastSeq = 0 /\ Len(queue) = 0
    BY DEF Init
  <2>2. Ops(queue, Len(queue)) = {}
    <3>1. 1 .. 0 = {}
      OBVIOUS
    <3> QED
      BY <2>1, <3>1 DEF Ops
  <2>3. MaxSequence \in Nat
    BY LevelsAssumption
  <2>4. lastSeq + Cardinality(Ops(queue, Len(queue))) <= MaxSequence
    BY <2>1, <2>2, <2>3, FS_EmptySet
  <2>5. \A m \in manifest : m.seq <= MaxSequence
    BY <2>3 DEF Init
  <2> QED
    BY <2>4, <2>5 DEF RoomInv, Init, Idle
<1>3. EntriesInv
  BY DEF EntriesInv, Init, Idle
<1>4. FilesInv
  BY DEF FilesInv, VersionOK, NoFiles, Init, Idle
<1>5. StateInv
  <2>1. manifest # {} /\ up = "open" /\ logNumber <= logfile /\ pending = {}
    BY DEF Init
  <2>2. scheduled \in BOOLEAN /\ bgError \in BOOLEAN
    BY DEF Init
  <2>3. bg.at = "idle"
    BY DEF Init, Idle
  <2> QED
    BY <2>1, <2>2, <2>3 DEF StateInv
<1> QED
  BY <1>1, <1>2, <1>3, <1>4, <1>5 DEF TypesInv

\* Every step preserves them.
LEMMA TypesStep == ASSUME TypesInv, [Next]_vars PROVE TypesInv'
<1> USE DEF TypesInv
<1>1. TablesInv' /\ SyncInv' /\ OutputsHeld'
  BY TablesStep, SyncStep, OutputsStep, NumbersTyped
<1>2. ASSUME up = "open", up' = "open" PROVE logNumber' <= logfile'
  BY <1>2, LogNumberStays
<1>3. CASE \/ \E w \in Writes : Write(w)
           \/ Lead \/ LeadFails \/ AddRecord \/ Sync \/ InsertInto \/ Publish \/ WriteFails
  <2>1. up = "open" /\ up' = "open"
    <3>1. UNCHANGED up
      BY <1>3 DEF Write, Lead, LeadFails, AddRecord, Sync, InsertInto, Publish, WriteFails
    <3>2. up = "open"
      BY <1>3 DEF Write, Lead, LeadFails, AddRecord, Sync, InsertInto, Publish, WriteFails, SyncInv, Leading
    <3> QED
      BY <3>1, <3>2
  <2>2. RoomInv'
    BY <1>3, WriteRoom, LeadFailsRoom, LeaderRoom, ReturnsRoom
  <2>3. EntriesInv'
    BY <1>3, WritersEntries, LeadEntries, AddRecordEntries
  <2>4. FilesInv'
    BY <1>3, WritersFiles
  <2>5. StateInv' /\ OutputsInv'
    BY <1>1, <1>2, <1>3, <2>1, WritersState, WritersOutputsInv
  <2> QED
    BY <1>1, <2>2, <2>3, <2>4, <2>5
<1>4. CASE GetSnapshot \/ ReleaseSnapshot \/ NewIterator \/ CleanupIterator \/ Reschedule \/ UNCHANGED vars
  <2>1. UNCHANGED <<logNumber, logfile>>
    BY <1>4 DEF GetSnapshot, ReleaseSnapshot, NewIterator, CleanupIterator, Reschedule, vars, files_, memory_
  <2>2. StateInv' /\ OutputsInv'
    BY <1>1, <1>4, <2>1, WritersState, WritersOutputsInv DEF StateInv
  <2> QED
    BY <1>1, <1>4, <2>2, ReadersRoom, DeletesEntries, WritersFiles
<1>5. CASE \/ BeginFlush \/ BuildTable \/ BeginCompaction \/ WriteOutput \/ Merge
           \/ NothingToDo \/ BuildTableFails \/ MergeFails \/ Install \/ InstallFails
  <2>1. up = "open" /\ up' = "open"
    BY <1>5, ThreadIsOpen
  <2>2. RoomInv'
    BY <1>5, ThreadRoom
  <2>3. EntriesInv'
    BY <1>5, TablesEntries, DeletesEntries
  <2>4. FilesInv'
    BY <1>5, BeginFlushFiles, BuildTableFiles, BeginCompactionFiles, WriteOutputFiles, MergeFiles, CallEndsFiles,
       InstallFiles
  <2>5. StateInv'
    BY <1>1, <1>2, <1>5, <2>1, ThreadState
  <2>6. OutputsInv'
    BY <1>1, <1>5, FlushOutputsInv, BeginCompactionOutputsInv, WriteOutputOutputsInv, CallsOutputsInv
  <2> QED
    BY <1>1, <2>2, <2>3, <2>4, <2>5, <2>6
<1>6. CASE Crash
  BY <1>1, <1>6, CrashRoom, CrashEntries, CrashFiles, RecoveryState, RecoveryOutputsInv
<1>7. CASE RecoverLogs
  BY <1>1, <1>7, RecoverLogsRoom, RecoveryEntries, RecoverLogsFiles, RecoveryState, RecoveryOutputsInv
<1>8. CASE Open
  BY <1>1, <1>8, OpenRoom, RecoveryEntries, OpenFiles, RecoveryState, RecoveryOutputsInv
<1> QED
  BY <1>3, <1>4, <1>5, <1>6, <1>7, <1>8 DEF Next

\* They give the types.
LEMMA TypesHold == ASSUME TypesInv PROVE TypeOK
<1> USE DEF TypesInv
<1>1. \A n \in DOMAIN logs : logs[n] \in Seq(SUBSET Entry) /\ synced[n] \in 0 .. Len(logs[n])
  <2>1. ASSUME NEW n \in DOMAIN logs PROVE logs[n] \in Seq(SUBSET Entry) /\ synced[n] \in 0 .. Len(logs[n])
    <3>1. logs[n] \in Seq(SUBSET Written) /\ synced[n] \in Nat /\ synced[n] <= Len(logs[n])
      BY DEF SyncInv, LogsTyped
    <3>2. \A i \in 1 .. Len(logs[n]) : logs[n][i] \in SUBSET Entry
      BY DEF EntriesInv
    <3>3. Len(logs[n]) \in Nat
      BY <3>1
    <3>4. logs[n] \in [1 .. Len(logs[n]) -> SUBSET Entry]
      BY <3>1, <3>2
    <3>5. logs[n] \in Seq(SUBSET Entry)
      BY <3>3, <3>4
    <3> QED
      BY <3>1, <3>3, <3>5
  <2> QED
    BY <2>1
<1>2. DOMAIN synced = DOMAIN logs
  BY DEF SyncInv, LogsTyped
<1>3. \A f \in DOMAIN tables : tables[f] \in (SUBSET Entry) \ {{}}
  BY DEF EntriesInv
<1>4. manifest # {} /\ up \in {"open", "closed", "replayed"} /\ logNumber <= logfile
      /\ scheduled \in BOOLEAN /\ bgError \in BOOLEAN /\ pending \subseteq 0 .. nextFile
      /\ (bg.at # "idle" => scheduled)
  BY DEF StateInv
<1>5. bg.at \in {"idle", "build", "merge", "edit"}
  BY DEF TablesInv, ThreadInv, ThreadRecord
<1>6. queue \in Seq(Writes) /\ stage \in {"idle", "append", "sync", "insert", "publish"}
      /\ (stage # "idle" => group \in 1 .. Len(queue))
  BY DEF SyncInv, Leading
<1>7. \A i \in DOMAIN queue : queue[i] \in Writes
  BY <1>6
<1>8. group \in 0 .. Len(queue) /\ (stage = "idle") = (group = 0)
  <2>1. Len(queue) \in Nat
    BY <1>6
  <2>2. stage = "idle" => group = 0
    BY DEF RoomInv
  <2> QED
    BY <1>6, <2>1, <2>2
<1>9. mem \subseteq Entry /\ (imm = None \/ imm \subseteq Entry) /\ truth \subseteq Entry /\ safe \subseteq Entry
  BY DEF EntriesInv
<1>10. up = "open" => logfile \in DOMAIN logs
  BY DEF SyncInv, Latest
<1>11. lastSeq \in 0 .. MaxSequence /\ (snapshot = None \/ snapshot \in 0 .. MaxSequence)
  BY LastFits DEF RoomInv
<1>12. \A f \in DOMAIN version : f < nextFile /\ version[f] \in 0 .. NumLevels - 1
  BY DEF FilesInv, VersionOK
<1> QED
  BY <1>1, <1>2, <1>3, <1>4, <1>5, <1>6, <1>7, <1>8, <1>9, <1>10, <1>11, <1>12 DEF TypeOK
=============================================================================
