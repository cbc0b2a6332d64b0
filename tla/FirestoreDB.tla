----------------------------- MODULE FirestoreDB -----------------------------
(***************************************************************************)
(* The screen of persistantStorage/firestoreDB.dart: a list of the         *)
(* documents of one collection, a button that inserts a document, and a    *)
(* delete icon on each tile, over the Firestore plugin as it uses it.      *)
(*                                                                         *)
(* Dart sends commands to the plugin and is sent events, in order both     *)
(* ways.  A write is applied to the local cache at once, which every       *)
(* listener is told of, and acknowledged when the server has it; other     *)
(* devices write to the same collection.  A new listener is first told     *)
(* what the cache holds.                                                   *)
(***************************************************************************)
EXTENDS Naturals, Sequences, FiniteSets, SequencesExt

CONSTANTS
  MaxDoc,      \* bound: documents ever inserted, by this device or another
  MaxDeletes,  \* bound: deletes under way at one time
  None         \* Dart's null

Doc == 1 .. MaxDoc    \* in the order of their names, which are random

VARIABLES
  collection,  \* the documents the cache holds
  used,        \* names given out
  listeners,   \* listeners on the collection
  writes,      \* writes in the cache the server has not acknowledged
  toNative,    \* commands on their way to the plugin
  toDart,      \* events on their way to the screen
  list,        \* databaseItems
  built,       \* the list the tiles on the screen were built from
  hidden       \* removeAt calls since the last snapshot

remote == <<collection, used, listeners, writes>>
screen == <<list, built, hidden>>
vars   == <<remote, toNative, toDart, screen>>

\* doc: what is written; position: of the tile whose delete icon was tapped;
\* heard: this run of the app awaits the answer.
Command == [op : {"listen", "insert", "delete"}, doc : Doc \cup {None},
            position : 0 .. MaxDoc, heard : BOOLEAN]
Listen       == [op |-> "listen", doc |-> None, position |-> 0, heard |-> TRUE]
Insert(d)    == [Listen EXCEPT !.op = "insert", !.doc = d]
Delete(d, i) == [op |-> "delete", doc |-> d, position |-> i, heard |-> TRUE]

Event           == [kind : {"snapshot", "done"}, docs : SUBSET Doc, of : Command]
Snapshot(docs)  == [kind |-> "snapshot", docs |-> docs, of |-> Listen]
Done(command)   == [kind |-> "done", docs |-> {}, of |-> command]

\* Every listener is told, in one go.
Notify(docs) == [i \in 1 .. listeners |-> Snapshot(docs)]

Sorted(docs) == CHOOSE s \in [1 .. Cardinality(docs) -> docs] :
                  \A i, j \in DOMAIN s : i < j => s[i] < s[j]
Shown        == IF list = None THEN <<>> ELSE list

-----------------------------------------------------------------------------
(* The screen's handlers. *)

\* Mutant: initState does not call _fetchValues.
initState_Forgets == <<>>

\* The first commands of a run: initState calls _fetchValues.
initState == <<Listen>>

\* _fetchValues: one more listener, which nothing ever cancels.
FetchValues == toNative' = Append(toNative, Listen)

\* The button: document().setData(value), under a name of its own.
InsertValue ==
  /\ \E d \in Doc \ used :
       /\ toNative' = Append(toNative, Insert(d))
       /\ used' = used \cup {d}
  /\ UNCHANGED <<collection, listeners, writes, toDart, screen>>

DeletesUnderWay ==
  Cardinality({i \in 1 .. Len(toNative) : toNative[i].op = "delete"})
    + Cardinality({i \in 1 .. Len(writes) : writes[i].op = "delete"})
    + Cardinality({i \in 1 .. Len(toDart) : toDart[i].of.op = "delete"})

\* document() without a path is a new document; the tile's is not named.
Reference(tile) == None

\* The icon of the index-th tile: document().delete().
DeleteValue(index) ==
  /\ DeletesUnderWay < MaxDeletes
  /\ index \in 1 .. Len(built)
  /\ toNative' = Append(toNative, Delete(Reference(built[index]), index))
  /\ UNCHANGED <<remote, toDart, screen>>

\* Mutant: only the first snapshot is kept.
SetItems_Once(docs) == list' = IF list = None THEN Sorted(docs) ELSE list

\* setState(() { databaseItems = data.documents; })
SetItems(docs) == list' = Sorted(docs)

SnapshotArrives ==
  /\ toDart # <<>> /\ Head(toDart).kind = "snapshot"
  /\ toDart' = Tail(toDart)
  /\ SetItems(Head(toDart).docs)
  /\ hidden' = 0
  /\ UNCHANGED <<remote, toNative, built>>

Finished(op) == toDart # <<>> /\ Head(toDart).kind = "done" /\ Head(toDart).of.op = op

\* setData has completed: _fetchValues().
InsertFinished ==
  /\ Finished("insert")
  /\ toDart' = Tail(toDart)
  /\ FetchValues
  /\ UNCHANGED <<remote, screen>>

\* Mutant: the list is fetched again, as the comment on _deleteValue says.
AfterDelete_Fetch(position) == UNCHANGED <<list, hidden>> /\ FetchValues

\* databaseItems.removeAt(position), which throws beyond the end of the list.
AfterDelete(position) ==
  /\ \/ /\ position <= Len(Shown)
        /\ list' = RemoveAt(list, position)
        /\ hidden' = hidden + 1
     \/ /\ position > Len(Shown)
        /\ UNCHANGED <<list, hidden>>
  /\ UNCHANGED toNative

DeleteFinished ==
  /\ Finished("delete")
  /\ toDart' = Tail(toDart)
  /\ AfterDelete(Head(toDart).of.position)
  /\ UNCHANGED <<remote, built>>

Frame ==
  /\ built # Shown
  /\ built' = Shown
  /\ UNCHANGED <<remote, toNative, toDart, list, hidden>>

Deliver == SnapshotArrives \/ InsertFinished \/ DeleteFinished

-----------------------------------------------------------------------------
(* The plugin, the server and other devices. *)

Change(docs) == collection' = docs /\ toDart' = toDart \o Notify(docs)

Native ==
  /\ toNative # <<>>
  /\ toNative' = Tail(toNative)
  /\ LET command == Head(toNative) IN
       \/ /\ command.op = "listen"
          /\ listeners' = listeners + 1
          /\ toDart' = Append(toDart, Snapshot(collection))
          /\ UNCHANGED <<collection, writes>>
       \/ /\ command.op = "insert"
          /\ Change(collection \cup {command.doc})
          /\ writes' = Append(writes, command)
          /\ UNCHANGED listeners
       \/ /\ command.op = "delete"    \* no event unless the document was there
          /\ IF command.doc \in collection THEN Change(collection \ {command.doc})
             ELSE UNCHANGED <<collection, toDart>>
          /\ writes' = Append(writes, command)
          /\ UNCHANGED listeners
  /\ UNCHANGED <<used, screen>>

\* The server has the oldest write.
Acknowledge ==
  /\ writes # <<>>
  /\ writes' = Tail(writes)
  /\ toDart' = IF Head(writes).heard THEN Append(toDart, Done(Head(writes))) ELSE toDart
  /\ UNCHANGED <<collection, used, listeners, toNative, screen>>

\* The server refuses the oldest write: the cache drops the document of an
\* insert, and the future fails, which nothing handles: neither _fetchValues nor
\* removeAt is run.  A delete has taken no document off the cache.
Refuse ==
  /\ writes # <<>>
  /\ writes' = Tail(writes)
  /\ IF Head(writes).doc \in collection THEN Change(collection \ {Head(writes).doc})
     ELSE UNCHANGED <<collection, toDart>>
  /\ UNCHANGED <<used, listeners, toNative, screen>>

\* Another device inserts or deletes a document the server has.
OtherDevice ==
  /\ \/ \E d \in Doc \ used : used' = used \cup {d} /\ Change(collection \cup {d})
     \/ /\ \E d \in collection :
             /\ \A i \in 1 .. Len(writes) : writes[i].doc # d
             /\ Change(collection \ {d})
        /\ UNCHANGED used
  /\ UNCHANGED <<listeners, writes, toNative, screen>>

\* The app is killed and started again: the cache and its writes survive.
Restart ==
  /\ writes' = [i \in 1 .. Len(writes) |-> [writes[i] EXCEPT !.heard = FALSE]]
  /\ listeners' = 0
  /\ toNative' = initState /\ toDart' = <<>>
  /\ list' = None /\ built' = <<>> /\ hidden' = 0
  /\ UNCHANGED <<collection, used>>

Init ==
  /\ collection \in SUBSET Doc /\ used = collection
  /\ writes = <<>> /\ listeners = 0
  /\ toNative = initState /\ toDart = <<>>
  /\ list = None /\ built = <<>> /\ hidden = 0

Tap == InsertValue \/ \E index \in Doc : DeleteValue(index)

Next == Tap \/ Deliver \/ Frame \/ Native \/ Acknowledge \/ Refuse \/ OtherDevice \/ Restart

\* Messages both ways arrive, in order; strong, because a restart loses those
\* under way.  The server need not answer: the device may be offline.
Spec == Init /\ [][Next]_vars /\ SF_vars(Native) /\ SF_vars(Deliver)

-----------------------------------------------------------------------------
(* Properties. *)

\* Types of the screen's and the plugin's state; listeners are those of this
\* run's start and of its inserts (_insertValue, firestoreDB.dart:141).
FirestoreTypeOK ==
  /\ collection \subseteq used /\ used \subseteq Doc
  /\ listeners \in 0 .. 1 + Cardinality(used)
  /\ writes \in Seq(Command) /\ toNative \in Seq(Command) /\ toDart \in Seq(Event)
  /\ list = None \/ (list \in Seq(Doc) /\ IsInjective(list))
  /\ built \in Seq(Doc)
  /\ hidden \in Nat

Settled == toNative = <<>> /\ toDart = <<>>

\* The comment on _deleteValue (firestoreDB.dart:124): a delete deletes the item
\* from the database, and the view is what is fetched then.  So the list, once no
\* message is under way, is the collection.  Deletes break it.
SettledListIsCollection == Settled => list = Sorted(collection)

\* The listeners' part in that: each of them replaces databaseItems by a list of
\* its own (firestoreDB.dart:117), and there are more of them with every insert.
\* All the same the list settles, whatever other devices, refusals, deletes and
\* restarts do: it shows no document that is gone and each once, in order; and all
\* there are, unless a removeAt came after the last snapshot.
SnapshotsSettle ==
  Settled =>
    /\ list # None /\ ToSet(list) \subseteq collection /\ list = Sorted(ToSet(list))
    /\ hidden = 0 => ToSet(list) = collection

\* A document the collection holds, and no delete has hidden, is on the list in
\* the end or is deleted first: another device's, this one's after an insert,
\* or all of them after a restart (_fetchValues, firestoreDB.dart:117).
EveryDocumentIsListed ==
  \A d \in Doc :
    d \in collection /\ hidden = 0 ~> d \notin collection \/ d \in ToSet(Shown)
=============================================================================
