-------------------------- MODULE LevelDbTransaction --------------------------
(***************************************************************************)
(* The transaction that Firestore's client puts between its caches and     *)
(* leveldb (FirebaseFirestore, local/leveldb_transaction): puts and        *)
(* deletes are kept aside, and written in one batch when it commits.  Get  *)
(* and an iterator show the database with the changes on top; the changes  *)
(* go on while an iterator is in use.                                      *)
(***************************************************************************)
EXTENDS Naturals, FiniteSets, FiniteSetsExt

CONSTANTS
  NumKeys,     \* keys are numbered in their order
  Value,       \* the contents of a row
  MaxChanges,  \* bound: changes in one transaction
  None         \* no such row

ASSUME BoundsAssumption == NumKeys \in Nat /\ MaxChanges \in Nat
ASSUME NoneAssumption   == None \notin Value

Key == 1 .. NumKeys
End == NumKeys + 1   \* an iterator past the last key
Row == Value \cup {None}
Map == [Key -> Row]

VARIABLES
  db,         \* the committed rows
  open,       \* a transaction has been started
  mutations,  \* mutations_
  deletions,  \* deletions_
  version,    \* version_
  iter,       \* an iterator of the transaction
  latest,     \* history: the rows as the calls of Put and Delete left them
  kept,       \* history: keys put as a string on top of a pending put
  masked      \* history: keys put as a message on top of a pending delete

changes == <<mutations, deletions, version>>
history == <<latest, kept, masked>>
vars    == <<db, open, changes, iter, history>>

-----------------------------------------------------------------------------
(* Reading. *)

Has(m)  == {k \in Key : m[k] # None}

\* The first key of a set that is not before k.
LowerBound(keys, k) == Min({End} \cup {j \in keys : j >= k})

\* LevelDbTransaction::Get: a key to be deleted is not found.
Get(k) ==
  CASE k \in deletions                        -> None
    [] k \notin deletions /\ mutations[k] # None -> mutations[k]
    [] OTHER                                  -> db[k]

\* The merged view an iterator is to show.
View == [k \in Key |-> IF mutations[k] # None THEN mutations[k]
                       ELSE IF k \in deletions THEN None ELSE db[k]]

\* dbAt and mutationAt: where the two underlying iterators are; seen:
\* last_version_; key and value: current_.
Iterator == [dbAt : 1 .. End, mutationAt : 1 .. End, seen : 0 .. MaxChanges,
             key : Key \cup {None}, value : Row, mutation : BOOLEAN, valid : BOOLEAN]
NoIterator == [dbAt |-> End, mutationAt |-> End, seen |-> 0, key |-> None, value |-> None,
               mutation |-> FALSE, valid |-> FALSE]

\* UpdateCurrent: a mutation comes first if it is sooner, or shadows the row.
UpdateCurrent(it) ==
  LET first  == Min({it.dbAt, it.mutationAt})
      is_mut == it.mutationAt # End /\ it.dbAt >= it.mutationAt
  IN IF first = End THEN [it EXCEPT !.valid = FALSE]
     ELSE [it EXCEPT !.valid = TRUE, !.mutation = is_mut, !.key = first,
                     !.value = IF is_mut THEN mutations[first] ELSE db[first]]

\* The rows of the database less those to be deleted.
SkipDeleted(k) == LowerBound(Has(db) \ deletions, k)

Sought(it, k) ==
  UpdateCurrent([it EXCEPT !.dbAt = SkipDeleted(k),
                           !.mutationAt = LowerBound(Has(mutations), k),
                           !.seen = version])

\* What Next does when the transaction has not changed.
Advanced(it) ==
  UpdateCurrent([it EXCEPT
    !.dbAt = IF ~it.mutation \/ it.dbAt = it.mutationAt THEN SkipDeleted(it.dbAt + 1) ELSE @,
    !.mutationAt = IF it.mutation THEN LowerBound(Has(mutations), it.mutationAt + 1) ELSE @])

\* Mutant: the iterator does not look for changes.
Moved_NoSync(it) == Advanced(it)

\* Next: SyncToTransaction seeks the current key again if there were changes;
\* if it is gone, that already was the step.
Moved(it) ==
  IF it.seen = version THEN Advanced(it)
  ELSE LET again == Sought(it, it.key)
       IN IF again.valid /\ again.key = it.key THEN Advanced(again) ELSE again

-----------------------------------------------------------------------------
(* The calls. *)

\* Mutant: the set of deletions outlives its transaction.
NoChanges_Deletions ==
  /\ mutations' = [k \in Key |-> None] /\ version' = 0 /\ UNCHANGED deletions
  /\ iter' = NoIterator
  /\ kept' = {} /\ masked' = {}

\* The next transaction is a new object.
NoChanges ==
  /\ mutations' = [k \in Key |-> None] /\ deletions' = {} /\ version' = 0
  /\ iter' = NoIterator
  /\ kept' = {} /\ masked' = {}

Init ==
  /\ db \in Map /\ open = FALSE
  /\ mutations = [k \in Key |-> None] /\ deletions = {} /\ version = 0
  /\ iter = NoIterator
  /\ latest = db /\ kept = {} /\ masked = {}

\* FSTLevelDB startTransaction, which asserts that none is open.
StartTransaction ==
  /\ ~open /\ open' = TRUE
  /\ UNCHANGED <<db, changes, iter, history>>

\* Mutant: the delete that is pending is not taken back.
PutString_Deleted(k, value) ==
  /\ UNCHANGED deletions
  /\ mutations' = IF mutations[k] = None THEN [mutations EXCEPT ![k] = value] ELSE mutations

\* Put(key, string): emplace leaves a put that is there already as it is.
PutString(k, value) ==
  /\ deletions' = deletions \ {k}
  /\ mutations' = IF mutations[k] = None THEN [mutations EXCEPT ![k] = value] ELSE mutations

\* Put(key, message) takes no delete back.
PutMessage(k, value) ==
  /\ mutations' = [mutations EXCEPT ![k] = value]
  /\ UNCHANGED deletions

Put ==
  /\ open /\ version < MaxChanges
  /\ version' = version + 1
  /\ \E k \in Key, value \in Value :
       /\ latest' = [latest EXCEPT ![k] = value]
       /\ \/ /\ PutString(k, value)
             /\ kept' = IF mutations[k] = None THEN kept ELSE kept \cup {k}
             /\ masked' = masked \ {k}
          \/ /\ PutMessage(k, value)
             /\ kept' = kept \ {k}
             /\ masked' = IF k \in deletions THEN masked \cup {k} ELSE masked
  /\ UNCHANGED <<db, open, iter>>

\* Mutant: a pending put is not dropped.
DeleteRow_Put(k) == deletions' = deletions \cup {k} /\ UNCHANGED mutations

DeleteRow(k) == deletions' = deletions \cup {k} /\ mutations' = [mutations EXCEPT ![k] = None]

Delete ==
  /\ open /\ version < MaxChanges
  /\ version' = version + 1
  /\ \E k \in Key :
       /\ DeleteRow(k)
       /\ latest' = [latest EXCEPT ![k] = None]
       /\ kept' = kept \ {k} /\ masked' = masked \ {k}
  /\ UNCHANGED <<db, open, iter>>

\* NewIterator, which nobody uses before a Seek.
Seek ==
  /\ open
  /\ \E k \in Key : iter' = Sought(NoIterator, k)
  /\ UNCHANGED <<db, open, changes, history>>

\* Next asserts that the iterator is valid.
IteratorNext ==
  /\ iter.valid
  /\ iter' = Moved(iter)
  /\ UNCHANGED <<db, open, changes, history>>

\* Mutant: puts before deletes.
Batch_DeletesLast == [k \in Key |-> IF k \in deletions THEN None
                                    ELSE IF mutations[k] # None THEN mutations[k] ELSE db[k]]

\* Commit's batch: the deletes, then the puts.
Batch == [k \in Key |-> IF mutations[k] # None THEN mutations[k]
                        ELSE IF k \in deletions THEN None ELSE db[k]]

\* One write of leveldb; if it fails the app stops.
Commit ==
  /\ open /\ open' = FALSE
  /\ db' = Batch /\ latest' = Batch
  /\ NoChanges

\* The app is killed, or stops on a failed assertion, inside a transaction.
Crash ==
  /\ open /\ open' = FALSE
  /\ latest' = db
  /\ NoChanges
  /\ UNCHANGED db

Next == StartTransaction \/ Put \/ Delete \/ Seek \/ IteratorNext \/ Commit \/ Crash

Spec == Init /\ [][Next]_vars

-----------------------------------------------------------------------------
\* Types; changes and iterators are those of the open transaction, and an iterator
\* has not seen more of them than there are.
TypeOK ==
  /\ db \in Map /\ mutations \in Map /\ latest \in Map
  /\ open \in BOOLEAN /\ deletions \subseteq Key /\ version \in 0 .. MaxChanges
  /\ iter \in Iterator /\ iter.seen <= version
  /\ kept \subseteq Has(mutations) /\ masked \subseteq deletions
  /\ ~open => Has(mutations) = {} /\ deletions = {} /\ ~iter.valid

\* leveldb_transaction.h:179: Get returns the latest known value.  It does,
\* but of keys put twice as strings and of keys put as a message after a delete.
GetIsLatest == \A k \in Key \ (kept \cup masked) : Get(k) = latest[k]

\* leveldb_transaction.h:173: a commit sets each row to what it was last put or
\* deleted to; but a string put over a pending put is forgotten.
CommitIsLatest ==
  [][Commit => \A k \in Key \ kept : db'[k] = latest[k]]_vars

\* However the transaction changes while an iterator is in use, Next moves to
\* the first key of the merged view after the one it was at, skipping and
\* repeating none, and shows its value.
NextIsSuccessor ==
  [][IteratorNext => LET after == {k \in Has(View) : k > iter.key}
              IN IF after = {} THEN ~iter'.valid
                 ELSE /\ iter'.valid /\ iter'.key = Min(after)
                      /\ iter'.value = View[iter'.key]]_vars
=============================================================================
