--------------------------- MODULE DatabaseHelper ---------------------------
(***************************************************************************)
(* The sqlite helper of persistantStorage/sqFlite.dart: its six            *)
(* operations, the `db` getter every one of them awaits first, and the     *)
(* sqflite plugin as this code uses it.                                    *)
(*                                                                         *)
(* `_db` is never assigned, so the getter always runs initDB: a call       *)
(* awaits the documents directory (a platform channel), then openDatabase, *)
(* and only then issues its statement.  openDatabase hands every caller    *)
(* the one connection of main.db, so a close() is felt by all calls in     *)
(* flight, whichever DatabaseHelper object they went through.              *)
(*                                                                         *)
(* Dart runs the continuations of settled futures before it takes the next *)
(* event: Grant and the use of a settled call (pc = "done") come first,    *)
(* and every event is guarded by NoMicrotask.  The native side is a thread *)
(* of its own.                                                             *)
(***************************************************************************)
EXTENDS UserRows, Sequences, FiniteSets

CONSTANTS
  Call     \* identities for calls in flight

VARIABLES
  version,  \* user_version of main.db, 0 until _onCreate has run
  table,    \* the rows of dbTable
  conn,     \* the plugin's single connection to main.db
  call,     \* the calls
  pathQ,    \* calls awaiting getApplicationDocumentsDirectory
  waiters,  \* calls awaiting the openDatabase another call has started
  cmdQ,     \* commands sent to the native side, which runs them in order
  replyQ    \* commands the native side has run, replies on their way back

plugin == <<conn, pathQ, waiters, cmdQ, replyQ>>
dbVars == <<version, table, call, plugin>>

\* A call waits for the directory, for another's opening, for its own opening,
\* for the native side; then it is settled.
PC    == {"idle", "path", "lock", "open", "native", "done"}
Calls == [op : Ops, arg : User, pc : PC, res : Result]

NewCall(op, arg) == [op |-> op, arg |-> arg, pc |-> "path", res |-> Failure]
Idle             == [NewCall("close", Nothing) EXCEPT !.pc = "idle"]

Rows(id) == {r \in table : r._id = id}

-----------------------------------------------------------------------------
(* Requests.  The synchronous part of an operation reaches the await of      *)
(* fetchFilePath and no further.                                             *)

\* Mutant: the last call made is served first.
Request_Last(c, op, arg) ==
  /\ call[c].pc = "idle"
  /\ call'  = [call EXCEPT ![c] = NewCall(op, arg)]
  /\ pathQ' = <<c>> \o pathQ
  /\ UNCHANGED <<version, table, conn, waiters, cmdQ, replyQ>>

Request(c, op, arg) ==
  /\ call[c].pc = "idle"
  /\ call'  = [call EXCEPT ![c] = NewCall(op, arg)]
  /\ pathQ' = Append(pathQ, c)
  /\ UNCHANGED <<version, table, conn, waiters, cmdQ, replyQ>>

\* Bound: the inserts in flight and this one all find an id up to MaxId.
RoomFor(u) ==
  LET inserts == {c \in Call : call[c].op = "insertUser" /\ call[c].pc # "idle"}
      taken   == {r._id : r \in table} \cup {call[c].arg.id : c \in inserts} \cup {u.id}
  IN  Cardinality({n \in Id : \A i \in taken \ {None} : i < n})
        >= Cardinality({c \in inserts : call[c].arg.id = None}) + (IF u.id = None THEN 1 ELSE 0)

insertUser(c, u)  == RoomFor(u) /\ Request(c, "insertUser", u)
updateUser(c, u)  == Request(c, "updateUser", u)
deleteUser(c, id) == Request(c, "deleteUser", OnlyId(id))
getAllUsers(c)    == Request(c, "getAllUsers", Nothing)
getUser(c, id)    == Request(c, "getUser", OnlyId(id))
close(c)          == Request(c, "close", Nothing)
-----------------------------------------------------------------------------
(* The plugin: openDatabase and the statements it is given. *)

\* A microtask is due: a waiter whose openDatabase can return, a settled call.
NoMicrotask ==
  /\ waiters # <<>> => conn = "opening"
  /\ \A c \in Call : call[c].pc # "done"

\* Mutant: a connection being closed still takes statements.
Issue_NoCheck(c) ==
  /\ call' = [call EXCEPT ![c].pc = "native"]
  /\ cmdQ' = Append(cmdQ, c)
  /\ conn' = IF call[c].op = "close" THEN "closing" ELSE conn

\* c holds the shared connection and issues its statement.  A connection that
\* is being closed refuses it; closing it again is a no-op.
Issue(c) ==
  IF conn = "closing"
  THEN /\ call' = [call EXCEPT ![c].pc = "done",
                               ![c].res = IF call[c].op = "close" THEN Success(0) ELSE Failure]
       /\ UNCHANGED <<conn, cmdQ>>
  ELSE /\ call' = [call EXCEPT ![c].pc = "native"]
       /\ cmdQ' = Append(cmdQ, c)
       /\ conn' = IF call[c].op = "close" THEN "closing" ELSE "open"

\* Mutant: no lock around the opening.
MustOpen_NoLock == conn \in {"none", "opening"}

\* There is no connection and nobody is opening one.
MustOpen == conn = "none"

\* The directory arrives: initDB goes on to openDatabase.
PathReply ==
  /\ NoMicrotask
  /\ pathQ # <<>>
  /\ pathQ' = Tail(pathQ)
  /\ LET c == Head(pathQ) IN
       \/ /\ MustOpen
          /\ conn' = "opening"
          /\ call' = [call EXCEPT ![c].pc = "open"]
          /\ cmdQ' = Append(cmdQ, c)
          /\ UNCHANGED waiters
       \/ /\ conn = "opening"
          /\ call' = [call EXCEPT ![c].pc = "lock"]
          /\ waiters' = Append(waiters, c)
          /\ UNCHANGED <<conn, cmdQ>>
       \/ /\ conn \in {"open", "closing"}
          /\ Issue(c)
          /\ UNCHANGED waiters
  /\ UNCHANGED <<version, table, replyQ>>

\* Mutant: a waiting caller is dropped.
Grant_Drops ==
  /\ waiters # <<>> /\ conn # "opening"
  /\ waiters' = Tail(waiters)
  /\ UNCHANGED <<version, table, conn, call, pathQ, cmdQ, replyQ>>

\* openDatabase returns to the calls that waited for the same opening.
Grant ==
  /\ waiters # <<>> /\ conn # "opening"
  /\ waiters' = Tail(waiters)
  /\ Issue(Head(waiters))
  /\ UNCHANGED <<version, table, pathQ, replyQ>>

-----------------------------------------------------------------------------
(* The native side runs the head of cmdQ. *)

\* Mutant: an answer overtakes those before it.
Ran_Overtakes(c, r) ==
  /\ cmdQ # <<>> /\ c = Head(cmdQ)
  /\ cmdQ'   = Tail(cmdQ)
  /\ replyQ' = <<c>> \o replyQ
  /\ call'   = [call EXCEPT ![c].res = r]
  /\ UNCHANGED <<conn, pathQ, waiters>>

Ran(c, r) ==
  /\ cmdQ # <<>> /\ c = Head(cmdQ)
  /\ cmdQ'   = Tail(cmdQ)
  /\ replyQ' = Append(replyQ, c)
  /\ call'   = [call EXCEPT ![c].res = r]
  /\ UNCHANGED <<conn, pathQ, waiters>>

Running(c, op) == call[c].pc = "native" /\ call[c].op = op

\* openDatabase(path, version: 1, onCreate: _onCreate)
RunOpen(c) ==
  /\ call[c].pc = "open"
  /\ Ran(c, Failure)
  /\ version' = 1
  /\ table' = IF version = 0 THEN {} ELSE table

RunInsert(c) ==
  LET m == toMap(call[c].arg) IN
  /\ Running(c, "insertUser")
  /\ \E id \in IF m._id = None THEN FreshIds(table) ELSE {m._id} :
       \/ /\ Rows(id) = {}
          /\ table' = table \cup {[_id |-> id, username |-> m.username]}
          /\ Ran(c, Success(id))
       \/ /\ Rows(id) # {}       \* UNIQUE constraint failed
          /\ Ran(c, Failure)
          /\ UNCHANGED table
  /\ UNCHANGED version

\* where _id = null selects no row
RunUpdate(c) ==
  LET m == toMap(call[c].arg) IN
  /\ Running(c, "updateUser")
  /\ table' = {IF r._id = m._id THEN [r EXCEPT !.username = m.username] ELSE r : r \in table}
  /\ Ran(c, Success(Affected(Rows(m._id))))
  /\ UNCHANGED version

\* Mutant: the where clause is lost.
RunDelete_NoWhere(c) ==
  /\ Running(c, "deleteUser")
  /\ table' = {}
  /\ Ran(c, Success(Affected(Rows(call[c].arg.id))))
  /\ UNCHANGED version

RunDelete(c) ==
  /\ Running(c, "deleteUser")
  /\ table' = table \ Rows(call[c].arg.id)
  /\ Ran(c, Success(Affected(Rows(call[c].arg.id))))
  /\ UNCHANGED version

RunQuery(c) ==
  /\ \/ /\ Running(c, "getAllUsers")
        /\ Ran(c, Listed(table))
     \/ /\ Running(c, "getUser")       \* User.fromMap(res.first)
        /\ \/ \E r \in Rows(call[c].arg.id) : Ran(c, Found(fromMap(r)))
           \/ /\ Rows(call[c].arg.id) = {}
              /\ Ran(c, Failure)
  /\ UNCHANGED <<version, table>>

RunClose(c) ==
  /\ Running(c, "close")
  /\ Ran(c, Success(0))
  /\ UNCHANGED <<version, table>>

Native == \E c \in Call :
  RunOpen(c) \/ RunInsert(c) \/ RunUpdate(c) \/ RunDelete(c) \/ RunQuery(c) \/ RunClose(c)

\* Mutant: the closed connection is kept for the next caller.
AfterClose_Kept == "closing"

\* Once closed, the connection is forgotten: the next caller opens another.
AfterClose == "none"

\* A reply reaches Dart: the connection is open or gone, or the call settles.
Deliver ==
  /\ NoMicrotask
  /\ replyQ # <<>>
  /\ replyQ' = Tail(replyQ)
  /\ LET c == Head(replyQ) IN
       \/ /\ call[c].pc = "open"
          /\ Issue(c)
       \/ /\ call[c].pc = "native"
          /\ call' = [call EXCEPT ![c].pc = "done"]
          /\ conn' = IF call[c].op = "close" THEN AfterClose ELSE conn
          /\ UNCHANGED cmdQ
  /\ UNCHANGED <<version, table, pathQ, waiters>>

-----------------------------------------------------------------------------
(* Any client: it requests operations at any time and takes their results.   *)

Return(c) ==
  /\ call[c].pc = "done"
  /\ call' = [call EXCEPT ![c] = Idle]
  /\ UNCHANGED <<version, table, plugin>>

\* User(username, password) has no id; User.map and fromMap may give one.
Client == \E c \in Call :
  \/ \E n \in Name, id \in Id \cup {None} :
       LET u == [username |-> n, id |-> id] IN insertUser(c, u) \/ updateUser(c, u)
  \/ \E id \in Id : deleteUser(c, id) \/ getUser(c, id)
  \/ getAllUsers(c)
  \/ close(c)

\* The process is killed and started again: only the file survives.
Restart ==
  /\ conn' = "none"
  /\ call' = [c \in Call |-> Idle]
  /\ pathQ' = <<>> /\ waiters' = <<>> /\ cmdQ' = <<>> /\ replyQ' = <<>>
  /\ UNCHANGED <<version, table>>

Init ==
  /\ \/ version = 0 /\ table = {}
     \/ \E n \in Name, id \in Id : version = 1 /\ table = {[_id |-> id, username |-> n]}
  /\ conn = "none"
  /\ call = [c \in Call |-> Idle]
  /\ pathQ = <<>> /\ waiters = <<>> /\ cmdQ = <<>> /\ replyQ = <<>>

Plugin == PathReply \/ Grant \/ Native \/ Deliver

Next ==
  \/ NoMicrotask /\ Client
  \/ Plugin
  \/ \E c \in Call : Return(c)
  \/ Restart

\* Dart takes events from one queue, so a reply that has arrived is not passed
\* over for ever, although microtasks keep making it wait: strong fairness.
Fairness ==
  /\ SF_dbVars(PathReply) /\ SF_dbVars(Deliver) /\ WF_dbVars(Grant) /\ WF_dbVars(Native)
  /\ \A c \in Call : WF_dbVars(Return(c))

Spec == Init /\ [][Next]_dbVars /\ Fairness

-----------------------------------------------------------------------------
(* What the helper promises: UserStore, under the mapping below. *)

\* A call has taken effect once the native side has run its statement; the
\* opening of the connection on a call's behalf has no effect of its own.
abstractState(c) ==
  CASE call[c].pc \in {"idle", "done"} -> call[c].pc
    [] call[c].pc = "native" /\ (\E i \in 1 .. Len(replyQ) : replyQ[i] = c) -> "effected"
    [] OTHER -> "pending"

abstractCall(c) ==
  [op |-> call[c].op, arg |-> call[c].arg, state |-> abstractState(c),
   res |-> call[c].res]

abstractOrder == (IF conn = "opening" THEN replyQ ELSE <<>>) \o cmdQ \o waiters \o pathQ

abstractReq == [c \in Call |-> abstractCall(c)]

Store == INSTANCE UserStore WITH rows <- table, req <- abstractReq, order <- abstractOrder

-----------------------------------------------------------------------------
(* Properties. *)

\* Types of the variables (sqFlite.dart's calls and the plugin's queues).
TypeOK ==
  /\ version \in {0, 1}
  /\ table \in SUBSET Row
  /\ conn \in {"none", "opening", "open", "closing"}
  /\ call \in [Call -> Calls]
  /\ pathQ \in Seq(Call) /\ waiters \in Seq(Call)
  /\ cmdQ \in Seq(Call) /\ replyQ \in Seq(Call)

\* A close() is the last command in flight: every statement that shares its
\* connection, from whichever call, has been sent before it, so none is run on
\* a connection already closed (close, sqFlite.dart:121, is never awaited).
CloseIsLast ==
  LET sent == replyQ \o cmdQ IN
  \A i \in 1 .. Len(sent) :
    call[sent[i]].pc = "native" /\ call[sent[i]].op = "close" => i = Len(sent)

\* openDatabase is alone in flight: each call runs initDB (sqFlite.dart:29),
\* and yet no two of them ever open the file at the same time, nor does one
\* open it while another's statement is under way.
OpenIsAlone ==
  LET sent == replyQ \o cmdQ IN
  \A i \in 1 .. Len(sent) : call[sent[i]].pc = "open" => Len(sent) = 1 /\ conn = "opening"

\* A call that selects by `_id` or selects everything fails for one reason
\* only: another call's close() holds the connection when it gets there.
FailsOnlyByClose ==
  \A c \in Call :
    call[c].pc = "done" /\ ~ call[c].res.ok /\ call[c].op \in {"updateUser", "deleteUser", "getAllUsers"}
      => conn = "closing" /\ \E d \in Call \ {c} : call[d].op = "close" /\ call[d].pc = "native"

\* The helper implements the store: inserts, updates, deletes and queries take
\* effect one at a time in the order they were requested, although each of them
\* waits on its own for a directory, for a connection that others open and
\* close, and for a reply; and the refused ones have no effect at all.
StepsImplementStore == Store!StoreInit /\ [][Store!StoreNext]_(Store!storeVars)

\* And it fulfils the store's fairness: what was requested is carried out or
\* refused, and its caller told, whatever the other calls do meanwhile.
ImplementsStore == Store!StoreSpec

\* Every call returns, with a value or with an error, wherever it had to wait:
\* the directory, the lock of openDatabase, a connection being closed.
EveryCallReturns == \A c \in Call : call[c].pc # "idle" ~> call[c].pc = "idle"
=============================================================================
