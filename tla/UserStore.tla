----------------------------- MODULE UserStore ------------------------------
(***************************************************************************)
(* What the sqlite helper promises a screen that uses it: a table on which *)
(* each operation takes effect at one instant, in the order the operations *)
(* were requested, whoever requested them and whether or not anybody       *)
(* awaits them.  There is no connection here and nothing to open; the only *)
(* trace of one is that an operation requested while somebody's close() is *)
(* not finished may be refused, and then it has no effect at all.          *)
(***************************************************************************)
EXTENDS UserRows, Sequences, SequencesExt

CONSTANT Call

VARIABLES
  rows,    \* the table
  req,     \* what each call asked for and got
  order    \* the calls that have not taken effect, oldest first

storeVars == <<rows, req, order>>

NoCall == [op |-> "close", arg |-> Nothing, state |-> "idle", res |-> Failure]

StoreInit ==
  /\ rows \in SUBSET Row
  /\ \A r, s \in rows : r._id = s._id => r = s
  /\ req = [c \in Call |-> NoCall]
  /\ order = <<>>

Invoke(c) ==
  /\ req[c].state = "idle"
  /\ \E op \in Ops, u \in User :
       req' = [req EXCEPT ![c] = [op |-> op, arg |-> u, state |-> "pending", res |-> Failure]]
  /\ order' = Append(order, c)
  /\ UNCHANGED rows

\* An operation's effect on the table and its result.
Named(u) == {r \in rows : r._id = u.id}

Outcome(rs, res) == [rows |-> rs, res |-> res]

Outcomes(op, u) ==
  CASE op = "insertUser" ->
         {IF \E r \in rows : r._id = id
          THEN Outcome(rows, Failure)
          ELSE Outcome(rows \cup {[_id |-> id, username |-> u.username]}, Success(id))
            : id \in IF u.id = None THEN FreshIds(rows) ELSE {u.id}}
    [] op = "updateUser" ->
         {Outcome((rows \ Named(u)) \cup {[r EXCEPT !.username = u.username] : r \in Named(u)},
                  Success(Affected(Named(u))))}
    [] op = "deleteUser"  -> {Outcome(rows \ Named(u), Success(Affected(Named(u))))}
    [] op = "getAllUsers" -> {Outcome(rows, Listed(rows))}
    [] op = "getUser" ->
         IF Named(u) = {} THEN {Outcome(rows, Failure)}
         ELSE {Outcome(rows, Found(fromMap(r))) : r \in Named(u)}
    [] op = "close" -> {Outcome(rows, Success(0))}

\* The oldest pending operation takes effect; its caller learns of it later.
TakeEffect(c) ==
  /\ order # <<>> /\ c = Head(order)
  /\ order' = Tail(order)
  /\ \E o \in Outcomes(req[c].op, req[c].arg) :
       /\ rows' = o.rows
       /\ req' = [req EXCEPT ![c].state = "effected", ![c].res = o.res]

Settle(c) ==
  /\ req[c].state = "effected"
  /\ req' = [req EXCEPT ![c].state = "done"]
  /\ UNCHANGED <<rows, order>>

\* Somebody else's close() is not finished: refused, without effect.
Refuse(c) ==
  /\ req[c].state = "pending"
  /\ \E d \in Call \ {c} : req[d].op = "close" /\ req[d].state \in {"pending", "effected"}
  /\ \E i \in 1 .. Len(order) : order[i] = c /\ order' = RemoveAt(order, i)
  /\ req' = [req EXCEPT ![c].state = "done",
                        ![c].res = IF req[c].op = "close" THEN Success(0) ELSE Failure]
  /\ UNCHANGED rows

Take(c) ==
  /\ req[c].state = "done"
  /\ req' = [req EXCEPT ![c] = NoCall]
  /\ UNCHANGED <<rows, order>>

Killed ==
  /\ req' = [c \in Call |-> NoCall]
  /\ order' = <<>>
  /\ UNCHANGED rows

StoreNext ==
  \/ \E c \in Call : Invoke(c) \/ TakeEffect(c) \/ Settle(c) \/ Refuse(c) \/ Take(c)
  \/ Killed

\* Every operation that is requested ends (or the process is killed).
StoreSpec ==
  /\ StoreInit /\ [][StoreNext]_storeVars
  /\ \A c \in Call : WF_storeVars(TakeEffect(c) \/ Settle(c) \/ Refuse(c)) /\ WF_storeVars(Take(c))
=============================================================================
