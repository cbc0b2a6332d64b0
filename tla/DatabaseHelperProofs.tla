------------------------ MODULE DatabaseHelperProofs ------------------------
(***************************************************************************)
(* Proofs about DatabaseHelper, for every number of calls, names and ids.  *)
(*                                                                         *)
(* The queues carry the argument: a call is in the queue its pc says, once;*)
(* an opening is alone in flight; and a close, once sent, is the last call *)
(* in flight until it has come back.                                       *)
(***************************************************************************)
EXTENDS DatabaseHelper, SequenceTheorems, TLAPS

AllAt(f, q, pc)  == \A i \in 1 .. Len(q) : f[q[i]].pc = pc
Distinct(q)      == \A i, j \in 1 .. Len(q) : q[i] = q[j] => i = j
Disjoint(q, r)   == \A i \in 1 .. Len(q), j \in 1 .. Len(r) : q[i] # r[j]

\* Each call that waits in Dart is in the queue its pc names, once.
WaitInv ==
  /\ AllAt(call, pathQ, "path")   /\ Distinct(pathQ)
  /\ AllAt(call, waiters, "lock") /\ Distinct(waiters)

\* So is each command: one that opens the connection, or statements and closes.
SentPc == IF conn = "opening" THEN "open" ELSE "native"
SentInv ==
  /\ AllAt(call, cmdQ, SentPc)   /\ Distinct(cmdQ)
  /\ AllAt(call, replyQ, SentPc) /\ Distinct(replyQ)
  /\ Disjoint(cmdQ, replyQ)

\* What the state of the connection says of the queues.
ConnInv ==
  /\ conn = "none" => waiters = <<>> /\ cmdQ = <<>> /\ replyQ = <<>>
  /\ conn = "opening" => Len(cmdQ) + Len(replyQ) = 1

\* A close in flight is the last command, and there is one iff conn says so.
CloseInv ==
  conn # "opening" =>
    /\ \A i \in 1 .. Len(cmdQ) :
         call[cmdQ[i]].op = "close" => conn = "closing" /\ i = Len(cmdQ)
    /\ \A i \in 1 .. Len(replyQ) :
         call[replyQ[i]].op = "close" => conn = "closing" /\ i = Len(replyQ) /\ cmdQ = <<>>
    /\ conn = "closing" =>
         IF cmdQ = <<>> THEN replyQ # <<>> /\ call[replyQ[Len(replyQ)]].op = "close"
                        ELSE call[cmdQ[Len(cmdQ)]].op = "close"

ById == {"updateUser", "deleteUser", "getAllUsers"}

\* Natively, the statements that select by key or everything succeed.
ReplyInv ==
  conn # "opening" =>
    \A i \in 1 .. Len(replyQ) :
      call[replyQ[i]].op \in ById => call[replyQ[i]].res.ok

IInv == TypeOK /\ WaitInv /\ SentInv /\ ConnInv /\ CloseInv /\ ReplyInv /\ FailsOnlyByClose

-----------------------------------------------------------------------------
(* Results and data. *)

\* Every result an operation can be given is a Result (the operations of
\* sqFlite.dart:66 to 124 return counts, lists, users or errors).
LEMMA ResultTypes ==
  /\ Failure \in Result
  /\ \A n \in Nat : Success(n) \in Result
  /\ \A rs \in SUBSET Row : Listed(rs) \in Result
  /\ \A r \in Row : Found(fromMap(r)) \in Result
<1>1. Failure \in Result
  BY DEF Failure, Result, Nothing, OnlyId, User
<1>2. \A n \in Nat : Success(n) \in Result
  BY <1>1 DEF Success, Result
<1>3. \A rs \in SUBSET Row : Listed(rs) \in Result
  BY <1>1 DEF Listed, Result
<1>4. \A r \in Row : fromMap(r) \in User
  BY DEF Row, User, fromMap, At
<1>5. \A r \in Row : Found(fromMap(r)) \in Result
  BY <1>1, <1>4 DEF Found, Result
<1> QED BY <1>1, <1>2, <1>3, <1>5

\* A new call, and an idle one, are of the right type.
LEMMA NewCallTypes ==
  /\ \A op \in Ops, u \in User : NewCall(op, u) \in Calls
  /\ Idle \in Calls
  /\ \A id \in Id \cup {None} : OnlyId(id) \in User
  /\ Nothing \in User
  BY ResultTypes DEF NewCall, Calls, PC, Idle, Ops, Nothing, OnlyId, User

\* Moving a call on, or giving it its result, leaves it a call.
LEMMA ExceptTypes ==
  ASSUME NEW f \in [Call -> Calls], NEW c \in Call
  PROVE  /\ \A pc \in PC : [f EXCEPT ![c].pc = pc] \in [Call -> Calls]
         /\ \A r \in Result : [f EXCEPT ![c].res = r] \in [Call -> Calls]
         /\ \A pc \in PC, r \in Result : [f EXCEPT ![c].pc = pc, ![c].res = r] \in [Call -> Calls]
<1>1. \A k \in Calls : /\ \A pc \in PC : [k EXCEPT !.pc = pc] \in Calls
                       /\ \A r \in Result : [k EXCEPT !.res = r] \in Calls
  BY DEF Calls
<1>2. \A pc \in PC : [f EXCEPT ![c].pc = pc] \in [Call -> Calls]
  BY <1>1
<1>3. \A r \in Result : [f EXCEPT ![c].res = r] \in [Call -> Calls]
  BY <1>1
<1>4. ASSUME NEW pc \in PC, NEW r \in Result
      PROVE  [f EXCEPT ![c].pc = pc, ![c].res = r] \in [Call -> Calls]
  <2>1. [[f EXCEPT ![c].pc = pc] EXCEPT ![c].res = r] \in [Call -> Calls]
    BY <1>1, <1>2
  <2> QED BY <2>1
<1> QED BY <1>2, <1>3, <1>4

\* Whatever a client does is a request of one of the six operations.
LEMMA ClientRequests ==
  ASSUME Client
  PROVE  \E c \in Call, op \in Ops, u \in User : Request(c, op, u)
<1>1. PICK c \in Call :
        \/ \E n \in Name, id \in Id \cup {None} :
             LET u == [username |-> n, id |-> id] IN insertUser(c, u) \/ updateUser(c, u)
        \/ \E id \in Id : deleteUser(c, id) \/ getUser(c, id)
        \/ getAllUsers(c)
        \/ close(c)
  BY DEF Client
<1>2. CASE \E n \in Name, id \in Id \cup {None} :
             LET u == [username |-> n, id |-> id] IN insertUser(c, u) \/ updateUser(c, u)
  BY <1>2 DEF insertUser, updateUser, Ops, User
<1>3. CASE \E id \in Id : deleteUser(c, id) \/ getUser(c, id)
  BY <1>3, NewCallTypes DEF deleteUser, getUser, Ops
<1>4. CASE getAllUsers(c) \/ close(c)
  BY <1>4, NewCallTypes DEF getAllUsers, close, Ops
<1> QED BY <1>1, <1>2, <1>3, <1>4

\* A request keeps the types, whatever it asks for.
LEMMA RequestType ==
  ASSUME TypeOK, NEW c \in Call, NEW op \in Ops, NEW u \in User, Request(c, op, u)
  PROVE  TypeOK'
  BY NewCallTypes DEF TypeOK, Request

\* Issuing a statement or a close keeps the types of what it changes.
LEMMA IssueType ==
  ASSUME TypeOK, NEW c \in Call, Issue(c)
  PROVE  /\ call' \in [Call -> Calls]
         /\ cmdQ' \in Seq(Call)
         /\ conn' \in {"none", "opening", "open", "closing"}
<1>1. "done" \in PC /\ "native" \in PC
  BY DEF PC
<1>2. CASE conn = "closing"
  <2>1. PICK r \in Result : call' = [call EXCEPT ![c].pc = "done", ![c].res = r]
    BY <1>2, ResultTypes DEF Issue
  <2> QED BY <1>1, <1>2, <2>1, ExceptTypes DEF TypeOK, Issue
<1>3. CASE conn # "closing"
  <2>1. /\ call' = [call EXCEPT ![c].pc = "native"]
        /\ cmdQ' = Append(cmdQ, c)
        /\ conn' \in {"open", "closing"}
    BY <1>3 DEF Issue
  <2>2. call' \in [Call -> Calls]
    BY <1>1, <2>1, ExceptTypes DEF TypeOK
  <2> QED BY <2>1, <2>2 DEF TypeOK
<1> QED BY <1>2, <1>3

\* The native side's answer keeps the types.
LEMMA RanType ==
  ASSUME TypeOK, NEW c \in Call, NEW r \in Result, Ran(c, r)
  PROVE  /\ call' \in [Call -> Calls]
         /\ cmdQ' \in Seq(Call) /\ replyQ' \in Seq(Call)
         /\ UNCHANGED <<conn, pathQ, waiters>>
<1>1. call' = [call EXCEPT ![c].res = r]
  BY DEF Ran
<1>2. call' \in [Call -> Calls]
  BY <1>1, ExceptTypes DEF TypeOK
<1> QED BY <1>2 DEF TypeOK, Ran

-----------------------------------------------------------------------------
(* Type correctness. *)

\* Each step keeps the types.
LEMMA TypeStep == TypeOK /\ [Next]_dbVars => TypeOK'
<1> SUFFICES ASSUME TypeOK, [Next]_dbVars PROVE TypeOK'
  OBVIOUS
<1>1. CASE NoMicrotask /\ Client
  <2>2. PICK c \in Call, op \in Ops, u \in User : Request(c, op, u)
    BY <1>1, ClientRequests
  <2> QED BY <2>2, RequestType
<1>2. CASE PathReply
  <2> DEFINE c == Head(pathQ)
  <2>1. c \in Call /\ pathQ' \in Seq(Call)
    BY <1>2 DEF PathReply, TypeOK
  <2>2. CASE Issue(c) /\ UNCHANGED waiters
    BY <1>2, <2>1, <2>2, IssueType DEF PathReply, TypeOK
  <2>3. CASE MustOpen /\ conn' = "opening" /\ call' = [call EXCEPT ![c].pc = "open"]
             /\ cmdQ' = Append(cmdQ, c) /\ UNCHANGED waiters
    <3>1. call' \in [Call -> Calls]
      BY <2>1, <2>3, ExceptTypes DEF TypeOK, PC
    <3> QED BY <1>2, <2>1, <2>3, <3>1 DEF PathReply, TypeOK
  <2>4. CASE call' = [call EXCEPT ![c].pc = "lock"] /\ waiters' = Append(waiters, c)
             /\ UNCHANGED <<conn, cmdQ>>
    <3>1. call' \in [Call -> Calls]
      BY <2>1, <2>4, ExceptTypes DEF TypeOK, PC
    <3> QED BY <1>2, <2>1, <2>4, <3>1 DEF PathReply, TypeOK
  <2> QED BY <1>2, <2>2, <2>3, <2>4 DEF PathReply
<1>3. CASE Grant
  <2>1. Head(waiters) \in Call /\ waiters' \in Seq(Call)
    BY <1>3 DEF Grant, TypeOK
  <2> QED BY <1>3, <2>1, IssueType DEF Grant, TypeOK
<1>4. CASE Native
  <2>1. PICK c \in Call : RunOpen(c) \/ RunInsert(c) \/ RunUpdate(c) \/ RunDelete(c)
                           \/ RunQuery(c) \/ RunClose(c)
    BY <1>4 DEF Native
  <2>2. call[c].arg \in User
    BY DEF TypeOK, Calls
  <2>3. \A rs : Affected(rs) \in Nat
    BY DEF Affected
  <2>4. CASE RunOpen(c)
    BY <2>4, RanType, ResultTypes DEF RunOpen, TypeOK
  <2>5. CASE RunInsert(c)
    <3> DEFINE u == call[c].arg
    <3>1. toMap(u)._id = u.id /\ toMap(u).username = u.username
      BY DEF toMap
    <3>2. PICK id \in IF u.id = None THEN FreshIds(table) ELSE {u.id} :
            \/ /\ table' = table \cup {[_id |-> id, username |-> u.username]}
               /\ Ran(c, Success(id))
            \/ Ran(c, Failure) /\ UNCHANGED table
      BY <2>5, <3>1 DEF RunInsert
    <3>3. id \in Id
      BY <2>2, <3>2 DEF FreshIds, User
    <3>4. id \in Nat /\ Success(id) \in Result /\ Failure \in Result
      BY <3>3, ResultTypes, MaxIdAssumption DEF Id
    <3>5. table' \in SUBSET Row
      BY <2>2, <3>2, <3>3 DEF TypeOK, Row, User
    <3>6. version' = version
      BY <2>5 DEF RunInsert
    <3> QED BY <3>2, <3>4, <3>5, <3>6, RanType DEF TypeOK
  <2>6. CASE RunUpdate(c)
    <3>1. toMap(call[c].arg).username \in Name \cup {None}
      BY <2>2 DEF toMap, User
    <3>2. table' \in SUBSET Row
      BY <2>6, <3>1 DEF RunUpdate, TypeOK, Row
    <3>3. PICK r \in Result : Ran(c, r)
      BY <2>6, <2>3, ResultTypes DEF RunUpdate
    <3> QED BY <2>6, <3>2, <3>3, RanType DEF RunUpdate, TypeOK
  <2>7. CASE RunDelete(c)
    <3>1. PICK r \in Result : Ran(c, r)
      BY <2>7, <2>3, ResultTypes DEF RunDelete
    <3> QED BY <2>7, <3>1, RanType DEF RunDelete, TypeOK
  <2>8. CASE RunQuery(c)
    <3>1. PICK r \in Result : Ran(c, r)
      BY <2>8, ResultTypes DEF RunQuery, Rows, TypeOK
    <3> QED BY <2>8, <3>1, RanType DEF RunQuery, TypeOK
  <2>9. CASE RunClose(c)
    BY <2>9, RanType, ResultTypes DEF RunClose, TypeOK
  <2> QED BY <2>1, <2>4, <2>5, <2>6, <2>7, <2>8, <2>9
<1>5. CASE Deliver
  <2> DEFINE c == Head(replyQ)
  <2>1. c \in Call /\ replyQ' \in Seq(Call)
    BY <1>5 DEF Deliver, TypeOK
  <2>2. CASE Issue(c)
    BY <1>5, <2>1, <2>2, IssueType DEF Deliver, TypeOK
  <2>3. CASE /\ call' = [call EXCEPT ![c].pc = "done"]
             /\ conn' = IF call[c].op = "close" THEN AfterClose ELSE conn
             /\ UNCHANGED cmdQ
    BY <1>5, <2>1, <2>3, ExceptTypes DEF Deliver, TypeOK, AfterClose, PC
  <2> QED BY <1>5, <2>2, <2>3 DEF Deliver
<1>6. CASE \E c \in Call : Return(c)
  BY <1>6, NewCallTypes DEF Return, TypeOK, plugin
<1>7. CASE Restart
  BY <1>7, NewCallTypes DEF Restart, TypeOK
<1>8. CASE UNCHANGED dbVars
  BY <1>8 DEF dbVars, plugin, TypeOK
<1> QED BY <1>1, <1>2, <1>3, <1>4, <1>5, <1>6, <1>7, <1>8 DEF Next, Plugin

\* The initial states are well typed.
LEMMA TypeInit == Init => TypeOK
  BY NewCallTypes DEF Init, TypeOK, Row

\* The state of the helper is always of the right type: rows with keys and
\* names, users as arguments, and a result that fits every operation.
THEOREM TypeCorrect == Spec => []TypeOK
<1>1. Init => TypeOK
  BY TypeInit
<1>2. TypeOK /\ [Next]_dbVars => TypeOK'
  BY TypeStep
<1> QED BY <1>1, <1>2, PTL DEF Spec

-----------------------------------------------------------------------------
(* Queues.  f and g are the calls before and after a step that touches only  *)
(* call c.                                                                   *)

In(c, q)         == \E i \in 1 .. Len(q) : q[i] = c
SameBut(f, g, c) == \A d \in Call \ {c} : g[d] = f[d]

\* Appending: the old elements keep their places, the new one is last.
LEMMA AppendElements ==
  ASSUME NEW q \in Seq(Call), NEW c \in Call
  PROVE  /\ Append(q, c) \in Seq(Call)
         /\ Len(Append(q, c)) = Len(q) + 1
         /\ \A i \in 1 .. Len(q) : Append(q, c)[i] = q[i]
         /\ Append(q, c)[Len(q) + 1] = c
         /\ Append(q, c) # <<>> /\ Len(q) \in Nat
         /\ \A i \in 1 .. Len(Append(q, c)) : i \in 1 .. Len(q) \/ i = Len(Append(q, c))
<1>1. /\ Append(q, c) \in Seq(Call)
      /\ Len(Append(q, c)) = Len(q) + 1
      /\ \A i \in 1 .. Len(q) : Append(q, c)[i] = q[i]
      /\ Append(q, c)[Len(q) + 1] = c
  OBVIOUS
<1>2. Len(q) \in Nat
  OBVIOUS
<1>3. Append(q, c) # <<>>
  BY <1>1, <1>2
<1>4. \A i \in 1 .. Len(q) + 1 : i \in 1 .. Len(q) \/ i = Len(q) + 1
  BY <1>2
<1> QED BY <1>1, <1>2, <1>3, <1>4

\* Dropping the head: every other element moves one place up.
LEMMA TailElements ==
  ASSUME NEW q \in Seq(Call), q # <<>>
  PROVE  /\ Tail(q) \in Seq(Call) /\ Head(q) \in Call
         /\ Len(q) \in Nat /\ Len(q) >= 1 /\ Len(Tail(q)) = Len(q) - 1
         /\ \A i \in 1 .. Len(Tail(q)) : i + 1 \in 1 .. Len(q) /\ Tail(q)[i] = q[i + 1]
         /\ Head(q) = q[1]
  OBVIOUS

\* A queue that c is not in stays as it is.
LEMMA QueueKept ==
  ASSUME NEW f, NEW g, NEW c \in Call, SameBut(f, g, c),
         NEW q \in Seq(Call), NEW pc, AllAt(f, q, pc), f[c].pc # pc
  PROVE  AllAt(g, q, pc)
<1>1. \A i \in 1 .. Len(q) : q[i] \in Call \ {c}
  BY DEF AllAt
<1> QED BY <1>1 DEF AllAt, SameBut

\* A call that is not in the queue joins it.
LEMMA QueueJoined ==
  ASSUME NEW f, NEW g, NEW c \in Call, SameBut(f, g, c),
         NEW q \in Seq(Call), NEW pc, AllAt(f, q, pc), f[c].pc # pc, Distinct(q), g[c].pc = pc
  PROVE  AllAt(g, Append(q, c), pc) /\ Distinct(Append(q, c))
<1>1. AllAt(g, q, pc)
  BY QueueKept
<1>2. \A i \in 1 .. Len(q) : q[i] # c
  BY DEF AllAt
<1>3. \A i \in 1 .. Len(Append(q, c)) : i \in 1 .. Len(q) \/ i = Len(q) + 1
  BY AppendElements
<1> QED BY <1>1, <1>2, <1>3, AppendElements DEF AllAt, Distinct

\* The head of a queue leaves it.
LEMMA QueueLeft ==
  ASSUME NEW f, NEW g, NEW q \in Seq(Call), q # <<>>, SameBut(f, g, Head(q)),
         NEW pc, AllAt(f, q, pc), Distinct(q)
  PROVE  AllAt(g, Tail(q), pc) /\ Distinct(Tail(q)) /\ ~ In(Head(q), Tail(q))
<1>1. \A i \in 1 .. Len(Tail(q)) : Tail(q)[i] \in Call \ {Head(q)}
  BY TailElements DEF Distinct
<1>2. Distinct(Tail(q))
  BY TailElements DEF Distinct
<1> QED BY <1>1, <1>2, TailElements DEF AllAt, SameBut, In

-----------------------------------------------------------------------------
(* The queues under each action. *)

\* A step of a call that has no command in flight leaves the commands alone.
LEMMA SentKept ==
  ASSUME TypeOK, SentInv, CloseInv, ReplyInv, NEW c \in Call,
         call[c].pc \notin {"open", "native"}, SameBut(call, call', c),
         UNCHANGED <<conn, cmdQ, replyQ>>
  PROVE  SentInv' /\ CloseInv' /\ ReplyInv'
<1>1. SentPc \in {"open", "native"} /\ SentPc' = SentPc
  BY DEF SentPc
<1>2. AllAt(call', cmdQ, SentPc) /\ AllAt(call', replyQ, SentPc)
  BY <1>1, QueueKept DEF SentInv, TypeOK
<1>3. /\ \A i \in 1 .. Len(cmdQ) : call'[cmdQ[i]] = call[cmdQ[i]]
      /\ \A i \in 1 .. Len(replyQ) : call'[replyQ[i]] = call[replyQ[i]]
  BY <1>1 DEF SentInv, AllAt, SameBut, TypeOK
<1>4. SentInv'
  BY <1>1, <1>2 DEF SentInv
<1>5. CloseInv'
  <2>1. cmdQ # <<>> => Len(cmdQ) \in 1 .. Len(cmdQ)
    BY DEF TypeOK
  <2>2. replyQ # <<>> => Len(replyQ) \in 1 .. Len(replyQ)
    BY DEF TypeOK
  <2> QED BY <1>3, <2>1, <2>2 DEF CloseInv
<1>6. ReplyInv'
  BY <1>3 DEF ReplyInv
<1> QED BY <1>4, <1>5, <1>6

\* What Issue does to the call itself.
LEMMA IssueCall ==
  ASSUME TypeOK, NEW c \in Call, Issue(c)
  PROVE  /\ SameBut(call, call', c)
         /\ call'[c].op = call[c].op
         /\ call'[c].pc = IF conn = "closing" THEN "done" ELSE "native"
<1>1. CASE conn = "closing"
  BY <1>1 DEF Issue, TypeOK, SameBut, Calls
<1>2. CASE conn # "closing"
  BY <1>2 DEF Issue, TypeOK, SameBut, Calls
<1> QED BY <1>1, <1>2

\* A statement or a close issued on the connection that is there: it is sent
\* after all others, or refused.
LEMMA IssueSent ==
  ASSUME TypeOK, SentInv, CloseInv, ReplyInv, NEW c \in Call,
         call[c].pc \in {"path", "lock"}, conn \in {"open", "closing"},
         Issue(c), UNCHANGED replyQ
  PROVE  SentInv' /\ CloseInv' /\ ReplyInv' /\ conn' \in {"open", "closing"}
<1>1. CASE conn = "closing"
  BY <1>1, IssueCall, SentKept DEF Issue
<1>2. CASE conn = "open"
  <2>1. /\ cmdQ' = Append(cmdQ, c)
        /\ conn' = IF call[c].op = "close" THEN "closing" ELSE "open"
    BY <1>2 DEF Issue
  <2>2. SentPc = "native" /\ SentPc' = "native"
    BY <1>2, <2>1 DEF SentPc
  <2>3. call'[c].pc = "native" /\ call'[c].op = call[c].op /\ SameBut(call, call', c)
    BY <1>2, IssueCall
  <2>4. AllAt(call', cmdQ', "native") /\ Distinct(cmdQ')
    BY <2>1, <2>2, <2>3, QueueJoined DEF SentInv, TypeOK
  <2>5. AllAt(call', replyQ, "native")
    BY <2>2, <2>3, QueueKept DEF SentInv, TypeOK
  <2>6. /\ \A i \in 1 .. Len(cmdQ) : cmdQ[i] # c /\ call'[cmdQ[i]] = call[cmdQ[i]]
        /\ \A i \in 1 .. Len(replyQ) : replyQ[i] # c /\ call'[replyQ[i]] = call[replyQ[i]]
    BY <2>2, <2>3 DEF SentInv, AllAt, SameBut, TypeOK
  <2>7. /\ Len(cmdQ') = Len(cmdQ) + 1 /\ cmdQ' # <<>>
        /\ \A i \in 1 .. Len(cmdQ) : cmdQ'[i] = cmdQ[i]
        /\ cmdQ'[Len(cmdQ')] = c /\ Len(cmdQ) \in Nat
        /\ \A i \in 1 .. Len(cmdQ') : i \in 1 .. Len(cmdQ) \/ i = Len(cmdQ')
    <3>1. cmdQ \in Seq(Call)
      BY DEF TypeOK
    <3> QED BY <2>1, <3>1, AppendElements
  <2>8. SentInv'
    <3>1. Disjoint(cmdQ', replyQ)
      <4> SUFFICES ASSUME NEW i \in 1 .. Len(cmdQ'), NEW j \in 1 .. Len(replyQ)
                   PROVE  cmdQ'[i] # replyQ[j]
        BY DEF Disjoint
      <4>1. CASE i \in 1 .. Len(cmdQ)
        BY <2>7, <4>1 DEF SentInv, Disjoint
      <4>2. CASE i = Len(cmdQ')
        BY <2>6, <2>7, <4>2
      <4> QED BY <2>7, <4>1, <4>2
    <3>2. Distinct(replyQ)
      BY DEF SentInv
    <3> QED BY <2>2, <2>4, <2>5, <3>1, <3>2 DEF SentInv
  <2>9. /\ \A i \in 1 .. Len(cmdQ) : call[cmdQ[i]].op # "close"
        /\ \A i \in 1 .. Len(replyQ) : call[replyQ[i]].op # "close"
    BY <1>2 DEF CloseInv
  <2>10. CloseInv'
    <3>1. \A i \in 1 .. Len(cmdQ') : call'[cmdQ'[i]].op = "close" => conn' = "closing" /\ i = Len(cmdQ')
      BY <2>1, <2>3, <2>6, <2>7, <2>9
    <3>2. \A i \in 1 .. Len(replyQ') : call'[replyQ'[i]].op # "close"
      BY <2>6, <2>9
    <3>3. conn' = "closing" => call'[cmdQ'[Len(cmdQ')]].op = "close"
      BY <2>1, <2>3, <2>7
    <3> QED BY <2>7, <3>1, <3>2, <3>3 DEF CloseInv
  <2>11. ReplyInv'
    BY <1>2, <2>6 DEF ReplyInv
  <2> QED BY <2>1, <2>8, <2>10, <2>11
<1> QED BY <1>1, <1>2

\* The native side runs the oldest command.
LEMMA RanSent ==
  ASSUME TypeOK, WaitInv, SentInv, ConnInv, CloseInv, ReplyInv, NEW c \in Call, NEW r \in Result,
         Ran(c, r), call[c].op \in ById /\ conn # "opening" => r.ok
  PROVE  WaitInv' /\ SentInv' /\ ConnInv' /\ CloseInv' /\ ReplyInv'
<1>1. /\ cmdQ # <<>> /\ c = Head(cmdQ) /\ cmdQ' = Tail(cmdQ) /\ replyQ' = Append(replyQ, c)
      /\ call' = [call EXCEPT ![c].res = r]
      /\ UNCHANGED <<conn, pathQ, waiters>>
  BY DEF Ran
<1>2. /\ \A d \in Call : call'[d].pc = call[d].pc /\ call'[d].op = call[d].op
      /\ \A d \in Call \ {c} : call'[d] = call[d]
      /\ call'[c].res = r
  BY <1>1 DEF TypeOK, Calls
<1>3. /\ cmdQ \in Seq(Call) /\ replyQ \in Seq(Call) /\ pathQ \in Seq(Call) /\ waiters \in Seq(Call)
  BY DEF TypeOK
<1>4. /\ Len(cmdQ) \in Nat /\ Len(cmdQ) >= 1 /\ Len(cmdQ') = Len(cmdQ) - 1 /\ c = cmdQ[1]
      /\ cmdQ' \in Seq(Call)
      /\ \A i \in 1 .. Len(cmdQ') : i + 1 \in 1 .. Len(cmdQ) /\ cmdQ'[i] = cmdQ[i + 1]
  BY <1>1, <1>3, TailElements
<1>5. /\ Len(replyQ') = Len(replyQ) + 1 /\ Len(replyQ) \in Nat /\ replyQ' # <<>>
      /\ replyQ' \in Seq(Call) /\ replyQ'[Len(replyQ')] = c
      /\ \A i \in 1 .. Len(replyQ) : replyQ'[i] = replyQ[i]
      /\ \A i \in 1 .. Len(replyQ') : i \in 1 .. Len(replyQ) \/ i = Len(replyQ')
  BY <1>1, <1>3, AppendElements
<1>6. 1 \in 1 .. Len(cmdQ) /\ call[c].pc = SentPc /\ SentPc' = SentPc
  BY <1>1, <1>4 DEF SentInv, AllAt, SentPc
<1>7. \A i \in 1 .. Len(replyQ) : replyQ[i] # c
  BY <1>4, <1>6 DEF SentInv, Disjoint
<1>8. \A i \in 1 .. Len(cmdQ') : cmdQ'[i] # c
  BY <1>4, <1>6 DEF SentInv, Distinct
<1>9. WaitInv'
  BY <1>1, <1>2, <1>3 DEF WaitInv, AllAt
<1>10. SentInv'
  <2>1. AllAt(call', cmdQ', SentPc)
    BY <1>2, <1>4 DEF SentInv, AllAt
  <2>2. AllAt(call', replyQ', SentPc)
    <3> SUFFICES ASSUME NEW i \in 1 .. Len(replyQ') PROVE call'[replyQ'[i]].pc = SentPc
      BY DEF AllAt
    <3>1. CASE i \in 1 .. Len(replyQ)
      <4>1. replyQ'[i] = replyQ[i] /\ replyQ[i] \in Call
        BY <1>3, <1>5, <3>1
      <4> QED BY <1>2, <3>1, <4>1 DEF SentInv, AllAt
    <3>2. CASE i = Len(replyQ')
      BY <1>2, <1>5, <1>6, <3>2
    <3> QED BY <1>5, <3>1, <3>2
  <2>3. Distinct(cmdQ')
    BY <1>4 DEF SentInv, Distinct
  <2>4. Distinct(replyQ')
    BY <1>5, <1>7 DEF SentInv, Distinct
  <2>5. Disjoint(cmdQ', replyQ')
    <3> SUFFICES ASSUME NEW i \in 1 .. Len(cmdQ'), NEW j \in 1 .. Len(replyQ')
                 PROVE  cmdQ'[i] # replyQ'[j]
      BY DEF Disjoint
    <3>1. CASE j \in 1 .. Len(replyQ)
      BY <1>4, <1>5, <3>1 DEF SentInv, Disjoint
    <3>2. CASE j = Len(replyQ')
      BY <1>5, <1>8, <3>2
    <3> QED BY <1>5, <3>1, <3>2
  <2> QED BY <1>6, <2>1, <2>2, <2>3, <2>4, <2>5 DEF SentInv
<1>11. ConnInv'
  BY <1>1, <1>4, <1>5 DEF ConnInv
<1>12. CloseInv'
  <2> SUFFICES ASSUME conn # "opening" PROVE CloseInv'
    BY <1>1 DEF CloseInv
  <2>1. \A i \in 1 .. Len(replyQ) : call[replyQ[i]].op # "close"
    BY <1>1 DEF CloseInv
  <2>2. call[c].op = "close" => conn = "closing" /\ Len(cmdQ) = 1
    BY <1>4, <1>6 DEF CloseInv
  <2>3. \A i \in 1 .. Len(cmdQ') :
          call'[cmdQ'[i]].op = "close" => conn' = "closing" /\ i = Len(cmdQ')
    BY <1>1, <1>2, <1>4 DEF CloseInv
  <2>4. \A i \in 1 .. Len(replyQ') :
          call'[replyQ'[i]].op = "close" => conn' = "closing" /\ i = Len(replyQ') /\ Len(cmdQ') = 0
    BY <1>1, <1>2, <1>3, <1>4, <1>5, <2>1, <2>2
  <2>5. conn = "closing" => call[cmdQ[Len(cmdQ)]].op = "close"
    BY <1>1 DEF CloseInv
  <2>6. ASSUME conn = "closing", cmdQ' # <<>> PROVE call'[cmdQ'[Len(cmdQ')]].op = "close"
    <3>1. Len(cmdQ') \in 1 .. Len(cmdQ') /\ cmdQ'[Len(cmdQ')] = cmdQ[Len(cmdQ)]
      BY <1>4, <2>6
    <3>2. cmdQ[Len(cmdQ)] \in Call
      BY <1>3, <1>4
    <3> QED BY <1>2, <2>5, <2>6, <3>1, <3>2
  <2>7. ASSUME conn = "closing", cmdQ' = <<>> PROVE call'[replyQ'[Len(replyQ')]].op = "close"
    <3>1. Len(cmdQ) = 1
      BY <1>4, <2>7
    <3> QED BY <1>2, <1>4, <1>5, <2>5, <2>7, <3>1
  <2> QED BY <1>1, <1>4, <1>5, <2>3, <2>4, <2>6, <2>7 DEF CloseInv
<1>13. ReplyInv'
  BY <1>1, <1>2, <1>3, <1>5 DEF ReplyInv
<1> QED BY <1>9, <1>10, <1>11, <1>12, <1>13

\* A request joins the calls that wait for the directory.
LEMMA RequestInv ==
  ASSUME TypeOK, WaitInv, SentInv, ConnInv, CloseInv, ReplyInv,
         NEW c \in Call, NEW op \in Ops, NEW u \in User, Request(c, op, u)
  PROVE  WaitInv' /\ SentInv' /\ ConnInv' /\ CloseInv' /\ ReplyInv'
<1>1. call[c].pc = "idle" /\ call'[c].pc = "path" /\ SameBut(call, call', c)
  BY DEF Request, TypeOK, SameBut, NewCall
<1>2. WaitInv'
  <2>1. AllAt(call', pathQ', "path") /\ Distinct(pathQ')
    BY <1>1, QueueJoined DEF Request, WaitInv, TypeOK
  <2>2. AllAt(call', waiters, "lock")
    BY <1>1, QueueKept DEF WaitInv, TypeOK
  <2> QED BY <2>1, <2>2 DEF WaitInv, Request
<1>3. SentInv' /\ CloseInv' /\ ReplyInv'
  BY <1>1, SentKept DEF Request
<1>4. ConnInv'
  BY DEF ConnInv, Request
<1> QED BY <1>2, <1>3, <1>4

\* The directory arrives for the call that has waited longest.
LEMMA PathReplyInv ==
  ASSUME TypeOK, WaitInv, SentInv, ConnInv, CloseInv, ReplyInv, PathReply
  PROVE  WaitInv' /\ SentInv' /\ ConnInv' /\ CloseInv' /\ ReplyInv'
<1> DEFINE c == Head(pathQ)
<1>1. /\ pathQ # <<>> /\ pathQ' = Tail(pathQ) /\ pathQ \in Seq(Call) /\ waiters \in Seq(Call)
      /\ UNCHANGED replyQ
  BY DEF PathReply, TypeOK
<1>2. c \in Call /\ call[c].pc = "path"
  BY <1>1, TailElements DEF WaitInv, AllAt
<1>3. ASSUME SameBut(call, call', c)
      PROVE  /\ AllAt(call', pathQ', "path") /\ Distinct(pathQ')
             /\ AllAt(call', waiters, "lock") /\ Distinct(waiters)
  BY <1>1, <1>2, <1>3, QueueLeft, QueueKept DEF WaitInv
<1>4. CASE /\ MustOpen
           /\ conn' = "opening"
           /\ call' = [call EXCEPT ![c].pc = "open"]
           /\ cmdQ' = Append(cmdQ, c)
           /\ UNCHANGED waiters
  <2>1. conn = "none" /\ waiters = <<>> /\ cmdQ = <<>> /\ replyQ = <<>>
    BY <1>4 DEF MustOpen, ConnInv
  <2>2. call'[c].pc = "open" /\ SameBut(call, call', c)
    BY <1>2, <1>4 DEF SameBut, TypeOK, Calls
  <2>3. cmdQ' = <<c>> /\ Len(cmdQ') = 1 /\ replyQ' = <<>> /\ Len(replyQ') = 0 /\ cmdQ'[1] = c
    BY <1>1, <1>2, <1>4, <2>1
  <2>4. SentInv'
    BY <1>4, <2>2, <2>3 DEF SentInv, SentPc, AllAt, Distinct, Disjoint
  <2>5. ConnInv'
    BY <1>4, <2>3 DEF ConnInv
  <2>6. CloseInv' /\ ReplyInv'
    BY <1>4 DEF CloseInv, ReplyInv
  <2>7. WaitInv'
    BY <1>3, <1>4, <2>2 DEF WaitInv
  <2> QED BY <2>4, <2>5, <2>6, <2>7
<1>5. CASE /\ conn = "opening"
           /\ call' = [call EXCEPT ![c].pc = "lock"]
           /\ waiters' = Append(waiters, c)
           /\ UNCHANGED <<conn, cmdQ>>
  <2>1. call'[c].pc = "lock" /\ SameBut(call, call', c)
    BY <1>2, <1>5 DEF SameBut, TypeOK, Calls
  <2>2. AllAt(call', waiters', "lock") /\ Distinct(waiters')
    BY <1>1, <1>2, <1>5, <2>1, QueueJoined DEF WaitInv
  <2>3. WaitInv'
    BY <1>3, <2>1, <2>2 DEF WaitInv
  <2>4. SentInv' /\ CloseInv' /\ ReplyInv'
    BY <1>1, <1>2, <1>5, <2>1, SentKept
  <2>5. ConnInv'
    BY <1>1, <1>5 DEF ConnInv
  <2> QED BY <2>3, <2>4, <2>5
<1>6. CASE /\ conn \in {"open", "closing"}
           /\ Issue(c)
           /\ UNCHANGED waiters
  <2>1. SameBut(call, call', c)
    BY <1>2, <1>6, IssueCall
  <2>2. SentInv' /\ CloseInv' /\ ReplyInv' /\ conn' \in {"open", "closing"}
    BY <1>1, <1>2, <1>6, IssueSent
  <2>3. ConnInv'
    BY <2>2 DEF ConnInv
  <2>4. WaitInv'
    BY <1>3, <1>6, <2>1 DEF WaitInv
  <2> QED BY <2>2, <2>3, <2>4
<1> QED BY <1>4, <1>5, <1>6 DEF PathReply

\* The connection another call has opened is there.
LEMMA GrantInv ==
  ASSUME TypeOK, WaitInv, SentInv, ConnInv, CloseInv, ReplyInv, Grant
  PROVE  WaitInv' /\ SentInv' /\ ConnInv' /\ CloseInv' /\ ReplyInv'
<1> DEFINE c == Head(waiters)
<1>1. /\ waiters # <<>> /\ waiters' = Tail(waiters) /\ conn # "opening" /\ Issue(c)
      /\ UNCHANGED <<pathQ, replyQ>> /\ pathQ \in Seq(Call) /\ waiters \in Seq(Call)
  BY DEF Grant, TypeOK
<1>2. c \in Call /\ call[c].pc = "lock"
  BY <1>1, TailElements DEF WaitInv, AllAt
<1>3. conn \in {"open", "closing"}
  BY <1>1 DEF ConnInv, TypeOK
<1>4. SameBut(call, call', c)
  BY <1>1, <1>2, IssueCall
<1>5. SentInv' /\ CloseInv' /\ ReplyInv' /\ conn' \in {"open", "closing"}
  BY <1>1, <1>2, <1>3, IssueSent
<1>6. ConnInv'
  BY <1>5 DEF ConnInv
<1>7. AllAt(call', waiters', "lock") /\ Distinct(waiters')
  BY <1>1, <1>2, <1>4, QueueLeft DEF WaitInv
<1>8. AllAt(call', pathQ, "path")
  BY <1>1, <1>2, <1>4, QueueKept DEF WaitInv
<1> QED BY <1>1, <1>5, <1>6, <1>7, <1>8 DEF WaitInv

\* The native side runs a command; nobody waits for anything else because of it.
LEMMA NativeInv ==
  ASSUME TypeOK, WaitInv, SentInv, ConnInv, CloseInv, ReplyInv, Native
  PROVE  WaitInv' /\ SentInv' /\ ConnInv' /\ CloseInv' /\ ReplyInv'
<1>1. PICK c \in Call : RunOpen(c) \/ RunInsert(c) \/ RunUpdate(c) \/ RunDelete(c)
                         \/ RunQuery(c) \/ RunClose(c)
  BY DEF Native
<1>2. \A rs : Affected(rs) \in Nat
  BY DEF Affected
<1>3. \A id \in Id : id \in Nat
  BY MaxIdAssumption DEF Id
<1>4. \E r \in Result : Ran(c, r) /\ (call[c].op \in ById /\ conn # "opening" => r.ok)
  <2>1. CASE RunOpen(c)
    <3>1. cmdQ # <<>> /\ c = Head(cmdQ) /\ cmdQ \in Seq(Call) /\ call[c].pc = "open" /\ Ran(c, Failure)
      BY <2>1 DEF RunOpen, Ran, TypeOK
    <3>2. call[c].pc = SentPc
      BY <3>1, TailElements DEF SentInv, AllAt
    <3>3. conn = "opening"
      BY <3>1, <3>2 DEF SentPc
    <3> QED BY <3>1, <3>3, ResultTypes
  <2>2. CASE RunInsert(c)
    <3>1. call[c].op = "insertUser"
      BY <2>2 DEF RunInsert, Running
    <3>2. toMap(call[c].arg)._id \in Id \cup {None}
      BY DEF TypeOK, Calls, User, toMap
    <3>3. \E id \in Id : Ran(c, Success(id)) \/ Ran(c, Failure)
      BY <2>2, <3>2 DEF RunInsert, FreshIds
    <3>4. \E r \in Result : Ran(c, r)
      BY <1>3, <3>3, ResultTypes
    <3> QED BY <3>1, <3>4 DEF ById
  <2>3. CASE RunUpdate(c) \/ RunDelete(c)
    <3>1. \E n \in Nat : Ran(c, Success(n))
      BY <1>2, <2>3 DEF RunUpdate, RunDelete
    <3>2. \A n \in Nat : Success(n).ok
      BY DEF Success, Failure
    <3> QED BY <3>1, <3>2, ResultTypes
  <2>4. CASE RunQuery(c)
    <3>1. CASE call[c].op = "getAllUsers" /\ Ran(c, Listed(table))
      <4>1. Listed(table).ok /\ Listed(table) \in Result
        BY ResultTypes DEF TypeOK, Listed, Failure
      <4> QED BY <3>1, <4>1
    <3>2. CASE call[c].op = "getUser" /\ (\/ \E r \in Rows(call[c].arg.id) : Ran(c, Found(fromMap(r)))
                                          \/ Ran(c, Failure))
      BY <3>2, ResultTypes DEF ById, Rows, TypeOK
    <3> QED BY <2>4, <3>1, <3>2 DEF RunQuery, Running
  <2>5. CASE RunClose(c)
    BY <2>5, ResultTypes DEF RunClose, Running, ById
  <2> QED BY <1>1, <2>1, <2>2, <2>3, <2>4, <2>5
<1> QED BY <1>4, RanSent

\* A reply arrives: the connection is open, or the oldest call is settled.
LEMMA DeliverInv ==
  ASSUME TypeOK, WaitInv, SentInv, ConnInv, CloseInv, ReplyInv, Deliver
  PROVE  WaitInv' /\ SentInv' /\ ConnInv' /\ CloseInv' /\ ReplyInv'
<1> DEFINE c == Head(replyQ)
<1>1. /\ NoMicrotask /\ replyQ # <<>> /\ replyQ' = Tail(replyQ) /\ UNCHANGED <<pathQ, waiters>>
      /\ pathQ \in Seq(Call) /\ waiters \in Seq(Call) /\ cmdQ \in Seq(Call) /\ replyQ \in Seq(Call)
  BY DEF Deliver, TypeOK
<1>2. c \in Call /\ c = replyQ[1] /\ Len(replyQ) \in Nat /\ Len(replyQ) >= 1
  BY <1>1, TailElements
<1>3. 1 \in 1 .. Len(replyQ) /\ call[c].pc = SentPc
  BY <1>2 DEF SentInv, AllAt
<1>4. /\ replyQ' \in Seq(Call) /\ Len(replyQ') = Len(replyQ) - 1
      /\ \A i \in 1 .. Len(replyQ') : i + 1 \in 1 .. Len(replyQ) /\ replyQ'[i] = replyQ[i + 1]
  BY <1>1, TailElements
<1>5. ASSUME SameBut(call, call', c)
      PROVE  WaitInv'
  <2>1. call[c].pc \notin {"path", "lock"}
    BY <1>3 DEF SentPc
  <2> QED BY <1>1, <1>2, <1>5, <2>1, QueueKept DEF WaitInv
<1>6. CASE call[c].pc = "open" /\ Issue(c)
  <2>1. conn = "opening" /\ Len(cmdQ) \in Nat /\ Len(cmdQ) + Len(replyQ) = 1
    BY <1>1, <1>3, <1>6 DEF SentPc, ConnInv
  <2>2. cmdQ = <<>> /\ Len(replyQ) = 1
    <3>1. \A m, n \in Nat : n >= 1 /\ m + n = 1 => m = 0 /\ n = 1
      OBVIOUS
    <3>2. Len(cmdQ) = 0 /\ Len(replyQ) = 1
      BY <1>2, <2>1, <3>1
    <3> QED BY <1>1, <3>2
  <2>3. /\ cmdQ' = <<c>> /\ replyQ' = <<>>
        /\ conn' = IF call[c].op = "close" THEN "closing" ELSE "open"
    BY <1>1, <1>2, <1>4, <1>6, <2>1, <2>2 DEF Issue
  <2>4. call'[c].pc = "native" /\ call'[c].op = call[c].op /\ SameBut(call, call', c)
    BY <1>2, <1>6, <2>1, IssueCall
  <2>5. /\ Len(cmdQ') = 1 /\ cmdQ'[1] = c /\ cmdQ' # <<>> /\ Len(replyQ') = 0
        /\ conn' \in {"open", "closing"}
    BY <2>3
  <2>6. SentInv'
    BY <2>4, <2>5 DEF SentInv, SentPc, AllAt, Distinct, Disjoint
  <2>7. ConnInv' /\ CloseInv' /\ ReplyInv'
    BY <2>3, <2>4, <2>5 DEF ConnInv, CloseInv, ReplyInv
  <2> QED BY <1>5, <2>4, <2>6, <2>7
<1>7. CASE /\ call[c].pc = "native"
           /\ call' = [call EXCEPT ![c].pc = "done"]
           /\ conn' = IF call[c].op = "close" THEN AfterClose ELSE conn
           /\ UNCHANGED cmdQ
  <2>1. conn \in {"open", "closing"} /\ waiters = <<>>
    <3>1. conn # "opening" /\ conn # "none"
      BY <1>1, <1>3, <1>7 DEF SentPc, ConnInv
    <3> QED BY <1>1, <3>1 DEF NoMicrotask, TypeOK
  <2>2. SentPc = "native"
    BY <2>1 DEF SentPc
  <2>3. SameBut(call, call', c)
    BY <1>2, <1>7 DEF SameBut, TypeOK, Calls
  <2>4. \A i \in 1 .. Len(cmdQ) : cmdQ[i] # c /\ call'[cmdQ[i]] = call[cmdQ[i]]
    BY <1>1, <1>2, <1>3, <2>3 DEF SentInv, Disjoint, SameBut
  <2>5. /\ AllAt(call', replyQ', "native") /\ Distinct(replyQ')
        /\ \A i \in 1 .. Len(replyQ') : call'[replyQ'[i]] = call[replyQ[i + 1]]
    <3>1. AllAt(call', replyQ', "native") /\ Distinct(replyQ') /\ ~ In(c, replyQ')
      BY <1>1, <2>2, <2>3, QueueLeft DEF SentInv
    <3> QED BY <1>4, <2>3, <3>1 DEF SameBut, In
  <2>6. AllAt(call', cmdQ, "native") /\ Distinct(cmdQ) /\ Disjoint(cmdQ, replyQ')
    BY <1>4, <2>2, <2>4 DEF SentInv, AllAt, Disjoint
  <2>7. CASE call[c].op = "close"
    <3>1. conn' = "none" /\ Len(replyQ) = 1 /\ cmdQ = <<>>
      BY <1>2, <1>3, <1>7, <2>1, <2>7 DEF CloseInv, AfterClose
    <3>2. Len(replyQ') = 0 /\ replyQ' = <<>> /\ Len(cmdQ) = 0
      BY <1>4, <3>1
    <3>3. SentInv'
      BY <1>7, <3>1, <3>2, <2>5, <2>6 DEF SentInv, SentPc
    <3>4. ConnInv' /\ CloseInv' /\ ReplyInv'
      BY <1>1, <1>7, <2>1, <3>1, <3>2 DEF ConnInv, CloseInv, ReplyInv
    <3> QED BY <1>5, <2>3, <3>3, <3>4
  <2>8. CASE call[c].op # "close"
    <3>1. UNCHANGED <<conn, cmdQ>>
      BY <1>7, <2>8
    <3>2. SentInv'
      BY <2>1, <2>5, <2>6, <3>1 DEF SentInv, SentPc
    <3>3. ConnInv'
      BY <2>1, <3>1 DEF ConnInv
    <3>4. ReplyInv'
      BY <1>4, <2>1, <2>5, <3>1 DEF ReplyInv
    <3>5. \A i \in 1 .. Len(cmdQ') :
            call'[cmdQ'[i]].op = "close" => conn' = "closing" /\ i = Len(cmdQ')
      BY <2>1, <2>4, <3>1 DEF CloseInv
    <3>6. \A i \in 1 .. Len(replyQ') :
            call'[replyQ'[i]].op = "close" => conn' = "closing" /\ i = Len(replyQ') /\ cmdQ' = <<>>
      <4> SUFFICES ASSUME NEW i \in 1 .. Len(replyQ'), call'[replyQ'[i]].op = "close"
                   PROVE  conn' = "closing" /\ i = Len(replyQ') /\ cmdQ' = <<>>
        OBVIOUS
      <4>1. i + 1 \in 1 .. Len(replyQ) /\ call[replyQ[i + 1]].op = "close"
        BY <1>4, <2>5
      <4>2. conn = "closing" /\ i + 1 = Len(replyQ) /\ cmdQ = <<>>
        BY <2>1, <4>1 DEF CloseInv
      <4> QED BY <1>4, <3>1, <4>2
    <3>7. conn' = "closing" =>
            IF cmdQ' = <<>> THEN replyQ' # <<>> /\ call'[replyQ'[Len(replyQ')]].op = "close"
                            ELSE call'[cmdQ'[Len(cmdQ')]].op = "close"
      <4>1. ASSUME conn = "closing", cmdQ = <<>>
            PROVE  replyQ' # <<>> /\ call'[replyQ'[Len(replyQ')]].op = "close"
        <5>1. call[replyQ[Len(replyQ)]].op = "close"
          BY <4>1 DEF CloseInv
        <5>2. Len(replyQ) # 1
          BY <1>2, <2>8, <5>1
        <5>3. Len(replyQ') \in 1 .. Len(replyQ') /\ Len(replyQ') + 1 = Len(replyQ)
          BY <1>2, <1>4, <5>2
        <5> QED BY <2>5, <5>1, <5>3
      <4>2. ASSUME conn = "closing", cmdQ # <<>>
            PROVE  call'[cmdQ[Len(cmdQ)]].op = "close"
        <5>1. Len(cmdQ) \in 1 .. Len(cmdQ)
          BY <1>1, <4>2
        <5> QED BY <2>4, <4>2, <5>1 DEF CloseInv
      <4> QED BY <3>1, <4>1, <4>2
    <3>8. CloseInv'
      BY <3>5, <3>6, <3>7 DEF CloseInv
    <3> QED BY <1>5, <2>3, <3>2, <3>3, <3>4, <3>8
  <2> QED BY <2>7, <2>8
<1> QED BY <1>6, <1>7 DEF Deliver

\* A settled call is taken; it was in no queue.
LEMMA ReturnInv ==
  ASSUME TypeOK, WaitInv, SentInv, ConnInv, CloseInv, ReplyInv, NEW c \in Call, Return(c)
  PROVE  WaitInv' /\ SentInv' /\ ConnInv' /\ CloseInv' /\ ReplyInv'
<1>1. /\ call[c].pc = "done" /\ SameBut(call, call', c)
      /\ UNCHANGED <<conn, pathQ, waiters, cmdQ, replyQ>>
      /\ pathQ \in Seq(Call) /\ waiters \in Seq(Call)
  BY DEF Return, TypeOK, SameBut, plugin
<1>2. AllAt(call', pathQ, "path") /\ AllAt(call', waiters, "lock")
  BY <1>1, QueueKept DEF WaitInv
<1>3. SentInv' /\ CloseInv' /\ ReplyInv'
  BY <1>1, SentKept
<1> QED BY <1>1, <1>2, <1>3 DEF WaitInv, ConnInv

-----------------------------------------------------------------------------
(* The invariant, and what it says. *)

\* While the connection is being closed, the close that does it is in flight.
LEMMA ClosingWitness ==
  ASSUME TypeOK, SentInv, CloseInv, conn = "closing"
  PROVE  \E d \in Call : call[d].op = "close" /\ call[d].pc = "native"
<1>1. SentPc = "native" /\ cmdQ \in Seq(Call) /\ replyQ \in Seq(Call)
  BY DEF SentPc, TypeOK
<1>2. CASE cmdQ = <<>>
  <2>1. Len(replyQ) \in 1 .. Len(replyQ)
    BY <1>1, <1>2 DEF CloseInv
  <2> QED BY <1>1, <1>2, <2>1 DEF CloseInv, SentInv, AllAt
<1>3. CASE cmdQ # <<>>
  <2>1. Len(cmdQ) \in 1 .. Len(cmdQ)
    BY <1>1, <1>3
  <2> QED BY <1>1, <1>3, <2>1 DEF CloseInv, SentInv, AllAt
<1> QED BY <1>2, <1>3

\* Issuing refuses a call only while another's close is in flight.
LEMMA IssueFails ==
  ASSUME TypeOK, SentInv, CloseInv, FailsOnlyByClose, NEW c \in Call,
         call[c].pc \in {"path", "lock"}, conn \in {"open", "closing"}, Issue(c)
  PROVE  FailsOnlyByClose'
<1>1. SameBut(call, call', c) /\ call'[c].op = call[c].op
      /\ call'[c].pc = IF conn = "closing" THEN "done" ELSE "native"
  BY IssueCall
<1>2. CASE conn = "closing"
  <2>1. PICK d \in Call : call[d].op = "close" /\ call[d].pc = "native"
    BY <1>2, ClosingWitness
  <2>2. d # c /\ call'[d] = call[d] /\ conn' = "closing"
    BY <1>1, <1>2, <2>1 DEF SameBut, Issue
  <2>3. ASSUME NEW e \in Call, call'[e].pc = "done", ~ call'[e].res.ok,
               call'[e].op \in {"updateUser", "deleteUser", "getAllUsers"}
        PROVE  \E k \in Call \ {e} : call'[k].op = "close" /\ call'[k].pc = "native"
    BY <2>1, <2>2, <2>3
  <2> QED BY <2>2, <2>3 DEF FailsOnlyByClose
<1>3. CASE conn = "open"
  <2>1. \A e \in Call : call'[e].pc = "done" => e # c /\ call'[e] = call[e]
    BY <1>1, <1>3 DEF SameBut
  <2> QED BY <1>3, <2>1 DEF FailsOnlyByClose
<1> QED BY <1>2, <1>3

\* Each step keeps FailsOnlyByClose.
LEMMA FailsStep == IInv /\ [Next]_dbVars => FailsOnlyByClose'
<1> SUFFICES ASSUME IInv, [Next]_dbVars PROVE FailsOnlyByClose'
  OBVIOUS
<1> USE DEF IInv
<1>1. ASSUME NEW c \in Call, SameBut(call, call', c), call'[c].pc # "done", NoMicrotask
      PROVE  FailsOnlyByClose'
  BY <1>1 DEF NoMicrotask, SameBut, FailsOnlyByClose
<1>2. CASE NoMicrotask /\ Client
  <2>1. PICK c \in Call, op \in Ops, u \in User : Request(c, op, u)
    BY <1>2, ClientRequests
  <2> QED BY <1>1, <1>2, <2>1 DEF Request, TypeOK, NewCall, SameBut
<1>3. CASE PathReply
  <2> DEFINE c == Head(pathQ)
  <2>1. c \in Call /\ call[c].pc = "path" /\ NoMicrotask
    <3>1. pathQ # <<>> /\ pathQ \in Seq(Call) /\ NoMicrotask
      BY <1>3 DEF PathReply, TypeOK
    <3> QED BY <3>1, TailElements DEF WaitInv, AllAt
  <2>2. CASE conn \in {"open", "closing"} /\ Issue(c)
    BY <2>1, <2>2, IssueFails
  <2>3. ASSUME NEW pc \in {"open", "lock"}, call' = [call EXCEPT ![c].pc = pc]
        PROVE  FailsOnlyByClose'
    <3>1. SameBut(call, call', c) /\ call'[c].pc = pc
      BY <2>1, <2>3 DEF TypeOK, SameBut, Calls
    <3> QED BY <1>1, <2>1, <3>1
  <2> QED BY <1>3, <2>2, <2>3 DEF PathReply
<1>4. CASE Grant
  <2>1. Head(waiters) \in Call /\ call[Head(waiters)].pc = "lock" /\ waiters # <<>> /\ conn # "opening"
    BY <1>4, TailElements DEF Grant, TypeOK, WaitInv, AllAt
  <2>2. conn \in {"open", "closing"}
    BY <2>1 DEF ConnInv, TypeOK
  <2> QED BY <1>4, <2>1, <2>2, IssueFails DEF Grant
<1>5. CASE Native
  <2>1. PICK c \in Call : (\E r : Ran(c, r)) /\ call[c].pc \in {"open", "native"}
    BY <1>5 DEF Native, RunOpen, RunInsert, RunUpdate, RunDelete, RunQuery, RunClose, Running
  <2>2. /\ \A d \in Call : call'[d].pc = call[d].pc /\ call'[d].op = call[d].op
        /\ \A d \in Call : call[d].pc = "done" => call'[d] = call[d]
        /\ conn' = conn
    BY <2>1 DEF Ran, TypeOK, Calls
  <2> QED BY <2>2 DEF FailsOnlyByClose
<1>6. CASE Deliver
  <2> DEFINE c == Head(replyQ)
  <2>1. c \in Call /\ 1 \in 1 .. Len(replyQ) /\ c = replyQ[1] /\ call[c].pc = SentPc /\ NoMicrotask
    BY <1>6, TailElements DEF Deliver, TypeOK, SentInv, AllAt
  <2>2. CASE call[c].pc = "open" /\ Issue(c)
    <3>1. conn = "opening"
      BY <2>1, <2>2 DEF SentPc
    <3> QED BY <1>1, <2>1, <2>2, <3>1, IssueCall
  <2>3. CASE call[c].pc = "native" /\ call' = [call EXCEPT ![c].pc = "done"]
    <3>1. /\ \A d \in Call : call'[d].pc = "done" => d = c
          /\ call'[c].op = call[c].op /\ call'[c].res = call[c].res
      BY <2>1, <2>3 DEF NoMicrotask, TypeOK, Calls
    <3>2. call[c].op \in ById => call[c].res.ok
      BY <2>1, <2>3 DEF ReplyInv, SentPc
    <3> QED BY <3>1, <3>2 DEF FailsOnlyByClose, ById
  <2> QED BY <1>6, <2>2, <2>3 DEF Deliver
<1>7. CASE \E c \in Call : Return(c)
  <2>1. PICK c \in Call : Return(c)
    BY <1>7
  <2>2. /\ call[c].pc = "done" /\ call'[c].pc = "idle" /\ SameBut(call, call', c) /\ conn' = conn
    BY <2>1 DEF Return, TypeOK, SameBut, Idle, NewCall, plugin
  <2> QED BY <2>2 DEF FailsOnlyByClose, SameBut
<1>8. CASE Restart
  BY <1>8 DEF Restart, FailsOnlyByClose, Idle, NewCall
<1>9. CASE UNCHANGED dbVars
  BY <1>9 DEF dbVars, plugin, FailsOnlyByClose
<1> QED BY <1>2, <1>3, <1>4, <1>5, <1>6, <1>7, <1>8, <1>9 DEF Next, Plugin

\* Nothing is in flight at first.
LEMMA InvInit == Init => IInv
<1> SUFFICES ASSUME Init PROVE IInv
  OBVIOUS
<1>1. /\ conn = "none" /\ \A c \in Call : call[c].pc = "idle"
      /\ pathQ = <<>> /\ waiters = <<>> /\ cmdQ = <<>> /\ replyQ = <<>>
  BY DEF Init, Idle, NewCall
<1>2. Len(pathQ) = 0 /\ Len(waiters) = 0 /\ Len(cmdQ) = 0 /\ Len(replyQ) = 0
  BY <1>1
<1>3. WaitInv /\ SentInv
  BY <1>2 DEF WaitInv, SentInv, AllAt, Distinct, Disjoint
<1>4. ConnInv /\ CloseInv /\ ReplyInv /\ FailsOnlyByClose
  BY <1>1, <1>2 DEF ConnInv, CloseInv, ReplyInv, FailsOnlyByClose
<1> QED BY <1>3, <1>4, TypeInit DEF IInv

\* Each step keeps the whole of IInv, part by part.
LEMMA InvStep == IInv /\ [Next]_dbVars => IInv'
<1> SUFFICES ASSUME IInv, [Next]_dbVars PROVE IInv'
  OBVIOUS
<1>1. TypeOK' /\ FailsOnlyByClose'
  BY TypeStep, FailsStep DEF IInv
<1>2. CASE NoMicrotask /\ Client
  <2>1. PICK c \in Call, op \in Ops, u \in User : Request(c, op, u)
    BY <1>2, ClientRequests
  <2> QED BY <1>1, <2>1, RequestInv DEF IInv
<1>3. CASE PathReply
  BY <1>1, <1>3, PathReplyInv DEF IInv
<1>4. CASE Grant
  BY <1>1, <1>4, GrantInv DEF IInv
<1>5. CASE Native
  BY <1>1, <1>5, NativeInv DEF IInv
<1>6. CASE Deliver
  BY <1>1, <1>6, DeliverInv DEF IInv
<1>7. CASE \E c \in Call : Return(c)
  BY <1>1, <1>7, ReturnInv DEF IInv
<1>8. CASE Restart
  <2>1. /\ conn' = "none" /\ pathQ' = <<>> /\ waiters' = <<>> /\ cmdQ' = <<>> /\ replyQ' = <<>>
        /\ Len(pathQ') = 0 /\ Len(waiters') = 0 /\ Len(cmdQ') = 0 /\ Len(replyQ') = 0
    BY <1>8 DEF Restart
  <2>2. WaitInv' /\ SentInv'
    BY <2>1 DEF WaitInv, SentInv, AllAt, Distinct, Disjoint
  <2>3. ConnInv' /\ CloseInv' /\ ReplyInv'
    BY <2>1 DEF ConnInv, CloseInv, ReplyInv
  <2> QED BY <1>1, <2>2, <2>3 DEF IInv
<1>9. CASE UNCHANGED dbVars
  BY <1>1, <1>9 DEF IInv, dbVars, plugin, WaitInv, SentInv, SentPc, ConnInv, CloseInv, ReplyInv,
                    AllAt, Distinct, Disjoint
<1> QED BY <1>2, <1>3, <1>4, <1>5, <1>6, <1>7, <1>8, <1>9 DEF Next, Plugin

\* The commands in flight, oldest first: the answered ones, then the others.
LEMMA SentElements ==
  ASSUME TypeOK
  PROVE  /\ Len(replyQ) \in Nat /\ Len(cmdQ) \in Nat
         /\ Len(replyQ \o cmdQ) = Len(replyQ) + Len(cmdQ)
         /\ \A i \in 1 .. Len(replyQ \o cmdQ) :
              \/ i \in 1 .. Len(replyQ) /\ (replyQ \o cmdQ)[i] = replyQ[i]
              \/ i - Len(replyQ) \in 1 .. Len(cmdQ) /\ (replyQ \o cmdQ)[i] = cmdQ[i - Len(replyQ)]
<1>1. replyQ \in Seq(Call) /\ cmdQ \in Seq(Call)
  BY DEF TypeOK
<1> QED BY <1>1, ConcatProperties

\* CloseIsLast is a part of what CloseInv and SentInv say.
LEMMA InvImpliesCloseIsLast == IInv => CloseIsLast
<1> SUFFICES ASSUME IInv, NEW i \in 1 .. Len(replyQ \o cmdQ),
                    call[(replyQ \o cmdQ)[i]].pc = "native", call[(replyQ \o cmdQ)[i]].op = "close"
             PROVE  i = Len(replyQ \o cmdQ)
  BY DEF CloseIsLast
<1>1. TypeOK
  BY DEF IInv
<1>2. CASE i \in 1 .. Len(replyQ) /\ (replyQ \o cmdQ)[i] = replyQ[i]
  <2>1. conn # "opening"
    BY <1>2 DEF IInv, SentInv, SentPc, AllAt
  <2>2. i = Len(replyQ) /\ Len(cmdQ) = 0
    BY <1>2, <2>1 DEF IInv, CloseInv
  <2> QED BY <1>1, <2>2, SentElements
<1>3. CASE i - Len(replyQ) \in 1 .. Len(cmdQ) /\ (replyQ \o cmdQ)[i] = cmdQ[i - Len(replyQ)]
  <2>1. conn # "opening"
    BY <1>3 DEF IInv, SentInv, SentPc, AllAt
  <2>2. i - Len(replyQ) = Len(cmdQ)
    BY <1>3, <2>1 DEF IInv, CloseInv
  <2> QED BY <1>1, <2>2, SentElements
<1> QED BY <1>1, <1>2, <1>3, SentElements

\* OpenIsAlone: SentInv leaves no other program counter to a command in flight
\* while the connection is opening.
LEMMA InvImpliesOpenIsAlone == IInv => OpenIsAlone
<1> SUFFICES ASSUME IInv, NEW i \in 1 .. Len(replyQ \o cmdQ), call[(replyQ \o cmdQ)[i]].pc = "open"
             PROVE  Len(replyQ \o cmdQ) = 1 /\ conn = "opening"
  BY DEF OpenIsAlone
<1>1. TypeOK
  BY DEF IInv
<1>2. SentPc = "open"
  BY <1>1, SentElements DEF IInv, SentInv, AllAt
<1>3. conn = "opening"
  BY <1>2 DEF SentPc
<1> QED BY <1>1, <1>3, SentElements DEF IInv, ConnInv

\* The inductive invariant.
THEOREM Invariance == Spec => []IInv
<1>1. Init => IInv
  BY InvInit
<1>2. IInv /\ [Next]_dbVars => IInv'
  BY InvStep
<1> QED BY <1>1, <1>2, PTL DEF Spec

\* Whatever calls overlap, a close() that has been sent is the last command in
\* flight: no statement is ever run on a connection already closed.
THEOREM CloseLast == Spec => []CloseIsLast
<1>1. IInv => CloseIsLast
  BY InvImpliesCloseIsLast
<1> QED BY <1>1, Invariance, PTL

\* However many calls run initDB at once, the file is opened by one of them,
\* while no statement is in flight.
THEOREM OpenAlone == Spec => []OpenIsAlone
<1>1. IInv => OpenIsAlone
  BY InvImpliesOpenIsAlone
<1> QED BY <1>1, Invariance, PTL

\* An update, a delete or a list fails only while somebody else's close() is
\* unfinished, for any number of calls.
THEOREM FailureNeedsClose == Spec => []FailsOnlyByClose
<1>1. IInv => FailsOnlyByClose
  BY DEF IInv
<1> QED BY <1>1, Invariance, PTL

-----------------------------------------------------------------------------
(* The refinement of UserStore.                                              *)

\* A call that has not reached the native side has no result; a table exists only
\* once a connection has been opened.
NoResult == \A c \in Call : call[c].pc \in {"path", "lock", "open"} => call[c].res = Failure
Created ==
  /\ version = 0 => table = {}
  /\ conn \in {"open", "closing"} => version = 1
  /\ conn = "opening" /\ replyQ # <<>> => version = 1

\* The invariant of the refinement.
RInv == IInv /\ NoResult /\ Created

\* The first of one queue goes to the end of the other: in a row, they are the same.
LEMMA HeadMoves ==
  ASSUME NEW q \in Seq(Call), NEW r \in Seq(Call), r # <<>>
  PROVE  Append(q, Head(r)) \o Tail(r) = q \o r
<1>1. Append(q, Head(r)) \in Seq(Call) /\ Tail(r) \in Seq(Call)
  BY TailElements, AppendElements
<1>2. /\ Append(q, Head(r)) \o Tail(r) \in Seq(Call) /\ q \o r \in Seq(Call)
      /\ Len(Append(q, Head(r)) \o Tail(r)) = Len(q \o r)
  BY <1>1, TailElements, AppendElements, ConcatProperties
<1>3. ASSUME NEW i \in 1 .. Len(q) + Len(r)
      PROVE  (Append(q, Head(r)) \o Tail(r))[i] = (q \o r)[i]
  <2>1. /\ Len(Append(q, Head(r))) = Len(q) + 1 /\ Len(Tail(r)) = Len(r) - 1
        /\ Len(q) \in Nat /\ Len(r) \in Nat /\ Head(r) = r[1]
        /\ \A j \in 1 .. Len(q) : Append(q, Head(r))[j] = q[j]
        /\ Append(q, Head(r))[Len(q) + 1] = r[1]
        /\ \A j \in 1 .. Len(r) - 1 : Tail(r)[j] = r[j + 1]
    BY TailElements, AppendElements
  <2>2. (Append(q, Head(r)) \o Tail(r))[i] =
          IF i <= Len(q) + 1 THEN Append(q, Head(r))[i] ELSE Tail(r)[i - (Len(q) + 1)]
    BY <1>1, <2>1, ConcatProperties
  <2>3. (q \o r)[i] = IF i <= Len(q) THEN q[i] ELSE r[i - Len(q)]
    BY ConcatProperties
  <2>4. CASE i <= Len(q)
    BY <2>1, <2>2, <2>3, <2>4
  <2>5. CASE i = Len(q) + 1
    BY <2>1, <2>2, <2>3, <2>5
  <2>6. CASE i > Len(q) + 1
    <3>1. i - (Len(q) + 1) \in 1 .. Len(r) - 1 /\ i - (Len(q) + 1) + 1 = i - Len(q)
      BY <2>1, <2>6
    <3> QED BY <2>1, <2>2, <2>3, <2>6, <3>1
  <2> QED BY <2>1, <2>4, <2>5, <2>6
<1>4. Len(q \o r) = Len(q) + Len(r)
  BY ConcatProperties
<1> QED BY <1>2, <1>3, <1>4, SeqEqual

\* The first of the second queue leaves both.
LEMMA HeadRemoved ==
  ASSUME NEW q \in Seq(Call), NEW r \in Seq(Call), r # <<>>
  PROVE  \E i \in 1 .. Len(q \o r) : (q \o r)[i] = Head(r) /\ q \o Tail(r) = Store!RemoveAt(q \o r, i)
<1> DEFINE n == Len(q) + 1
<1>1. /\ q \o r \in Seq(Call) /\ Len(q \o r) = Len(q) + Len(r)
      /\ Len(q) \in Nat /\ Len(r) \in Nat /\ Len(r) >= 1 /\ Tail(r) \in Seq(Call)
      /\ n \in 1 .. Len(q \o r) /\ (q \o r)[n] = Head(r)
  BY ConcatProperties, TailElements
<1>2. SubSeq(q \o r, 1, Len(q)) = q
  <2>1. SubSeq(q \o r, 1, Len(q)) \in Seq(Call) /\ Len(SubSeq(q \o r, 1, Len(q))) = Len(q)
        /\ \A i \in 1 .. Len(q) : SubSeq(q \o r, 1, Len(q))[i] = (q \o r)[i]
    BY <1>1
  <2>2. \A i \in 1 .. Len(q) : (q \o r)[i] = q[i]
    BY <1>1, ConcatProperties
  <2> QED BY <2>1, <2>2, SeqEqual
<1>3. SubSeq(q \o r, n + 1, Len(q \o r)) = Tail(r)
  <2> DEFINE s == SubSeq(q \o r, n + 1, Len(q \o r))
  <2>1. s \in Seq(Call) /\ Len(s) = Len(r) - 1
        /\ \A i \in 1 .. Len(r) - 1 : s[i] = (q \o r)[n + i]
    <3> DEFINE m == Len(q \o r)
    <3>1. n + 1 \in Int /\ m \in Int /\ \A i \in n + 1 .. m : (q \o r)[i] \in Call
      BY <1>1
    <3>2. /\ s \in Seq(Call) /\ Len(s) = IF n + 1 <= m THEN m - (n + 1) + 1 ELSE 0
          /\ \A i \in 1 .. m - (n + 1) + 1 : s[i] = (q \o r)[(n + 1) + i - 1]
      BY <3>1, SubSeqProperties
    <3>3. m = n + Len(r) - 1 /\ n \in Nat /\ m \in Nat /\ Len(r) \in Nat /\ Len(r) >= 1
      BY <1>1
    <3>4. \A i \in 1 .. Len(r) - 1 : (n + 1) + i - 1 = n + i
      BY <1>1
    <3> HIDE DEF n, m, s
    <3>5. m - (n + 1) + 1 = Len(r) - 1 /\ (IF n + 1 <= m THEN m - (n + 1) + 1 ELSE 0) = Len(r) - 1
      <4>1. \A a, b, d \in Nat : b >= 1 /\ d = a + b - 1 =>
              d - (a + 1) + 1 = b - 1 /\ (a + 1 <= d \/ b - 1 = 0)
        OBVIOUS
      <4> QED BY <3>3, <4>1
    <3>6. s \in Seq(Call) /\ Len(s) = Len(r) - 1
      BY <3>2, <3>5
    <3>7. ASSUME NEW i \in 1 .. Len(r) - 1 PROVE s[i] = (q \o r)[n + i]
      BY <3>2, <3>4, <3>5
    <3> QED BY <3>6, <3>7
  <2>2. Len(Tail(r)) = Len(r) - 1 /\ \A i \in 1 .. Len(r) - 1 : Tail(r)[i] = r[i + 1]
    BY TailElements
  <2>3. ASSUME NEW i \in 1 .. Len(r) - 1 PROVE (q \o r)[n + i] = r[i + 1]
    <3>1. n + i \in 1 .. Len(q) + Len(r) /\ ~ (n + i <= Len(q)) /\ n + i - Len(q) = i + 1
      BY <1>1
    <3> QED BY <3>1, ConcatProperties
  <2> HIDE DEF s
  <2>4. s = Tail(r)
    BY <1>1, <2>1, <2>2, <2>3, SeqEqual
  <2> QED BY <2>4 DEF s
<1>4. Store!RemoveAt(q \o r, n) = q \o Tail(r)
  <2>1. n - 1 = Len(q)
    BY <1>1
  <2> QED BY <1>2, <1>3, <2>1 DEF Store!RemoveAt
<1> QED BY <1>1, <1>4

-----------------------------------------------------------------------------
(* The mapping, call by call. *)

AbsState(pc, q, c) ==
  IF pc \in {"idle", "done"} THEN pc
  ELSE IF pc = "native" /\ In(c, q) THEN "effected" ELSE "pending"

AbsCall(k, q, c) ==
  [op |-> k.op, arg |-> k.arg, state |-> AbsState(k.pc, q, c), res |-> k.res]

\* The mapping as one function of the call, before and after a step.
LEMMA AbsReq ==
  /\ abstractReq = [c \in Call |-> AbsCall(call[c], replyQ, c)]
  /\ abstractReq' = [c \in Call |-> AbsCall(call'[c], replyQ', c)]
<1>1. \A c \in Call : abstractState(c) = AbsState(call[c].pc, replyQ, c)
  BY DEF abstractState, AbsState, In
<1>2. \A c \in Call : abstractState(c)' = AbsState(call'[c].pc, replyQ', c)
  BY DEF abstractState, AbsState, In
<1> QED BY <1>1, <1>2 DEF abstractReq, abstractCall, AbsCall

\* A step of one call changes the abstraction of that call alone.
LEMMA AbsStep ==
  ASSUME NEW c \in Call, SameBut(call, call', c),
         \A d \in Call \ {c} : In(d, replyQ') <=> In(d, replyQ)
  PROVE  abstractReq' = [abstractReq EXCEPT ![c] = AbsCall(call'[c], replyQ', c)]
<1>1. \A d \in Call \ {c} : AbsCall(call'[d], replyQ', d) = AbsCall(call[d], replyQ, d)
  BY DEF SameBut, AbsCall, AbsState
<1> QED BY <1>1, AbsReq

\* A step of one call that its abstraction does not show is a stutter.
LEMMA AbsSame ==
  ASSUME NEW c \in Call, SameBut(call, call', c),
         \A d \in Call \ {c} : In(d, replyQ') <=> In(d, replyQ),
         AbsCall(call'[c], replyQ', c) = AbsCall(call[c], replyQ, c)
  PROVE  abstractReq' = abstractReq
<1>1. \A d \in Call : AbsCall(call'[d], replyQ', d) = AbsCall(call[d], replyQ, d)
  BY DEF SameBut, AbsCall, AbsState
<1> QED BY <1>1, AbsReq

\* Appending c to a queue, or dropping its head, moves no other call in or out.
LEMMA InMoves ==
  ASSUME NEW q \in Seq(Call)
  PROVE  /\ \A c \in Call : In(c, Append(q, c))
         /\ \A c \in Call : \A d \in Call \ {c} : In(d, Append(q, c)) <=> In(d, q)
         /\ q # <<>> => \A d \in Call \ {Head(q)} : In(d, Tail(q)) <=> In(d, q)
<1>1. ASSUME NEW c \in Call
      PROVE  /\ In(c, Append(q, c))
             /\ \A d \in Call \ {c} : In(d, Append(q, c)) <=> In(d, q)
  <2>1. Len(q) + 1 \in 1 .. Len(Append(q, c)) /\ \A i \in 1 .. Len(q) : i \in 1 .. Len(Append(q, c))
    BY AppendElements
  <2> QED BY <2>1, AppendElements DEF In
<1>2. ASSUME q # <<>>, NEW d \in Call \ {Head(q)}
      PROVE  In(d, Tail(q)) <=> In(d, q)
  <2>1. ASSUME NEW i \in 1 .. Len(q), q[i] = d PROVE \E j \in 1 .. Len(Tail(q)) : Tail(q)[j] = d
    <3>1. i # 1 /\ i - 1 \in 1 .. Len(Tail(q)) /\ (i - 1) + 1 = i
      BY <1>2, <2>1, TailElements
    <3> QED BY <1>2, <2>1, <3>1, TailElements
  <2> QED BY <1>2, <2>1, TailElements DEF In
<1> QED BY <1>1, <1>2

\* The store's order is the queues in a row, the replies only during an opening.
LEMMA OrderIs ==
  ASSUME TypeOK, TypeOK'
  PROVE  /\ conn # "opening" => abstractOrder = (cmdQ \o waiters) \o pathQ
         /\ conn = "opening" => abstractOrder = ((replyQ \o cmdQ) \o waiters) \o pathQ
         /\ conn' # "opening" => abstractOrder' = (cmdQ' \o waiters') \o pathQ'
         /\ conn' = "opening" => abstractOrder' = ((replyQ' \o cmdQ') \o waiters') \o pathQ'
<1>1. cmdQ \in Seq(Call) /\ cmdQ' \in Seq(Call)
  BY DEF TypeOK
<1>2. <<>> \o cmdQ = cmdQ /\ <<>> \o cmdQ' = cmdQ'
  BY <1>1, ConcatProperties
<1> QED BY <1>2 DEF abstractOrder

\* The store's data are the helper's.
LEMMA StoreData ==
  /\ Store!Ops = Ops /\ Store!User = User /\ Store!Row = Row
  /\ Store!Failure = Failure /\ Store!Nothing = Nothing
  /\ \A n : Store!Success(n) = Success(n)
  /\ \A n : Store!Listed(n) = Listed(n)
  /\ \A n : Store!Found(n) = Found(n)
  /\ \A n : Store!Affected(n) = Affected(n)
  /\ \A n : Store!FreshIds(n) = FreshIds(n)
  /\ \A n : Store!fromMap(n) = fromMap(n)
<1>1. Store!Ops = Ops /\ Store!Id = Id
  BY DEF Store!Ops, Ops, Store!Id, Id
<1>2. Store!User = User /\ Store!Row = Row
  BY <1>1 DEF Store!User, User, Store!Row, Row
<1>3. Store!Failure = Failure /\ Store!Nothing = Nothing
  BY DEF Store!Failure, Failure, Store!Nothing, Nothing, Store!OnlyId, OnlyId
<1>4. /\ \A n : Store!Success(n) = Success(n)
      /\ \A n : Store!Listed(n) = Listed(n)
      /\ \A n : Store!Found(n) = Found(n)
  BY <1>3 DEF Store!Success, Success, Store!Listed, Listed, Store!Found, Found
<1>5. \A n : Store!Affected(n) = Affected(n) /\ Store!FreshIds(n) = FreshIds(n)
  BY <1>1 DEF Store!Affected, Affected, Store!FreshIds, FreshIds
<1>6. \A n : Store!fromMap(n) = fromMap(n)
  BY DEF Store!fromMap, fromMap, Store!At, At
<1> QED BY <1>1, <1>2, <1>3, <1>4, <1>5, <1>6

\* Whatever is requested, the store sees an operation invoked.
LEMMA RequestRefines ==
  ASSUME TypeOK, NEW c \in Call, NEW op \in Ops, NEW u \in User, Request(c, op, u)
  PROVE  Store!Invoke(c)
<1>1. /\ SameBut(call, call', c) /\ UNCHANGED <<table, conn, waiters, cmdQ, replyQ>>
      /\ call[c].pc = "idle" /\ call'[c] = NewCall(op, u) /\ pathQ' = Append(pathQ, c)
  BY DEF Request, TypeOK, SameBut
<1>2. abstractReq' = [abstractReq EXCEPT ![c] = [op |-> op, arg |-> u, state |-> "pending", res |-> Failure]]
  BY <1>1, AbsStep DEF AbsCall, AbsState, NewCall
<1>3. abstractReq[c].state = "idle"
  BY <1>1, AbsReq DEF AbsCall, AbsState
<1>4. abstractOrder' = Append(abstractOrder, c)
  <2>1. PICK q \in Seq(Call) : abstractOrder = q \o pathQ /\ abstractOrder' = q \o pathQ'
    <3>1. /\ (cmdQ \o waiters) \in Seq(Call) /\ ((replyQ \o cmdQ) \o waiters) \in Seq(Call)
      BY ConcatProperties DEF TypeOK
    <3>2. /\ conn # "opening" => abstractOrder' = (cmdQ \o waiters) \o pathQ'
          /\ conn = "opening" => abstractOrder' = ((replyQ \o cmdQ) \o waiters) \o pathQ'
          /\ conn # "opening" => abstractOrder = (cmdQ \o waiters) \o pathQ
          /\ conn = "opening" => abstractOrder = ((replyQ \o cmdQ) \o waiters) \o pathQ
      BY <1>1, RequestType, OrderIs
    <3>3. CASE conn = "opening"
      BY <3>1, <3>2, <3>3
    <3>4. CASE conn # "opening"
      BY <3>1, <3>2, <3>4
    <3> QED BY <3>3, <3>4
  <2>2. pathQ \in Seq(Call) /\ <<c>> \in Seq(Call)
    BY DEF TypeOK
  <2>3. q \o Append(pathQ, c) = Append(q \o pathQ, c)
    BY <2>1, <2>2, AppendIsConcat, ConcatAssociative, ConcatProperties
  <2> QED BY <1>1, <2>1, <2>3
<1> QED BY <1>1, <1>2, <1>3, <1>4, StoreData DEF Store!Invoke

\* The first of two queues in a row is the first of both.
LEMMA HeadFirst ==
  ASSUME NEW q \in Seq(Call), NEW r \in Seq(Call), q # <<>>
  PROVE  q \o r # <<>> /\ Head(q \o r) = Head(q) /\ Tail(q \o r) = Tail(q) \o r
<1>1. q = <<Head(q)>> \o Tail(q) /\ Head(q) \in Call /\ Tail(q) \in Seq(Call)
  BY HeadTailProperties, TailElements
<1>2. q \o r = <<Head(q)>> \o (Tail(q) \o r) /\ Tail(q) \o r \in Seq(Call)
  BY <1>1, ConcatAssociative, ConcatProperties
<1>3. \A s \in Seq(Call), e \in Call :
        <<e>> \o s # <<>> /\ Head(<<e>> \o s) = e /\ Tail(<<e>> \o s) = s
  OBVIOUS
<1> QED BY <1>1, <1>2, <1>3

\* A change of what a call waits for and of its result.
LEMMA AbsUpdate ==
  ASSUME NEW c \in Call, SameBut(call, call', c),
         \A d \in Call \ {c} : In(d, replyQ') <=> In(d, replyQ),
         call'[c].op = call[c].op, call'[c].arg = call[c].arg
  PROVE  /\ abstractReq' = [abstractReq EXCEPT ![c].state = AbsState(call'[c].pc, replyQ', c),
                                               ![c].res   = call'[c].res]
         /\ call'[c].res = call[c].res =>
              abstractReq' = [abstractReq EXCEPT ![c].state = AbsState(call'[c].pc, replyQ', c)]
<1>1. abstractReq' = [abstractReq EXCEPT ![c] = AbsCall(call'[c], replyQ', c)]
  BY AbsStep
<1>2. c \in DOMAIN abstractReq /\ abstractReq[c] = AbsCall(call[c], replyQ, c)
  BY AbsReq
<1>4. /\ AbsCall(call'[c], replyQ', c) =
           [op |-> call[c].op, arg |-> call[c].arg, state |-> AbsState(call'[c].pc, replyQ', c), res |-> call'[c].res]
      /\ abstractReq[c] =
           [op |-> call[c].op, arg |-> call[c].arg, state |-> AbsState(call[c].pc, replyQ, c), res |-> call[c].res]
  BY <1>2 DEF AbsCall
<1> DEFINE t == AbsState(call'[c].pc, replyQ', c)
<1>5. /\ AbsCall(call'[c], replyQ', c) = [abstractReq[c] EXCEPT !.state = t, !.res = call'[c].res]
      /\ call'[c].res = call[c].res => AbsCall(call'[c], replyQ', c) = [abstractReq[c] EXCEPT !.state = t]
  <2> DEFINE k == abstractReq[c]
             v == call'[c].res
  <2>1. AbsCall(call'[c], replyQ', c) = [op |-> call[c].op, arg |-> call[c].arg, state |-> t, res |-> v]
    BY <1>4
  <2>2. k = [op |-> call[c].op, arg |-> call[c].arg, state |-> AbsState(call[c].pc, replyQ, c), res |-> call[c].res]
    BY <1>4
  <2> HIDE DEF t, k, v
  <2>3. [k EXCEPT !.state = t] = [op |-> call[c].op, arg |-> call[c].arg, state |-> t, res |-> call[c].res]
    BY <2>2, SMT
  <2>4. [k EXCEPT !.state = t, !.res = v] = [op |-> call[c].op, arg |-> call[c].arg, state |-> t, res |-> v]
    <3>1. PICK m : m = [k EXCEPT !.state = t]
      OBVIOUS
    <3>2. m = [op |-> call[c].op, arg |-> call[c].arg, state |-> t, res |-> call[c].res]
      BY <2>3, <3>1
    <3>3. [m EXCEPT !.res = v] = [op |-> call[c].op, arg |-> call[c].arg, state |-> t, res |-> v]
      BY <3>2, SMT
    <3>4. [[k EXCEPT !.state = t] EXCEPT !.res = v] =
            [op |-> call[c].op, arg |-> call[c].arg, state |-> t, res |-> v]
      BY <3>1, <3>3
    <3> QED BY <3>4
  <2>5. AbsCall(call'[c], replyQ', c) = [k EXCEPT !.state = t, !.res = v]
    BY <2>1, <2>4
  <2>6. v = call[c].res => AbsCall(call'[c], replyQ', c) = [k EXCEPT !.state = t]
    BY <2>1, <2>3
  <2> QED BY <2>5, <2>6 DEF k, v
<1>6. /\ [abstractReq EXCEPT ![c].state = t, ![c].res = call'[c].res] =
           [abstractReq EXCEPT ![c] = [abstractReq[c] EXCEPT !.state = t, !.res = call'[c].res]]
      /\ [abstractReq EXCEPT ![c].state = t] =
           [abstractReq EXCEPT ![c] = [abstractReq[c] EXCEPT !.state = t]]
  <2> HIDE DEF t
  <2>1. abstractReq = [d \in Call |-> abstractReq[d]] /\ c \in Call
    BY AbsReq
  <2> QED BY <2>1
<1> QED BY <1>1, <1>5, <1>6

\* NoResult and Created hold at first and are kept.
LEMMA RInvInit == Init => RInv
<1> SUFFICES ASSUME Init PROVE NoResult /\ Created
  BY InvInit DEF RInv
<1>1. \A c \in Call : call[c].res = Failure
  BY DEF Init, Idle, NewCall
<1> QED BY <1>1 DEF Init, NoResult, Created

\* The first call of a queue waits where the queue says.
LEMMA Heads ==
  ASSUME IInv
  PROVE  /\ pathQ # <<>> => Head(pathQ) \in Call /\ call[Head(pathQ)].pc = "path"
         /\ waiters # <<>> => Head(waiters) \in Call /\ call[Head(waiters)].pc = "lock"
         /\ cmdQ # <<>> => Head(cmdQ) \in Call /\ call[Head(cmdQ)].pc = SentPc
         /\ replyQ # <<>> => Head(replyQ) \in Call /\ call[Head(replyQ)].pc = SentPc
<1>1. ASSUME NEW q \in Seq(Call), NEW pc, q # <<>>, AllAt(call, q, pc)
      PROVE  Head(q) \in Call /\ call[Head(q)].pc = pc
  <2>1. 1 \in 1 .. Len(q) /\ Head(q) = q[1] /\ Head(q) \in Call
    BY <1>1, TailElements
  <2> QED BY <1>1, <2>1 DEF AllAt
<1> QED BY <1>1 DEF IInv, TypeOK, WaitInv, SentInv

\* Issuing leaves no waiting call with a result.
LEMMA IssueResult ==
  ASSUME TypeOK, NEW c \in Call, Issue(c), NoResult
  PROVE  NoResult' /\ conn' \in {"open", "closing"}
<1>1. SameBut(call, call', c) /\ call'[c].pc \in {"done", "native"}
  BY IssueCall
<1>2. conn' \in {"open", "closing"}
  BY DEF Issue
<1> QED BY <1>1, <1>2 DEF NoResult, SameBut

\* Each step keeps the invariant of the refinement.
LEMMA RInvStep == RInv /\ [Next]_dbVars => RInv'
<1> SUFFICES ASSUME RInv, [Next]_dbVars PROVE NoResult' /\ Created'
  BY InvStep DEF RInv
<1>0. TypeOK /\ IInv /\ NoResult /\ Created
  BY DEF RInv, IInv
<1>1. CASE NoMicrotask /\ Client
  <2>1. PICK c \in Call, op \in Ops, u \in User : Request(c, op, u)
    BY <1>1, ClientRequests
  <2>2. \A d \in Call : call'[d].pc \in {"path", "lock", "open"} => call'[d].res = Failure
    BY <1>0, <2>1 DEF Request, NewCall, TypeOK, NoResult
  <2> QED BY <1>0, <2>1, <2>2 DEF Request, NoResult, Created
<1>2. CASE PathReply
  <2> DEFINE c == Head(pathQ)
  <2>1. c \in Call /\ call[c].pc = "path" /\ UNCHANGED <<version, table, replyQ>>
    BY <1>0, <1>2, Heads DEF PathReply
  <2>2. CASE conn \in {"open", "closing"} /\ Issue(c)
    BY <1>0, <2>1, <2>2, IssueResult DEF Created
  <2>3. ASSUME NEW pc \in {"open", "lock"}, call' = [call EXCEPT ![c].pc = pc],
               conn' = "opening", conn = "none" \/ conn = "opening"
        PROVE  NoResult' /\ Created'
    <3>1. NoResult'
      BY <1>0, <2>1, <2>3 DEF TypeOK, NoResult, Calls
    <3>2. conn = "none" => replyQ' = <<>>
      BY <1>0, <2>1 DEF IInv, ConnInv
    <3> QED BY <1>0, <2>1, <2>3, <3>1, <3>2 DEF Created
  <2>4. CASE MustOpen /\ conn' = "opening" /\ call' = [call EXCEPT ![c].pc = "open"]
    BY <2>3, <2>4 DEF MustOpen
  <2>5. CASE conn = "opening" /\ call' = [call EXCEPT ![c].pc = "lock"] /\ UNCHANGED conn
    BY <2>3, <2>5
  <2> QED BY <1>2, <2>2, <2>4, <2>5 DEF PathReply
<1>3. CASE Grant
  <2>1. Head(waiters) \in Call /\ waiters # <<>> /\ conn # "opening"
    BY <1>0, <1>3, TailElements DEF Grant, TypeOK
  <2>2. conn \in {"open", "closing"}
    BY <1>0, <2>1 DEF IInv, ConnInv, TypeOK
  <2> QED BY <1>0, <1>3, <2>1, <2>2, IssueResult DEF Grant, Created
<1>4. CASE Native
  <2>1. PICK c \in Call : \/ RunOpen(c)
                          \/ /\ call[c].pc = "native"
                             /\ RunInsert(c) \/ RunUpdate(c) \/ RunDelete(c) \/ RunQuery(c) \/ RunClose(c)
    BY <1>4 DEF Native, RunInsert, RunUpdate, RunDelete, RunQuery, RunClose, Running
  <2>2. CASE RunOpen(c)
    <3>1. \A d \in Call : call'[d].pc = call[d].pc /\ (d = c \/ call'[d].res = call[d].res)
      BY <1>0, <2>2 DEF RunOpen, Ran, TypeOK, Calls
    <3>2. call'[c].res = Failure /\ version' = 1
      BY <1>0, <2>2 DEF RunOpen, Ran, TypeOK, Calls
    <3> QED BY <1>0, <3>1, <3>2 DEF NoResult, Created
  <2>3. CASE /\ call[c].pc = "native"
             /\ RunInsert(c) \/ RunUpdate(c) \/ RunDelete(c) \/ RunQuery(c) \/ RunClose(c)
    <3>1. (\E r : Ran(c, r)) /\ version' = version
      BY <2>3 DEF RunInsert, RunUpdate, RunDelete, RunQuery, RunClose
    <3>2. /\ \A d \in Call : call'[d].pc = call[d].pc /\ (d = c \/ call'[d].res = call[d].res)
          /\ cmdQ # <<>> /\ c = Head(cmdQ) /\ conn' = conn
      BY <1>0, <3>1 DEF Ran, TypeOK, Calls
    <3>3. SentPc = "native"
      BY <1>0, <2>3, <3>2, Heads
    <3>4. version = 1 /\ conn # "opening"
      BY <1>0, <3>2, <3>3 DEF SentPc, IInv, ConnInv, TypeOK, Created
    <3> QED BY <1>0, <2>3, <3>1, <3>2, <3>4 DEF NoResult, Created
  <2> QED BY <2>1, <2>2, <2>3
<1>5. CASE Deliver
  <2> DEFINE c == Head(replyQ)
  <2>1. /\ c \in Call /\ call[c].pc = SentPc /\ replyQ # <<>> /\ UNCHANGED <<version, table>>
    BY <1>0, <1>5, Heads DEF Deliver
  <2>2. CASE call[c].pc = "open" /\ Issue(c)
    <3>1. conn = "opening"
      BY <2>1, <2>2 DEF SentPc
    <3> QED BY <1>0, <2>1, <2>2, <3>1, IssueResult DEF Created
  <2>3. CASE /\ call[c].pc = "native" /\ call' = [call EXCEPT ![c].pc = "done"]
             /\ conn' = IF call[c].op = "close" THEN AfterClose ELSE conn
    <3>1. conn # "opening"
      BY <2>1, <2>3 DEF SentPc
    <3>2. NoResult'
      BY <1>0, <2>1, <2>3 DEF TypeOK, NoResult, Calls
    <3> QED BY <1>0, <2>1, <2>3, <3>1, <3>2 DEF Created, AfterClose
  <2> QED BY <1>5, <2>2, <2>3 DEF Deliver
<1>6. CASE \E c \in Call : Return(c)
  BY <1>0, <1>6 DEF Return, NoResult, Created, plugin, TypeOK, Idle, NewCall
<1>7. CASE Restart
  BY <1>0, <1>7 DEF Restart, NoResult, Created, Idle, NewCall
<1>8. CASE UNCHANGED dbVars
  BY <1>0, <1>8 DEF dbVars, plugin, NoResult, Created
<1> QED BY <1>1, <1>2, <1>3, <1>4, <1>5, <1>6, <1>7, <1>8 DEF Next, Plugin

-----------------------------------------------------------------------------
(* Each action of the helper is a step of the store, or none. *)

\* Where the first of three queues ends does not matter.
LEMMA Associative == \A q, r, s \in Seq(Call) : (q \o r) \o s = q \o (r \o s)
  BY ConcatAssociative

\* Nothing the store knows of changes.
Stutters == UNCHANGED <<table, abstractReq, abstractOrder>>

\* The first call in r reaches the connection: it is refused, or nothing the
\* store knows of has happened.
LEMMA IssueRefines ==
  ASSUME RInv, NEW c \in Call, call[c].pc \in {"path", "lock"}, conn \in {"open", "closing"},
         Issue(c), UNCHANGED <<table, replyQ>>,
         NEW q \in Seq(Call), NEW r \in Seq(Call), r # <<>>, c = Head(r), abstractOrder = q \o r,
         abstractOrder' = (IF conn = "closing" THEN q ELSE Append(q, c)) \o Tail(r)
  PROVE  Store!Refuse(c) \/ Stutters
<1>0. TypeOK /\ IInv /\ SentInv /\ CloseInv
  BY DEF RInv, IInv
<1>1. /\ SameBut(call, call', c) /\ call'[c].op = call[c].op
      /\ call'[c].pc = IF conn = "closing" THEN "done" ELSE "native"
  BY <1>0, IssueCall
<1>2. CASE conn = "closing"
  <2>1. call' = [call EXCEPT ![c].pc = "done",
                             ![c].res = IF call[c].op = "close" THEN Success(0) ELSE Failure]
    BY <1>2 DEF Issue
  <2>2. /\ call'[c].arg = call[c].arg
        /\ call'[c].res = IF call[c].op = "close" THEN Success(0) ELSE Failure
    BY <1>0, <2>1 DEF TypeOK, Calls
  <2>3. AbsState(call'[c].pc, replyQ', c) = "done"
    BY <1>1, <1>2 DEF AbsState
  <2>4. abstractReq' = [abstractReq EXCEPT ![c].state = "done", ![c].res = call'[c].res]
    BY <1>1, <2>2, <2>3, AbsUpdate
  <2>5. abstractReq[c].state = "pending" /\ abstractReq[c].op = call[c].op
    BY AbsReq DEF AbsCall, AbsState
  <2>6. \E d \in Call \ {c} : abstractReq[d].op = "close" /\ abstractReq[d].state \in {"pending", "effected"}
    <3>1. PICK d \in Call : call[d].op = "close" /\ call[d].pc = "native"
      BY <1>0, <1>2, ClosingWitness
    <3>2. d # c /\ abstractReq[d].op = "close" /\ abstractReq[d].state \in {"pending", "effected"}
      BY <3>1, AbsReq DEF AbsCall, AbsState
    <3> QED BY <3>2
  <2>7. \E i \in 1 .. Len(abstractOrder) :
          abstractOrder[i] = c /\ abstractOrder' = Store!RemoveAt(abstractOrder, i)
    BY <1>2, HeadRemoved
  <2> QED BY <2>2, <2>4, <2>5, <2>6, <2>7, StoreData DEF Store!Refuse
<1>3. CASE conn = "open"
  <2>1. call' = [call EXCEPT ![c].pc = "native"]
    BY <1>3 DEF Issue
  <2>2. /\ call'[c].arg = call[c].arg /\ call'[c].res = call[c].res
    BY <1>0, <2>1 DEF TypeOK, Calls
  <2>3. ~ In(c, replyQ)
    BY <1>0, <1>3 DEF SentInv, AllAt, SentPc, In
  <2>4. AbsCall(call'[c], replyQ', c) = AbsCall(call[c], replyQ, c)
    BY <1>1, <1>3, <2>2, <2>3 DEF AbsCall, AbsState
  <2>5. abstractReq' = abstractReq
    BY <1>1, <2>4, AbsSame
  <2>6. abstractOrder' = abstractOrder
    BY <1>3, HeadMoves
  <2> QED BY <2>5, <2>6 DEF Stutters
<1> QED BY <1>2, <1>3

\* A call whose directory has arrived.
LEMMA PathReplyRefines ==
  ASSUME RInv, TypeOK', PathReply
  PROVE  (\E c \in Call : Store!Refuse(c)) \/ Stutters
<1> DEFINE c == Head(pathQ)
<1>0. TypeOK /\ IInv /\ SentInv /\ ConnInv
  BY DEF RInv, IInv
<1>1. /\ c \in Call /\ call[c].pc = "path" /\ pathQ # <<>> /\ pathQ' = Tail(pathQ)
      /\ UNCHANGED <<table, replyQ>>
  BY <1>0, Heads DEF PathReply
<1>2. /\ pathQ \in Seq(Call) /\ waiters \in Seq(Call) /\ cmdQ \in Seq(Call) /\ replyQ \in Seq(Call)
      /\ <<>> \in Seq(Call) /\ Tail(pathQ) \in Seq(Call)
  BY <1>0, <1>1, TailElements DEF TypeOK
<1>3. CASE conn \in {"open", "closing"} /\ Issue(c) /\ UNCHANGED waiters
  <2>1. waiters = <<>>
    BY <1>3 DEF PathReply, NoMicrotask
  <2>2. conn' \in {"open", "closing"} /\ cmdQ' = IF conn = "closing" THEN cmdQ ELSE Append(cmdQ, c)
    BY <1>3 DEF Issue
  <2>3. abstractOrder = cmdQ \o pathQ
    BY <1>0, <1>2, <1>3, <2>1, OrderIs, ConcatEmptySeq
  <2>4. abstractOrder' = cmdQ' \o Tail(pathQ)
    <3>1. cmdQ' \in Seq(Call)
      BY DEF TypeOK
    <3> QED BY <1>0, <1>1, <1>3, <2>1, <2>2, <3>1, OrderIs, ConcatEmptySeq
  <2> QED BY <1>1, <1>2, <1>3, <2>2, <2>3, <2>4, IssueRefines
<1>4. ASSUME NEW pc \in {"open", "lock"}, call' = [call EXCEPT ![c].pc = pc]
      PROVE  abstractReq' = abstractReq
  <2>1. SameBut(call, call', c)
    BY <1>0, <1>1, <1>4 DEF TypeOK, SameBut
  <2>2. /\ call'[c].op = call[c].op /\ call'[c].arg = call[c].arg /\ call'[c].res = call[c].res
        /\ call'[c].pc = pc
    BY <1>0, <1>1, <1>4 DEF TypeOK, Calls
  <2>3. AbsCall(call'[c], replyQ', c) = AbsCall(call[c], replyQ, c)
    BY <1>1, <2>2 DEF AbsCall, AbsState
  <2> QED BY <1>1, <2>1, <2>3, AbsSame
<1>5. CASE /\ MustOpen /\ conn' = "opening" /\ call' = [call EXCEPT ![c].pc = "open"]
           /\ cmdQ' = Append(cmdQ, c) /\ UNCHANGED waiters
  <2>1. waiters = <<>> /\ cmdQ = <<>> /\ replyQ = <<>> /\ conn = "none"
    BY <1>0, <1>5 DEF ConnInv, MustOpen
  <2>2. abstractOrder = <<>> \o pathQ
    BY <1>0, <1>2, <2>1, OrderIs, ConcatEmptySeq
  <2>3. abstractOrder' = Append(<<>>, c) \o Tail(pathQ)
    <3>1. Append(<<>>, c) \in Seq(Call)
      BY <1>1, <1>2, AppendElements
    <3>2. abstractOrder' = ((<<>> \o Append(<<>>, c)) \o <<>>) \o Tail(pathQ)
      BY <1>0, <1>1, <1>5, <2>1, OrderIs
    <3> QED BY <3>1, <3>2, ConcatEmptySeq
  <2>4. abstractOrder' = abstractOrder
    BY <1>1, <1>2, <2>2, <2>3, HeadMoves
  <2> QED BY <1>1, <1>4, <1>5, <2>4 DEF Stutters
<1>6. CASE /\ conn = "opening" /\ call' = [call EXCEPT ![c].pc = "lock"]
           /\ waiters' = Append(waiters, c) /\ UNCHANGED <<conn, cmdQ>>
  <2>1. PICK q \in Seq(Call), w \in Seq(Call) : q = replyQ \o cmdQ /\ w = Append(waiters, c)
    BY <1>1, <1>2, ConcatProperties, AppendElements
  <2>2. abstractOrder = q \o (waiters \o pathQ)
    <3>1. abstractOrder = (q \o waiters) \o pathQ
      BY <1>0, <1>6, <2>1, OrderIs
    <3>2. (q \o waiters) \o pathQ = q \o (waiters \o pathQ)
      <4>1. q \in Seq(Call) /\ waiters \in Seq(Call) /\ pathQ \in Seq(Call)
        BY <1>2
      <4> QED BY <4>1, Associative, Zenon
    <3> QED BY <3>1, <3>2, Zenon
  <2>3. abstractOrder' = q \o (w \o Tail(pathQ))
    <3>1. abstractOrder' = (q \o w) \o Tail(pathQ)
      BY <1>0, <1>1, <1>6, <2>1, OrderIs
    <3>2. (q \o w) \o Tail(pathQ) =
            q \o (w \o Tail(pathQ))
      <4>1. q \in Seq(Call) /\ w \in Seq(Call) /\ Tail(pathQ) \in Seq(Call)
        BY <1>2
      <4> QED BY <4>1, Associative, Zenon
    <3> QED BY <3>1, <3>2, Zenon
  <2>4. abstractOrder' = abstractOrder
    BY <1>1, <1>2, <2>1, <2>2, <2>3, HeadMoves
  <2> QED BY <1>1, <1>4, <1>6, <2>4 DEF Stutters
<1> QED BY <1>3, <1>5, <1>6 DEF PathReply

\* A call that waited for the opening.
LEMMA GrantRefines ==
  ASSUME RInv, TypeOK', Grant
  PROVE  (\E c \in Call : Store!Refuse(c)) \/ Stutters
<1> DEFINE c == Head(waiters)
           r == waiters \o pathQ
<1>0. TypeOK /\ IInv /\ ConnInv
  BY DEF RInv, IInv
<1>1. /\ c \in Call /\ call[c].pc = "lock" /\ waiters # <<>> /\ waiters' = Tail(waiters)
      /\ Issue(c) /\ UNCHANGED <<table, pathQ, replyQ>>
  BY <1>0, Heads DEF Grant
<1>2. conn \in {"open", "closing"}
  BY <1>0, <1>1 DEF ConnInv, TypeOK, Grant
<1>3. /\ pathQ \in Seq(Call) /\ waiters \in Seq(Call) /\ cmdQ \in Seq(Call) /\ cmdQ' \in Seq(Call)
      /\ Tail(waiters) \in Seq(Call)
  BY <1>0, <1>1, TailElements DEF TypeOK
<1>4. r \in Seq(Call) /\ r # <<>> /\ c = Head(r) /\ Tail(r) = Tail(waiters) \o pathQ
  BY <1>1, <1>3, HeadFirst, ConcatProperties
<1>5. abstractOrder = cmdQ \o r
  BY <1>0, <1>2, <1>3, OrderIs, Associative
<1>6. conn' \in {"open", "closing"} /\ cmdQ' = IF conn = "closing" THEN cmdQ ELSE Append(cmdQ, c)
  BY <1>1, <1>2 DEF Issue
<1>7. abstractOrder' = cmdQ' \o Tail(r)
  <2>1. abstractOrder' = (cmdQ' \o Tail(waiters)) \o pathQ
    BY <1>0, <1>1, <1>6, OrderIs
  <2>2. (cmdQ' \o Tail(waiters)) \o pathQ = cmdQ' \o (Tail(waiters) \o pathQ)
    BY <1>3, Associative, Zenon
  <2> QED BY <1>4, <2>1, <2>2, Zenon
<1> HIDE DEF r
<1> QED BY <1>1, <1>2, <1>3, <1>4, <1>5, <1>6, <1>7, IssueRefines

\* The native side runs a statement: if its outcome is one the store allows, it
\* is the store's oldest operation taking effect.
LEMMA RanRefines ==
  ASSUME RInv, TypeOK', NEW c \in Call, call[c].pc = "native", NEW res, Ran(c, res),
         Store!Outcome(table', res) \in Store!Outcomes(call[c].op, call[c].arg)
  PROVE  Store!TakeEffect(c)
<1>0. TypeOK /\ IInv /\ SentInv
  BY DEF RInv, IInv
<1>1. /\ cmdQ # <<>> /\ c = Head(cmdQ) /\ cmdQ' = Tail(cmdQ) /\ replyQ' = Append(replyQ, c)
      /\ call' = [call EXCEPT ![c].res = res] /\ UNCHANGED <<conn, pathQ, waiters>>
  BY DEF Ran
<1>2. conn # "opening"
  BY <1>0, <1>1, Heads DEF SentPc
<1>3. /\ pathQ \in Seq(Call) /\ waiters \in Seq(Call) /\ cmdQ \in Seq(Call) /\ replyQ \in Seq(Call)
      /\ Tail(cmdQ) \in Seq(Call)
  BY <1>0, <1>1, TailElements DEF TypeOK
<1>4. /\ SameBut(call, call', c) /\ call'[c].op = call[c].op /\ call'[c].arg = call[c].arg
      /\ call'[c].pc = "native" /\ call'[c].res = res
  BY <1>0, <1>1 DEF TypeOK, Calls, SameBut
<1>5. abstractReq' = [abstractReq EXCEPT ![c].state = "effected", ![c].res = res]
  <2>1. \A d \in Call \ {c} : In(d, replyQ') <=> In(d, replyQ)
    BY <1>1, <1>3, InMoves
  <2>2. AbsState(call'[c].pc, replyQ', c) = "effected"
    BY <1>1, <1>3, <1>4, InMoves DEF AbsState
  <2> QED BY <1>4, <2>1, <2>2, AbsUpdate
<1>6. abstractReq[c].op = call[c].op /\ abstractReq[c].arg = call[c].arg
  BY AbsReq DEF AbsCall
<1>7. abstractOrder # <<>> /\ c = Head(abstractOrder) /\ abstractOrder' = Tail(abstractOrder)
  <2>1. PICK q \in Seq(Call) : q = waiters \o pathQ
    BY <1>3, ConcatProperties
  <2>2. abstractOrder = cmdQ \o q /\ abstractOrder' = Tail(cmdQ) \o q
    <3>1. abstractOrder = (cmdQ \o waiters) \o pathQ /\ abstractOrder' = (Tail(cmdQ) \o waiters) \o pathQ
      BY <1>0, <1>1, <1>2, OrderIs
    <3>2. ASSUME NEW s \in Seq(Call) PROVE (s \o waiters) \o pathQ = s \o (waiters \o pathQ)
      <4>1. waiters \in Seq(Call) /\ pathQ \in Seq(Call)
        BY <1>3
      <4> QED BY <4>1, Associative, Zenon
    <3>3. /\ (cmdQ \o waiters) \o pathQ = cmdQ \o (waiters \o pathQ)
          /\ (Tail(cmdQ) \o waiters) \o pathQ = Tail(cmdQ) \o (waiters \o pathQ)
      BY <1>3, <3>2
    <3> QED BY <2>1, <3>1, <3>3, Zenon
  <2> QED BY <1>1, <1>3, <2>2, HeadFirst
<1>8. \E o \in Store!Outcomes(abstractReq[c].op, abstractReq[c].arg) :
        /\ table' = o.rows
        /\ abstractReq' = [abstractReq EXCEPT ![c].state = "effected", ![c].res = o.res]
  <2> DEFINE o == Store!Outcome(table', res)
  <2>1. o.rows = table' /\ o.res = res
    BY DEF Store!Outcome
  <2> HIDE DEF o
  <2>2. o \in Store!Outcomes(abstractReq[c].op, abstractReq[c].arg)
    BY <1>6 DEF o
  <2> QED BY <1>5, <2>1, <2>2
<1> QED BY <1>7, <1>8 DEF Store!TakeEffect

\* The opening of the connection changes nothing the store knows of.
LEMMA OpenRefines ==
  ASSUME RInv, TypeOK', NEW c \in Call, RunOpen(c)
  PROVE  Stutters
<1>0. TypeOK /\ IInv /\ NoResult /\ Created
  BY DEF RInv, IInv
<1>1. /\ cmdQ # <<>> /\ c = Head(cmdQ) /\ cmdQ' = Tail(cmdQ) /\ replyQ' = Append(replyQ, c)
      /\ call' = [call EXCEPT ![c].res = Failure] /\ UNCHANGED <<conn, pathQ, waiters>>
      /\ call[c].pc = "open"
  BY DEF Ran, RunOpen
<1>2. conn = "opening"
  BY <1>0, <1>1, Heads DEF SentPc
<1>3. cmdQ \in Seq(Call) /\ replyQ \in Seq(Call)
  BY <1>0 DEF TypeOK
<1>4. /\ SameBut(call, call', c) /\ call'[c].op = call[c].op /\ call'[c].arg = call[c].arg
      /\ call'[c].pc = "open" /\ call'[c].res = call[c].res
  BY <1>0, <1>1 DEF TypeOK, Calls, SameBut, NoResult
<1>5. abstractReq' = abstractReq
  <2>1. \A d \in Call \ {c} : In(d, replyQ') <=> In(d, replyQ)
    BY <1>1, <1>3, InMoves
  <2>2. AbsCall(call'[c], replyQ', c) = AbsCall(call[c], replyQ, c)
    BY <1>1, <1>4 DEF AbsCall, AbsState
  <2> QED BY <1>4, <2>1, <2>2, AbsSame
<1>6. abstractOrder' = abstractOrder
  <2>1. replyQ' \o cmdQ' = replyQ \o cmdQ
    BY <1>1, <1>3, HeadMoves
  <2> QED BY <1>0, <1>1, <1>2, <2>1, OrderIs
<1>7. table' = table
  BY <1>0 DEF RunOpen, Created
<1> QED BY <1>5, <1>6, <1>7 DEF Stutters

\* Each statement has an outcome the store allows.
LEMMA NativeRefines ==
  ASSUME RInv, TypeOK', Native
  PROVE  (\E c \in Call : Store!TakeEffect(c)) \/ Stutters
<1>1. PICK c \in Call : \/ RunOpen(c) \/ RunInsert(c) \/ RunUpdate(c) \/ RunDelete(c)
                        \/ RunQuery(c) \/ RunClose(c)
  BY DEF Native
<1> DEFINE u == call[c].arg
<1>2. ASSUME NEW res, Ran(c, res), call[c].pc = "native",
             Store!Outcome(table', res) \in Store!Outcomes(call[c].op, u)
      PROVE  \E d \in Call : Store!TakeEffect(d)
  BY <1>2, RanRefines
<1>3. \A id : id = u.id => Rows(id) = Store!Named(u)
  BY DEF Rows, Store!Named
<1>4. toMap(u)._id = u.id /\ toMap(u).username = u.username
  BY DEF toMap
<1>5. CASE RunOpen(c)
  BY <1>5, OpenRefines
<1>6. CASE RunInsert(c)
  <2>1. PICK id \in IF u.id = None THEN FreshIds(table) ELSE {u.id} :
          \/ /\ Rows(id) = {}
             /\ table' = table \cup {[_id |-> id, username |-> u.username]}
             /\ Ran(c, Success(id))
          \/ /\ Rows(id) # {}
             /\ Ran(c, Failure)
             /\ table' = table
    BY <1>4, <1>6 DEF RunInsert
  <2>2. call[c].op = "insertUser" /\ call[c].pc = "native"
    BY <1>6 DEF RunInsert, Running
  <2>3. Store!Outcomes("insertUser", u) =
          {IF \E r \in table : r._id = i
           THEN Store!Outcome(table, Failure)
           ELSE Store!Outcome(table \cup {[_id |-> i, username |-> u.username]}, Success(i))
             : i \in IF u.id = None THEN FreshIds(table) ELSE {u.id}}
    BY StoreData DEF Store!Outcomes
  <2>4. CASE Rows(id) = {} /\ table' = table \cup {[_id |-> id, username |-> u.username]}
             /\ Ran(c, Success(id))
    <3>1. ~ \E r \in table : r._id = id
      BY <2>4 DEF Rows
    <3>2. Store!Outcome(table', Success(id)) \in Store!Outcomes("insertUser", u)
      BY <2>1, <2>3, <2>4, <3>1
    <3> QED BY <1>2, <2>2, <2>4, <3>2
  <2>5. CASE Rows(id) # {} /\ Ran(c, Failure) /\ table' = table
    <3>1. \E r \in table : r._id = id
      BY <2>5 DEF Rows
    <3>2. Store!Outcome(table', Failure) \in Store!Outcomes("insertUser", u)
      BY <2>1, <2>3, <2>5, <3>1
    <3> QED BY <1>2, <2>2, <2>5, <3>2
  <2> QED BY <2>1, <2>4, <2>5
<1>7. CASE RunUpdate(c)
  <2>1. /\ call[c].op = "updateUser" /\ call[c].pc = "native"
        /\ Ran(c, Success(Affected(Store!Named(u))))
        /\ table' = {IF r._id = u.id THEN [r EXCEPT !.username = u.username] ELSE r : r \in table}
    BY <1>3, <1>4, <1>7 DEF RunUpdate, Running
  <2>2. table' = (table \ Store!Named(u)) \cup {[r EXCEPT !.username = u.username] : r \in Store!Named(u)}
    BY <2>1 DEF Store!Named
  <2>3. Store!Outcome(table', Success(Affected(Store!Named(u)))) \in Store!Outcomes("updateUser", u)
    BY <2>2, StoreData DEF Store!Outcomes
  <2> QED BY <1>2, <2>1, <2>3
<1>8. CASE RunDelete(c)
  <2>1. /\ call[c].op = "deleteUser" /\ call[c].pc = "native"
        /\ Ran(c, Success(Affected(Store!Named(u))))
        /\ table' = table \ Store!Named(u)
    BY <1>3, <1>8 DEF RunDelete, Running
  <2>2. Store!Outcome(table', Success(Affected(Store!Named(u)))) \in Store!Outcomes("deleteUser", u)
    BY <2>1, StoreData DEF Store!Outcomes
  <2> QED BY <1>2, <2>1, <2>2
<1>9. CASE RunQuery(c)
  <2>0. table' = table
    BY <1>9 DEF RunQuery
  <2>1. CASE Running(c, "getAllUsers") /\ Ran(c, Listed(table))
    <3>1. Store!Outcome(table', Listed(table)) \in Store!Outcomes("getAllUsers", u)
      BY <2>0, StoreData DEF Store!Outcomes
    <3> QED BY <1>2, <2>1, <3>1 DEF Running
  <2>2. CASE Running(c, "getUser") /\ \E r \in Store!Named(u) : Ran(c, Found(fromMap(r)))
    <3>1. PICK r \in Store!Named(u) : Ran(c, Found(fromMap(r)))
      BY <2>2
    <3>2. Store!Outcome(table', Found(fromMap(r))) \in Store!Outcomes("getUser", u)
      BY <2>0, <3>1, StoreData DEF Store!Outcomes
    <3> QED BY <1>2, <2>2, <3>1, <3>2 DEF Running
  <2>3. CASE Running(c, "getUser") /\ Store!Named(u) = {} /\ Ran(c, Failure)
    <3>1. Store!Outcome(table', Failure) \in Store!Outcomes("getUser", u)
      BY <2>0, <2>3, StoreData DEF Store!Outcomes
    <3> QED BY <1>2, <2>3, <3>1 DEF Running
  <2> QED BY <1>3, <1>9, <2>1, <2>2, <2>3 DEF RunQuery
<1>10. CASE RunClose(c)
  <2>1. Running(c, "close") /\ Ran(c, Success(0)) /\ table' = table
    BY <1>10 DEF RunClose
  <2>2. Store!Outcome(table', Success(0)) \in Store!Outcomes("close", u)
    BY <2>1, StoreData DEF Store!Outcomes
  <2> QED BY <1>2, <2>1, <2>2 DEF Running
<1> QED BY <1>1, <1>5, <1>6, <1>7, <1>8, <1>9, <1>10

\* An answer comes back: the caller of a statement learns of its result; the
\* caller that opened the connection goes on unnoticed.
LEMMA DeliverRefines ==
  ASSUME RInv, TypeOK', Deliver
  PROVE  (\E c \in Call : Store!Settle(c)) \/ Stutters
<1> DEFINE c == Head(replyQ)
<1>0. TypeOK /\ IInv /\ ConnInv
  BY DEF RInv, IInv
<1>1. /\ replyQ # <<>> /\ replyQ' = Tail(replyQ) /\ c \in Call /\ call[c].pc = SentPc
      /\ UNCHANGED <<table, pathQ, waiters>>
  BY <1>0, Heads DEF Deliver
<1>2. /\ pathQ \in Seq(Call) /\ waiters \in Seq(Call) /\ cmdQ \in Seq(Call) /\ replyQ \in Seq(Call)
  BY <1>0 DEF TypeOK
<1>3. \A d \in Call \ {c} : In(d, replyQ') <=> In(d, replyQ)
  BY <1>1, <1>2, InMoves
<1>4. CASE call[c].pc = "open" /\ Issue(c)
  <2>1. conn = "opening"
    BY <1>1, <1>4 DEF SentPc
  <2>2. cmdQ = <<>> /\ Tail(replyQ) = <<>> /\ replyQ = Append(<<>>, c)
    <3>1. Len(cmdQ) = 0 /\ Len(replyQ) = 1
      <4>1. Len(cmdQ) + Len(replyQ) = 1
        BY <1>0, <2>1 DEF ConnInv
      <4>2. Len(cmdQ) \in Nat /\ Len(replyQ) \in Nat /\ Len(replyQ) >= 1
        BY <1>1, <1>2, TailElements
      <4>3. \A m, n \in Nat : m + n = 1 /\ n >= 1 => m = 0 /\ n = 1
        OBVIOUS
      <4> QED BY <4>1, <4>2, <4>3
    <3> QED BY <1>1, <1>2, <3>1
  <2>3. /\ call' = [call EXCEPT ![c].pc = "native"] /\ cmdQ' = Append(cmdQ, c)
        /\ conn' \in {"open", "closing"}
    BY <1>4, <2>1 DEF Issue
  <2>4. /\ SameBut(call, call', c) /\ call'[c].op = call[c].op /\ call'[c].arg = call[c].arg
        /\ call'[c].pc = "native" /\ call'[c].res = call[c].res
    BY <1>0, <1>1, <2>3 DEF TypeOK, Calls, SameBut
  <2>5. abstractReq' = abstractReq
    <3>1. ~ In(c, replyQ')
      BY <1>1, <2>2 DEF In
    <3>2. AbsCall(call'[c], replyQ', c) = AbsCall(call[c], replyQ, c)
      BY <1>4, <2>4, <3>1 DEF AbsCall, AbsState
    <3> QED BY <1>1, <1>3, <2>4, <3>2, AbsSame
  <2>6. abstractOrder' = abstractOrder
    <3>1. abstractOrder = ((replyQ \o cmdQ) \o waiters) \o pathQ
      BY <1>0, <2>1, OrderIs
    <3>2. abstractOrder' = (cmdQ' \o waiters) \o pathQ
      BY <1>0, <1>1, <2>3, OrderIs
    <3>3. replyQ \o cmdQ = cmdQ'
      BY <1>2, <2>2, <2>3, ConcatEmptySeq
    <3> QED BY <3>1, <3>2, <3>3, Zenon
  <2> QED BY <1>1, <2>5, <2>6 DEF Stutters
<1>5. CASE /\ call[c].pc = "native" /\ call' = [call EXCEPT ![c].pc = "done"]
           /\ conn' = IF call[c].op = "close" THEN AfterClose ELSE conn
           /\ UNCHANGED cmdQ
  <2>1. conn # "opening" /\ conn' # "opening"
    BY <1>1, <1>5 DEF SentPc, AfterClose
  <2>2. abstractOrder' = abstractOrder
    BY <1>0, <1>1, <1>5, <2>1, OrderIs
  <2>3. /\ SameBut(call, call', c) /\ call'[c].op = call[c].op /\ call'[c].arg = call[c].arg
        /\ call'[c].pc = "done" /\ call'[c].res = call[c].res
    BY <1>0, <1>1, <1>5 DEF TypeOK, Calls, SameBut
  <2>4. AbsState(call'[c].pc, replyQ', c) = "done"
    BY <2>3 DEF AbsState
  <2>5. abstractReq' = [abstractReq EXCEPT ![c].state = "done"]
    BY <1>1, <1>3, <2>3, <2>4, AbsUpdate
  <2>6. abstractReq[c].state = "effected"
    <3>1. 1 \in 1 .. Len(replyQ) /\ replyQ[1] = c
      BY <1>1, <1>2, TailElements
    <3>2. In(c, replyQ)
      BY <3>1 DEF In
    <3> QED BY <1>1, <1>5, <3>2, AbsReq DEF AbsCall, AbsState
  <2> QED BY <1>1, <2>2, <2>5, <2>6 DEF Store!Settle
<1> QED BY <1>4, <1>5 DEF Deliver

\* A caller takes its result.
LEMMA ReturnRefines ==
  ASSUME RInv, TypeOK', NEW c \in Call, Return(c)
  PROVE  Store!Take(c)
<1>0. TypeOK
  BY DEF RInv, IInv
<1>1. /\ call[c].pc = "done" /\ SameBut(call, call', c) /\ call'[c] = Idle
      /\ UNCHANGED <<table, conn, pathQ, waiters, cmdQ, replyQ>>
  BY <1>0 DEF Return, TypeOK, SameBut, plugin
<1>2. abstractReq' = [abstractReq EXCEPT ![c] = Store!NoCall]
  <2>1. AbsCall(call'[c], replyQ', c) = Store!NoCall
    BY <1>1, StoreData DEF AbsCall, AbsState, Idle, NewCall, Store!NoCall
  <2> QED BY <1>1, <2>1, AbsStep
<1>3. abstractReq[c].state = "done"
  BY <1>1, AbsReq DEF AbsCall, AbsState
<1>4. abstractOrder' = abstractOrder
  BY <1>1 DEF abstractOrder
<1> QED BY <1>1, <1>2, <1>3, <1>4 DEF Store!Take

\* A new process starts with no call, on the rows the old one left.
LEMMA RestartRefines ==
  ASSUME Restart
  PROVE  Store!Killed
<1>1. \A c \in Call : AbsCall(call'[c], replyQ', c) = Store!NoCall
  BY StoreData DEF Restart, AbsCall, AbsState, Idle, NewCall, Store!NoCall
<1>2. abstractReq' = [c \in Call |-> Store!NoCall]
  BY <1>1, AbsReq
<1>3. abstractOrder' = <<>>
  BY DEF Restart, abstractOrder
<1> QED BY <1>2, <1>3 DEF Restart, Store!Killed

\* The helper starts as the store does.
LEMMA InitRefines == Init => Store!StoreInit
<1> SUFFICES ASSUME Init PROVE Store!StoreInit
  OBVIOUS
<1>1. \A c \in Call : AbsCall(call[c], replyQ, c) = Store!NoCall
  BY StoreData DEF Init, AbsCall, AbsState, Idle, NewCall, Store!NoCall
<1>2. abstractReq = [c \in Call |-> Store!NoCall]
  BY <1>1, AbsReq
<1>3. abstractOrder = <<>>
  BY DEF Init, abstractOrder
<1>4. table \in SUBSET Row /\ \A r, s \in table : r._id = s._id => r = s
  BY DEF Init, Row
<1> QED BY <1>2, <1>3, <1>4, StoreData DEF Store!StoreInit

\* Every step of the helper is one of the store's, or changes nothing it knows of.
LEMMA StepRefines == RInv /\ TypeOK' /\ [Next]_dbVars => [Store!StoreNext]_(Store!storeVars)
<1> SUFFICES ASSUME RInv, TypeOK', [Next]_dbVars
             PROVE  Store!StoreNext \/ Stutters
  BY DEF Stutters, Store!storeVars
<1>1. CASE NoMicrotask /\ Client
  <2>1. PICK c \in Call, op \in Ops, u \in User : Request(c, op, u)
    BY <1>1, ClientRequests
  <2> QED BY <2>1, RequestRefines DEF RInv, IInv, Store!StoreNext
<1>2. CASE PathReply
  BY <1>2, PathReplyRefines DEF Store!StoreNext
<1>3. CASE Grant
  BY <1>3, GrantRefines DEF Store!StoreNext
<1>4. CASE Native
  BY <1>4, NativeRefines DEF Store!StoreNext
<1>5. CASE Deliver
  BY <1>5, DeliverRefines DEF Store!StoreNext
<1>6. CASE \E c \in Call : Return(c)
  BY <1>6, ReturnRefines DEF Store!StoreNext
<1>7. CASE Restart
  BY <1>7, RestartRefines DEF Store!StoreNext
<1>8. CASE UNCHANGED dbVars
  BY <1>8 DEF Stutters, dbVars, plugin, abstractReq, abstractCall, abstractState, abstractOrder
<1> QED BY <1>1, <1>2, <1>3, <1>4, <1>5, <1>6, <1>7, <1>8 DEF Next, Plugin

\* The helper implements the store, step by step, for any number of calls: an
\* operation takes effect in the order it was requested in, or is refused without
\* effect while another's close() is unfinished; the directory, the lock and the
\* connection that initDB (sqFlite.dart:29) goes through change nothing besides.
THEOREM HelperStepsImplementStore == Spec => StepsImplementStore
<1>1. Init => Store!StoreInit
  BY InitRefines
<1>2. Init => RInv
  BY RInvInit
<1>3. RInv /\ [Next]_dbVars => RInv'
  BY RInvStep
<1>4. RInv => TypeOK
  BY DEF RInv, IInv
<1>5. RInv /\ TypeOK' /\ [Next]_dbVars => [Store!StoreNext]_(Store!storeVars)
  BY StepRefines
<1> QED BY <1>1, <1>2, <1>3, <1>4, <1>5, PTL DEF Spec, StepsImplementStore
=============================================================================
