--------------------------- MODULE TodoAppProofs ----------------------------
(***************************************************************************)
(* Proofs about TodoApp, for every number of calls, pages, names and ids.  *)
(*                                                                         *)
(* The helper's queues in a row are the calls in flight in the order they  *)
(* were requested.  All that the screens depend on is told by three things *)
(* about the calls: how far each has got (stage), which of two in flight   *)
(* is the older (before), and the results.  The first part shows how each  *)
(* step of the helper moves these; the second is about the screens: what    *)
(* each of their steps asks for, and that it keeps TodoInv.                *)
(***************************************************************************)
EXTENDS TodoApp, DatabaseHelperProofs, FiniteSetTheorems

Flight == ((replyQ \o cmdQ) \o waiters) \o pathQ

Ahead(q, c, d) == \E i, j \in 1 .. Len(q) : i < j /\ q[i] = c /\ q[j] = d

\* What UserStore knows of a call: idle, pending, effected or done.
stage  == [c \in Call |-> AbsState(call[c].pc, replyQ, c)]
before == {e \in Call \X Call : Ahead(Flight, e[1], e[2])}

Flying(c) == stage[c] \in {"pending", "effected"}

\* Every call under way is in the row, once.
FlightInv ==
  /\ Distinct(Flight)
  /\ \A c \in Call : Flying(c) => In(c, Flight)

HelperInv == RInv /\ FlightInv

-----------------------------------------------------------------------------
(* The screens. *)

\* The screens ask for four operations; keys are unique in all lists.
Unique(rows) == \A r, s \in rows : r._id = s._id => r = s
DataInv ==
  /\ Unique(table)
  /\ \A c \in Call : Unique(call[c].res.rows)
  /\ \A p \in Page : Unique(Listing(p))
OpsInv == \A c \in Call : call[c].op \in {"insertUser", "deleteUser", "getAllUsers", "close"}

\* Deletes in flight will find a second slot.
Deletes  == {c \in Call : call[c].op = "deleteUser" /\ call[c].pc # "idle"}
SpareInv == Cardinality(IdleCalls) >= Cardinality(Deletes)

Made(c, op, p) == stage[c] # "idle" /\ call[c].op = op /\ client[c].page = p

\* All pages but the top one are covered; a pushed page has asked for nothing.
PagesInv ==
  /\ \A i \in 1 .. Len(stack) - 1 : page[stack[i]].covered
  /\ \A p \in Page : page[p].phase = "pushed" =>
       /\ page[p].items = None
       /\ \A c \in Call : ~ Made(c, "getAllUsers", p) /\ ~ Made(c, "deleteUser", p)

\* A list with the rows of the table at the time it ran.
Answered(c) == stage[c] = "effected" \/ (stage[c] = "done" /\ call[c].res.ok)
Lists(c, p) == Made(c, "getAllUsers", p) /\ Answered(c)
Older(c, d) == stage[c] = "done" \/ <<c, d>> \in before

\* While an insert, or a delete from another page, is pending, the page has
\* shown nothing and its lists come after.
Foreign(m, p) ==
  /\ stage[m] = "pending"
  /\ call[m].op = "insertUser" \/ (call[m].op = "deleteUser" /\ client[m].page # p)
ForeignInv(p) ==
  \A m \in Call : Foreign(m, p) =>
    /\ page[p].items = None
    /\ \A c \in Call : Made(c, "getAllUsers", p) =>
         ~ Answered(c) /\ (stage[c] = "pending" => <<m, c>> \in before)

\* What the page shows, the lists on their way to it, the table: ever fewer rows.
ShrinkInv(p) ==
  /\ page[p].items # None => table \subseteq page[p].items
  /\ \A c \in Call : Lists(c, p) =>
       /\ table \subseteq call[c].res.rows
       /\ page[p].items # None => call[c].res.rows \subseteq page[p].items
       /\ \A d \in Call \ {c} : Lists(d, p) /\ Older(c, d) => call[d].res.rows \subseteq call[c].res.rows

\* A list that is out of date is followed by a delete that will fetch another.
StaleInv(p) ==
  \A c \in Call : Lists(c, p) /\ call[c].res.rows # table =>
    \E d \in Call : Made(d, "deleteUser", p) /\ stage[d] = "effected" /\ Older(c, d)

\* Something will bring the page up to date.
Refresher(c, p) ==
  \/ Made(c, "getAllUsers", p) /\ \/ stage[c] = "pending"
                                  \/ Answered(c) /\ call[c].res.rows = table
                                  \/ stage[c] = "done" /\ ~ call[c].res.ok
  \/ Made(c, "deleteUser", p) /\ Answered(c)
FreshInv(p) == page[p].failed \/ page[p].items = table \/ \E c \in Call : Refresher(c, p)

PageInv == \A p \in Page : OnTopSinceBuilt(p) => ForeignInv(p) /\ ShrinkInv(p) /\ StaleInv(p) /\ FreshInv(p)

\* A pending delete tapped on a page nothing was pushed on: the row, and no
\* insert before it.
TappedInv ==
  \A c \in Call : call[c].op = "deleteUser" /\ stage[c] = "pending" /\ ~ client[c].covered =>
    /\ Rows(call[c].arg.id) \subseteq {client[c].row}
    /\ \A m \in Call : call[m].op = "insertUser" /\ stage[m] = "pending" => <<c, m>> \in before

\* After an insert there is something else, or will be when the page is built.
ListPushed == \E p \in Page : page[p].phase = "pushed" /\ page[p].kind = "todo"
Goes(c) == stage[c] = "done" /\ call[c].res.ok /\ call[c].op \in {"getAllUsers", "deleteUser"}
AfterInserts == \A m \in Call : Flying(m) /\ call[m].op = "insertUser" =>
  ListPushed \/ \E d \in Call : Flying(d) /\ call[d].op # "insertUser" /\ <<m, d>> \in before
OpenInv ==
  /\ AfterInserts
  /\ conn = "open" /\ ~ leaked => ListPushed \/ \E c \in Call : Flying(c) \/ Goes(c)

-----------------------------------------------------------------------------
(* Who is in a queue, and who is ahead of whom. *)

\* A queue loses x and nothing else changes.
LosesOnly(q, r, x) ==
  /\ r \in Seq(Call) /\ Distinct(r)
  /\ \A c \in Call : In(c, r) <=> In(c, q) /\ c # x
  /\ \A c, d \in Call : Ahead(r, c, d) <=> Ahead(q, c, d) /\ c # x /\ d # x

\* In two queues in a row, everybody in the first is ahead of everybody in the second.
LEMMA InRow ==
  ASSUME NEW q \in Seq(Call), NEW r \in Seq(Call)
  PROVE  /\ q \o r \in Seq(Call)
         /\ \A c \in Call : In(c, q \o r) <=> In(c, q) \/ In(c, r)
         /\ \A c, d \in Call :
              Ahead(q \o r, c, d) <=> Ahead(q, c, d) \/ Ahead(r, c, d) \/ (In(c, q) /\ In(d, r))
         /\ Distinct(q \o r) <=> Distinct(q) /\ Distinct(r) /\ Disjoint(q, r)
<1>1. /\ q \o r \in Seq(Call) /\ Len(q \o r) = Len(q) + Len(r) /\ Len(q) \in Nat /\ Len(r) \in Nat
      /\ \A i \in 1 .. Len(q) : i \in 1 .. Len(q \o r) /\ (q \o r)[i] = q[i]
      /\ \A i \in 1 .. Len(r) : Len(q) + i \in 1 .. Len(q \o r) /\ (q \o r)[Len(q) + i] = r[i]
  <2>1. /\ q \o r \in Seq(Call) /\ Len(q \o r) = Len(q) + Len(r) /\ Len(q) \in Nat /\ Len(r) \in Nat
        /\ \A i \in 1 .. Len(q) + Len(r) : (q \o r)[i] = IF i <= Len(q) THEN q[i] ELSE r[i - Len(q)]
    BY ConcatProperties
  <2>2. \A m, n \in Nat : \A i \in 1 .. n : /\ m + i \in 1 .. m + n /\ ~ (m + i <= m) /\ (m + i) - m = i
                                            /\ i \in 1 .. n + m /\ i <= n
    OBVIOUS
  <2> QED BY <2>1, <2>2
<1>2. \A i \in 1 .. Len(q \o r) : i \in 1 .. Len(q) \/ \E k \in 1 .. Len(r) : i = Len(q) + k
  <2>1. \A m, n \in Nat : \A i \in 1 .. m + n : i \in 1 .. m \/ \E k \in 1 .. n : i = m + k
    <3>1. ASSUME NEW m \in Nat, NEW n \in Nat, NEW i \in 1 .. m + n, ~ (i \in 1 .. m)
          PROVE  \E k \in 1 .. n : i = m + k
      <4>1. i - m \in 1 .. n /\ i = m + (i - m)
        BY <3>1
      <4> QED BY <4>1
    <3> QED BY <3>1
  <2>2. Len(q) \in Nat /\ Len(r) \in Nat /\ Len(q \o r) = Len(q) + Len(r)
    BY <1>1
  <2>3. \A i \in 1 .. Len(q) + Len(r) : i \in 1 .. Len(q) \/ \E k \in 1 .. Len(r) : i = Len(q) + k
    BY <2>1, <2>2, Zenon
  <2> QED BY <2>2, <2>3, Zenon
<1> DEFINE s == q \o r
<1> HIDE DEF s
<1>3. ASSUME NEW c \in Call PROVE In(c, s) <=> In(c, q) \/ In(c, r)
  <2>1. ASSUME In(c, s) PROVE In(c, q) \/ In(c, r)
    <3>1. PICK i \in 1 .. Len(s) : s[i] = c
      BY <2>1 DEF In
    <3>2. CASE i \in 1 .. Len(q)
      BY <1>1, <3>1, <3>2 DEF In, s
    <3>3. CASE \E k \in 1 .. Len(r) : i = Len(q) + k
      BY <1>1, <3>1, <3>3 DEF In, s
    <3> QED BY <1>2, <3>2, <3>3 DEF s
  <2>2. In(c, q) => In(c, s)
    BY <1>1 DEF In, s
  <2>3. In(c, r) => In(c, s)
    BY <1>1 DEF In, s
  <2> QED BY <2>1, <2>2, <2>3
<1>4. ASSUME NEW c \in Call, NEW d \in Call
      PROVE  Ahead(s, c, d) <=> Ahead(q, c, d) \/ Ahead(r, c, d) \/ (In(c, q) /\ In(d, r))
  <2>1. ASSUME Ahead(s, c, d) PROVE Ahead(q, c, d) \/ Ahead(r, c, d) \/ (In(c, q) /\ In(d, r))
    <3>1. PICK i \in 1 .. Len(s), j \in 1 .. Len(s) : i < j /\ s[i] = c /\ s[j] = d
      BY <2>1 DEF Ahead
    <3>2. CASE j \in 1 .. Len(q)
      <4>1. i \in 1 .. Len(q)
        BY <1>1, <3>1, <3>2 DEF s
      <4> QED BY <1>1, <3>1, <3>2, <4>1 DEF Ahead, s
    <3>3. CASE \E k \in 1 .. Len(r) : j = Len(q) + k
      <4>1. PICK k \in 1 .. Len(r) : j = Len(q) + k
        BY <3>3
      <4>2. r[k] = d
        BY <1>1, <3>1, <4>1 DEF s
      <4>3. CASE i \in 1 .. Len(q)
        BY <1>1, <3>1, <4>2, <4>3 DEF In, s
      <4>4. CASE \E l \in 1 .. Len(r) : i = Len(q) + l
        <5>1. PICK l \in 1 .. Len(r) : i = Len(q) + l
          BY <4>4
        <5>2. r[l] = c /\ l < k
          BY <1>1, <3>1, <4>1, <5>1 DEF s
        <5> QED BY <4>2, <5>2 DEF Ahead
      <4> QED BY <1>2, <3>1, <4>3, <4>4 DEF s
    <3> QED BY <1>2, <3>1, <3>2, <3>3 DEF s
  <2>2. Ahead(q, c, d) => Ahead(s, c, d)
    BY <1>1 DEF Ahead, s
  <2>3. ASSUME Ahead(r, c, d) PROVE Ahead(s, c, d)
    <3>1. PICK i \in 1 .. Len(r), j \in 1 .. Len(r) : i < j /\ r[i] = c /\ r[j] = d
      BY <2>3 DEF Ahead
    <3>2. Len(q) + i < Len(q) + j
      BY <1>1, <3>1
    <3> QED BY <1>1, <3>1, <3>2 DEF Ahead, s
  <2>4. ASSUME In(c, q), In(d, r) PROVE Ahead(s, c, d)
    <3>1. PICK i \in 1 .. Len(q), j \in 1 .. Len(r) : q[i] = c /\ r[j] = d
      BY <2>4 DEF In
    <3>2. i < Len(q) + j
      BY <1>1
    <3> QED BY <1>1, <3>1, <3>2 DEF Ahead, s
  <2> QED BY <2>1, <2>2, <2>3, <2>4
<1>5. Distinct(s) <=> Distinct(q) /\ Distinct(r) /\ Disjoint(q, r)
  <2>1. ASSUME Distinct(s) PROVE Distinct(q) /\ Distinct(r) /\ Disjoint(q, r)
    <3>1. Distinct(q)
      BY <1>1, <2>1 DEF Distinct, s
    <3>2. ASSUME NEW i \in 1 .. Len(r), NEW j \in 1 .. Len(r), r[i] = r[j] PROVE i = j
      <4>1. Len(q) + i = Len(q) + j
        BY <1>1, <2>1, <3>2 DEF Distinct, s
      <4> QED BY <1>1, <4>1
    <3>3. ASSUME NEW i \in 1 .. Len(q), NEW j \in 1 .. Len(r) PROVE q[i] # r[j]
      <4>1. i # Len(q) + j
        BY <1>1
      <4> QED BY <1>1, <2>1, <4>1 DEF Distinct, s
    <3> QED BY <3>1, <3>2, <3>3 DEF Disjoint, Distinct
  <2>2. ASSUME Distinct(q), Distinct(r), Disjoint(q, r), NEW i \in 1 .. Len(s), NEW j \in 1 .. Len(s), s[i] = s[j]
        PROVE  i = j
    <3>1. CASE i \in 1 .. Len(q) /\ j \in 1 .. Len(q)
      BY <1>1, <2>2, <3>1 DEF Distinct, s
    <3>2. CASE i \in 1 .. Len(q) /\ \E k \in 1 .. Len(r) : j = Len(q) + k
      BY <1>1, <2>2, <3>2 DEF Disjoint, s
    <3>3. CASE j \in 1 .. Len(q) /\ \E k \in 1 .. Len(r) : i = Len(q) + k
      BY <1>1, <2>2, <3>3 DEF Disjoint, s
    <3>4. CASE (\E k \in 1 .. Len(r) : i = Len(q) + k) /\ \E k \in 1 .. Len(r) : j = Len(q) + k
      BY <1>1, <2>2, <3>4 DEF Distinct, s
    <3> QED BY <1>2, <3>1, <3>2, <3>3, <3>4 DEF s
  <2> QED BY <2>1, <2>2 DEF Distinct
<1> QED BY <1>1, <1>3, <1>4, <1>5 DEF s

\* In a queue without repetitions, of two calls one is ahead, and only one.
LEMMA AheadOrders ==
  ASSUME NEW q \in Seq(Call), Distinct(q)
  PROVE  \A c, d \in Call :
           /\ Ahead(q, c, d) => In(c, q) /\ In(d, q) /\ c # d /\ ~ Ahead(q, d, c)
           /\ In(c, q) /\ In(d, q) /\ c # d => Ahead(q, c, d) \/ Ahead(q, d, c)
<1> SUFFICES ASSUME NEW c \in Call, NEW d \in Call
             PROVE  /\ Ahead(q, c, d) => In(c, q) /\ In(d, q) /\ c # d /\ ~ Ahead(q, d, c)
                    /\ In(c, q) /\ In(d, q) /\ c # d => Ahead(q, c, d) \/ Ahead(q, d, c)
  OBVIOUS
<1>1. ASSUME Ahead(q, c, d) PROVE In(c, q) /\ In(d, q) /\ c # d /\ ~ Ahead(q, d, c)
  BY <1>1 DEF Ahead, In, Distinct
<1>2. ASSUME In(c, q), In(d, q), c # d PROVE Ahead(q, c, d) \/ Ahead(q, d, c)
  <2>1. PICK i \in 1 .. Len(q), j \in 1 .. Len(q) : q[i] = c /\ q[j] = d
    BY <1>2 DEF In
  <2>2. i < j \/ j < i
    BY <1>2, <2>1
  <2> QED BY <2>1, <2>2 DEF Ahead
<1> QED BY <1>1, <1>2

\* The first is ahead of all others; when it leaves, nothing else changes.
LEMMA HeadLeaves ==
  ASSUME NEW q \in Seq(Call), q # <<>>, Distinct(q)
  PROVE  /\ LosesOnly(q, Tail(q), Head(q)) /\ In(Head(q), q) /\ Head(q) \in Call
         /\ \A d \in Call : In(d, q) /\ d # Head(q) => Ahead(q, Head(q), d)
<1>1. /\ Tail(q) \in Seq(Call) /\ Head(q) \in Call
      /\ Len(q) \in Nat /\ Len(q) >= 1 /\ Len(Tail(q)) = Len(q) - 1
      /\ \A i \in 1 .. Len(Tail(q)) : i + 1 \in 1 .. Len(q) /\ Tail(q)[i] = q[i + 1]
      /\ Head(q) = q[1] /\ 1 \in 1 .. Len(q)
  BY TailElements
<1> DEFINE t == Tail(q)
           h == Head(q)
<1> HIDE DEF t, h
<1>2. \A i \in 1 .. Len(q) : i = 1 \/ (i - 1 \in 1 .. Len(t) /\ t[i - 1] = q[i])
  BY <1>1 DEF t
<1>3. Distinct(t) /\ \A i \in 1 .. Len(t) : t[i] # h
  BY <1>1 DEF Distinct, t, h
<1>4. ASSUME NEW c \in Call PROVE In(c, t) <=> In(c, q) /\ c # h
  <2>1. ASSUME In(c, t) PROVE In(c, q) /\ c # h
    BY <1>1, <1>3, <2>1 DEF In, t
  <2>2. ASSUME In(c, q), c # h PROVE In(c, t)
    <3>1. PICK i \in 1 .. Len(q) : q[i] = c
      BY <2>2 DEF In
    <3>2. i - 1 \in 1 .. Len(t) /\ t[i - 1] = c
      BY <1>1, <1>2, <2>2, <3>1 DEF h
    <3> QED BY <3>2 DEF In
  <2> QED BY <2>1, <2>2
<1>5. ASSUME NEW c \in Call, NEW d \in Call
      PROVE  Ahead(t, c, d) <=> Ahead(q, c, d) /\ c # h /\ d # h
  <2>1. ASSUME Ahead(t, c, d) PROVE Ahead(q, c, d) /\ c # h /\ d # h
    <3>1. PICK i \in 1 .. Len(t), j \in 1 .. Len(t) : i < j /\ t[i] = c /\ t[j] = d
      BY <2>1 DEF Ahead
    <3>2. i + 1 < j + 1 /\ q[i + 1] = c /\ q[j + 1] = d /\ i + 1 \in 1 .. Len(q) /\ j + 1 \in 1 .. Len(q)
      BY <1>1, <3>1 DEF t
    <3> QED BY <1>3, <3>1, <3>2 DEF Ahead
  <2>2. ASSUME Ahead(q, c, d), c # h, d # h PROVE Ahead(t, c, d)
    <3>1. PICK i \in 1 .. Len(q), j \in 1 .. Len(q) : i < j /\ q[i] = c /\ q[j] = d
      BY <2>2 DEF Ahead
    <3>2. /\ i - 1 \in 1 .. Len(t) /\ t[i - 1] = c
          /\ j - 1 \in 1 .. Len(t) /\ t[j - 1] = d
      BY <1>1, <1>2, <2>2, <3>1 DEF h
    <3>3. i - 1 < j - 1
      BY <1>1, <3>1
    <3> QED BY <3>2, <3>3 DEF Ahead
  <2> QED BY <2>1, <2>2
<1>6. \A d \in Call : In(d, q) /\ d # h => Ahead(q, h, d)
  BY <1>1 DEF In, Ahead, h
<1>7. In(h, q)
  BY <1>1 DEF In, h
<1> QED BY <1>1, <1>3, <1>4, <1>5, <1>6, <1>7 DEF LosesOnly, t, h

\* The first of a queue leaves; there may be another queue before it.
LEMMA LeavesRow ==
  ASSUME NEW q \in Seq(Call), NEW r \in Seq(Call), r # <<>>, Distinct(q \o r)
  PROVE  /\ LosesOnly(q \o r, q \o Tail(r), Head(r)) /\ In(Head(r), q \o r) /\ Head(r) \in Call
         /\ \A d \in Call : In(d, q \o r) /\ d # Head(r) => In(d, q) \/ Ahead(q \o r, Head(r), d)
<1>1. Distinct(q) /\ Distinct(r) /\ Disjoint(q, r)
  BY InRow
<1>2. /\ LosesOnly(r, Tail(r), Head(r)) /\ In(Head(r), r) /\ Head(r) \in Call
      /\ \A d \in Call : In(d, r) /\ d # Head(r) => Ahead(r, Head(r), d)
  BY <1>1, HeadLeaves
<1> DEFINE t == Tail(r)
           h == Head(r)
<1> HIDE DEF t, h
<1>3. /\ t \in Seq(Call) /\ Distinct(t) /\ h \in Call
      /\ \A c \in Call : In(c, t) <=> In(c, r) /\ c # h
      /\ \A c, d \in Call : Ahead(t, c, d) <=> Ahead(r, c, d) /\ c # h /\ d # h
  BY <1>2 DEF LosesOnly, t, h
<1>4. ~ In(h, q) /\ In(h, r)
  BY <1>1, <1>2 DEF Disjoint, In, h
<1>5. Disjoint(q, t)
  <2>1. \A i \in 1 .. Len(t) : In(t[i], t) /\ t[i] \in Call
    BY <1>3 DEF In
  <2>2. \A i \in 1 .. Len(t) : \E k \in 1 .. Len(r) : t[i] = r[k]
    BY <1>3, <2>1 DEF In
  <2> QED BY <1>1, <2>2 DEF Disjoint
<1>6. \A c, d \in Call : Ahead(q, c, d) => In(c, q) /\ In(d, q)
  BY DEF Ahead, In
<1>7. q \o t \in Seq(Call) /\ Distinct(q \o t)
  BY <1>1, <1>3, <1>5, InRow
<1>8. \A c \in Call : In(c, q \o t) <=> In(c, q \o r) /\ c # h
  BY <1>3, <1>4, InRow
<1>9. \A c, d \in Call : Ahead(q \o t, c, d) <=> Ahead(q \o r, c, d) /\ c # h /\ d # h
  BY <1>3, <1>4, <1>6, InRow
<1>10. In(h, q \o r) /\ \A d \in Call : In(d, q \o r) /\ d # h => In(d, q) \/ Ahead(q \o r, h, d)
  BY <1>2, <1>3, <1>4, InRow DEF h
<1> QED BY <1>3, <1>7, <1>8, <1>9, <1>10 DEF LosesOnly, t, h

-----------------------------------------------------------------------------
(* The calls in flight. *)

\* The four queues, in a row.
LEMMA Queues ==
  ASSUME TypeOK
  PROVE  /\ pathQ \in Seq(Call) /\ waiters \in Seq(Call) /\ cmdQ \in Seq(Call) /\ replyQ \in Seq(Call)
         /\ replyQ \o cmdQ \in Seq(Call) /\ (replyQ \o cmdQ) \o waiters \in Seq(Call)
         /\ Flight \in Seq(Call)
         /\ \A c \in Call : In(c, Flight) <=> \/ In(c, replyQ) \/ In(c, cmdQ)
                                              \/ In(c, waiters) \/ In(c, pathQ)
<1>1. pathQ \in Seq(Call) /\ waiters \in Seq(Call) /\ cmdQ \in Seq(Call) /\ replyQ \in Seq(Call)
  BY DEF TypeOK
<1>2. /\ replyQ \o cmdQ \in Seq(Call)
      /\ \A c \in Call : In(c, replyQ \o cmdQ) <=> In(c, replyQ) \/ In(c, cmdQ)
  BY <1>1, InRow
<1>3. /\ (replyQ \o cmdQ) \o waiters \in Seq(Call)
      /\ \A c \in Call : In(c, (replyQ \o cmdQ) \o waiters) <=> In(c, replyQ \o cmdQ) \/ In(c, waiters)
  BY <1>1, <1>2, InRow
<1>4. /\ Flight \in Seq(Call)
      /\ \A c \in Call : In(c, Flight) <=> In(c, (replyQ \o cmdQ) \o waiters) \/ In(c, pathQ)
  BY <1>1, <1>3, InRow DEF Flight
<1> QED BY <1>1, <1>2, <1>3, <1>4

\* before is the order of the row.
LEMMA BeforeIs ==
  /\ \A c, d \in Call : <<c, d>> \in before <=> Ahead(Flight, c, d)
  /\ \A c, d \in Call : <<c, d>> \in before' <=> Ahead(Flight', c, d)
<1>1. \A c, d \in Call : <<c, d>> \in before <=> Ahead(Flight, c, d)
  BY DEF before
<1>2. \A c, d \in Call : <<c, d>> \in before' <=> Ahead(Flight', c, d)
  BY DEF before, Ahead
<1> QED BY <1>1, <1>2

\* stage is what UserStore knows of a call, before and after a step.
LEMMA StageIs ==
  /\ stage = [c \in Call |-> AbsState(call[c].pc, replyQ, c)]
  /\ stage' = [c \in Call |-> AbsState(call'[c].pc, replyQ', c)]
  BY DEF stage, AbsState, In

\* The calls in flight are those in the row; of two of them one is older, and a
\* call that has taken effect is older than one that has not.
LEMMA FlightOrder ==
  ASSUME HelperInv
  PROVE  /\ \A c \in Call : In(c, Flight) <=> Flying(c)
         /\ \A c, d \in Call :
              <<c, d>> \in before => Flying(c) /\ Flying(d) /\ c # d /\ <<d, c>> \notin before
         /\ \A c, d \in Call : Flying(c) /\ Flying(d) /\ c # d => <<c, d>> \in before \/ <<d, c>> \in before
         /\ \A c, d \in Call : stage[c] = "effected" /\ stage[d] = "pending" => <<c, d>> \in before
         /\ \A c \in Call : stage[c] = "effected" => In(c, replyQ) /\ call[c].pc = "native"
<1>1. TypeOK /\ WaitInv /\ SentInv /\ FlightInv
  BY DEF HelperInv, RInv, IInv
<1>2. \A q, pc : AllAt(call, q, pc) => \A c : In(c, q) => call[c].pc = pc
  BY DEF AllAt, In
<1>3. \A c : /\ In(c, pathQ) => call[c].pc = "path"
             /\ In(c, waiters) => call[c].pc = "lock"
             /\ In(c, cmdQ) => call[c].pc = SentPc
             /\ In(c, replyQ) => call[c].pc = SentPc
  BY <1>1, <1>2 DEF WaitInv, SentInv
<1>4. SentPc \in {"open", "native"}
  BY DEF SentPc
<1>5. \A c \in Call : In(c, Flight) <=> Flying(c)
  <2>1. \A c \in Call : In(c, Flight) => call[c].pc \notin {"idle", "done"}
    BY <1>1, <1>3, <1>4, Queues
  <2>2. \A c \in Call : In(c, Flight) => Flying(c)
    BY <2>1 DEF Flying, stage, AbsState
  <2> QED BY <1>1, <2>2 DEF FlightInv
<1>6. \A c, d \in Call :
        /\ Ahead(Flight, c, d) => In(c, Flight) /\ In(d, Flight) /\ c # d /\ ~ Ahead(Flight, d, c)
        /\ In(c, Flight) /\ In(d, Flight) /\ c # d => Ahead(Flight, c, d) \/ Ahead(Flight, d, c)
  BY <1>1, Queues, AheadOrders DEF FlightInv
<1>7. \A c \in Call : stage[c] = "effected" => In(c, replyQ) /\ call[c].pc = "native"
  BY DEF stage, AbsState
<1>8. ASSUME NEW c \in Call, NEW d \in Call, stage[c] = "effected", stage[d] = "pending"
      PROVE  Ahead(Flight, c, d)
  <2>1. In(c, replyQ) /\ call[c].pc = "native" /\ SentPc = "native"
    BY <1>3, <1>7, <1>8
  <2>2. ~ In(d, replyQ)
    BY <1>3, <1>8, <2>1 DEF stage, AbsState
  <2>3. In(d, Flight)
    BY <1>5, <1>8 DEF Flying
  <2>4. In(d, cmdQ) \/ In(d, waiters) \/ In(d, pathQ)
    BY <1>1, <2>2, <2>3, Queues
  <2>5. In(d, cmdQ) => Ahead(replyQ \o cmdQ, c, d)
    BY <1>1, <2>1, Queues, InRow
  <2>6. In(c, replyQ \o cmdQ) /\ In(c, (replyQ \o cmdQ) \o waiters)
    BY <1>1, <2>1, Queues, InRow
  <2>7. In(d, waiters) \/ Ahead(replyQ \o cmdQ, c, d) => Ahead((replyQ \o cmdQ) \o waiters, c, d)
    BY <1>1, <2>6, Queues, InRow
  <2>8. In(d, pathQ) \/ Ahead((replyQ \o cmdQ) \o waiters, c, d) => Ahead(Flight, c, d)
    BY <1>1, <2>6, Queues, InRow DEF Flight
  <2> QED BY <2>4, <2>5, <2>7, <2>8
<1> QED BY <1>5, <1>6, <1>7, <1>8, BeforeIs

-----------------------------------------------------------------------------
(* What a step of the plugin is for the screens. *)

KeepsAsking == \A d \in Call : call'[d].op = call[d].op /\ call'[d].arg = call[d].arg
OtherResults(c) == \A d \in Call \ {c} : call'[d].res = call[d].res
Forgets(c) == before' = {e \in before : c # e[1] /\ c # e[2]}

\* Nothing that they could see.
Unseen ==
  /\ UNCHANGED <<table, stage, before>>
  /\ KeepsAsking /\ \A d \in Call : call'[d].res = call[d].res
  /\ conn' = "open" => \E c \in Call : Flying(c)

\* The oldest call that is pending takes effect.
Effect(c) ==
  /\ call[c].op = "insertUser" =>
       /\ call'[c].res.rows = {}
       /\ \/ table' = table
          \/ \E r \in Row : Rows(r._id) = {} /\ table' = table \cup {r}
  /\ call[c].op = "deleteUser" => table' = table \ Rows(call[c].arg.id) /\ call'[c].res.rows = {}
  /\ call[c].op = "getAllUsers" => table' = table /\ call'[c].res.rows = table
  /\ call[c].op = "close" => table' = table /\ call'[c].res.rows = {}
Runs(c) ==
  /\ stage[c] = "pending" /\ \A d \in Call : stage[d] = "pending" => <<d, c>> \notin before
  /\ stage' = [stage EXCEPT ![c] = "effected"]
  /\ KeepsAsking /\ OtherResults(c)
  /\ UNCHANGED <<conn, before>>
  /\ call[c].op \in {"insertUser", "deleteUser", "getAllUsers", "close"} => Effect(c)

\* The oldest call in flight is over, and none was waiting to be taken.
Settles(c) ==
  /\ stage[c] = "effected" /\ \A d \in Call : Flying(d) /\ d # c => <<c, d>> \in before
  /\ \A d \in Call : stage[d] # "done"
  /\ stage' = [stage EXCEPT ![c] = "done"]
  /\ KeepsAsking /\ \A d \in Call : call'[d].res = call[d].res
  /\ Forgets(c)
  /\ call[c].op \in ById => call[c].res.ok
  /\ conn' = (IF call[c].op = "close" THEN "none" ELSE conn)
  /\ UNCHANGED table

\* A call is refused: there is a close, and nothing between it and the call.
Refused(c) ==
  /\ stage[c] = "pending"
  /\ \E k \in Call : /\ Flying(k) /\ call[k].op = "close" /\ k # c
                     /\ \A d \in Call : Flying(d) /\ d \notin {c, k} => <<d, k>> \in before \/ <<c, d>> \in before
  /\ stage' = [stage EXCEPT ![c] = "done"]
  /\ KeepsAsking /\ OtherResults(c)
  /\ call'[c].res.rows = {} /\ (call'[c].res.ok <=> call[c].op = "close")
  /\ Forgets(c)
  /\ conn' = "closing"
  /\ UNCHANGED table

\* A step of one call moves that call alone to another stage.
LEMMA StageStep ==
  ASSUME NEW c \in Call, SameBut(call, call', c),
         \A d \in Call \ {c} : In(d, replyQ') <=> In(d, replyQ)
  PROVE  stage' = [stage EXCEPT ![c] = AbsState(call'[c].pc, replyQ', c)]
<1>1. \A d \in Call \ {c} : AbsState(call'[d].pc, replyQ', d) = AbsState(call[d].pc, replyQ, d)
  BY DEF SameBut, AbsState
<1> QED BY <1>1, StageIs

\* The row stays what it is, and nobody joins those in flight.
LEMMA RowStays ==
  ASSUME FlightInv, Flight' = Flight, \A d \in Call : stage'[d] \in {"pending", "effected"} => Flying(d)
  PROVE  FlightInv' /\ before' = before
<1>1. Distinct(Flight)' /\ \A d \in Call : In(d, Flight)' <=> In(d, Flight)
  BY DEF FlightInv, Distinct, In
<1>2. FlightInv'
  BY <1>1 DEF FlightInv, Flying
<1>3. before' = before
  BY BeforeIs DEF before, Ahead
<1> QED BY <1>2, <1>3

\* c leaves the row.
LEMMA RowLoses ==
  ASSUME FlightInv, NEW c \in Call, LosesOnly(Flight, Flight', c),
         \A d \in Call : stage'[d] \in {"pending", "effected"} => Flying(d) /\ d # c
  PROVE  FlightInv' /\ Forgets(c)
<1>1. Distinct(Flight)' /\ \A d \in Call : In(d, Flight)' <=> In(d, Flight')
  BY DEF LosesOnly, Distinct, In
<1>2. FlightInv'
  BY <1>1 DEF FlightInv, Flying, LosesOnly
<1>3. \A d, e \in Call : <<d, e>> \in before' <=> <<d, e>> \in before /\ d # c /\ e # c
  BY BeforeIs DEF LosesOnly
<1>4. /\ \A x \in before : x \in Call \X Call
      /\ \A x \in before' : x \in Call \X Call
  BY DEF before
<1>5. ASSUME NEW x \in Call \X Call PROVE x \in before' <=> x \in before /\ c # x[1] /\ c # x[2]
  <2>1. x = <<x[1], x[2]>> /\ x[1] \in Call /\ x[2] \in Call
    OBVIOUS
  <2> QED BY <1>3, <2>1
<1>6. before' = {e \in before : c # e[1] /\ c # e[2]}
  BY <1>4, <1>5
<1> QED BY <1>2, <1>6 DEF Forgets

\* What Issue does to a call that has a connection to issue it on.
LEMMA IssueMoves ==
  ASSUME TypeOK, NEW c \in Call, Issue(c)
  PROVE  /\ SameBut(call, call', c)
         /\ call'[c].op = call[c].op /\ call'[c].arg = call[c].arg
         /\ conn = "closing" =>
              /\ call'[c].pc = "done" /\ call'[c].res.rows = {}
              /\ call'[c].res.ok <=> call[c].op = "close"
              /\ UNCHANGED <<conn, cmdQ>>
         /\ conn # "closing" =>
              /\ call'[c].pc = "native" /\ call'[c].res = call[c].res
              /\ cmdQ' = Append(cmdQ, c)
              /\ conn' \in {"open", "closing"}
<1>1. call \in [Call -> Calls]
  BY DEF TypeOK
<1>2. CASE conn = "closing"
  <2> DEFINE res == IF call[c].op = "close" THEN Success(0) ELSE Failure
  <2>1. call' = [call EXCEPT ![c].pc = "done", ![c].res = res] /\ UNCHANGED <<conn, cmdQ>>
    BY <1>2 DEF Issue
  <2>2. res.rows = {} /\ (res.ok <=> call[c].op = "close")
    BY DEF Success, Failure
  <2> HIDE DEF res
  <2> QED BY <1>1, <1>2, <2>1, <2>2 DEF Calls, SameBut
<1>3. CASE conn # "closing"
  <2>1. /\ call' = [call EXCEPT ![c].pc = "native"] /\ cmdQ' = Append(cmdQ, c)
        /\ conn' \in {"open", "closing"}
    BY <1>3 DEF Issue
  <2> QED BY <1>1, <1>3, <2>1 DEF Calls, SameBut
<1> QED BY <1>2, <1>3

\* Everybody else in a queue is ahead of the last.
LEMMA LastIsBehind ==
  ASSUME NEW q \in Seq(Call), q # <<>>
  PROVE  /\ q[Len(q)] \in Call /\ In(q[Len(q)], q)
         /\ \A d \in Call : In(d, q) /\ d # q[Len(q)] => Ahead(q, d, q[Len(q)])
<1>1. Len(q) \in 1 .. Len(q)
  OBVIOUS
<1>2. \A i \in 1 .. Len(q) : i = Len(q) \/ i < Len(q)
  BY <1>1
<1> QED BY <1>1, <1>2 DEF In, Ahead

\* While the connection is being closed, the close is behind all other commands.
LEMMA CloseIsBehind ==
  ASSUME TypeOK, CloseInv, conn = "closing"
  PROVE  \E k \in Call : /\ call[k].op = "close" /\ In(k, replyQ \o cmdQ)
                         /\ \A d \in Call : In(d, replyQ \o cmdQ) /\ d # k => Ahead(replyQ \o cmdQ, d, k)
<1>1. replyQ \in Seq(Call) /\ cmdQ \in Seq(Call)
  BY DEF TypeOK
<1>2. CASE cmdQ = <<>>
  <2> DEFINE k == replyQ[Len(replyQ)]
  <2>1. replyQ # <<>> /\ call[k].op = "close" /\ replyQ \o cmdQ = replyQ
    BY <1>1, <1>2 DEF CloseInv
  <2> QED BY <1>1, <2>1, LastIsBehind
<1>3. CASE cmdQ # <<>>
  <2> DEFINE k == cmdQ[Len(cmdQ)]
  <2>1. call[k].op = "close"
    BY <1>3 DEF CloseInv
  <2>2. /\ k \in Call /\ In(k, cmdQ)
        /\ \A d \in Call : In(d, cmdQ) /\ d # k => Ahead(cmdQ, d, k)
    BY <1>1, <1>3, LastIsBehind
  <2> HIDE DEF k
  <2>3. In(k, replyQ \o cmdQ) /\ \A d \in Call : In(d, replyQ \o cmdQ) /\ d # k => Ahead(replyQ \o cmdQ, d, k)
    BY <1>1, <2>2, InRow
  <2> QED BY <2>1, <2>2, <2>3 DEF k
<1> QED BY <1>2, <1>3

\* The first of those that have no connection yet is refused.
LEMMA IssueRefuses ==
  ASSUME HelperInv, NEW c \in Call, call[c].pc \in {"path", "lock"}, conn = "closing", Issue(c),
         NEW r \in Seq(Call), r # <<>>, c = Head(r),
         Flight = (replyQ \o cmdQ) \o r, Flight' = (replyQ \o cmdQ) \o Tail(r),
         UNCHANGED <<table, replyQ>>
  PROVE  Refused(c) /\ FlightInv'
<1>0. TypeOK /\ CloseInv /\ FlightInv /\ replyQ \o cmdQ \in Seq(Call)
  BY Queues DEF HelperInv, RInv, IInv
<1>1. /\ SameBut(call, call', c) /\ call'[c].op = call[c].op /\ call'[c].arg = call[c].arg
      /\ call'[c].pc = "done" /\ call'[c].res.rows = {} /\ conn' = "closing"
      /\ call'[c].res.ok <=> call[c].op = "close"
  BY <1>0, IssueMoves
<1>2. stage' = [stage EXCEPT ![c] = "done"]
  <2>1. AbsState(call'[c].pc, replyQ', c) = "done"
    BY <1>1 DEF AbsState
  <2>2. \A d \in Call \ {c} : In(d, replyQ') <=> In(d, replyQ)
    OBVIOUS
  <2> QED BY <1>1, <2>1, <2>2, StageStep
<1>3. stage[c] = "pending" /\ stage \in [Call -> {"idle", "done", "effected", "pending"}]
  BY DEF stage, AbsState
<1>4. /\ LosesOnly(Flight, Flight', c)
      /\ \A d \in Call : In(d, Flight) /\ d # c => In(d, replyQ \o cmdQ) \/ Ahead(Flight, c, d)
  BY <1>0, LeavesRow DEF FlightInv
<1>5. FlightInv' /\ Forgets(c)
  <2>1. \A d \in Call : stage'[d] \in {"pending", "effected"} => Flying(d) /\ d # c
    BY <1>2, <1>3 DEF Flying
  <2> QED BY <1>0, <1>4, <2>1, RowLoses
<1>6. \E k \in Call : /\ Flying(k) /\ call[k].op = "close" /\ k # c
                      /\ \A d \in Call : Flying(d) /\ d \notin {c, k} => <<d, k>> \in before \/ <<c, d>> \in before
  <2>1. PICK k \in Call : /\ call[k].op = "close" /\ In(k, replyQ \o cmdQ)
                          /\ \A d \in Call : In(d, replyQ \o cmdQ) /\ d # k => Ahead(replyQ \o cmdQ, d, k)
    BY <1>0, CloseIsBehind
  <2>2. /\ In(k, Flight)
        /\ \A d \in Call : In(d, replyQ \o cmdQ) /\ d # k => Ahead(Flight, d, k)
    BY <1>0, <2>1, InRow
  <2>3. k # c
    <3>1. Disjoint(replyQ \o cmdQ, r)
      BY <1>0, InRow DEF FlightInv
    <3>2. 1 \in 1 .. Len(r) /\ r[1] = c
      BY TailElements
    <3> QED BY <2>1, <3>1, <3>2 DEF Disjoint, In
  <2>4. Flying(k)
    BY <2>2, FlightOrder
  <2>5. \A d \in Call : Flying(d) /\ d \notin {c, k} => <<d, k>> \in before \/ <<c, d>> \in before
    BY <1>4, <2>2, FlightOrder, BeforeIs
  <2> QED BY <2>1, <2>3, <2>4, <2>5
<1>7. KeepsAsking /\ OtherResults(c)
  BY <1>1 DEF KeepsAsking, OtherResults, SameBut
<1> QED BY <1>1, <1>2, <1>3, <1>5, <1>6, <1>7 DEF Refused

\* A step of one pending call that keeps its place in the row.
LEMMA UnseenStep ==
  ASSUME HelperInv, NEW c \in Call, SameBut(call, call', c),
         call'[c].op = call[c].op, call'[c].arg = call[c].arg, call'[c].res = call[c].res,
         \A d \in Call \ {c} : In(d, replyQ') <=> In(d, replyQ),
         stage[c] = "pending", AbsState(call'[c].pc, replyQ', c) = "pending",
         Flight' = Flight, UNCHANGED table
  PROVE  Unseen /\ FlightInv'
<1>1. stage' = stage
  <2>1. stage' = [stage EXCEPT ![c] = "pending"]
    BY StageStep
  <2>2. stage = [d \in Call |-> stage[d]]
    BY StageIs
  <2> QED BY <2>1, <2>2
<1>2. FlightInv' /\ before' = before
  BY <1>1, RowStays DEF HelperInv, Flying
<1>3. KeepsAsking /\ \A d \in Call : call'[d].res = call[d].res
  BY DEF KeepsAsking, SameBut
<1> QED BY <1>1, <1>2, <1>3 DEF Unseen, Flying

\* The first of r goes to the end of w, or to the end of q when w is empty.
LEMMA RowMoves ==
  ASSUME NEW a \in Seq(Call), NEW q \in Seq(Call), NEW r \in Seq(Call), r # <<>>
  PROVE  /\ (a \o Append(q, Head(r))) \o Tail(r) = (a \o q) \o r
         /\ ((a \o Append(q, Head(r))) \o <<>>) \o Tail(r) = ((a \o q) \o <<>>) \o r
<1>1. Head(r) \in Call /\ Append(q, Head(r)) = q \o <<Head(r)>> /\ <<Head(r)>> \in Seq(Call)
  BY TailElements, AppendIsConcat
<1>2. a \o q \in Seq(Call)
  BY ConcatProperties
<1>3. a \o (q \o <<Head(r)>>) = (a \o q) \o <<Head(r)>>
  BY <1>1, Associative, Zenon
<1>4. (a \o q) \o <<Head(r)>> = Append(a \o q, Head(r))
  BY <1>1, <1>2, AppendIsConcat
<1>5. a \o Append(q, Head(r)) = Append(a \o q, Head(r)) /\ Append(a \o q, Head(r)) \in Seq(Call)
  BY <1>1, <1>2, <1>3, <1>4, AppendElements
<1>6. Append(a \o q, Head(r)) \o Tail(r) = (a \o q) \o r
  BY <1>2, HeadMoves
<1>7. \A s \in Seq(Call) : s \o <<>> = s
  BY ConcatEmptySeq
<1>8. /\ (a \o Append(q, Head(r))) \o <<>> = a \o Append(q, Head(r))
      /\ (a \o q) \o <<>> = a \o q
  BY <1>2, <1>5, <1>7
<1> QED BY <1>5, <1>6, <1>8

\* The directory arrives: the call goes on unseen, or it is refused.
LEMMA PathReplyMoves ==
  ASSUME HelperInv, PathReply
  PROVE  FlightInv' /\ (Unseen \/ \E c \in Call : Refused(c))
<1> DEFINE c == Head(pathQ)
<1>0. TypeOK /\ IInv /\ ConnInv /\ FlightInv
  BY DEF HelperInv, RInv, IInv
<1>1. /\ pathQ # <<>> /\ pathQ' = Tail(pathQ) /\ c \in Call /\ call[c].pc = "path"
      /\ UNCHANGED <<table, replyQ>> /\ NoMicrotask
  BY <1>0, Heads DEF PathReply
<1>2. /\ pathQ \in Seq(Call) /\ waiters \in Seq(Call) /\ cmdQ \in Seq(Call) /\ replyQ \in Seq(Call)
      /\ replyQ \o cmdQ \in Seq(Call) /\ (replyQ \o cmdQ) \o waiters \in Seq(Call)
  BY <1>0, Queues
<1>3. stage[c] = "pending"
  BY <1>1 DEF stage, AbsState
<1>4. ASSUME NEW pc \in {"open", "lock"}, call' = [call EXCEPT ![c].pc = pc], Flight' = Flight
      PROVE  Unseen /\ FlightInv'
  <2>1. /\ SameBut(call, call', c) /\ call'[c].op = call[c].op /\ call'[c].arg = call[c].arg
        /\ call'[c].res = call[c].res /\ call'[c].pc = pc
    BY <1>0, <1>1, <1>4 DEF TypeOK, Calls, SameBut
  <2>2. AbsState(call'[c].pc, replyQ', c) = "pending"
    BY <2>1 DEF AbsState
  <2> QED BY <1>1, <1>3, <1>4, <2>1, <2>2, UnseenStep
<1>5. CASE /\ MustOpen /\ conn' = "opening" /\ call' = [call EXCEPT ![c].pc = "open"]
           /\ cmdQ' = Append(cmdQ, c) /\ UNCHANGED waiters
  <2>1. waiters = <<>>
    BY <1>0, <1>5 DEF MustOpen, ConnInv
  <2>2. Flight' = Flight
    <3>1. ((replyQ \o Append(cmdQ, c)) \o <<>>) \o Tail(pathQ) = ((replyQ \o cmdQ) \o <<>>) \o pathQ
      BY <1>1, <1>2, RowMoves
    <3>2. /\ replyQ' = replyQ /\ cmdQ' = Append(cmdQ, c) /\ waiters' = <<>> /\ waiters = <<>>
          /\ pathQ' = Tail(pathQ)
      BY <1>1, <1>5, <2>1
    <3> QED BY <3>1, <3>2, Zenon DEF Flight
  <2> QED BY <1>4, <1>5, <2>2
<1>6. CASE /\ conn = "opening" /\ call' = [call EXCEPT ![c].pc = "lock"]
           /\ waiters' = Append(waiters, c) /\ UNCHANGED <<conn, cmdQ>>
  <2>1. Flight' = Flight
    BY <1>1, <1>2, <1>6, RowMoves DEF Flight
  <2> QED BY <1>4, <1>6, <2>1
<1>7. CASE conn \in {"open", "closing"} /\ Issue(c) /\ UNCHANGED waiters
  <2>1. waiters = <<>>
    BY <1>1, <1>7 DEF NoMicrotask
  <2>2. CASE conn = "closing"
    <3>1. cmdQ' = cmdQ
      BY <2>2, <1>7 DEF Issue
    <3>2. (replyQ \o cmdQ) \o waiters = replyQ \o cmdQ
      BY <1>2, <2>1, ConcatEmptySeq
    <3>3. Flight = (replyQ \o cmdQ) \o pathQ /\ Flight' = (replyQ \o cmdQ) \o Tail(pathQ)
      BY <1>1, <1>7, <3>1, <3>2 DEF Flight
    <3> QED BY <1>1, <1>2, <1>7, <2>2, <3>3, IssueRefuses
  <2>3. CASE conn = "open"
    <3>1. /\ SameBut(call, call', c) /\ call'[c].op = call[c].op /\ call'[c].arg = call[c].arg
          /\ call'[c].res = call[c].res /\ call'[c].pc = "native" /\ cmdQ' = Append(cmdQ, c)
      BY <1>0, <1>1, <1>7, <2>3, IssueMoves
    <3>2. ~ In(c, replyQ)
      BY <1>0, <1>1 DEF In, IInv, SentInv, AllAt, SentPc
    <3>3. AbsState(call'[c].pc, replyQ', c) = "pending"
      BY <1>1, <3>1, <3>2 DEF AbsState
    <3>4. Flight' = Flight
      <4>1. ((replyQ \o Append(cmdQ, c)) \o <<>>) \o Tail(pathQ) = ((replyQ \o cmdQ) \o <<>>) \o pathQ
        BY <1>1, <1>2, RowMoves
      <4>2. /\ replyQ' = replyQ /\ cmdQ' = Append(cmdQ, c) /\ waiters' = <<>> /\ waiters = <<>>
            /\ pathQ' = Tail(pathQ)
        BY <1>1, <1>7, <2>1, <3>1
      <4> QED BY <4>1, <4>2, Zenon DEF Flight
    <3> QED BY <1>1, <1>3, <3>1, <3>3, <3>4, UnseenStep
  <2> QED BY <1>1, <1>7, <2>2, <2>3
<1> QED BY <1>5, <1>6, <1>7 DEF PathReply

\* The connection another call has opened is there, or on its way to be closed.
LEMMA GrantMoves ==
  ASSUME HelperInv, Grant
  PROVE  FlightInv' /\ (Unseen \/ \E c \in Call : Refused(c))
<1> DEFINE c == Head(waiters)
<1>0. TypeOK /\ IInv /\ ConnInv /\ FlightInv
  BY DEF HelperInv, RInv, IInv
<1>1. /\ waiters # <<>> /\ waiters' = Tail(waiters) /\ c \in Call /\ call[c].pc = "lock"
      /\ UNCHANGED <<table, replyQ, pathQ>> /\ Issue(c) /\ conn \in {"open", "closing"}
  BY <1>0, Heads DEF Grant, ConnInv, TypeOK
<1>2. /\ pathQ \in Seq(Call) /\ waiters \in Seq(Call) /\ cmdQ \in Seq(Call) /\ replyQ \in Seq(Call)
      /\ replyQ \o cmdQ \in Seq(Call)
  BY <1>0, Queues
<1>3. stage[c] = "pending"
  BY <1>1 DEF stage, AbsState
<1>4. CASE conn = "closing"
  <2> DEFINE r == waiters \o pathQ
  <2>1. /\ r \in Seq(Call) /\ r # <<>> /\ Head(r) = c /\ Tail(r) = Tail(waiters) \o pathQ
        /\ Tail(waiters) \in Seq(Call)
    BY <1>1, <1>2, HeadFirst, ConcatProperties, TailElements
  <2>2. cmdQ' = cmdQ
    BY <1>1, <1>4 DEF Issue
  <2>3. ASSUME NEW w \in Seq(Call) PROVE ((replyQ \o cmdQ) \o w) \o pathQ = (replyQ \o cmdQ) \o (w \o pathQ)
    <3>1. replyQ \o cmdQ \in Seq(Call) /\ pathQ \in Seq(Call)
      BY <1>2
    <3> QED BY <3>1, Associative, Zenon
  <2>4. Flight = (replyQ \o cmdQ) \o r
    BY <1>2, <2>3 DEF Flight
  <2>5. Flight' = (replyQ \o cmdQ) \o Tail(r)
    BY <1>1, <2>1, <2>2, <2>3 DEF Flight
  <2> HIDE DEF r
  <2> QED BY <1>1, <1>4, <2>1, <2>4, <2>5, IssueRefuses
<1>5. CASE conn = "open"
  <2>1. /\ SameBut(call, call', c) /\ call'[c].op = call[c].op /\ call'[c].arg = call[c].arg
        /\ call'[c].res = call[c].res /\ call'[c].pc = "native" /\ cmdQ' = Append(cmdQ, c)
    BY <1>0, <1>1, <1>5, IssueMoves
  <2>2. ~ In(c, replyQ)
    BY <1>0, <1>1 DEF In, IInv, SentInv, AllAt, SentPc
  <2>3. AbsState(call'[c].pc, replyQ', c) = "pending"
    BY <1>1, <2>1, <2>2 DEF AbsState
  <2>4. Flight' = Flight
    BY <1>1, <1>2, <2>1, RowMoves DEF Flight
  <2> QED BY <1>1, <1>3, <2>1, <2>3, <2>4, UnseenStep
<1> QED BY <1>1, <1>4, <1>5

\* The row from the commands on, and from the replies on.
LEMMA RowParts ==
  ASSUME TypeOK
  PROVE  /\ Flight = replyQ \o (cmdQ \o (waiters \o pathQ))
         /\ cmdQ \o (waiters \o pathQ) \in Seq(Call) /\ waiters \o pathQ \in Seq(Call)
<1>1. pathQ \in Seq(Call) /\ waiters \in Seq(Call) /\ cmdQ \in Seq(Call) /\ replyQ \in Seq(Call)
  BY DEF TypeOK
<1>2. cmdQ \o (waiters \o pathQ) \in Seq(Call) /\ waiters \o pathQ \in Seq(Call) /\ replyQ \o cmdQ \in Seq(Call)
  BY <1>1, ConcatProperties
<1>3. ((replyQ \o cmdQ) \o waiters) \o pathQ = (replyQ \o cmdQ) \o (waiters \o pathQ)
  <2>1. replyQ \o cmdQ \in Seq(Call) /\ waiters \in Seq(Call) /\ pathQ \in Seq(Call)
    BY <1>1, <1>2
  <2> QED BY <2>1, Associative, Zenon
<1>4. (replyQ \o cmdQ) \o (waiters \o pathQ) = replyQ \o (cmdQ \o (waiters \o pathQ))
  BY <1>1, <1>2, Associative, Zenon
<1> QED BY <1>2, <1>3, <1>4, Zenon DEF Flight

\* The native side runs the statement of the oldest call that is pending.
LEMMA RanMoves ==
  ASSUME HelperInv, NEW c \in Call, call[c].pc = "native", NEW res, Ran(c, res)
  PROVE  /\ stage[c] = "pending" /\ \A d \in Call : stage[d] = "pending" => <<d, c>> \notin before
         /\ stage' = [stage EXCEPT ![c] = "effected"]
         /\ KeepsAsking /\ OtherResults(c) /\ call'[c].res = res
         /\ UNCHANGED <<conn, before>>
         /\ FlightInv'
<1>0. TypeOK /\ IInv /\ SentInv /\ FlightInv
  BY DEF HelperInv, RInv, IInv
<1>1. /\ cmdQ # <<>> /\ c = Head(cmdQ) /\ cmdQ' = Tail(cmdQ) /\ replyQ' = Append(replyQ, c)
      /\ call' = [call EXCEPT ![c].res = res] /\ UNCHANGED <<conn, pathQ, waiters>>
  BY DEF Ran
<1>2. SentPc = "native"
  BY <1>0, <1>1, Heads
<1>3. /\ pathQ \in Seq(Call) /\ waiters \in Seq(Call) /\ cmdQ \in Seq(Call) /\ replyQ \in Seq(Call)
      /\ Flight \in Seq(Call)
  BY <1>0, Queues
<1>4. /\ SameBut(call, call', c) /\ call'[c].op = call[c].op /\ call'[c].arg = call[c].arg
      /\ call'[c].pc = "native" /\ call'[c].res = res
  BY <1>0, <1>1 DEF TypeOK, Calls, SameBut
<1>5. ~ In(c, replyQ)
  <2>1. 1 \in 1 .. Len(cmdQ) /\ cmdQ[1] = c
    BY <1>1, <1>3, TailElements
  <2> QED BY <1>0, <2>1 DEF SentInv, Disjoint, In
<1>6. stage[c] = "pending"
  BY <1>5 DEF stage, AbsState
<1>7. stage' = [stage EXCEPT ![c] = "effected"]
  <2>1. \A d \in Call \ {c} : In(d, replyQ') <=> In(d, replyQ)
    BY <1>1, <1>3, InMoves
  <2>2. In(c, replyQ')
    BY <1>1, <1>3, InMoves
  <2>3. AbsState(call'[c].pc, replyQ', c) = "effected"
    BY <1>4, <2>2 DEF AbsState
  <2> QED BY <1>4, <2>1, <2>3, StageStep
<1>8. Flight' = Flight
  BY <1>1, <1>3, HeadMoves DEF Flight
<1>9. \A d \in Call : stage'[d] \in {"pending", "effected"} => Flying(d)
  BY <1>6, <1>7 DEF Flying, stage
<1>10. \A d \in Call : stage[d] = "pending" => <<d, c>> \notin before
  <2> SUFFICES ASSUME NEW d \in Call, stage[d] = "pending", <<d, c>> \in before PROVE FALSE
    OBVIOUS
  <2> DEFINE r == cmdQ \o (waiters \o pathQ)
  <2>1. r # <<>> /\ Head(r) = c /\ r \in Seq(Call) /\ Flight = replyQ \o r
    BY <1>0, <1>1, <1>3, RowParts, HeadFirst
  <2> HIDE DEF r
  <2>2. In(d, Flight) /\ d # c
    BY FlightOrder
  <2>3. In(d, replyQ) \/ Ahead(Flight, c, d)
    BY <1>0, <1>3, <2>1, <2>2, LeavesRow DEF FlightInv
  <2>4. ~ In(d, replyQ)
    BY <1>0, <1>2 DEF SentInv, AllAt, In, stage, AbsState
  <2> QED BY <2>3, <2>4, FlightOrder, BeforeIs
<1>11. KeepsAsking /\ OtherResults(c)
  BY <1>4 DEF KeepsAsking, OtherResults, SameBut
<1> QED BY <1>0, <1>1, <1>4, <1>6, <1>7, <1>8, <1>9, <1>10, <1>11, RowStays

\* The native side: an opening is not seen; a statement has its effect.
LEMMA NativeMoves ==
  ASSUME HelperInv, Native
  PROVE  FlightInv' /\ (Unseen \/ \E c \in Call : Runs(c))
<1>0. TypeOK /\ IInv /\ NoResult /\ Created
  BY DEF HelperInv, RInv, IInv
<1>1. PICK c \in Call : \/ RunOpen(c) \/ RunInsert(c) \/ RunUpdate(c) \/ RunDelete(c)
                        \/ RunQuery(c) \/ RunClose(c)
  BY DEF Native
<1> DEFINE u == call[c].arg
<1>2. ASSUME NEW res, Ran(c, res), call[c].pc = "native",
             call'[c].res = res /\ call[c].op \in {"insertUser", "deleteUser", "getAllUsers", "close"} => Effect(c)
      PROVE  FlightInv' /\ Runs(c)
  BY <1>2, RanMoves DEF Runs
<1>3. \A n : Success(n).rows = {} /\ Failure.rows = {} /\ Listed(n).rows = n
  BY DEF Success, Listed, Failure
<1>4. CASE RunOpen(c)
  <2>1. /\ cmdQ # <<>> /\ c = Head(cmdQ) /\ cmdQ' = Tail(cmdQ) /\ replyQ' = Append(replyQ, c)
        /\ call' = [call EXCEPT ![c].res = Failure] /\ UNCHANGED <<conn, pathQ, waiters>>
        /\ call[c].pc = "open"
    BY <1>4 DEF Ran, RunOpen
  <2>2. /\ SameBut(call, call', c) /\ call'[c].op = call[c].op /\ call'[c].arg = call[c].arg
        /\ call'[c].pc = "open" /\ call'[c].res = call[c].res
    BY <1>0, <2>1 DEF TypeOK, Calls, SameBut, NoResult
  <2>3. cmdQ \in Seq(Call) /\ replyQ \in Seq(Call)
    BY <1>0 DEF TypeOK
  <2>4. Flight' = Flight
    BY <2>1, <2>3, HeadMoves DEF Flight
  <2>5. \A d \in Call \ {c} : In(d, replyQ') <=> In(d, replyQ)
    BY <2>1, <2>3, InMoves
  <2>6. stage[c] = "pending" /\ AbsState(call'[c].pc, replyQ', c) = "pending"
    BY <2>1, <2>2 DEF stage, AbsState
  <2>7. table' = table
    BY <1>0, <1>4 DEF RunOpen, Created
  <2> QED BY <2>2, <2>4, <2>5, <2>6, <2>7, UnseenStep
<1>5. CASE RunInsert(c)
  <2>1. call[c].op = "insertUser" /\ call[c].pc = "native"
    BY <1>5 DEF RunInsert, Running
  <2>2. u \in User
    BY <1>0 DEF TypeOK, Calls
  <2>3. PICK id \in IF u.id = None THEN FreshIds(table) ELSE {u.id} :
          \/ /\ Rows(id) = {}
             /\ table' = table \cup {[_id |-> id, username |-> u.username]}
             /\ Ran(c, Success(id))
          \/ Ran(c, Failure) /\ table' = table
    BY <1>5 DEF RunInsert, toMap
  <2>4. id \in Id
    BY <2>2, <2>3 DEF FreshIds, User
  <2> DEFINE r == [_id |-> id, username |-> u.username]
  <2>5. r \in Row /\ r._id = id
    BY <2>2, <2>4 DEF Row, User
  <2>6. CASE Rows(id) = {} /\ table' = table \cup {r} /\ Ran(c, Success(id))
    <3>1. call'[c].res = Success(id) => Effect(c)
      BY <1>3, <2>1, <2>5, <2>6 DEF Effect
    <3> QED BY <1>2, <2>1, <2>6, <3>1
  <2>7. CASE Ran(c, Failure) /\ table' = table
    <3>1. call'[c].res = Failure => Effect(c)
      BY <1>3, <2>1, <2>7 DEF Effect
    <3> QED BY <1>2, <2>1, <2>7, <3>1
  <2> QED BY <2>1, <2>3, <2>6, <2>7
<1>6. CASE RunUpdate(c)
  <2>1. /\ call[c].op = "updateUser" /\ call[c].pc = "native"
        /\ Ran(c, Success(Affected(Rows(toMap(u)._id))))
    BY <1>6 DEF RunUpdate, Running
  <2> QED BY <1>2, <2>1
<1>7. CASE RunDelete(c)
  <2>1. /\ call[c].op = "deleteUser" /\ call[c].pc = "native" /\ table' = table \ Rows(u.id)
        /\ Ran(c, Success(Affected(Rows(u.id))))
    BY <1>7 DEF RunDelete, Running
  <2>2. call'[c].res = Success(Affected(Rows(u.id))) => Effect(c)
    BY <1>3, <2>1 DEF Effect
  <2> QED BY <1>2, <2>1, <2>2
<1>8. CASE RunQuery(c)
  <2>1. call[c].pc = "native" /\ table' = table
    BY <1>8 DEF RunQuery, Running
  <2>2. CASE call[c].op = "getAllUsers" /\ Ran(c, Listed(table))
    <3>1. call'[c].res = Listed(table) => Effect(c)
      BY <1>3, <2>1, <2>2 DEF Effect
    <3> QED BY <1>2, <2>1, <2>2, <3>1
  <2>3. CASE call[c].op = "getUser" /\ \E res : Ran(c, res)
    BY <1>2, <2>1, <2>3
  <2> QED BY <1>8, <2>2, <2>3 DEF RunQuery, Running
<1>9. CASE RunClose(c)
  <2>1. call[c].op = "close" /\ call[c].pc = "native" /\ Ran(c, Success(0)) /\ table' = table
    BY <1>9 DEF RunClose, Running
  <2>2. call'[c].res = Success(0) => Effect(c)
    BY <1>3, <2>1 DEF Effect
  <2> QED BY <1>2, <2>1, <2>2
<1> QED BY <1>1, <1>4, <1>5, <1>6, <1>7, <1>8, <1>9

\* An answer comes back: unseen if it is the connection, else the oldest call is over.
LEMMA DeliverMoves ==
  ASSUME HelperInv, Deliver
  PROVE  FlightInv' /\ (Unseen \/ \E c \in Call : Settles(c))
<1> DEFINE c == Head(replyQ)
<1>0. TypeOK /\ IInv /\ ConnInv /\ SentInv /\ ReplyInv /\ FlightInv
  BY DEF HelperInv, RInv, IInv
<1>1. /\ replyQ # <<>> /\ replyQ' = Tail(replyQ) /\ c \in Call /\ call[c].pc = SentPc
      /\ UNCHANGED <<table, pathQ, waiters>> /\ NoMicrotask
  BY <1>0, Heads DEF Deliver
<1>2. /\ pathQ \in Seq(Call) /\ waiters \in Seq(Call) /\ cmdQ \in Seq(Call) /\ replyQ \in Seq(Call)
      /\ Flight \in Seq(Call)
  BY <1>0, Queues
<1>3. \A d \in Call \ {c} : In(d, replyQ') <=> In(d, replyQ)
  BY <1>1, <1>2, InMoves
<1>4. CASE call[c].pc = "open" /\ Issue(c)
  <2>1. conn = "opening"
    BY <1>1, <1>4 DEF SentPc
  <2>2. cmdQ = <<>> /\ Tail(replyQ) = <<>> /\ replyQ = Append(<<>>, c)
    <3>1. Len(cmdQ) = 0 /\ Len(replyQ) = 1
      <4>1. Len(cmdQ) + Len(replyQ) = 1
        BY <1>0, <2>1 DEF ConnInv
      <4>2. Len(cmdQ) \in Nat /\ Len(replyQ) \in Nat /\ Len(replyQ) >= 1
        BY <1>1, <1>2, TailElements
      <4>3. \A m, n \in Nat : m + n = 1 /\ n >= 1 => m = 0 /\ n = 1
        OBVIOUS
      <4> QED BY <4>1, <4>2, <4>3
    <3> QED BY <1>1, <1>2, <3>1
  <2>3. /\ SameBut(call, call', c) /\ call'[c].op = call[c].op /\ call'[c].arg = call[c].arg
        /\ call'[c].res = call[c].res /\ call'[c].pc = "native" /\ cmdQ' = Append(cmdQ, c)
    BY <1>0, <1>1, <1>4, <2>1, IssueMoves
  <2>4. stage[c] = "pending" /\ AbsState(call'[c].pc, replyQ', c) = "pending"
    <3>1. ~ In(c, replyQ')
      BY <1>1, <2>2 DEF In
    <3> QED BY <1>1, <1>4, <2>3, <3>1 DEF stage, AbsState
  <2>5. Flight' = Flight
    <3>1. replyQ \o cmdQ = replyQ' \o cmdQ'
      <4>1. replyQ \o cmdQ = replyQ
        BY <1>2, <2>2, ConcatEmptySeq
      <4>2. replyQ' \o cmdQ' = cmdQ'
        BY <1>1, <1>2, <2>2, <2>3, ConcatEmptySeq
      <4> QED BY <2>2, <2>3, <4>1, <4>2
    <3>2. UNCHANGED <<waiters, pathQ>>
      BY <1>1
    <3> QED BY <3>1, <3>2, Zenon DEF Flight
  <2> QED BY <1>1, <1>3, <2>3, <2>4, <2>5, UnseenStep
<1>5. CASE /\ call[c].pc = "native" /\ call' = [call EXCEPT ![c].pc = "done"]
           /\ conn' = IF call[c].op = "close" THEN AfterClose ELSE conn
           /\ UNCHANGED cmdQ
  <2>1. conn # "opening"
    BY <1>1, <1>5 DEF SentPc
  <2>2. /\ SameBut(call, call', c) /\ call'[c].op = call[c].op /\ call'[c].arg = call[c].arg
        /\ call'[c].res = call[c].res /\ call'[c].pc = "done"
    BY <1>0, <1>1, <1>5 DEF TypeOK, Calls, SameBut
  <2>3. stage' = [stage EXCEPT ![c] = "done"]
    <3>1. AbsState(call'[c].pc, replyQ', c) = "done"
      BY <2>2 DEF AbsState
    <3> QED BY <1>1, <1>3, <2>2, <3>1, StageStep
  <2>4. 1 \in 1 .. Len(replyQ) /\ replyQ[1] = c
    BY <1>1, <1>2, TailElements
  <2>5. stage[c] = "effected"
    BY <1>1, <1>5, <2>4 DEF stage, AbsState, In
  <2>6. /\ LosesOnly(Flight, Flight', c)
        /\ \A d \in Call : In(d, Flight) /\ d # c => Ahead(Flight, c, d)
    <3> DEFINE s == cmdQ \o (waiters \o pathQ)
    <3>1. Flight = replyQ \o s /\ s \in Seq(Call)
      BY <1>0, RowParts
    <3>2. Flight # <<>> /\ Head(Flight) = c /\ Tail(Flight) = Tail(replyQ) \o s
      BY <1>1, <1>2, <3>1, HeadFirst
    <3>3. Flight' = Tail(replyQ) \o s
      <4>1. Tail(replyQ) \in Seq(Call)
        BY <1>1, <1>2, TailElements
      <4>2. Flight' = ((Tail(replyQ) \o cmdQ) \o waiters) \o pathQ
        BY <1>1, <1>5 DEF Flight
      <4>3. ((Tail(replyQ) \o cmdQ) \o waiters) \o pathQ = (Tail(replyQ) \o cmdQ) \o (waiters \o pathQ)
        <5>1. Tail(replyQ) \o cmdQ \in Seq(Call) /\ waiters \in Seq(Call) /\ pathQ \in Seq(Call)
          BY <1>2, <4>1, ConcatProperties
        <5> QED BY <5>1, Associative, Zenon
      <4>4. (Tail(replyQ) \o cmdQ) \o (waiters \o pathQ) = Tail(replyQ) \o (cmdQ \o (waiters \o pathQ))
        <5>1. waiters \o pathQ \in Seq(Call) /\ cmdQ \in Seq(Call) /\ Tail(replyQ) \in Seq(Call)
          BY <1>2, <4>1, ConcatProperties
        <5> QED BY <5>1, Associative, Zenon
      <4> QED BY <4>2, <4>3, <4>4, Zenon
    <3> HIDE DEF s
    <3>4. Flight' = Tail(Flight)
      BY <3>2, <3>3
    <3> QED BY <1>0, <1>2, <3>2, <3>4, HeadLeaves DEF FlightInv
  <2>7. FlightInv' /\ Forgets(c)
    <3>1. \A d \in Call : stage'[d] \in {"pending", "effected"} => Flying(d) /\ d # c
      BY <1>1, <2>3 DEF Flying, stage
    <3> QED BY <1>0, <1>1, <2>6, <3>1, RowLoses
  <2>8. \A d \in Call : Flying(d) /\ d # c => <<c, d>> \in before
    BY <1>1, <2>6, FlightOrder, BeforeIs
  <2>9. \A d \in Call : stage[d] # "done"
    BY <1>1 DEF NoMicrotask, stage, AbsState
  <2>10. call[c].op \in ById => call[c].res.ok
    BY <1>0, <2>1, <2>4 DEF ReplyInv
  <2>11. KeepsAsking /\ \A d \in Call : call'[d].res = call[d].res
    BY <2>2 DEF KeepsAsking, SameBut
  <2>12. conn' = IF call[c].op = "close" THEN "none" ELSE conn
    BY <1>5 DEF AfterClose
  <2> QED BY <1>1, <2>3, <2>5, <2>7, <2>8, <2>9, <2>10, <2>11, <2>12 DEF Settles
<1> QED BY <1>4, <1>5 DEF Deliver

\* Each step of the plugin is one of the four.
LEMMA PluginMoves ==
  ASSUME HelperInv, Plugin
  PROVE  HelperInv' /\ (Unseen \/ \E c \in Call : Runs(c) \/ Settles(c) \/ Refused(c))
<1>1. RInv'
  BY RInvStep DEF HelperInv, Next
<1> QED BY <1>1, PathReplyMoves, GrantMoves, NativeMoves, DeliverMoves DEF Plugin, HelperInv

-----------------------------------------------------------------------------
(* What the screens do to the calls: c, which was settled, is over, and those *)
(* of slots are made.                                                        *)

Free(d, c) == d = c \/ call[d].pc = "idle"

Joins(c, slots) ==
  /\ slots \in Seq(Call) /\ Distinct(slots)
  /\ \A d \in Call : In(d, slots) => Free(d, c)
  /\ c \in Call => call[c].pc = "done"
  /\ call' \in [Call -> Calls]
  /\ \A d \in Call : IF In(d, slots) THEN call'[d].pc = "path" /\ call'[d].res = Failure
                     ELSE call'[d] = IF d = c THEN Idle ELSE call[d]
  /\ pathQ' = pathQ \o slots
  /\ UNCHANGED <<version, table, conn, waiters, cmdQ, replyQ>>

\* For the screens: the new calls are pending, and younger than all others.
Joined(c, slots) ==
  /\ stage' = [d \in Call |-> IF In(d, slots) THEN "pending" ELSE IF d = c THEN "idle" ELSE stage[d]]
  /\ \A a, b \in Call : <<a, b>> \in before' <=>
       <<a, b>> \in before \/ (Flying(a) /\ In(b, slots)) \/ Ahead(slots, a, b)

\* A call that waits in Dart or natively is not touched.
LEMMA JoinsKeeps ==
  ASSUME NEW c, NEW slots, Joins(c, slots)
  PROVE  /\ \A d \in Call : call[d].pc \notin {"idle", "done"} => call'[d] = call[d] /\ ~ In(d, slots)
         /\ \A pc : \A q \in Seq(Call) : AllAt(call, q, pc) /\ pc \notin {"idle", "done"} =>
              AllAt(call', q, pc) /\ Disjoint(q, slots) /\ \A i \in 1 .. Len(q) : call'[q[i]] = call[q[i]]
<1>1. \A d \in Call : call[d].pc \notin {"idle", "done"} => call'[d] = call[d] /\ ~ In(d, slots)
  BY DEF Joins, Free
<1>2. ASSUME NEW q \in Seq(Call), NEW pc, AllAt(call, q, pc), pc \notin {"idle", "done"}
      PROVE  AllAt(call', q, pc) /\ Disjoint(q, slots) /\ \A i \in 1 .. Len(q) : call'[q[i]] = call[q[i]]
  <2>1. \A i \in 1 .. Len(q) : q[i] \in Call /\ call[q[i]].pc = pc
    BY <1>2 DEF AllAt
  <2>2. \A i \in 1 .. Len(q) : call'[q[i]] = call[q[i]] /\ ~ In(q[i], slots)
    BY <1>1, <1>2, <2>1
  <2> QED BY <2>1, <2>2 DEF AllAt, Disjoint, In
<1> QED BY <1>1, <1>2

\* The helper's invariant is kept.
LEMMA JoinsInv ==
  ASSUME HelperInv, NEW c, NEW slots, Joins(c, slots)
  PROVE  RInv'
<1>0. /\ TypeOK /\ WaitInv /\ SentInv /\ ConnInv /\ CloseInv /\ ReplyInv /\ FailsOnlyByClose
      /\ NoResult /\ Created
  BY DEF HelperInv, RInv, IInv
<1>1. /\ pathQ \in Seq(Call) /\ waiters \in Seq(Call) /\ cmdQ \in Seq(Call) /\ replyQ \in Seq(Call)
      /\ slots \in Seq(Call) /\ Distinct(slots) /\ pathQ' = pathQ \o slots
      /\ UNCHANGED <<version, table, conn, waiters, cmdQ, replyQ>>
  BY <1>0 DEF TypeOK, Joins
<1>2. TypeOK'
  <2>1. pathQ' \in Seq(Call) /\ call' \in [Call -> Calls]
    BY <1>1, ConcatProperties DEF Joins
  <2> QED BY <1>0, <1>1, <2>1 DEF TypeOK
<1>3. /\ AllAt(call', pathQ, "path") /\ Disjoint(pathQ, slots)
      /\ AllAt(call', waiters, "lock")
  BY <1>0, <1>1, JoinsKeeps DEF WaitInv
<1>4. WaitInv'
  <2>1. Distinct(pathQ \o slots)
    BY <1>0, <1>1, <1>3, InRow DEF WaitInv
  <2>2. AllAt(call', pathQ \o slots, "path")
    <3> SUFFICES ASSUME NEW i \in 1 .. Len(pathQ \o slots) PROVE call'[(pathQ \o slots)[i]].pc = "path"
      BY DEF AllAt
    <3>1. (pathQ \o slots)[i] \in Call
      BY <1>1, InRow
    <3>2. In((pathQ \o slots)[i], pathQ \o slots)
      BY DEF In
    <3>3. In((pathQ \o slots)[i], pathQ) \/ In((pathQ \o slots)[i], slots)
      BY <1>1, <3>1, <3>2, InRow
    <3>4. \A d : In(d, pathQ) => call'[d].pc = "path"
      BY <1>3 DEF In, AllAt
    <3>5. \A d \in Call : In(d, slots) => call'[d].pc = "path"
      BY DEF Joins
    <3> QED BY <3>1, <3>3, <3>4, <3>5
  <2> QED BY <1>0, <1>1, <1>3, <2>1, <2>2 DEF WaitInv
<1>5. SentPc \in {"open", "native"} /\ SentPc' = SentPc
  BY <1>1 DEF SentPc
<1>6. /\ AllAt(call', cmdQ, SentPc) /\ \A i \in 1 .. Len(cmdQ) : call'[cmdQ[i]] = call[cmdQ[i]]
      /\ AllAt(call', replyQ, SentPc) /\ \A i \in 1 .. Len(replyQ) : call'[replyQ[i]] = call[replyQ[i]]
  BY <1>0, <1>1, <1>5, JoinsKeeps DEF SentInv
<1>7. SentInv'
  BY <1>0, <1>1, <1>5, <1>6 DEF SentInv
<1>8. ConnInv'
  BY <1>0, <1>1 DEF ConnInv
<1>9. CloseInv'
  <2>1. cmdQ # <<>> => Len(cmdQ) \in 1 .. Len(cmdQ)
    BY <1>1
  <2>2. replyQ # <<>> => Len(replyQ) \in 1 .. Len(replyQ)
    BY <1>1
  <2> QED BY <1>0, <1>1, <1>6, <2>1, <2>2 DEF CloseInv
<1>10. ReplyInv'
  BY <1>0, <1>1, <1>6 DEF ReplyInv
<1>11. \A d \in Call : call[d].pc \notin {"idle", "done"} => call'[d] = call[d]
  BY JoinsKeeps
<1>12. \A d \in Call : call'[d] = call[d] \/ call'[d].pc \in {"path", "idle"}
  BY DEF Joins, Idle, NewCall
<1>13. FailsOnlyByClose'
  <2> SUFFICES ASSUME NEW d \in Call, call'[d].pc = "done", ~ call'[d].res.ok,
                      call'[d].op \in {"updateUser", "deleteUser", "getAllUsers"}
               PROVE  conn' = "closing" /\ \E k \in Call \ {d} : call'[k].op = "close" /\ call'[k].pc = "native"
    BY DEF FailsOnlyByClose
  <2>1. call'[d] = call[d]
    BY <1>12
  <2>2. conn = "closing" /\ \E k \in Call \ {d} : call[k].op = "close" /\ call[k].pc = "native"
    BY <1>0, <2>1 DEF FailsOnlyByClose
  <2> QED BY <1>1, <1>11, <2>2
<1>14. NoResult'
  BY <1>0 DEF NoResult, Joins, Idle, NewCall
<1>15. Created'
  BY <1>0, <1>1 DEF Created
<1> QED BY <1>2, <1>4, <1>7, <1>8, <1>9, <1>10, <1>13, <1>14, <1>15 DEF RInv, IInv

\* And the screens see the new calls as Joined says.
LEMMA JoinsMoves ==
  ASSUME HelperInv, NEW c, NEW slots, Joins(c, slots)
  PROVE  HelperInv' /\ Joined(c, slots)
<1>0. TypeOK /\ WaitInv /\ SentInv /\ FlightInv /\ Flight \in Seq(Call)
  BY Queues DEF HelperInv, RInv, IInv
<1>1. slots \in Seq(Call) /\ Distinct(slots) /\ replyQ' = replyQ
  BY DEF Joins
<1>2. Flight' = Flight \o slots
  <2>1. Flight' = ((replyQ \o cmdQ) \o waiters) \o (pathQ \o slots)
    BY DEF Joins, Flight
  <2>2. (((replyQ \o cmdQ) \o waiters) \o pathQ) \o slots = ((replyQ \o cmdQ) \o waiters) \o (pathQ \o slots)
    <3>1. (replyQ \o cmdQ) \o waiters \in Seq(Call) /\ pathQ \in Seq(Call) /\ slots \in Seq(Call)
      BY <1>0, <1>1, Queues
    <3> QED BY <3>1, Associative, Zenon
  <2> QED BY <2>1, <2>2, Zenon DEF Flight
<1>3. \A d \in Call : Flying(d) => call[d].pc \notin {"idle", "done"}
  BY DEF Flying, stage, AbsState
<1>4. Distinct(Flight \o slots)
  <2>1. \A i \in 1 .. Len(Flight), j \in 1 .. Len(slots) : Flight[i] # slots[j]
    <3> SUFFICES ASSUME NEW i \in 1 .. Len(Flight), NEW j \in 1 .. Len(slots), Flight[i] = slots[j] PROVE FALSE
      OBVIOUS
    <3>1. Flight[i] \in Call /\ In(Flight[i], Flight) /\ In(Flight[i], slots)
      BY <1>0 DEF In
    <3> QED BY <1>3, <3>1, FlightOrder, JoinsKeeps
  <2> QED BY <1>0, <1>1, <2>1, InRow DEF FlightInv, Disjoint
<1>5. stage' = [d \in Call |-> IF In(d, slots) THEN "pending" ELSE IF d = c THEN "idle" ELSE stage[d]]
  <2>1. ASSUME NEW d \in Call
        PROVE  AbsState(call'[d].pc, replyQ, d) =
                 IF In(d, slots) THEN "pending" ELSE IF d = c THEN "idle" ELSE stage[d]
    BY DEF Joins, AbsState, stage, Idle, NewCall
  <2> QED BY <1>1, <2>1, StageIs
<1>6. \A d \in Call : In(d, Flight \o slots) <=> In(d, Flight) \/ In(d, slots)
  BY <1>0, <1>1, InRow
<1>7. FlightInv'
  <2>1. ASSUME NEW d \in Call, stage'[d] \in {"pending", "effected"} PROVE In(d, Flight \o slots)
    <3>1. In(d, slots) \/ Flying(d)
      BY <1>5, <2>1 DEF Flying
    <3> QED BY <1>6, <3>1, FlightOrder
  <2>2. \A d \in Call : In(d, Flight)' <=> In(d, Flight \o slots)
    BY <1>2 DEF In
  <2>3. Distinct(Flight)'
    BY <1>2, <1>4 DEF Distinct
  <2> QED BY <2>1, <2>2, <2>3 DEF FlightInv, Flying
<1>8. \A a, b \in Call : <<a, b>> \in before' <=>
        <<a, b>> \in before \/ (Flying(a) /\ In(b, slots)) \/ Ahead(slots, a, b)
  <2>1. \A a, b \in Call : Ahead(Flight \o slots, a, b) <=>
          Ahead(Flight, a, b) \/ Ahead(slots, a, b) \/ (In(a, Flight) /\ In(b, slots))
    BY <1>0, <1>1, InRow
  <2> QED BY <1>2, <2>1, FlightOrder, BeforeIs
<1> QED BY <1>5, <1>7, <1>8, JoinsInv DEF HelperInv, Joined

\* A request, and the end of a call nobody awaits.
LEMMA RequestJoins ==
  ASSUME HelperInv, NEW c \in Call, NEW op \in Ops, NEW u \in User, Request(c, op, u)
  PROVE  /\ Joins(None, <<c>>) /\ call' = [call EXCEPT ![c] = NewCall(op, u)]
         /\ \A d : In(d, <<c>>) <=> d = c
<1>1. TypeOK
  BY DEF HelperInv, RInv, IInv
<1>2. /\ <<c>> \in Seq(Call) /\ Len(<<c>>) = 1 /\ <<c>>[1] = c
  OBVIOUS
<1>3. Distinct(<<c>>) /\ \A d : In(d, <<c>>) <=> d = c
  BY <1>2 DEF Distinct, In
<1>4. /\ call' = [call EXCEPT ![c] = NewCall(op, u)] /\ call[c].pc = "idle"
      /\ pathQ' = Append(pathQ, c)
      /\ UNCHANGED <<version, table, conn, waiters, cmdQ, replyQ>>
  BY DEF Request
<1>5. call' \in [Call -> Calls]
  BY <1>1, <1>4, NewCallTypes DEF TypeOK
<1>6. pathQ' = pathQ \o <<c>>
  BY <1>1, <1>4, AppendIsConcat DEF TypeOK
<1>7. None \notin Call
  BY IdentitiesAssumption
<1>8. \A d \in Call : IF In(d, <<c>>) THEN call'[d].pc = "path" /\ call'[d].res = Failure
                      ELSE call'[d] = IF d = None THEN Idle ELSE call[d]
  BY <1>1, <1>3, <1>4, <1>7 DEF TypeOK, NewCall
<1>9. \A d \in Call : In(d, <<c>>) => Free(d, None)
  BY <1>3, <1>4 DEF Free
<1> QED BY <1>2, <1>3, <1>4, <1>5, <1>6, <1>7, <1>8, <1>9 DEF Joins

\* Nobody awaits its end.
LEMMA ReturnJoins ==
  ASSUME HelperInv, NEW c \in Call, Return(c)
  PROVE  Joins(c, <<>>)
<1>1. TypeOK
  BY DEF HelperInv, RInv, IInv
<1>2. <<>> \in Seq(Call) /\ Distinct(<<>>) /\ \A d : ~ In(d, <<>>)
  BY DEF Distinct, In
<1>3. pathQ \o <<>> = pathQ
  BY <1>1, ConcatEmptySeq DEF TypeOK
<1>4. call' = [call EXCEPT ![c] = Idle] /\ call' \in [Call -> Calls]
  BY <1>1, NewCallTypes DEF Return, TypeOK
<1> QED BY <1>1, <1>2, <1>3, <1>4 DEF Return, Joins, TypeOK, plugin

\* A continuation, or a frame, whose slots are free.
LEMMA ContinueJoins ==
  ASSUME HelperInv, NEW c, NEW slots \in Seq(Call), NEW ops, Continue(c, slots, ops),
         Distinct(slots), \A i \in 1 .. Len(slots) : Free(slots[i], c) /\ ops[i] \in Ops,
         c \in Call => call[c].pc = "done"
  PROVE  /\ Joins(c, slots)
         /\ \A i \in 1 .. Len(slots) : call'[slots[i]] = NewCall(ops[i], Nothing)
<1>1. TypeOK
  BY DEF HelperInv, RInv, IInv
<1>2. ASSUME NEW i \in 1 .. Len(slots)
      PROVE  call'[slots[i]] = NewCall(ops[i], Nothing) /\ call'[slots[i]] \in Calls
  <2> DEFINE k == CHOOSE j \in 1 .. Len(slots) : slots[j] = slots[i]
  <2>1. k \in 1 .. Len(slots) /\ slots[k] = slots[i]
    OBVIOUS
  <2>2. k = i
    BY <2>1 DEF Distinct
  <2>3. slots[i] \in Call
    OBVIOUS
  <2>4. call'[slots[i]] = NewCall(ops[k], Nothing)
    BY <2>3 DEF Continue
  <2> HIDE DEF k
  <2> QED BY <2>2, <2>4, NewCallTypes
<1>3. \A d \in Call : ~ In(d, slots) => call'[d] = IF d = c THEN Idle ELSE call[d]
  BY DEF Continue, In
<1>4. \A d \in Call : call'[d] \in Calls
  BY <1>1, <1>2, <1>3, NewCallTypes DEF TypeOK, In
<1>5. call' \in [Call -> Calls]
  BY <1>4 DEF Continue
<1>6. \A d \in Call : In(d, slots) => Free(d, c) /\ call'[d].pc = "path" /\ call'[d].res = Failure
  <2> SUFFICES ASSUME NEW d \in Call, In(d, slots)
               PROVE  Free(d, c) /\ call'[d].pc = "path" /\ call'[d].res = Failure
    OBVIOUS
  <2>1. PICK i \in 1 .. Len(slots) : slots[i] = d
    BY DEF In
  <2>2. call'[d] = NewCall(ops[i], Nothing)
    BY <1>2, <2>1
  <2> QED BY <2>1, <2>2 DEF NewCall
<1> QED BY <1>2, <1>3, <1>5, <1>6 DEF Joins, Continue

\* The idle calls and the deletes are finitely many.
LEMMA CountTypes ==
  /\ IsFiniteSet(IdleCalls) /\ Cardinality(IdleCalls) \in Nat
  /\ IsFiniteSet(Deletes) /\ Cardinality(Deletes) \in Nat
  /\ IsFiniteSet(IdleCalls') /\ Cardinality(IdleCalls') \in Nat
  /\ IsFiniteSet(Deletes') /\ Cardinality(Deletes') \in Nat
<1>1. /\ IdleCalls \in SUBSET Call /\ Deletes \in SUBSET Call
      /\ IdleCalls' \in SUBSET Call /\ Deletes' \in SUBSET Call /\ IsFiniteSet(Call)
  BY IdentitiesAssumption DEF IdleCalls, Deletes
<1>2. /\ IsFiniteSet(IdleCalls) /\ IsFiniteSet(Deletes)
      /\ IsFiniteSet(IdleCalls') /\ IsFiniteSet(Deletes')
  BY <1>1, FS_Subset
<1> QED BY <1>2, FS_CardinalityType

\* There is an idle call when one is needed.
LEMMA FreeExists ==
  ASSUME Cardinality(IdleCalls) > 0
  PROVE  FreeCall \in Call /\ call[FreeCall].pc = "idle"
<1>1. IdleCalls # {}
  BY FS_EmptySet
<1>2. \E c \in Call : call[c].pc = "idle"
  BY <1>1 DEF IdleCalls
<1> QED BY <1>2 DEF FreeCall

\* There are different idle calls when several are needed.
LEMMA SlotsExist ==
  ASSUME NEW n \in Nat, Cardinality(IdleCalls) >= n
  PROVE  /\ Slots(n) \in [1 .. n -> IdleCalls] /\ IsInjective(Slots(n))
<1>1. PICK f : f \in Bijection(1 .. Cardinality(IdleCalls), IdleCalls)
  BY CountTypes, FS_CardinalityType DEF ExistsBijection
<1>2. f \in [1 .. Cardinality(IdleCalls) -> IdleCalls] /\ IsInjective(f)
  BY <1>1 DEF Bijection, Injection
<1>3. \A i \in 1 .. n : i \in 1 .. Cardinality(IdleCalls)
  BY CountTypes
<1> DEFINE g == [i \in 1 .. n |-> f[i]]
<1>4. g \in [1 .. n -> IdleCalls] /\ IsInjective(g)
  BY <1>2, <1>3 DEF IsInjective
<1> HIDE DEF g
<1> QED BY <1>4 DEF Slots

-----------------------------------------------------------------------------
(* The screens' steps, as far as they ask something of the helper. *)

\* Those of new are asked, and c, which was settled, is over or asked again.
Asked(new, c) ==
  /\ new \subseteq Call
  /\ \A d \in new : stage[d] = "idle" \/ d = c
  /\ c \in Call => stage[c] = "done"
  /\ \A d \in new : stage'[d] = "pending" /\ call'[d].res = Failure
  /\ \A d \in Call \ new : /\ stage'[d] = IF d = c THEN "idle" ELSE stage[d]
                           /\ call'[d] = IF d = c THEN Idle ELSE call[d]
  /\ \A a, b \in Call :
       /\ <<a, b>> \in before => <<a, b>> \in before'
       /\ Flying(a) /\ b \in new => <<a, b>> \in before'
       /\ <<a, b>> \in before' => <<a, b>> \in before \/ b \in new
  /\ UNCHANGED <<table, conn>>

\* What Joins says, for the screens.
LEMMA AskedIs ==
  ASSUME HelperInv, NEW c, NEW slots, Joins(c, slots), NEW new \in SUBSET Call,
         \A d \in Call : d \in new <=> In(d, slots)
  PROVE  HelperInv' /\ Asked(new, c)
<1>1. HelperInv' /\ Joined(c, slots)
  BY JoinsMoves
<1>2. \A d \in new : stage[d] = "idle" \/ d = c
  BY DEF Joins, Free, stage, AbsState
<1>3. c \in Call => stage[c] = "done"
  BY DEF Joins, stage, AbsState
<1>4. \A d \in new : stage'[d] = "pending" /\ call'[d].res = Failure
  BY <1>1 DEF Joined, Joins
<1>5. \A d \in Call \ new : /\ stage'[d] = IF d = c THEN "idle" ELSE stage[d]
                            /\ call'[d] = IF d = c THEN Idle ELSE call[d]
  BY <1>1 DEF Joined, Joins
<1>6. \A a, b : Ahead(slots, a, b) => In(b, slots)
  BY DEF Ahead, In
<1>7. \A a, b \in Call :
        /\ <<a, b>> \in before => <<a, b>> \in before'
        /\ Flying(a) /\ b \in new => <<a, b>> \in before'
        /\ <<a, b>> \in before' => <<a, b>> \in before \/ b \in new
  BY <1>1, <1>6 DEF Joined
<1>8. UNCHANGED <<table, conn>>
  BY DEF Joins
<1> QED BY <1>1, <1>2, <1>3, <1>4, <1>5, <1>7, <1>8 DEF Asked

\* The types of the screens' state.
Pages   == [kind : {"todo", "add"}, phase : {"gone", "pushed", "mounted", "leaving"},
            items : (SUBSET Row) \cup {None}, built : SUBSET Row, text : Name,
            covered : BOOLEAN, failed : BOOLEAN]
Clients == [page : Page \cup {None}, row : Row \cup {None}, covered : BOOLEAN]

ScreenTypes ==
  /\ stack \in Seq(Page) /\ stack # <<>> /\ IsInjective(stack)
  /\ page \in [Page -> Pages] /\ client \in [Call -> Clients] /\ leaked \in BOOLEAN
  /\ \A p \in Page : page[p].phase \in {"pushed", "mounted"} <=> p \in Range(stack)
  /\ \A c \in Call : stage[c] # "idle" /\ call[c].op \in {"deleteUser", "getAllUsers"} => client[c].page \in Page

\* A page that is not there, or is new, is a page; stages are what they are.
LEMMA ScreenData ==
  /\ \A kind \in {"todo", "add"} : NewPage(kind) \in Pages
  /\ Gone \in Pages
  /\ \A p \in Page \cup {None} : For(p) \in Clients
  /\ NoOne \in Clients
  /\ stage \in [Call -> {"idle", "pending", "effected", "done"}]
  /\ stage' \in [Call -> {"idle", "pending", "effected", "done"}]
  /\ \A c \in Call : /\ (stage[c] = "idle" <=> call[c].pc = "idle")
                     /\ (stage'[c] = "idle" <=> call'[c].pc = "idle")
                     /\ (stage[c] = "done" <=> call[c].pc = "done")
                     /\ (stage'[c] = "done" <=> call'[c].pc = "done")
<1>1. \A kind \in {"todo", "add"} : NewPage(kind) \in Pages
  BY BlankAssumption DEF NewPage, Pages
<1>2. Gone \in Pages
  BY <1>1 DEF Gone, NewPage, Pages
<1>3. \A p \in Page \cup {None} : For(p) \in Clients
  BY DEF For, Clients
<1>4. NoOne \in Clients
  BY <1>3 DEF NoOne
<1>5. \A pc, q, c : AbsState(pc, q, c) \in {"idle", "pending", "effected", "done"}
  BY DEF AbsState
<1>6. /\ stage \in [Call -> {"idle", "pending", "effected", "done"}]
      /\ stage' \in [Call -> {"idle", "pending", "effected", "done"}]
  BY <1>5, StageIs
<1>7. \A c \in Call : /\ (stage[c] = "idle" <=> call[c].pc = "idle")
                      /\ (stage'[c] = "idle" <=> call'[c].pc = "idle")
                      /\ (stage[c] = "done" <=> call[c].pc = "done")
                      /\ (stage'[c] = "done" <=> call'[c].pc = "done")
  BY StageIs DEF AbsState
<1> QED BY <1>1, <1>2, <1>3, <1>4, <1>6, <1>7

\* The tap on a delete icon.
LEMMA TapDeleteIs ==
  ASSUME HelperInv, ScreenTypes, NEW p \in Page, NEW index, TapDelete(p, index)
  PROVE  /\ HelperInv'
         /\ \E c \in Call, row \in Listing(p) :
              /\ Asked({c}, None) /\ stage[c] = "idle"
              /\ call'[c] = NewCall("deleteUser", OnlyId(row._id))
              /\ client' = [client EXCEPT ![c] = [page |-> p, row |-> row, covered |-> page[p].covered]]
<1>1. Cardinality(IdleCalls) > 0
  BY CountTypes DEF TapDelete, Spare, Deletes
<1>2. FreeCall \in Call /\ call[FreeCall].pc = "idle"
  BY <1>1, FreeExists
<1>3. Listing(p) \in SUBSET Row
  BY DEF ScreenTypes, Pages, Listing
<1>4. PICK row \in Listing(p) :
        /\ deleteUser(FreeCall, row._id)
        /\ client' = [client EXCEPT ![FreeCall] = [page |-> p, row |-> row, covered |-> page[p].covered]]
  BY DEF TapDelete, KeyOf, Nth
<1> DEFINE c == FreeCall
<1> HIDE DEF c
<1>5. OnlyId(row._id) \in User
  BY <1>3, NewCallTypes DEF Row
<1>6. "deleteUser" \in Ops /\ Request(c, "deleteUser", OnlyId(row._id)) /\ c \in Call
  BY <1>2, <1>4 DEF deleteUser, Ops, c
<1>7. /\ Joins(None, <<c>>) /\ call' = [call EXCEPT ![c] = NewCall("deleteUser", OnlyId(row._id))]
      /\ \A d : In(d, <<c>>) <=> d = c
  BY <1>5, <1>6, RequestJoins
<1>8. HelperInv' /\ Asked({c}, None)
  BY <1>6, <1>7, AskedIs
<1>9. stage[c] = "idle"
  BY <1>2, ScreenData DEF c
<1>10. call'[c] = NewCall("deleteUser", OnlyId(row._id))
  <2>1. call \in [Call -> Calls]
    BY DEF HelperInv, RInv, IInv, TypeOK
  <2> QED BY <1>6, <1>7, <2>1
<1> QED BY <1>4, <1>6, <1>8, <1>9, <1>10 DEF c

\* The tap on Insert.
LEMMA TapInsertIs ==
  ASSUME HelperInv, ScreenTypes, NEW p \in Page, TapInsert(p)
  PROVE  /\ HelperInv'
         /\ \E c \in Call, u \in User :
              Asked({c}, None) /\ stage[c] = "idle" /\ call'[c] = NewCall("insertUser", u)
<1>1. Cardinality(IdleCalls) > 0
  BY CountTypes DEF TapInsert, Spare, Deletes
<1>2. FreeCall \in Call /\ call[FreeCall].pc = "idle"
  BY <1>1, FreeExists
<1> DEFINE c == FreeCall
           u == [username |-> page[p].text, id |-> None]
<1>3. u \in User
  BY DEF ScreenTypes, Pages, User
<1>4. "insertUser" \in Ops /\ Request(c, "insertUser", u)
  BY DEF TapInsert, insertUser, Ops
<1> HIDE DEF c, u
<1>5. /\ Joins(None, <<c>>) /\ call' = [call EXCEPT ![c] = NewCall("insertUser", u)]
      /\ \A d : In(d, <<c>>) <=> d = c
  BY <1>2, <1>3, <1>4, RequestJoins DEF c
<1>6. HelperInv' /\ Asked({c}, None)
  BY <1>2, <1>5, AskedIs DEF c
<1>7. call'[c] = NewCall("insertUser", u)
  <2>1. call \in [Call -> Calls]
    BY DEF HelperInv, RInv, IInv, TypeOK
  <2> QED BY <1>2, <1>5, <2>1 DEF c
<1> QED BY <1>2, <1>3, <1>6, <1>7, ScreenData DEF c

\* The pages that the next frame will load.
PushedLists == {p \in Page : page[p].phase = "pushed" /\ page[p].kind = "todo"}

\* What a frame mounts and rebuilds.
Mounts ==
  page' = [p \in Page |->
    IF page[p].phase = "pushed" THEN [page[p] EXCEPT !.phase = "mounted"]
    ELSE IF Alive(p) THEN [page[p] EXCEPT !.built = Listing(p)]
    ELSE page[p]]

\* A frame: each list page that is mounted asks for its list.
LEMMA FrameIs ==
  ASSUME HelperInv, ScreenTypes, Frame
  PROVE  /\ HelperInv' /\ Mounts
         /\ \E new \in SUBSET IdleCalls :
              /\ Asked(new, None)
              /\ Cardinality(IdleCalls) >= Cardinality(new) + Cardinality(Deletes)
              /\ \A d \in new : /\ stage[d] = "idle" /\ call'[d] = NewCall("getAllUsers", Nothing)
                                /\ \E p \in PushedLists : client'[d] = For(p)
              /\ \A p \in PushedLists : \E d \in new : client'[d] = For(p)
              /\ client' \in [Call -> Clients]
              /\ \A d \in Call \ new : client'[d] = client[d]
<1> DEFINE n     == Cardinality(PushedLists)
           slots == Slots(n)
           new   == {d \in Call : In(d, slots)}
<1>1. n \in Nat
  <2>1. PushedLists \in SUBSET Page /\ IsFiniteSet(Page)
    BY IdentitiesAssumption DEF PushedLists
  <2> QED BY <2>1, FS_Subset, FS_CardinalityType
<1>2. /\ Mounts
      /\ Spare(n) /\ Continue(None, slots, [i \in DOMAIN slots |-> "getAllUsers"])
      /\ \E lists \in InStackOrder(PushedLists) :
           client' = [c \in Call |->
             IF \E i \in DOMAIN slots : slots[i] = c
             THEN For(lists[CHOOSE i \in DOMAIN slots : slots[i] = c])
             ELSE client[c]]
  BY DEF Frame, Mounts, PushedLists
<1>3. Cardinality(IdleCalls) >= n + Cardinality(Deletes)
  BY <1>2 DEF Spare, Deletes
<1>4. slots \in [1 .. n -> IdleCalls] /\ IsInjective(slots)
  <2>1. Cardinality(IdleCalls) >= n
    BY <1>1, <1>3, CountTypes
  <2> QED BY <1>1, <2>1, SlotsExist
<1> HIDE DEF n, slots
<1>5. /\ slots \in Seq(Call) /\ slots \in Seq(IdleCalls) /\ Len(slots) = n /\ DOMAIN slots = 1 .. n
      /\ Distinct(slots) /\ \A i \in 1 .. n : slots[i] \in Call /\ call[slots[i]].pc = "idle"
  <2>1. slots \in Seq(IdleCalls) /\ DOMAIN slots = 1 .. n
    BY <1>1, <1>4, SeqDef
  <2>2. IdleCalls \in SUBSET Call
    BY DEF IdleCalls
  <2>3. slots \in Seq(Call)
    <3>1. slots \in [1 .. n -> Call]
      BY <1>4, <2>2
    <3> QED BY <1>1, <3>1, SeqDef
  <2>4. Len(slots) = n
    BY <1>1, <2>1, LenProperties
  <2>5. Distinct(slots)
    BY <1>4, <2>1, <2>4 DEF Distinct, IsInjective
  <2> QED BY <1>4, <2>1, <2>3, <2>4, <2>5 DEF IdleCalls
<1>6. /\ Joins(None, slots)
      /\ \A i \in 1 .. Len(slots) : call'[slots[i]] = NewCall("getAllUsers", Nothing)
  <2> DEFINE ops == [i \in DOMAIN slots |-> "getAllUsers"]
  <2>1. \A i \in 1 .. Len(slots) : Free(slots[i], None) /\ ops[i] \in Ops /\ ops[i] = "getAllUsers"
    BY <1>5 DEF Free, Ops
  <2>2. None \notin Call
    BY IdentitiesAssumption
  <2>3. Continue(None, slots, ops) /\ Distinct(slots) /\ slots \in Seq(Call)
    BY <1>2, <1>5
  <2> HIDE DEF ops
  <2>4. /\ Joins(None, slots)
        /\ \A i \in 1 .. Len(slots) : call'[slots[i]] = NewCall(ops[i], Nothing)
    BY <2>1, <2>2, <2>3, ContinueJoins
  <2> QED BY <2>1, <2>4
<1>7. new \in SUBSET IdleCalls /\ new \in SUBSET Call
  BY <1>5 DEF In, IdleCalls
<1>8. HelperInv' /\ Asked(new, None)
  BY <1>6, <1>7, AskedIs
<1>9. Cardinality(IdleCalls) >= Cardinality(new) + Cardinality(Deletes)
  <2>1. slots \in Surjection(1 .. n, new)
    <3>1. \A i \in 1 .. n : slots[i] \in new
      BY <1>5 DEF In
    <3>2. \A d \in new : \E i \in 1 .. n : slots[i] = d
      BY <1>5 DEF In
    <3> HIDE DEF new
    <3> QED BY <1>4, <3>1, <3>2 DEF Surjection
  <2>2. Cardinality(new) <= n
    BY <1>1, <2>1, FS_SurjCardinalityBound DEF ExistsSurjection
  <2>3. Cardinality(new) \in Nat
    BY <1>7, CountTypes, FS_Subset, FS_CardinalityType
  <2> QED BY <1>1, <1>3, <2>2, <2>3, CountTypes
<1>10. PICK lists \in InStackOrder(PushedLists) :
           client' = [c \in Call |->
             IF \E i \in DOMAIN slots : slots[i] = c
             THEN For(lists[CHOOSE i \in DOMAIN slots : slots[i] = c])
             ELSE client[c]]
  BY <1>2
<1>11. lists \in [1 .. n -> PushedLists] /\ \A p \in PushedLists : \E i \in 1 .. n : lists[i] = p
  <2>1. lists \in [1 .. n -> PushedLists] /\ Range(lists) = PushedLists
    BY <1>10 DEF InStackOrder, n
  <2> QED BY <2>1 DEF Range
<1>12. \A i \in 1 .. n : client'[slots[i]] = For(lists[i])
  <2> SUFFICES ASSUME NEW i \in 1 .. n PROVE client'[slots[i]] = For(lists[i])
    OBVIOUS
  <2> DEFINE k == CHOOSE j \in DOMAIN slots : slots[j] = slots[i]
  <2>1. k \in 1 .. n /\ slots[k] = slots[i]
    BY <1>5
  <2>2. k = i
    BY <1>5, <2>1 DEF Distinct
  <2>3. client'[slots[i]] = For(lists[k])
    BY <1>5, <1>10
  <2> QED BY <2>2, <2>3
<1>13. \A d \in Call \ new : client'[d] = client[d]
  BY <1>5, <1>10 DEF In
<1>14. \A d \in new : /\ stage[d] = "idle" /\ call'[d] = NewCall("getAllUsers", Nothing)
                      /\ \E p \in PushedLists : client'[d] = For(p)
  <2> SUFFICES ASSUME NEW d \in new
               PROVE  /\ stage[d] = "idle" /\ call'[d] = NewCall("getAllUsers", Nothing)
                      /\ \E p \in PushedLists : client'[d] = For(p)
    OBVIOUS
  <2>1. PICK i \in 1 .. n : slots[i] = d
    BY <1>5 DEF In
  <2>2. lists[i] \in PushedLists /\ client'[d] = For(lists[i])
    BY <1>11, <1>12, <2>1
  <2> QED BY <1>5, <1>6, <2>1, <2>2, ScreenData
<1>15. \A p \in PushedLists : \E d \in new : client'[d] = For(p)
  <2> SUFFICES ASSUME NEW p \in PushedLists PROVE \E d \in new : client'[d] = For(p)
    OBVIOUS
  <2>1. PICK i \in 1 .. n : lists[i] = p
    BY <1>11
  <2>2. slots[i] \in new
    BY <1>5 DEF In
  <2> QED BY <1>12, <2>1, <2>2
<1>16. client' \in [Call -> Clients]
  <2>1. \A d \in Call : client'[d] \in Clients
    <3>1. \A p \in PushedLists : For(p) \in Clients
      BY ScreenData DEF PushedLists
    <3> QED BY <1>13, <1>14, <3>1 DEF ScreenTypes
  <2> QED BY <1>10, <2>1
<1> HIDE DEF new
<1> QED BY <1>2, <1>7, <1>8, <1>9, <1>13, <1>14, <1>15, <1>16

\* A continuation that asks for nothing.
LEMMA ContinueEnds ==
  ASSUME HelperInv, NEW c \in Call, call[c].pc = "done", Continue(c, <<>>, <<>>)
  PROVE  HelperInv' /\ Asked({}, c)
<1>1. <<>> \in Seq(Call) /\ Distinct(<<>>) /\ \A d \in Call : ~ In(d, <<>>)
  BY DEF Distinct, In
<1>2. \A i \in 1 .. Len(<<>>) : Free(<<>>[i], c) /\ <<>>[i] \in Ops
  OBVIOUS
<1>3. Joins(c, <<>>)
  BY <1>1, <1>2, ContinueJoins
<1> QED BY <1>1, <1>3, AskedIs

\* A list arrives: it is stored and the connection closed, or the page is gone,
\* or the list was refused.
LEMMA ListArrivedIs ==
  ASSUME HelperInv, ScreenTypes, NEW c \in Call, ListArrived(c)
  PROVE  LET p == client[c].page IN
         /\ HelperInv' /\ p \in Page
         /\ stage[c] = "done" /\ call[c].op = "getAllUsers"
         /\ client' = [client EXCEPT ![c] = NoOne] /\ stack' = stack
         /\ \/ /\ call[c].res.ok /\ Alive(p) /\ page' = SetState(p, call[c].res.rows)
               /\ Asked({c}, c) /\ call'[c] = NewCall("close", Nothing) /\ leaked' = leaked
            \/ /\ call[c].res.ok /\ ~ Alive(p) /\ page' = page
               /\ Asked({}, c) /\ leaked' = (conn = "open")
            \/ /\ ~ call[c].res.ok /\ page' = [page EXCEPT ![p].failed = Alive(p)]
               /\ Asked({}, c) /\ leaked' = leaked
<1> DEFINE p == client[c].page
<1>1. /\ call[c].pc = "done" /\ call[c].op = "getAllUsers" /\ stage[c] = "done"
      /\ client' = [client EXCEPT ![c] = NoOne] /\ stack' = stack
  BY ScreenData DEF ListArrived, Settled
<1>2. p \in Page
  BY <1>1 DEF ScreenTypes
<1>3. ASSUME Continue(c, <<c>>, <<"close">>)
      PROVE  HelperInv' /\ Asked({c}, c) /\ call'[c] = NewCall("close", Nothing)
  <2>1. /\ <<c>> \in Seq(Call) /\ Len(<<c>>) = 1 /\ <<c>>[1] = c
        /\ <<"close">>[1] = "close" /\ 1 .. 1 = {1}
    OBVIOUS
  <2>2. Distinct(<<c>>) /\ \A d \in Call : In(d, <<c>>) <=> d = c
    BY <2>1 DEF Distinct, In
  <2>3. \A i \in 1 .. Len(<<c>>) : Free(<<c>>[i], c) /\ <<"close">>[i] \in Ops
    BY <2>1 DEF Free, Ops
  <2> DEFINE slots == <<c>>
             ops   == <<"close">>
  <2>4. /\ slots \in Seq(Call) /\ Distinct(slots) /\ Continue(c, slots, ops) /\ call[c].pc = "done"
        /\ \A i \in 1 .. Len(slots) : Free(slots[i], c) /\ ops[i] \in Ops
    BY <1>1, <1>3, <2>1, <2>2, <2>3
  <2>5. Joins(c, slots) /\ \A i \in 1 .. Len(slots) : call'[slots[i]] = NewCall(ops[i], Nothing)
    <3> HIDE DEF slots, ops
    <3> QED BY <2>4, ContinueJoins
  <2>6. Joins(c, <<c>>) /\ \A i \in 1 .. Len(<<c>>) : call'[<<c>>[i]] = NewCall(<<"close">>[i], Nothing)
    BY <2>5
  <2>7. HelperInv' /\ Asked({c}, c)
    BY <2>2, <2>6, AskedIs
  <2> QED BY <2>1, <2>6, <2>7
<1>4. ASSUME Continue(c, <<>>, <<>>) PROVE HelperInv' /\ Asked({}, c)
  BY <1>1, <1>4, ContinueEnds
<1>5. CASE call[c].res.ok /\ Alive(p) /\ page' = SetState(p, call[c].res.rows) /\ CloseAfterList(c) /\ leaked' = leaked
  BY <1>1, <1>2, <1>3, <1>5 DEF CloseAfterList
<1>6. CASE call[c].res.ok /\ ~ Alive(p) /\ leaked' = (conn = "open") /\ Continue(c, <<>>, <<>>) /\ page' = page
  BY <1>1, <1>2, <1>4, <1>6
<1>7. CASE ~ call[c].res.ok /\ page' = [page EXCEPT ![p].failed = Alive(p)] /\ Continue(c, <<>>, <<>>) /\ leaked' = leaked
  BY <1>1, <1>2, <1>4, <1>7
<1> QED BY <1>5, <1>6, <1>7 DEF ListArrived

\* A delete is over: its page asks for the list, and closes; or it was refused.
LEMMA DeleteSettledIs ==
  ASSUME HelperInv, ScreenTypes, SpareInv, NEW c \in Call, DeleteSettled(c)
  PROVE  LET p == client[c].page IN
         /\ HelperInv' /\ p \in Page
         /\ stage[c] = "done" /\ call[c].op = "deleteUser"
         /\ UNCHANGED <<stack, page, leaked>>
         /\ \/ /\ call[c].res.ok /\ client' = [client EXCEPT ![c] = For(p)]
               /\ \E f \in Call : /\ f # c /\ stage[f] = "idle" /\ Asked({c, f}, c)
                                  /\ call'[c] = NewCall("getAllUsers", Nothing)
                                  /\ call'[f] = NewCall("close", Nothing)
            \/ /\ ~ call[c].res.ok /\ client' = [client EXCEPT ![c] = NoOne]
               /\ Asked({}, c)
<1> DEFINE p == client[c].page
           f == FreeCall
<1>1. /\ call[c].pc = "done" /\ call[c].op = "deleteUser" /\ stage[c] = "done"
      /\ UNCHANGED <<stack, page, leaked>>
  BY ScreenData DEF DeleteSettled, Settled
<1>2. p \in Page
  BY <1>1 DEF ScreenTypes
<1>3. f \in Call /\ call[f].pc = "idle" /\ stage[f] = "idle" /\ f # c
  <2>1. c \in Deletes
    BY <1>1 DEF Deletes
  <2>2. Cardinality(Deletes) # 0
    BY <2>1, CountTypes, FS_EmptySet
  <2>3. Cardinality(IdleCalls) > 0
    BY <2>2, CountTypes DEF SpareInv
  <2>4. f \in Call /\ call[f].pc = "idle"
    BY <2>3, FreeExists
  <2> QED BY <1>1, <2>4, ScreenData
<1> HIDE DEF f
<1>4. ASSUME Continue(c, <<c, f>>, <<"getAllUsers", "close">>)
      PROVE  /\ HelperInv' /\ Asked({c, f}, c)
             /\ call'[c] = NewCall("getAllUsers", Nothing) /\ call'[f] = NewCall("close", Nothing)
  <2> DEFINE slots == <<c, f>>
             ops   == <<"getAllUsers", "close">>
  <2>1. /\ slots \in Seq(Call) /\ Len(slots) = 2 /\ slots[1] = c /\ slots[2] = f
        /\ ops[1] = "getAllUsers" /\ ops[2] = "close" /\ 1 .. 2 = {1, 2}
    BY <1>3
  <2> HIDE DEF slots, ops
  <2>2. Distinct(slots) /\ \A d \in Call : In(d, slots) <=> d \in {c, f}
    BY <1>3, <2>1 DEF Distinct, In
  <2>3. \A i \in 1 .. Len(slots) : Free(slots[i], c) /\ ops[i] \in Ops
    BY <1>3, <2>1 DEF Free, Ops
  <2>4. /\ slots \in Seq(Call) /\ Distinct(slots) /\ Continue(c, slots, ops) /\ call[c].pc = "done"
        /\ \A i \in 1 .. Len(slots) : Free(slots[i], c) /\ ops[i] \in Ops
    BY <1>1, <1>4, <2>1, <2>2, <2>3 DEF slots, ops
  <2>5. Joins(c, slots) /\ \A i \in 1 .. Len(slots) : call'[slots[i]] = NewCall(ops[i], Nothing)
    BY <2>4, ContinueJoins
  <2>6. {c, f} \in SUBSET Call
    BY <1>3
  <2>7. HelperInv' /\ Asked({c, f}, c)
    BY <2>2, <2>5, <2>6, AskedIs
  <2> QED BY <2>1, <2>5, <2>7
<1>5. CASE call[c].res.ok /\ RefreshAfterDelete(c) /\ client' = [client EXCEPT ![c] = For(p)]
  <2>1. Continue(c, <<c, f>>, <<"getAllUsers", "close">>)
    BY <1>5 DEF RefreshAfterDelete, f
  <2> QED BY <1>1, <1>2, <1>3, <1>4, <1>5, <2>1
<1>6. CASE ~ call[c].res.ok /\ Continue(c, <<>>, <<>>) /\ client' = [client EXCEPT ![c] = NoOne]
  BY <1>1, <1>2, <1>6, ContinueEnds
<1> QED BY <1>5, <1>6 DEF DeleteSettled

\* An insert or a close is over, and nobody cares.
LEMMA UnawaitedIs ==
  ASSUME HelperInv, NEW c \in Call, Unawaited(c)
  PROVE  /\ HelperInv' /\ Asked({}, c)
         /\ stage[c] = "done" /\ call[c].op \in {"insertUser", "close"}
         /\ UNCHANGED <<stack, page, client, leaked>>
<1>1. Joins(c, <<>>)
  BY ReturnJoins DEF Unawaited
<1>2. \A d \in Call : ~ In(d, <<>>)
  BY DEF In
<1>3. HelperInv' /\ Asked({}, c)
  BY <1>1, <1>2, AskedIs
<1> QED BY <1>3, ScreenData DEF Unawaited, Settled, uiVars

-----------------------------------------------------------------------------
(* What asking for something keeps of the invariants. *)

\* The screens may also do something on their own.
LEMMA NothingAsked ==
  ASSUME HelperInv, UNCHANGED dbVars
  PROVE  HelperInv' /\ Asked({}, None)
<1>1. /\ call' = call /\ replyQ' = replyQ /\ cmdQ' = cmdQ /\ waiters' = waiters /\ pathQ' = pathQ
      /\ UNCHANGED <<table, conn>>
  BY DEF dbVars, plugin
<1>2. RInv'
  BY RInvStep DEF HelperInv
<1>3. Flight' = Flight
  BY <1>1 DEF Flight
<1>4. stage' = stage
  BY <1>1, StageIs
<1>5. FlightInv' /\ before' = before
  BY <1>3, <1>4, RowStays DEF HelperInv, Flying
<1>6. None \notin Call
  BY IdentitiesAssumption
<1> QED BY <1>1, <1>2, <1>4, <1>5, <1>6 DEF HelperInv, Asked

\* Those who are not asked, and are not over, stay what they are.
Others(new, c) == Call \ (new \cup {c})

\* The operations are the screens', the results' keys are unique.
LEMMA AskedData ==
  ASSUME DataInv, OpsInv, NEW new, NEW c, Asked(new, c),
         \A d \in new : call'[d].op \in {"insertUser", "deleteUser", "getAllUsers", "close"},
         \A p \in Page : Unique(Listing(p)')
  PROVE  DataInv' /\ OpsInv'
<1>1. \A d \in Call : \/ d \in new /\ call'[d].res = Failure
                      \/ call'[d] = Idle
                      \/ call'[d] = call[d]
  BY DEF Asked
<1>2. \A d \in Call : Unique(call'[d].res.rows)
  <2>1. Failure.rows = {} /\ Idle.res.rows = {}
    BY DEF Failure, Idle, NewCall
  <2>2. Unique({})
    BY DEF Unique
  <2> QED BY <1>1, <2>1, <2>2 DEF DataInv
<1>3. \A d \in Call : call'[d].op \in {"insertUser", "deleteUser", "getAllUsers", "close"}
  <2>1. Idle.op = "close"
    BY DEF Idle, NewCall
  <2> QED BY <1>1, <2>1 DEF OpsInv
<1>4. Unique(table') /\ Unique(table)'
  BY DEF DataInv, Asked, Unique
<1>5. \A d \in Call : Unique(call[d].res.rows)'
  BY <1>2 DEF Unique
<1>6. \A p \in Page : Unique(Listing(p))'
  BY DEF Unique
<1> QED BY <1>3, <1>4, <1>5, <1>6 DEF DataInv, OpsInv

\* What is known of a page nothing was pushed on.
LEMMA AskedPage ==
  ASSUME NEW p \in Page, ForeignInv(p), ShrinkInv(p), StaleInv(p), NEW new, NEW c, Asked(new, c),
         \A d \in Others(new, c) : client'[d] = client[d],
         \A d \in new : \/ call'[d].op \in {"getAllUsers", "close"}
                        \/ call'[d].op = "deleteUser" /\ client'[d].page = p,
         \/ page'[p].items = page[p].items
         \/ Lists(c, p) /\ c \in Call /\ page'[p].items = call[c].res.rows
  PROVE  ForeignInv(p)' /\ ShrinkInv(p)' /\ StaleInv(p)'
<1>1. \A d \in Others(new, c) : stage'[d] = stage[d] /\ call'[d] = call[d] /\ client'[d] = client[d]
  BY DEF Asked, Others
<1>2. \A d \in Call : \/ d \in new /\ stage'[d] = "pending"
                      \/ d \notin new /\ stage'[d] = "idle"
                      \/ d \in Others(new, c)
  BY DEF Asked, Others
<1>3. \A d \in Others(new, c) : d \notin new /\ d \in Call /\ d # c
  BY DEF Others
<1>4. ASSUME NEW m \in Call, Foreign(m, p)' PROVE m \in Others(new, c) /\ Foreign(m, p)
  BY <1>1, <1>2, <1>4 DEF Foreign
<1>5. ASSUME NEW d \in Call, Lists(d, p)' PROVE d \in Others(new, c) /\ Lists(d, p)
  <2>1. d \in Others(new, c)
    BY <1>2, <1>5 DEF Lists, Made, Answered
  <2> QED BY <1>1, <1>5, <2>1 DEF Lists, Made, Answered
<1>6. ForeignInv(p)'
  <2> SUFFICES ASSUME NEW m \in Call, Foreign(m, p)'
               PROVE  /\ page'[p].items = None
                      /\ \A d \in Call : Made(d, "getAllUsers", p)' =>
                           ~ Answered(d)' /\ (stage'[d] = "pending" => <<m, d>> \in before')
    BY DEF ForeignInv
  <2>1. m \in Others(new, c) /\ Foreign(m, p) /\ Flying(m)
    BY <1>4 DEF Foreign, Flying
  <2>2. ASSUME NEW d \in Call, Lists(d, p) PROVE FALSE
    BY <2>1, <2>2 DEF ForeignInv, Lists
  <2>3. page'[p].items = None
    BY <2>1, <2>2 DEF ForeignInv
  <2>4. ASSUME NEW d \in Call, Made(d, "getAllUsers", p)', Answered(d)' PROVE FALSE
    BY <1>5, <2>2, <2>4 DEF Lists
  <2>5. ASSUME NEW d \in Call, Made(d, "getAllUsers", p)', stage'[d] = "pending" PROVE <<m, d>> \in before'
    <3>1. CASE d \in new
      BY <2>1, <3>1 DEF Asked
    <3>2. CASE d \in Others(new, c)
      <4>1. <<m, d>> \in before
        BY <1>1, <2>1, <2>5, <3>2 DEF ForeignInv, Made
      <4> QED BY <4>1 DEF Asked
    <3> QED BY <1>2, <2>5, <3>1, <3>2
  <2> QED BY <2>3, <2>4, <2>5
<1>7. ASSUME NEW d \in Call, NEW e \in Call, Lists(d, p)', Lists(e, p)', Older(d, e)' PROVE Older(d, e)
  <2>1. d \in Others(new, c) /\ e \notin new
    BY <1>3, <1>5, <1>7
  <2> QED BY <1>1, <1>7, <2>1 DEF Older, Asked
<1>8. table' = table
  BY DEF Asked
<1>9. ShrinkInv(p)'
  <2>1. page'[p].items # None => table \subseteq page'[p].items
    BY DEF ShrinkInv
  <2>2. ASSUME NEW d \in Call, Lists(d, p)'
        PROVE  /\ table \subseteq call'[d].res.rows
               /\ page'[p].items # None => call'[d].res.rows \subseteq page'[p].items
               /\ \A e \in Call \ {d} : Lists(e, p)' /\ Older(d, e)' => call'[e].res.rows \subseteq call'[d].res.rows
    <3>1. d \in Others(new, c) /\ Lists(d, p) /\ call'[d] = call[d] /\ d # c
      BY <1>1, <1>3, <1>5, <2>2
    <3>2. page'[p].items # None => call'[d].res.rows \subseteq page'[p].items
      <4>1. CASE page'[p].items = page[p].items
        BY <3>1, <4>1 DEF ShrinkInv
      <4>2. CASE Lists(c, p) /\ c \in Call /\ page'[p].items = call[c].res.rows
        <5>1. Older(c, d)
          BY <4>2 DEF Older, Asked
        <5> QED BY <3>1, <4>2, <5>1 DEF ShrinkInv
      <4> QED BY <4>1, <4>2
    <3>3. ASSUME NEW e \in Call \ {d}, Lists(e, p)', Older(d, e)' PROVE call'[e].res.rows \subseteq call'[d].res.rows
      <4>1. Lists(e, p) /\ call'[e] = call[e] /\ Older(d, e)
        BY <1>1, <1>5, <1>7, <2>2, <3>3
      <4> QED BY <3>1, <4>1 DEF ShrinkInv
    <3> QED BY <3>1, <3>2, <3>3 DEF ShrinkInv
  <2> QED BY <1>8, <2>1, <2>2 DEF ShrinkInv
<1>10. StaleInv(p)'
  <2> SUFFICES ASSUME NEW d \in Call, Lists(d, p)', call'[d].res.rows # table'
               PROVE  \E e \in Call : Made(e, "deleteUser", p)' /\ stage'[e] = "effected" /\ Older(d, e)'
    BY DEF StaleInv
  <2>1. d \in Others(new, c) /\ Lists(d, p) /\ call'[d] = call[d] /\ stage'[d] = stage[d]
    BY <1>1, <1>5
  <2>2. PICK e \in Call : Made(e, "deleteUser", p) /\ stage[e] = "effected" /\ Older(d, e)
    BY <1>8, <2>1 DEF StaleInv
  <2>3. e \in Others(new, c)
    BY <2>2 DEF Others, Asked
  <2>4. Made(e, "deleteUser", p)' /\ stage'[e] = "effected"
    BY <1>1, <2>2, <2>3 DEF Made
  <2>5. Older(d, e)'
    BY <2>1, <2>2 DEF Older, Asked
  <2> QED BY <2>4, <2>5
<1> QED BY <1>6, <1>9, <1>10

\* What was to bring it up to date still will, or has just been over.
LEMMA AskedFresh ==
  ASSUME NEW p \in Page, FreshInv(p), NEW new, NEW c, Asked(new, c),
         \A d \in Others(new, c) : client'[d] = client[d],
         page'[p].items = page[p].items, page'[p].failed = page[p].failed,
         c \in Call => ~ Refresher(c, p)
  PROVE  FreshInv(p)'
<1>1. ASSUME NEW d \in Call, Refresher(d, p) PROVE Refresher(d, p)'
  <2>1. stage[d] # "idle"
    BY <1>1 DEF Refresher, Made
  <2>2. d # c
    BY <1>1
  <2>3. d \in Call \ new /\ d \in Others(new, c)
    BY <2>1, <2>2 DEF Asked, Others
  <2>4. stage'[d] = stage[d] /\ call'[d] = call[d] /\ client'[d] = client[d] /\ table' = table
    BY <2>2, <2>3 DEF Asked
  <2> QED BY <1>1, <2>4 DEF Refresher, Made, Answered
<1> QED BY <1>1 DEF FreshInv, Asked

\* Those who run first still do.
LEMMA AskedTapped ==
  ASSUME TappedInv, NEW new, NEW c, Asked(new, c),
         \A d \in Others(new, c) : client'[d] = client[d],
         \A d \in new : call'[d].op # "deleteUser"
  PROVE  TappedInv'
<1> SUFFICES ASSUME NEW d \in Call, call'[d].op = "deleteUser", stage'[d] = "pending", ~ client'[d].covered
             PROVE  /\ (Rows(call[d].arg.id) \subseteq {client[d].row})'
                    /\ \A m \in Call : call'[m].op = "insertUser" /\ stage'[m] = "pending" => <<d, m>> \in before'
  BY DEF TappedInv
<1>1. d \in Others(new, c) /\ stage[d] = "pending" /\ call'[d] = call[d] /\ client'[d] = client[d] /\ table' = table
  BY DEF Asked, Others
<1>2. Rows(call[d].arg.id) \subseteq {client[d].row}
  BY <1>1 DEF TappedInv
<1>3. ASSUME NEW m \in Call, call'[m].op = "insertUser", stage'[m] = "pending" PROVE <<d, m>> \in before'
  <2>1. m \in new \/ (stage[m] = "pending" /\ call'[m] = call[m])
    BY <1>3 DEF Asked
  <2>2. CASE m \in new
    BY <1>1, <2>2 DEF Asked, Flying
  <2>3. CASE stage[m] = "pending" /\ call'[m] = call[m]
    BY <1>1, <1>3, <2>3 DEF TappedInv, Asked
  <2> QED BY <2>1, <2>2, <2>3
<1> QED BY <1>1, <1>2, <1>3 DEF Rows

\* An insert is not the last, or will not be.
LEMMA AskedOpen ==
  ASSUME OpenInv, NEW new, NEW c, Asked(new, c),
         \A d \in new : call'[d].op # "insertUser" \/ ListPushed',
         ListPushed => ListPushed' \/ new # {}
  PROVE  /\ AfterInserts'
         /\ \A d \in Call : Flying(d) => Flying(d)' /\ call'[d] = call[d]
         /\ \A d \in new : Flying(d)'
         /\ \A d \in Call : Goes(d) /\ d # c => Goes(d)'
<1>1. \A d \in Call : Flying(d) => Flying(d)' /\ call'[d] = call[d] /\ d \notin new /\ d # c
  BY DEF Flying, Asked
<1>2. \A d \in new : Flying(d)'
  BY DEF Flying, Asked
<1>3. \A d \in Call : Goes(d) /\ d # c => Goes(d)'
  BY DEF Goes, Asked
<1>4. ASSUME NEW m \in Call, Flying(m)', call'[m].op = "insertUser"
      PROVE  ListPushed' \/ \E d \in Call : Flying(d)' /\ call'[d].op # "insertUser" /\ <<m, d>> \in before'
  <2>1. m \in new \/ Flying(m)
    BY <1>4 DEF Flying, Asked
  <2>2. CASE m \in new
    BY <1>4, <2>2
  <2>3. CASE Flying(m) /\ new = {}
    <3>1. call[m].op = "insertUser"
      BY <1>1, <1>4, <2>3
    <3>2. CASE ListPushed
      BY <2>3, <3>2
    <3>3. CASE \E d \in Call : Flying(d) /\ call[d].op # "insertUser" /\ <<m, d>> \in before
      <4>1. PICK d \in Call : Flying(d) /\ call[d].op # "insertUser" /\ <<m, d>> \in before
        BY <3>3
      <4>2. <<m, d>> \in before'
        BY <4>1 DEF Asked
      <4> QED BY <1>1, <4>1, <4>2
    <3> QED BY <2>3, <3>1, <3>2, <3>3 DEF OpenInv, AfterInserts
  <2>4. CASE Flying(m) /\ new # {}
    <3>1. PICK d \in new : TRUE
      BY <2>4
    <3>2. d \in Call /\ <<m, d>> \in before'
      BY <2>4, <3>1 DEF Asked
    <3> QED BY <1>2, <3>1, <3>2
  <2> QED BY <2>1, <2>2, <2>3, <2>4
<1>5. AfterInserts'
  BY <1>4 DEF AfterInserts
<1> QED BY <1>1, <1>2, <1>3, <1>5

\* Which calls are idle, and which are deletes, then.
LEMMA AskedCounts ==
  ASSUME NEW new, NEW c, Asked(new, c)
  PROVE  /\ IdleCalls' = (IdleCalls \ new) \cup {d \in Call \ new : d = c}
         /\ Deletes' = (Deletes \ {c}) \cup {d \in new : call'[d].op = "deleteUser"}
<1>1. /\ IdleCalls = {d \in Call : stage[d] = "idle"} /\ IdleCalls' = {d \in Call : stage'[d] = "idle"}
      /\ Deletes = {d \in Call : call[d].op = "deleteUser" /\ stage[d] # "idle"}
      /\ Deletes' = {d \in Call : call'[d].op = "deleteUser" /\ stage'[d] # "idle"}
  BY ScreenData DEF IdleCalls, Deletes
<1>2. \A d \in Call : stage'[d] = "idle" <=> (stage[d] = "idle" /\ d \notin new) \/ (d \notin new /\ d = c)
  BY DEF Asked
<1>3. \A d \in Call : call'[d].op = "deleteUser" /\ stage'[d] # "idle" <=>
        \/ d # c /\ call[d].op = "deleteUser" /\ stage[d] # "idle"
        \/ d \in new /\ call'[d].op = "deleteUser"
  BY DEF Asked
<1>4. new \subseteq Call
  BY DEF Asked
<1>5. IdleCalls' = (IdleCalls \ new) \cup {d \in Call \ new : d = c}
  BY <1>1, <1>2
<1>6. Deletes' = (Deletes \ {c}) \cup {d \in new : call'[d].op = "deleteUser"}
  BY <1>1, <1>3, <1>4
<1> QED BY <1>5, <1>6

-----------------------------------------------------------------------------
(* The invariant, and how each step keeps it. *)

TodoInv == /\ HelperInv /\ ScreenTypes /\ DataInv /\ OpsInv /\ SpareInv
           /\ PagesInv /\ PageInv /\ TappedInv /\ OpenInv

\* A page nothing was pushed on is the last of the stack, and taps reach it.
LEMMA TopIsTop ==
  ASSUME ScreenTypes, PagesInv, NEW p \in Page, OnTopSinceBuilt(p)
  PROVE  stack[Len(stack)] = p /\ \A q \in Page : TopBuilt(q) => q = p
<1>1. p \in Range(stack) /\ page[p].phase = "mounted" /\ page[p].covered # TRUE
  BY DEF ScreenTypes, OnTopSinceBuilt
<1>2. Len(stack) \in Nat /\ DOMAIN stack = 1 .. Len(stack)
  BY LenProperties DEF ScreenTypes
<1>3. PICK i \in 1 .. Len(stack) : stack[i] = p
  BY <1>1, <1>2 DEF Range
<1>4. ~ (i \in 1 .. Len(stack) - 1)
  BY <1>1, <1>3 DEF PagesInv
<1>5. i = Len(stack)
  <2>1. \A n \in Nat : \A k \in 1 .. n : k \in 1 .. n - 1 \/ k = n
    OBVIOUS
  <2> QED BY <1>2, <1>3, <1>4, <2>1, Zenon
<1>6. ASSUME NEW q \in Page, TopBuilt(q) PROVE q = p
  <2>1. PICK k \in 1 .. Len(stack) : stack[k] = q /\ \A j \in k + 1 .. Len(stack) : page[stack[j]].phase = "pushed"
    BY <1>6 DEF TopBuilt
  <2>2. ~ (Len(stack) \in k + 1 .. Len(stack))
    BY <1>1, <1>3, <1>5, <2>1
  <2> QED BY <1>2, <1>3, <1>5, <2>1, <2>2
<1> QED BY <1>3, <1>5, <1>6

\* A delete icon is tapped: on a page nothing was pushed on, no insert and no
\* other page's delete is pending, and the row tapped is all that has its id.
LEMMA TapDeleteKeeps ==
  ASSUME TodoInv, NEW p \in Page, NEW index, TapDelete(p, index)
  PROVE  TodoInv'
<1>0. /\ HelperInv /\ ScreenTypes /\ DataInv /\ OpsInv /\ SpareInv
      /\ PagesInv /\ PageInv /\ TappedInv /\ OpenInv
  BY DEF TodoInv
<1>1. PICK c \in Call, row \in Listing(p) :
        /\ HelperInv'
        /\ Asked({c}, None) /\ stage[c] = "idle"
        /\ call'[c] = NewCall("deleteUser", OnlyId(row._id))
        /\ client' = [client EXCEPT ![c] = [page |-> p, row |-> row, covered |-> page[p].covered]]
  BY <1>0, TapDeleteIs
<1>2. /\ UNCHANGED <<stack, page, leaked>> /\ Spare(2) /\ TopBuilt(p) /\ page[p].kind = "todo"
      /\ page[p].phase = "mounted"
  BY DEF TapDelete, TopBuilt
<1>3. call'[c].op = "deleteUser" /\ call'[c].arg.id = row._id
  BY <1>1 DEF NewCall, OnlyId
<1>4. None \notin Call
  BY IdentitiesAssumption
<1>5. /\ client'[c] = [page |-> p, row |-> row, covered |-> page[p].covered]
      /\ \A d \in Call : d # c => client'[d] = client[d] /\ call'[d] = call[d] /\ stage'[d] = stage[d]
      /\ stage'[c] = "pending" /\ table' = table /\ conn' = conn
  BY <1>0, <1>1, <1>4 DEF ScreenTypes, Asked
<1>6. ScreenTypes'
  <2>1. page[p] \in Pages
    BY <1>0 DEF ScreenTypes
  <2>2. row \in Row /\ page[p].covered \in BOOLEAN
    BY <2>1 DEF Pages, Listing
  <2>3. client'[c] \in Clients
    BY <1>5, <2>2 DEF Clients
  <2>4. client' \in [Call -> Clients]
    BY <1>0, <1>1, <1>5, <2>3 DEF ScreenTypes
  <2> QED BY <1>0, <1>2, <1>5, <2>4 DEF ScreenTypes
<1>7. DataInv' /\ OpsInv'
  <2>1. \A q \in Page : Listing(q)' = Listing(q)
    BY <1>2 DEF Listing
  <2>2. \A q \in Page : Unique(Listing(q)')
    BY <1>0, <2>1 DEF DataInv
  <2> QED BY <1>0, <1>1, <1>3, <2>2, AskedData
<1>8. SpareInv'
  <2>1. IdleCalls' = IdleCalls \ {c}
    BY <1>1, <1>4, AskedCounts
  <2>2. Deletes' = Deletes \cup {c}
    <3>1. None \notin Deletes
      BY <1>4 DEF Deletes
    <3> QED BY <1>1, <1>3, <3>1, AskedCounts
  <2>3. Cardinality(IdleCalls') >= Cardinality(IdleCalls) - 1
    BY <2>1, CountTypes, FS_RemoveElement
  <2>4. Cardinality(Deletes') <= Cardinality(Deletes) + 1
    BY <2>2, CountTypes, FS_AddElement
  <2>5. Cardinality(IdleCalls) >= 2 + Cardinality(Deletes)
    BY <1>2 DEF Spare, Deletes
  <2>6. Cardinality(IdleCalls') >= Cardinality(Deletes')
    BY <2>3, <2>4, <2>5, CountTypes
  <2> QED BY <2>6 DEF SpareInv
<1>9. PagesInv'
  BY <1>0, <1>2, <1>3, <1>5 DEF PagesInv, Made
<1>10. PageInv'
  <2> SUFFICES ASSUME NEW q \in Page, OnTopSinceBuilt(q)'
               PROVE  ForeignInv(q)' /\ ShrinkInv(q)' /\ StaleInv(q)' /\ FreshInv(q)'
    BY DEF PageInv
  <2>1. OnTopSinceBuilt(q)
    BY <1>2 DEF OnTopSinceBuilt
  <2>2. q = p
    BY <1>0, <1>2, <2>1, TopIsTop
  <2>3. ForeignInv(q) /\ ShrinkInv(q) /\ StaleInv(q) /\ FreshInv(q)
    BY <1>0, <2>1 DEF PageInv
  <2>4. \A d \in Others({c}, None) : client'[d] = client[d]
    BY <1>5 DEF Others
  <2>5. page'[q] = page[q]
    BY <1>2
  <2>6. ForeignInv(q)' /\ ShrinkInv(q)' /\ StaleInv(q)'
    BY <1>1, <1>3, <1>5, <2>2, <2>3, <2>4, <2>5, AskedPage
  <2>7. FreshInv(q)'
    BY <1>1, <1>4, <2>3, <2>4, <2>5, AskedFresh
  <2> QED BY <2>6, <2>7
<1>11. TappedInv'
  <2> SUFFICES ASSUME NEW d \in Call, call'[d].op = "deleteUser", stage'[d] = "pending", ~ client'[d].covered
               PROVE  /\ (Rows(call[d].arg.id) \subseteq {client[d].row})'
                      /\ \A m \in Call : call'[m].op = "insertUser" /\ stage'[m] = "pending" => <<d, m>> \in before'
    BY DEF TappedInv
  <2>1. \A m \in Call : call'[m].op = "insertUser" /\ stage'[m] = "pending" =>
          m # c /\ call[m].op = "insertUser" /\ stage[m] = "pending"
    BY <1>3, <1>5
  <2>2. CASE d # c
    <3>1. /\ Rows(call[d].arg.id) \subseteq {client[d].row}
          /\ \A m \in Call : call[m].op = "insertUser" /\ stage[m] = "pending" => <<d, m>> \in before
      BY <1>0, <1>5, <2>2 DEF TappedInv
    <3>2. (Rows(call[d].arg.id) \subseteq {client[d].row})'
      BY <1>5, <2>2, <3>1 DEF Rows
    <3> QED BY <1>1, <2>1, <3>1, <3>2 DEF Asked
  <2>3. CASE d = c
    <3>1. OnTopSinceBuilt(p)
      BY <1>2, <1>5, <2>3 DEF OnTopSinceBuilt
    <3>2. page[p].items # None /\ Listing(p) = page[p].items /\ row \in page[p].items
      BY DEF Listing
    <3>3. table \subseteq page[p].items
      BY <1>0, <3>1, <3>2 DEF PageInv, ShrinkInv
    <3>4. Unique(page[p].items)
      BY <1>0, <3>2 DEF DataInv
    <3>5. \A r \in table : r._id = row._id => r = row
      BY <3>2, <3>3, <3>4 DEF Unique
    <3>6. (Rows(call[d].arg.id) \subseteq {client[d].row})'
      BY <1>3, <1>5, <2>3, <3>5 DEF Rows
    <3>7. \A m \in Call : ~ Foreign(m, p)
      BY <1>0, <3>1, <3>2 DEF PageInv, ForeignInv
    <3> QED BY <2>1, <3>6, <3>7 DEF Foreign
  <2> QED BY <2>2, <2>3
<1>12. OpenInv'
  <2>1. AfterInserts' /\ Flying(c)'
    <3>1. ListPushed => ListPushed' \/ {c} # {}
      OBVIOUS
    <3> QED BY <1>0, <1>1, <1>3, <3>1, AskedOpen
  <2> QED BY <2>1 DEF OpenInv
<1> QED BY <1>1, <1>6, <1>7, <1>8, <1>9, <1>10, <1>11, <1>12 DEF TodoInv

\* A page is pushed, and perhaps an insert asked for.
LEMMA PushKeeps ==
  ASSUME ScreenTypes, PagesInv, DataInv, NEW pages \in [Page -> Pages], NEW kind \in {"todo", "add"},
         \A p \in Page : /\ pages[p].kind = page[p].kind /\ pages[p].phase = page[p].phase
                         /\ pages[p].items = page[p].items,
         Push(pages, kind), client' = client, leaked' = leaked,
         NEW new, Asked(new, None), \A d \in new : call'[d].op = "insertUser"
  PROVE  /\ ScreenTypes' /\ PagesInv' /\ PageInv'
         /\ \A p \in Page : Unique(Listing(p)')
         /\ ListPushed \/ kind = "todo" => ListPushed'
<1> DEFINE q == CHOOSE q \in FreePages : TRUE
<1>0. /\ q \in Page /\ page[q].phase = "gone" /\ \A c \in Call : client[c].page # q
      /\ stack' = Append(stack, q)
      /\ page'  = [p \in Page |->
            IF p = q THEN NewPage(kind)
            ELSE IF p \in Range(stack) THEN [pages[p] EXCEPT !.covered = TRUE]
            ELSE pages[p]]
  <2>1. q \in FreePages
    BY DEF Push
  <2> QED BY <2>1 DEF Push, FreePages
<1> HIDE DEF q
<1>1. None \notin Call
  BY IdentitiesAssumption
<1>2. /\ stack \in Seq(Page) /\ Len(stack) \in Nat /\ DOMAIN stack = 1 .. Len(stack)
      /\ \A p \in Page : p \in Range(stack) <=> \E i \in 1 .. Len(stack) : stack[i] = p
      /\ \A i \in 1 .. Len(stack) : stack[i] \in Page /\ stack[i] \in Range(stack)
  <2>1. stack \in Seq(Page) /\ Len(stack) \in Nat /\ DOMAIN stack = 1 .. Len(stack)
    BY LenProperties DEF ScreenTypes
  <2>2. \A i \in 1 .. Len(stack) : stack[i] \in Page
    BY <2>1, ElementOfSeq
  <2>3. Range(stack) = {stack[i] : i \in 1 .. Len(stack)}
    BY <2>1 DEF Range
  <2> QED BY <2>1, <2>2, <2>3
<1>3. /\ stack' \in Seq(Page) /\ stack' # <<>> /\ Len(stack') = Len(stack) + 1
      /\ DOMAIN stack' = 1 .. Len(stack) + 1
      /\ \A i \in 1 .. Len(stack) : stack'[i] = stack[i]
      /\ stack'[Len(stack) + 1] = q
  <2>1. /\ stack' \in Seq(Page) /\ stack' # <<>> /\ Len(stack') = Len(stack) + 1
        /\ \A i \in 1 .. Len(stack) : stack'[i] = stack[i]
        /\ stack'[Len(stack) + 1] = q
    BY <1>0, <1>2, AppendProperties
  <2> QED BY <2>1, LenProperties
<1>4. q \notin Range(stack)
  BY <1>0 DEF ScreenTypes
<1>5. \A m \in Nat : \A i \in 1 .. m + 1 : i \in 1 .. m \/ i = m + 1
  OBVIOUS
<1>6. \A p \in Page : p \in Range(stack') <=> p \in Range(stack) \/ p = q
  <2>1. \A p \in Page : p \in Range(stack') <=> \E i \in 1 .. Len(stack) + 1 : stack'[i] = p
    BY <1>3 DEF Range
  <2>2. Len(stack) + 1 \in 1 .. Len(stack) + 1 /\ \A i \in 1 .. Len(stack) : i \in 1 .. Len(stack) + 1
    BY <1>2
  <2>3. \A i \in 1 .. Len(stack) + 1 : i \in 1 .. Len(stack) \/ i = Len(stack) + 1
    BY <1>2, <1>5
  <2> QED BY <1>2, <1>3, <2>1, <2>2, <2>3
<1>7. IsInjective(stack')
  <2> SUFFICES ASSUME NEW i \in 1 .. Len(stack) + 1, NEW j \in 1 .. Len(stack) + 1, stack'[i] = stack'[j]
               PROVE  i = j
    BY <1>3 DEF IsInjective
  <2>1. /\ i \in 1 .. Len(stack) \/ i = Len(stack) + 1
        /\ j \in 1 .. Len(stack) \/ j = Len(stack) + 1
    BY <1>2, <1>5
  <2>2. \A k, l \in 1 .. Len(stack) : stack[k] = stack[l] => k = l
    BY <1>2 DEF ScreenTypes, IsInjective
  <2> QED BY <1>2, <1>3, <1>4, <2>1, <2>2
<1>8. page' \in [Page -> Pages]
  <2>1. \A p \in Page : pages[p] \in Pages
    OBVIOUS
  <2>2. \A p \in Page : [pages[p] EXCEPT !.covered = TRUE] \in Pages
    BY <2>1 DEF Pages
  <2>3. NewPage(kind) \in Pages
    BY ScreenData
  <2> QED BY <1>0, <2>1, <2>2, <2>3
<1>9. page'[q] = NewPage(kind) /\ NewPage(kind).phase = "pushed" /\ NewPage(kind).items = None /\ NewPage(kind).kind = kind
  BY <1>0 DEF NewPage
<1>10. \A p \in Page \ {q} :
         /\ page'[p].kind = page[p].kind /\ page'[p].phase = page[p].phase
         /\ page'[p].items = page[p].items
         /\ p \in Range(stack) => page'[p].covered
  <2> SUFFICES ASSUME NEW p \in Page \ {q}
               PROVE  /\ page'[p].kind = page[p].kind /\ page'[p].phase = page[p].phase
                      /\ page'[p].items = page[p].items
                      /\ p \in Range(stack) => page'[p].covered
    OBVIOUS
  <2>1. pages[p] \in Pages
    OBVIOUS
  <2>2. CASE p \in Range(stack)
    <3>1. page'[p] = [pages[p] EXCEPT !.covered = TRUE]
      BY <1>0, <2>2
    <3> QED BY <2>1, <3>1 DEF Pages
  <2>3. CASE p \notin Range(stack)
    BY <1>0, <2>3
  <2> QED BY <2>2, <2>3
<1>11. \A p \in Page : page'[p].phase \in {"pushed", "mounted"} <=> p \in Range(stack')
  BY <1>6, <1>9, <1>10 DEF ScreenTypes
<1>12. \A d \in Call : /\ d \in new => call'[d].op = "insertUser"
                       /\ d \notin new => call'[d] = call[d] /\ stage'[d] = stage[d]
  BY <1>1 DEF Asked
<1>13. ScreenTypes'
  <2>1. \A c \in Call : stage'[c] # "idle" /\ call'[c].op \in {"deleteUser", "getAllUsers"} => client'[c].page \in Page
    BY <1>12 DEF ScreenTypes
  <2> QED BY <1>3, <1>7, <1>8, <1>11, <2>1 DEF ScreenTypes
<1>14. PagesInv'
  <2>1. \A i \in 1 .. Len(stack') - 1 : page'[stack'[i]].covered
    <3>1. \A i \in 1 .. Len(stack') - 1 : i \in 1 .. Len(stack)
      BY <1>2, <1>3
    <3>2. \A i \in 1 .. Len(stack) : stack'[i] \in Page \ {q} /\ stack'[i] \in Range(stack)
      BY <1>2, <1>3, <1>4
    <3> QED BY <1>10, <3>1, <3>2
  <2>2. ASSUME NEW p \in Page, page'[p].phase = "pushed"
        PROVE  /\ page'[p].items = None
               /\ \A c \in Call : ~ Made(c, "getAllUsers", p)' /\ ~ Made(c, "deleteUser", p)'
    <3>1. \A c \in Call : (Made(c, "getAllUsers", p)' => Made(c, "getAllUsers", p))
                          /\ (Made(c, "deleteUser", p)' => Made(c, "deleteUser", p))
      BY <1>12 DEF Made
    <3>2. CASE p = q
      BY <1>0, <1>9, <3>1, <3>2 DEF Made
    <3>3. CASE p # q
      BY <1>10, <2>2, <3>1, <3>3 DEF PagesInv
    <3> QED BY <3>2, <3>3
  <2> QED BY <2>1, <2>2 DEF PagesInv
<1>15. PageInv'
  <2> SUFFICES ASSUME NEW p \in Page, OnTopSinceBuilt(p)' PROVE FALSE
    BY DEF PageInv
  <2>1. page'[p].phase = "mounted" /\ ~ page'[p].covered
    BY DEF OnTopSinceBuilt
  <2>2. p # q
    BY <1>9, <2>1
  <2>3. p \in Range(stack)
    BY <1>10, <2>1, <2>2 DEF ScreenTypes
  <2> QED BY <1>10, <2>1, <2>2, <2>3
<1>16. \A p \in Page : Unique(Listing(p)')
  <2> SUFFICES ASSUME NEW p \in Page PROVE Unique(Listing(p)')
    OBVIOUS
  <2>1. page'[p].items = None \/ page'[p].items = page[p].items
    BY <1>9, <1>10
  <2>2. Unique({})
    BY DEF Unique
  <2> QED BY <2>1, <2>2 DEF DataInv, Listing
<1>17. ListPushed \/ kind = "todo" => ListPushed'
  <2>1. CASE kind = "todo"
    BY <1>0, <1>9, <2>1 DEF ListPushed
  <2>2. CASE ListPushed
    <3>1. PICK p \in Page : page[p].phase = "pushed" /\ page[p].kind = "todo"
      BY <2>2 DEF ListPushed
    <3>2. p # q
      BY <1>0, <3>1
    <3> QED BY <1>10, <3>1, <3>2 DEF ListPushed
  <2> QED BY <2>1, <2>2
<1> QED BY <1>13, <1>14, <1>15, <1>16, <1>17

\* The button that leads to the form.
LEMMA TapFabKeeps ==
  ASSUME TodoInv, NEW p \in Page, TapFab(p)
  PROVE  TodoInv'
<1>0. /\ HelperInv /\ ScreenTypes /\ DataInv /\ OpsInv /\ SpareInv
      /\ PagesInv /\ PageInv /\ TappedInv /\ OpenInv
  BY DEF TodoInv
<1>1. UNCHANGED dbVars /\ client' = client /\ leaked' = leaked /\ Push(page, "add")
  BY DEF TapFab
<1>2. HelperInv' /\ Asked({}, None) /\ None \notin Call
  BY <1>0, <1>1, NothingAsked, IdentitiesAssumption
<1>3. /\ ScreenTypes' /\ PagesInv' /\ PageInv'
      /\ \A q \in Page : Unique(Listing(q)')
      /\ ListPushed => ListPushed'
  <2>1. page \in [Page -> Pages]
    BY <1>0 DEF ScreenTypes
  <2>2. "add" \in {"todo", "add"} /\ \A d \in {} : call'[d].op = "insertUser"
    OBVIOUS
  <2> QED BY <1>0, <1>1, <1>2, <2>1, <2>2, PushKeeps
<1>4. DataInv' /\ OpsInv'
  BY <1>0, <1>2, <1>3, AskedData
<1>5. SpareInv'
  BY <1>0, <1>1 DEF SpareInv, IdleCalls, Deletes, dbVars
<1>6. TappedInv'
  BY <1>0, <1>1, <1>2, AskedTapped
<1>7. OpenInv'
  <2>1. AfterInserts' /\ \A d \in Call : (Flying(d) => Flying(d)') /\ (Goes(d) => Goes(d)')
    BY <1>0, <1>2, <1>3, AskedOpen
  <2>2. conn' = conn
    BY <1>2 DEF Asked
  <2> QED BY <1>0, <1>1, <1>3, <2>1, <2>2 DEF OpenInv
<1> QED BY <1>2, <1>3, <1>4, <1>5, <1>6, <1>7 DEF TodoInv

\* No page comes, goes or is built.
LEMMA ScreensKept ==
  ASSUME ScreenTypes, PagesInv, NEW new, NEW c, Asked(new, c),
         stack' = stack, page' \in [Page -> Pages], client' \in [Call -> Clients], leaked' \in BOOLEAN,
         \A p \in Page : /\ page'[p].kind = page[p].kind /\ page'[p].phase = page[p].phase
                         /\ page'[p].covered = page[p].covered
                         /\ page[p].phase = "pushed" => page'[p].items = page[p].items,
         \A d \in Others(new, c) : client'[d] = client[d],
         \A d \in new : call'[d].op \in {"deleteUser", "getAllUsers"} =>
                          client'[d].page \in Page /\ page[client'[d].page].phase # "pushed"
  PROVE  /\ ScreenTypes' /\ PagesInv'
         /\ \A p \in Page : OnTopSinceBuilt(p)' => OnTopSinceBuilt(p)
         /\ ListPushed <=> ListPushed'
<1>1. \A d \in Call : \/ d \in new
                      \/ d \notin new /\ stage'[d] = "idle"
                      \/ stage'[d] = stage[d] /\ call'[d] = call[d] /\ client'[d] = client[d]
  BY DEF Asked, Others
<1>2. ScreenTypes'
  <2>1. \A d \in Call : stage'[d] # "idle" /\ call'[d].op \in {"deleteUser", "getAllUsers"} => client'[d].page \in Page
    BY <1>1 DEF ScreenTypes
  <2> QED BY <2>1 DEF ScreenTypes
<1>3. PagesInv'
  <2>1. \A i \in 1 .. Len(stack) - 1 : page'[stack[i]].covered
    <3>1. \A i \in 1 .. Len(stack) - 1 : stack[i] \in Page
      <4>1. Len(stack) \in Nat /\ \A i \in 1 .. Len(stack) : stack[i] \in Page
        BY LenProperties, ElementOfSeq DEF ScreenTypes
      <4> QED BY <4>1
    <3> QED BY <3>1 DEF PagesInv
  <2>2. ASSUME NEW p \in Page, page'[p].phase = "pushed"
        PROVE  /\ page'[p].items = None
               /\ \A d \in Call : ~ Made(d, "getAllUsers", p)' /\ ~ Made(d, "deleteUser", p)'
    <3>1. page[p].phase = "pushed" /\ page'[p].items = page[p].items
      BY <2>2
    <3>2. ASSUME NEW d \in Call, Made(d, "getAllUsers", p)' \/ Made(d, "deleteUser", p)' PROVE FALSE
      <4>1. CASE d \in new
        BY <3>1, <3>2, <4>1 DEF Made
      <4>2. CASE stage'[d] = stage[d] /\ call'[d] = call[d] /\ client'[d] = client[d]
        BY <3>1, <3>2, <4>2 DEF Made, PagesInv
      <4> QED BY <1>1, <3>2, <4>1, <4>2 DEF Made
    <3> QED BY <3>1, <3>2 DEF PagesInv
  <2> QED BY <2>1, <2>2 DEF PagesInv
<1>4. \A p \in Page : OnTopSinceBuilt(p)' => OnTopSinceBuilt(p)
  BY DEF OnTopSinceBuilt
<1>5. ListPushed <=> ListPushed'
  BY DEF ListPushed
<1> QED BY <1>2, <1>3, <1>4, <1>5

\* A name is typed: no list is touched.
LEMMA NameTypedKeeps ==
  ASSUME TodoInv, NEW p \in Page, NEW name \in Name, Type(p, name)
  PROVE  TodoInv'
<1>0. /\ HelperInv /\ ScreenTypes /\ DataInv /\ OpsInv /\ SpareInv
      /\ PagesInv /\ PageInv /\ TappedInv /\ OpenInv
  BY DEF TodoInv
<1>1. UNCHANGED dbVars /\ client' = client /\ leaked' = leaked /\ stack' = stack /\ page' = [page EXCEPT ![p].text = name]
  BY DEF Type
<1>2. HelperInv' /\ Asked({}, None) /\ None \notin Call
  BY <1>0, <1>1, NothingAsked, IdentitiesAssumption
<1>3. /\ page' \in [Page -> Pages]
      /\ \A q \in Page : /\ page'[q].kind = page[q].kind /\ page'[q].phase = page[q].phase
                         /\ page'[q].items = page[q].items /\ page'[q].failed = page[q].failed
                         /\ page'[q].covered = page[q].covered
  BY <1>0, <1>1 DEF ScreenTypes, Pages
<1>4. /\ ScreenTypes' /\ PagesInv'
      /\ \A q \in Page : OnTopSinceBuilt(q)' => OnTopSinceBuilt(q)
      /\ ListPushed <=> ListPushed'
  <2>1. client' \in [Call -> Clients] /\ leaked' \in BOOLEAN
    BY <1>0, <1>1 DEF ScreenTypes
  <2>2. \A d \in Others({}, None) : client'[d] = client[d]
    BY <1>1
  <2> QED BY <1>0, <1>1, <1>2, <1>3, <2>1, <2>2, ScreensKept
<1>5. DataInv' /\ OpsInv'
  <2>1. \A q \in Page : Listing(q)' = Listing(q)
    BY <1>3 DEF Listing
  <2>2. \A q \in Page : Unique(Listing(q)')
    BY <1>0, <2>1 DEF DataInv
  <2> QED BY <1>0, <1>2, <2>2, AskedData
<1>6. SpareInv'
  BY <1>0, <1>1 DEF SpareInv, IdleCalls, Deletes, dbVars
<1>7. PageInv'
  <2> SUFFICES ASSUME NEW q \in Page, OnTopSinceBuilt(q)
               PROVE  ForeignInv(q)' /\ ShrinkInv(q)' /\ StaleInv(q)' /\ FreshInv(q)'
    BY <1>4 DEF PageInv
  <2>1. ForeignInv(q) /\ ShrinkInv(q) /\ StaleInv(q) /\ FreshInv(q)
    BY <1>0 DEF PageInv
  <2>2. ForeignInv(q)' /\ ShrinkInv(q)' /\ StaleInv(q)'
    BY <1>1, <1>2, <1>3, <2>1, AskedPage
  <2>3. FreshInv(q)'
    BY <1>1, <1>2, <1>3, <2>1, AskedFresh
  <2> QED BY <2>2, <2>3
<1>8. TappedInv'
  BY <1>0, <1>1, <1>2, AskedTapped
<1>9. OpenInv'
  <2>1. AfterInserts' /\ \A d \in Call : (Flying(d) => Flying(d)') /\ (Goes(d) => Goes(d)')
    BY <1>0, <1>2, <1>4, AskedOpen
  <2>2. conn' = conn
    BY <1>2 DEF Asked
  <2> QED BY <1>0, <1>1, <1>4, <2>1, <2>2 DEF OpenInv
<1> QED BY <1>2, <1>4, <1>5, <1>6, <1>7, <1>8, <1>9 DEF TodoInv

\* An insert is asked for and a list page pushed, which will ask after it.
LEMMA TapInsertKeeps ==
  ASSUME TodoInv, NEW p \in Page, TapInsert(p)
  PROVE  TodoInv'
<1>0. /\ HelperInv /\ ScreenTypes /\ DataInv /\ OpsInv /\ SpareInv
      /\ PagesInv /\ PageInv /\ TappedInv /\ OpenInv
  BY DEF TodoInv
<1>1. PICK c \in Call, u \in User :
        HelperInv' /\ Asked({c}, None) /\ stage[c] = "idle" /\ call'[c] = NewCall("insertUser", u)
  BY <1>0, TapInsertIs
<1>2. client' = client /\ leaked' = leaked /\ Push([page EXCEPT ![p].text = Blank], "todo") /\ Spare(1)
  BY DEF TapInsert
<1>3. call'[c].op = "insertUser" /\ None \notin Call
  BY <1>1, IdentitiesAssumption DEF NewCall
<1>4. /\ ScreenTypes' /\ PagesInv' /\ PageInv'
      /\ \A q \in Page : Unique(Listing(q)')
      /\ ListPushed'
  <2> DEFINE pages == [page EXCEPT ![p].text = Blank]
  <2>1. /\ pages \in [Page -> Pages]
        /\ \A q \in Page : /\ pages[q].kind = page[q].kind /\ pages[q].phase = page[q].phase
                           /\ pages[q].items = page[q].items
    BY <1>0, BlankAssumption DEF ScreenTypes, Pages
  <2>2. "todo" \in {"todo", "add"} /\ (\A d \in {c} : call'[d].op = "insertUser") /\ Push(pages, "todo")
    BY <1>2, <1>3
  <2> HIDE DEF pages
  <2> QED BY <1>0, <1>1, <1>2, <2>1, <2>2, PushKeeps
<1>5. DataInv' /\ OpsInv'
  BY <1>0, <1>1, <1>3, <1>4, AskedData
<1>6. SpareInv'
  <2>1. IdleCalls' = IdleCalls \ {c}
    BY <1>1, <1>3, AskedCounts
  <2>2. Deletes' = Deletes
    <3>1. None \notin Deletes
      BY <1>3 DEF Deletes
    <3>2. Deletes' = (Deletes \ {None}) \cup {d \in {c} : call'[d].op = "deleteUser"}
      BY <1>1, AskedCounts
    <3>3. {d \in {c} : call'[d].op = "deleteUser"} = {}
      BY <1>3
    <3> QED BY <3>1, <3>2, <3>3
  <2>3. Cardinality(IdleCalls') >= Cardinality(IdleCalls) - 1
    BY <2>1, CountTypes, FS_RemoveElement
  <2>4. Cardinality(IdleCalls) >= 1 + Cardinality(Deletes)
    BY <1>2 DEF Spare, Deletes
  <2>5. Cardinality(IdleCalls') >= Cardinality(Deletes')
    BY <2>2, <2>3, <2>4, CountTypes
  <2> QED BY <2>5 DEF SpareInv
<1>7. TappedInv'
  BY <1>0, <1>1, <1>2, <1>3, AskedTapped
<1>8. OpenInv'
  <2>1. AfterInserts'
    BY <1>0, <1>1, <1>4, AskedOpen
  <2> QED BY <1>4, <2>1 DEF OpenInv
<1> QED BY <1>1, <1>4, <1>5, <1>6, <1>7, <1>8 DEF TodoInv

\* The top page is popped; those below have been covered.
LEMMA BackKeeps ==
  ASSUME TodoInv, Back
  PROVE  TodoInv'
<1> DEFINE p == stack[Len(stack)]
<1>0. /\ HelperInv /\ ScreenTypes /\ DataInv /\ OpsInv /\ SpareInv
      /\ PagesInv /\ PageInv /\ TappedInv /\ OpenInv
  BY DEF TodoInv
<1>1. /\ UNCHANGED dbVars /\ client' = client /\ leaked' = leaked
      /\ Len(stack) > 1 /\ page[p].phase = "mounted"
      /\ stack' = SubSeq(stack, 1, Len(stack) - 1) /\ page' = [page EXCEPT ![p].phase = "leaving"]
  BY DEF Back, Front, Last
<1>2. HelperInv' /\ Asked({}, None) /\ None \notin Call
  BY <1>0, <1>1, NothingAsked, IdentitiesAssumption
<1>3. /\ Len(stack) \in Nat /\ DOMAIN stack = 1 .. Len(stack)
      /\ Range(stack) = {stack[i] : i \in 1 .. Len(stack)}
      /\ \A i \in 1 .. Len(stack) : stack[i] \in Page
      /\ \A i, j \in 1 .. Len(stack) : stack[i] = stack[j] => i = j
  <2>1. stack \in Seq(Page) /\ Len(stack) \in Nat /\ DOMAIN stack = 1 .. Len(stack)
    BY <1>0, LenProperties DEF ScreenTypes
  <2>2. \A i \in 1 .. Len(stack) : stack[i] \in Page
    BY <2>1, ElementOfSeq
  <2> QED BY <1>0, <2>1, <2>2 DEF Range, IsInjective, ScreenTypes
<1>4. /\ stack' \in Seq(Page) /\ Len(stack') = Len(stack) - 1
      /\ \A i \in 1 .. Len(stack) - 1 : stack'[i] = stack[i]
      /\ DOMAIN stack' = 1 .. Len(stack) - 1 /\ stack' # <<>>
  <2>1. 1 \in Int /\ Len(stack) - 1 \in Int /\ \A i \in 1 .. Len(stack) - 1 : stack[i] \in Page
    BY <1>3
  <2>2. /\ stack' \in Seq(Page) /\ Len(stack') = IF 1 <= Len(stack) - 1 THEN Len(stack) - 1 - 1 + 1 ELSE 0
        /\ \A i \in 1 .. Len(stack) - 1 - 1 + 1 : stack'[i] = stack[1 + i - 1]
    BY <1>1, <2>1, SubSeqProperties
  <2>3. /\ stack' \in Seq(Page) /\ Len(stack') = Len(stack) - 1
        /\ \A i \in 1 .. Len(stack) - 1 : stack'[i] = stack[i]
    BY <1>1, <1>3, <2>2
  <2>4. DOMAIN stack' = 1 .. Len(stack) - 1
    BY <2>3, LenProperties
  <2>5. stack' # <<>>
    BY <1>1, <1>3, <2>3
  <2> QED BY <2>3, <2>4, <2>5
<1>5. p \in Page /\ Len(stack) \in 1 .. Len(stack)
  BY <1>1, <1>3
<1> HIDE DEF p
<1>6. \A i \in 1 .. Len(stack) : i \in 1 .. Len(stack) - 1 \/ i = Len(stack)
  <2>1. Len(stack) \in Nat
    BY <1>3
  <2> QED BY <2>1
<1>7. \A i \in 1 .. Len(stack) - 1 : i \in 1 .. Len(stack) /\ i # Len(stack)
  <2>1. Len(stack) \in Nat
    BY <1>3
  <2> QED BY <2>1
<1>8. \A q : q \in Range(stack') <=> q \in Range(stack) /\ q # p
  <2>1. Range(stack') = {stack'[i] : i \in 1 .. Len(stack) - 1}
    BY <1>4 DEF Range
  <2>2. Range(stack') = {stack[i] : i \in 1 .. Len(stack) - 1}
    BY <1>4, <2>1
  <2>3. \A i \in 1 .. Len(stack) - 1 : stack[i] # p
    BY <1>3, <1>5, <1>7 DEF p
  <2> QED BY <1>3, <1>6, <1>7, <2>2, <2>3 DEF p
<1>9. IsInjective(stack')
  BY <1>3, <1>4, <1>7 DEF IsInjective
<1>10. /\ page' \in [Page -> Pages] /\ page'[p].phase = "leaving"
       /\ \A q \in Page : /\ page'[q].kind = page[q].kind
                          /\ page'[q].items = page[q].items /\ page'[q].failed = page[q].failed
                          /\ page'[q].covered = page[q].covered
                          /\ q # p => page'[q] = page[q]
  BY <1>0, <1>1, <1>5 DEF ScreenTypes, Pages
<1>11. stage' = stage /\ call' = call
  BY <1>1, StageIs DEF dbVars, plugin
<1>12. ScreenTypes'
  <2>1. \A q \in Page : page'[q].phase \in {"pushed", "mounted"} <=> q \in Range(stack')
    BY <1>0, <1>8, <1>10 DEF ScreenTypes
  <2> QED BY <1>0, <1>1, <1>4, <1>9, <1>10, <1>11, <2>1 DEF ScreenTypes
<1>13. PagesInv'
  <2>1. \A i \in 1 .. Len(stack') - 1 : page'[stack'[i]].covered
    <3>1. \A i \in 1 .. Len(stack') - 1 : i \in 1 .. Len(stack) - 1
      BY <1>3, <1>4
    <3> QED BY <1>0, <1>3, <1>4, <1>7, <1>10, <3>1 DEF PagesInv
  <2>2. \A q \in Page : page'[q].phase = "pushed" => page[q].phase = "pushed"
    BY <1>10
  <2> QED BY <1>0, <1>1, <1>10, <1>11, <2>1, <2>2 DEF PagesInv, Made
<1>14. PageInv'
  <2> SUFFICES ASSUME NEW q \in Page, OnTopSinceBuilt(q)' PROVE FALSE
    BY DEF PageInv
  <2>1. q # p /\ page[q].phase = "mounted" /\ ~ page[q].covered
    BY <1>10 DEF OnTopSinceBuilt
  <2>2. PICK i \in 1 .. Len(stack) : stack[i] = q
    BY <1>0, <1>3, <2>1 DEF ScreenTypes
  <2>3. i \in 1 .. Len(stack) - 1
    BY <1>6, <2>1, <2>2 DEF p
  <2> QED BY <1>0, <2>1, <2>2, <2>3 DEF PagesInv
<1>15. DataInv' /\ OpsInv'
  <2>1. \A q \in Page : Listing(q)' = Listing(q)
    BY <1>10 DEF Listing
  <2>2. \A q \in Page : Unique(Listing(q)')
    BY <1>0, <2>1 DEF DataInv
  <2> QED BY <1>0, <1>2, <2>2, AskedData
<1>16. SpareInv'
  BY <1>0, <1>1 DEF SpareInv, IdleCalls, Deletes, dbVars
<1>17. TappedInv'
  BY <1>0, <1>1, <1>2, AskedTapped
<1>18. OpenInv'
  <2>1. ListPushed => ListPushed'
    <3>1. \A q \in Page : page[q].phase = "pushed" => q # p
      BY <1>1 DEF p
    <3> QED BY <1>10, <3>1 DEF ListPushed
  <2>2. AfterInserts' /\ \A d \in Call : (Flying(d) => Flying(d)') /\ (Goes(d) => Goes(d)')
    BY <1>0, <1>2, <2>1, AskedOpen
  <2>3. conn' = conn
    BY <1>2 DEF Asked
  <2> QED BY <1>0, <1>1, <2>1, <2>2, <2>3 DEF OpenInv
<1> QED BY <1>2, <1>12, <1>13, <1>14, <1>15, <1>16, <1>17, <1>18 DEF TodoInv

\* The animation of a page that was popped ends.
LEMMA DisposeKeeps ==
  ASSUME TodoInv, NEW p \in Page, Dispose(p)
  PROVE  TodoInv'
<1>0. /\ HelperInv /\ ScreenTypes /\ DataInv /\ OpsInv /\ SpareInv
      /\ PagesInv /\ PageInv /\ TappedInv /\ OpenInv
  BY DEF TodoInv
<1>1. /\ UNCHANGED dbVars /\ client' = client /\ leaked' = leaked /\ stack' = stack
      /\ page[p].phase = "leaving" /\ page' = [page EXCEPT ![p] = Gone]
  BY DEF Dispose
<1>2. HelperInv' /\ Asked({}, None) /\ None \notin Call
  BY <1>0, <1>1, NothingAsked, IdentitiesAssumption
<1>3. /\ page' \in [Page -> Pages] /\ page'[p] = Gone
      /\ \A q \in Page : q # p => page'[q] = page[q]
  BY <1>0, <1>1, ScreenData DEF ScreenTypes
<1>4. Gone.phase = "gone" /\ Gone.items = None
  BY DEF Gone, NewPage
<1>5. p \notin Range(stack)
  BY <1>0, <1>1 DEF ScreenTypes
<1>6. stage' = stage /\ call' = call
  BY <1>1, StageIs DEF dbVars, plugin
<1>7. ScreenTypes'
  <2>1. \A q \in Page : page'[q].phase \in {"pushed", "mounted"} <=> q \in Range(stack)
    BY <1>0, <1>3, <1>4, <1>5 DEF ScreenTypes
  <2> QED BY <1>0, <1>1, <1>3, <1>6, <2>1 DEF ScreenTypes
<1>8. PagesInv'
  <2>1. \A i \in 1 .. Len(stack) - 1 : page'[stack[i]].covered
    <3>1. stack \in Seq(Page) /\ Len(stack) \in Nat /\ DOMAIN stack = 1 .. Len(stack)
      BY <1>0, LenProperties DEF ScreenTypes
    <3>2. \A i \in 1 .. Len(stack) : stack[i] \in Page /\ stack[i] # p
      <4>1. \A i \in 1 .. Len(stack) : stack[i] \in Page
        BY <3>1, ElementOfSeq
      <4> QED BY <1>5, <3>1, <4>1 DEF Range
    <3>3. \A i \in 1 .. Len(stack) - 1 : i \in 1 .. Len(stack)
      BY <3>1
    <3> QED BY <1>0, <1>3, <3>2, <3>3 DEF PagesInv
  <2>2. \A q \in Page : page'[q].phase = "pushed" => page'[q] = page[q]
    BY <1>3, <1>4
  <2> QED BY <1>0, <1>1, <1>6, <2>1, <2>2 DEF PagesInv, Made
<1>9. PageInv'
  <2> SUFFICES ASSUME NEW q \in Page, OnTopSinceBuilt(q)'
               PROVE  ForeignInv(q)' /\ ShrinkInv(q)' /\ StaleInv(q)' /\ FreshInv(q)'
    BY DEF PageInv
  <2>1. page'[q] = page[q] /\ OnTopSinceBuilt(q)
    BY <1>3, <1>4 DEF OnTopSinceBuilt
  <2>2. ForeignInv(q) /\ ShrinkInv(q) /\ StaleInv(q) /\ FreshInv(q)
    BY <1>0, <2>1 DEF PageInv
  <2>3. ForeignInv(q)' /\ ShrinkInv(q)' /\ StaleInv(q)'
    BY <1>1, <1>2, <2>1, <2>2, AskedPage
  <2>4. FreshInv(q)'
    BY <1>1, <1>2, <2>1, <2>2, AskedFresh
  <2> QED BY <2>3, <2>4
<1>10. DataInv' /\ OpsInv'
  <2>1. \A q \in Page : Listing(q)' = Listing(q) \/ Listing(q)' = {}
    BY <1>3, <1>4 DEF Listing
  <2>2. Unique({})
    BY DEF Unique
  <2>3. \A q \in Page : Unique(Listing(q)')
    BY <1>0, <2>1, <2>2 DEF DataInv
  <2> QED BY <1>0, <1>2, <2>3, AskedData
<1>11. SpareInv'
  BY <1>0, <1>1 DEF SpareInv, IdleCalls, Deletes, dbVars
<1>12. TappedInv'
  BY <1>0, <1>1, <1>2, AskedTapped
<1>13. OpenInv'
  <2>1. ListPushed => ListPushed'
    <3>1. \A q \in Page : page[q].phase = "pushed" => q # p
      BY <1>1
    <3> QED BY <1>3, <3>1 DEF ListPushed
  <2>2. AfterInserts' /\ \A d \in Call : (Flying(d) => Flying(d)') /\ (Goes(d) => Goes(d)')
    BY <1>0, <1>2, <2>1, AskedOpen
  <2>3. conn' = conn
    BY <1>2 DEF Asked
  <2> QED BY <1>0, <1>1, <2>1, <2>2, <2>3 DEF OpenInv
<1> QED BY <1>2, <1>7, <1>8, <1>9, <1>10, <1>11, <1>12, <1>13 DEF TodoInv

\* A frame mounts what was pushed; each new list page asks for its list.
LEMMA FrameKeeps ==
  ASSUME TodoInv, Frame
  PROVE  TodoInv'
<1>0. /\ HelperInv /\ ScreenTypes /\ DataInv /\ OpsInv /\ SpareInv
      /\ PagesInv /\ PageInv /\ TappedInv /\ OpenInv
  BY DEF TodoInv
<1>1. /\ HelperInv' /\ Mounts
      /\ \E new \in SUBSET IdleCalls :
           /\ Asked(new, None)
           /\ Cardinality(IdleCalls) >= Cardinality(new) + Cardinality(Deletes)
           /\ \A d \in new : /\ stage[d] = "idle" /\ call'[d] = NewCall("getAllUsers", Nothing)
                             /\ \E p \in PushedLists : client'[d] = For(p)
           /\ \A p \in PushedLists : \E d \in new : client'[d] = For(p)
           /\ client' \in [Call -> Clients]
           /\ \A d \in Call \ new : client'[d] = client[d]
  BY <1>0, FrameIs
<1>2. PICK new \in SUBSET IdleCalls :
           /\ Asked(new, None)
           /\ Cardinality(IdleCalls) >= Cardinality(new) + Cardinality(Deletes)
           /\ \A d \in new : /\ stage[d] = "idle" /\ call'[d] = NewCall("getAllUsers", Nothing)
                             /\ \E p \in PushedLists : client'[d] = For(p)
           /\ \A p \in PushedLists : \E d \in new : client'[d] = For(p)
           /\ client' \in [Call -> Clients]
           /\ \A d \in Call \ new : client'[d] = client[d]
  BY <1>1
<1>3. UNCHANGED <<stack, leaked>> /\ None \notin Call
  BY IdentitiesAssumption DEF Frame
<1>4. \A d \in new : call'[d].op = "getAllUsers" /\ stage'[d] = "pending" /\ d \in Call
  BY <1>2 DEF Asked, NewCall
<1>5. \A d \in Call \ new : stage'[d] = stage[d] /\ call'[d] = call[d] /\ client'[d] = client[d]
  BY <1>2, <1>3 DEF Asked
<1>6. /\ page' \in [Page -> Pages]
      /\ \A p \in Page : /\ page'[p].kind = page[p].kind /\ page'[p].items = page[p].items
                         /\ page'[p].failed = page[p].failed /\ page'[p].covered = page[p].covered
                         /\ page'[p].phase = IF page[p].phase = "pushed" THEN "mounted" ELSE page[p].phase
  <2> SUFFICES ASSUME NEW p \in Page
               PROVE  /\ page'[p] \in Pages
                      /\ page'[p].kind = page[p].kind /\ page'[p].items = page[p].items
                      /\ page'[p].failed = page[p].failed /\ page'[p].covered = page[p].covered
                      /\ page'[p].phase = IF page[p].phase = "pushed" THEN "mounted" ELSE page[p].phase
    BY <1>1 DEF Mounts
  <2>1. page[p] \in Pages
    BY <1>0 DEF ScreenTypes
  <2>2. Listing(p) \in SUBSET Row
    BY <2>1 DEF Pages, Listing
  <2>3. CASE page[p].phase = "pushed"
    <3>1. page'[p] = [page[p] EXCEPT !.phase = "mounted"]
      BY <1>1, <2>3 DEF Mounts
    <3> QED BY <2>1, <2>3, <3>1 DEF Pages
  <2>4. CASE page[p].phase # "pushed" /\ Alive(p)
    <3>1. page'[p] = [page[p] EXCEPT !.built = Listing(p)]
      BY <1>1, <2>4 DEF Mounts
    <3> QED BY <2>1, <2>2, <2>4, <3>1 DEF Pages
  <2>5. CASE page[p].phase # "pushed" /\ ~ Alive(p)
    BY <1>1, <2>1, <2>5 DEF Mounts
  <2> QED BY <2>3, <2>4, <2>5
<1>7. \A p : For(p).page = p
  BY DEF For
<1>8. \A d \in new : client'[d].page \in PushedLists
  <2> SUFFICES ASSUME NEW d \in new PROVE client'[d].page \in PushedLists
    OBVIOUS
  <2>1. PICK p \in PushedLists : client'[d] = For(p)
    BY <1>2
  <2> QED BY <1>7, <2>1
<1>9. PushedLists \subseteq Page /\ \A p \in PushedLists : page[p].phase = "pushed"
  BY DEF PushedLists
<1>10. ScreenTypes'
  <2>1. \A p \in Page : page'[p].phase \in {"pushed", "mounted"} <=> p \in Range(stack)
    BY <1>0, <1>6 DEF ScreenTypes
  <2>2. \A c \in Call : stage'[c] # "idle" /\ call'[c].op \in {"deleteUser", "getAllUsers"} => client'[c].page \in Page
    BY <1>0, <1>5, <1>8, <1>9 DEF ScreenTypes
  <2> QED BY <1>0, <1>2, <1>3, <1>6, <2>1, <2>2 DEF ScreenTypes
<1>11. PagesInv'
  <2>1. \A i \in 1 .. Len(stack) - 1 : page'[stack[i]].covered
    <3>1. Len(stack) \in Nat /\ \A i \in 1 .. Len(stack) : stack[i] \in Page
      BY <1>0, LenProperties, ElementOfSeq DEF ScreenTypes
    <3>2. \A i \in 1 .. Len(stack) - 1 : stack[i] \in Page
      BY <3>1
    <3> QED BY <1>0, <1>6, <3>2 DEF PagesInv
  <2>2. \A p \in Page : page'[p].phase # "pushed"
    BY <1>6
  <2> QED BY <1>3, <2>1, <2>2 DEF PagesInv
<1>12. DataInv' /\ OpsInv'
  <2>1. \A q \in Page : Listing(q)' = Listing(q)
    BY <1>6 DEF Listing
  <2>2. \A q \in Page : Unique(Listing(q)')
    BY <1>0, <2>1 DEF DataInv
  <2> QED BY <1>0, <1>2, <1>4, <2>2, AskedData
<1>13. SpareInv'
  <2>1. IdleCalls' = IdleCalls \ new
    BY <1>2, <1>3, AskedCounts
  <2>2. Deletes' = Deletes
    <3>1. None \notin Deletes
      BY <1>3 DEF Deletes
    <3>2. Deletes' = (Deletes \ {None}) \cup {d \in new : call'[d].op = "deleteUser"}
      BY <1>2, AskedCounts
    <3>3. {d \in new : call'[d].op = "deleteUser"} = {}
      BY <1>4
    <3> QED BY <3>1, <3>2, <3>3
  <2>3. IsFiniteSet(new) /\ Cardinality(new) \in Nat
    BY CountTypes, FS_Subset, FS_CardinalityType
  <2>4. Cardinality(IdleCalls) <= Cardinality(new) + Cardinality(IdleCalls')
    <3>1. IdleCalls = new \cup IdleCalls'
      BY <2>1
    <3>2. Cardinality(new \cup IdleCalls') =
            Cardinality(new) + Cardinality(IdleCalls') - Cardinality(new \cap IdleCalls')
      BY <2>3, CountTypes, FS_Union
    <3>3. Cardinality(new \cap IdleCalls') \in Nat
      <4>1. new \cap IdleCalls' \in SUBSET new
        OBVIOUS
      <4> QED BY <2>3, <4>1, FS_Subset, FS_CardinalityType
    <3> QED BY <2>3, <3>1, <3>2, <3>3, CountTypes
  <2>5. Cardinality(IdleCalls') >= Cardinality(Deletes')
    BY <1>2, <2>2, <2>3, <2>4, CountTypes
  <2> QED BY <2>5 DEF SpareInv
<1>14. PageInv'
  <2> SUFFICES ASSUME NEW p \in Page, OnTopSinceBuilt(p)'
               PROVE  ForeignInv(p)' /\ ShrinkInv(p)' /\ StaleInv(p)' /\ FreshInv(p)'
    BY DEF PageInv
  <2>1. /\ page'[p].items = page[p].items /\ page'[p].failed = page[p].failed
        /\ page[p].kind = "todo" /\ ~ page[p].covered /\ page[p].phase \in {"mounted", "pushed"}
    BY <1>6 DEF OnTopSinceBuilt
  <2>2. CASE page[p].phase = "mounted"
    <3>1. ForeignInv(p) /\ ShrinkInv(p) /\ StaleInv(p) /\ FreshInv(p)
      BY <1>0, <2>1, <2>2 DEF PageInv, OnTopSinceBuilt
    <3>2. \A d \in Others(new, None) : client'[d] = client[d]
      BY <1>5 DEF Others
    <3>3. ForeignInv(p)' /\ ShrinkInv(p)' /\ StaleInv(p)'
      BY <1>2, <1>4, <2>1, <3>1, <3>2, AskedPage
    <3>4. FreshInv(p)'
      BY <1>2, <1>3, <2>1, <3>1, <3>2, AskedFresh
    <3> QED BY <3>3, <3>4
  <2>3. CASE page[p].phase = "pushed"
    <3>1. /\ page'[p].items = None
          /\ \A d \in Call : ~ Made(d, "getAllUsers", p) /\ ~ Made(d, "deleteUser", p)
      BY <1>0, <2>1, <2>3 DEF PagesInv
    <3>2. \A d \in Call : Made(d, "getAllUsers", p)' => d \in new
      BY <1>5, <3>1 DEF Made
    <3>3. \A d \in Call : ~ Lists(d, p)'
      BY <1>4, <3>2 DEF Lists, Answered
    <3>4. ForeignInv(p)'
      <4> SUFFICES ASSUME NEW m \in Call, Foreign(m, p)', NEW d \in new PROVE <<m, d>> \in before'
        BY <1>4, <3>1, <3>2 DEF ForeignInv, Answered
      <4>1. m \notin new /\ Flying(m)
        BY <1>4, <1>5 DEF Foreign, Flying
      <4> QED BY <1>2, <1>4, <4>1 DEF Asked
    <3>5. ShrinkInv(p)' /\ StaleInv(p)'
      BY <3>1, <3>3 DEF ShrinkInv, StaleInv
    <3>6. FreshInv(p)'
      <4>1. PICK d \in new : client'[d] = For(p)
        BY <1>2, <2>1, <2>3 DEF PushedLists
      <4>2. Refresher(d, p)'
        BY <1>4, <4>1 DEF Refresher, Made, For
      <4> QED BY <1>4, <4>2 DEF FreshInv
    <3> QED BY <3>4, <3>5, <3>6
  <2> QED BY <2>1, <2>2, <2>3
<1>15. TappedInv'
  <2>1. \A d \in Others(new, None) : client'[d] = client[d]
    BY <1>5 DEF Others
  <2> QED BY <1>0, <1>2, <1>4, <2>1, AskedTapped
<1>16. OpenInv'
  <2>1. ListPushed => new # {}
    BY <1>2 DEF ListPushed, PushedLists
  <2>2. /\ AfterInserts' /\ \A d \in new : Flying(d)'
        /\ \A d \in Call : (Flying(d) => Flying(d)') /\ (Goes(d) => Goes(d)')
    BY <1>0, <1>2, <1>3, <1>4, <2>1, AskedOpen
  <2>3. conn' = conn
    BY <1>2 DEF Asked
  <2> QED BY <1>0, <1>3, <1>4, <2>1, <2>2, <2>3 DEF OpenInv
<1> QED BY <1>1, <1>10, <1>11, <1>12, <1>13, <1>14, <1>15, <1>16 DEF TodoInv

\* No idle call is taken, no delete asked for.
LEMMA SpareGrows ==
  ASSUME SpareInv, IdleCalls \subseteq IdleCalls', Deletes' \subseteq Deletes
  PROVE  SpareInv'
<1>1. Cardinality(IdleCalls) <= Cardinality(IdleCalls') /\ Cardinality(Deletes') <= Cardinality(Deletes)
  BY CountTypes, FS_Subset
<1>2. Cardinality(IdleCalls') >= Cardinality(Deletes')
  BY <1>1, CountTypes DEF SpareInv
<1> QED BY <1>2 DEF SpareInv

\* An insert or a close is over: nothing waited for it.
LEMMA UnawaitedKeeps ==
  ASSUME TodoInv, NEW c \in Call, Unawaited(c)
  PROVE  TodoInv'
<1>0. /\ HelperInv /\ ScreenTypes /\ DataInv /\ OpsInv /\ SpareInv
      /\ PagesInv /\ PageInv /\ TappedInv /\ OpenInv
  BY DEF TodoInv
<1>1. /\ HelperInv' /\ Asked({}, c)
      /\ stage[c] = "done" /\ call[c].op \in {"insertUser", "close"}
      /\ UNCHANGED <<stack, page, client, leaked>>
  BY <1>0, UnawaitedIs
<1>2. /\ ScreenTypes' /\ PagesInv'
      /\ \A q \in Page : OnTopSinceBuilt(q)' => OnTopSinceBuilt(q)
      /\ ListPushed <=> ListPushed'
  <2>1. page' \in [Page -> Pages] /\ client' \in [Call -> Clients] /\ leaked' \in BOOLEAN
    BY <1>0, <1>1 DEF ScreenTypes
  <2> QED BY <1>0, <1>1, <2>1, ScreensKept
<1>3. DataInv' /\ OpsInv'
  <2>1. \A q \in Page : Listing(q)' = Listing(q)
    BY <1>1 DEF Listing
  <2>2. \A q \in Page : Unique(Listing(q)')
    BY <1>0, <2>1 DEF DataInv
  <2> QED BY <1>0, <1>1, <2>2, AskedData
<1>4. SpareInv'
  BY <1>0, <1>1, AskedCounts, SpareGrows
<1>5. PageInv'
  <2> SUFFICES ASSUME NEW q \in Page, OnTopSinceBuilt(q)
               PROVE  ForeignInv(q)' /\ ShrinkInv(q)' /\ StaleInv(q)' /\ FreshInv(q)'
    BY <1>2 DEF PageInv
  <2>1. ForeignInv(q) /\ ShrinkInv(q) /\ StaleInv(q) /\ FreshInv(q)
    BY <1>0 DEF PageInv
  <2>2. ForeignInv(q)' /\ ShrinkInv(q)' /\ StaleInv(q)'
    BY <1>1, <2>1, AskedPage
  <2>3. ~ Refresher(c, q)
    BY <1>1 DEF Refresher, Made
  <2>4. FreshInv(q)'
    BY <1>1, <2>1, <2>3, AskedFresh
  <2> QED BY <2>2, <2>4
<1>6. TappedInv'
  BY <1>0, <1>1, AskedTapped
<1>7. OpenInv'
  <2>1. AfterInserts' /\ \A d \in Call : (Flying(d) => Flying(d)') /\ (Goes(d) /\ d # c => Goes(d)')
    BY <1>0, <1>1, <1>2, AskedOpen
  <2>2. conn' = conn /\ ~ Goes(c)
    BY <1>1 DEF Asked, Goes
  <2> QED BY <1>0, <1>1, <1>2, <2>1, <2>2 DEF OpenInv
<1> QED BY <1>1, <1>2, <1>3, <1>4, <1>5, <1>6, <1>7 DEF TodoInv

\* A list arrives.  The one a page shows is older than all still on their way to
\* it, so those hold no row that it lacks; and if it is out of date, the delete
\* that made it so will fetch another.
LEMMA ListArrivedKeeps ==
  ASSUME TodoInv, NEW c \in Call, ListArrived(c)
  PROVE  TodoInv'
<1> DEFINE p    == client[c].page
           rows == call[c].res.rows
<1>0. /\ HelperInv /\ ScreenTypes /\ DataInv /\ OpsInv /\ SpareInv
      /\ PagesInv /\ PageInv /\ TappedInv /\ OpenInv /\ TypeOK /\ FailsOnlyByClose
  BY DEF TodoInv, HelperInv, RInv, IInv
<1>1. /\ HelperInv' /\ p \in Page
      /\ stage[c] = "done" /\ call[c].op = "getAllUsers"
      /\ client' = [client EXCEPT ![c] = NoOne] /\ stack' = stack
      /\ \/ /\ call[c].res.ok /\ Alive(p) /\ page' = SetState(p, call[c].res.rows)
            /\ Asked({c}, c) /\ call'[c] = NewCall("close", Nothing) /\ leaked' = leaked
         \/ /\ call[c].res.ok /\ ~ Alive(p) /\ page' = page
            /\ Asked({}, c) /\ leaked' = (conn = "open")
         \/ /\ ~ call[c].res.ok /\ page' = [page EXCEPT ![p].failed = Alive(p)]
            /\ Asked({}, c) /\ leaked' = leaked
  BY <1>0, ListArrivedIs
<1>2. PICK new \in {{c}, {}} :
        /\ Asked(new, c)
        /\ \A d \in new : call'[d] = NewCall("close", Nothing)
        /\ \/ /\ call[c].res.ok /\ Alive(p) /\ page' = SetState(p, rows)
              /\ new = {c} /\ leaked' = leaked
           \/ /\ call[c].res.ok /\ ~ Alive(p) /\ page' = page
              /\ leaked' = (conn = "open")
           \/ /\ ~ call[c].res.ok /\ page' = [page EXCEPT ![p].failed = Alive(p)]
              /\ leaked' = leaked
  BY <1>1
<1>3. rows \in SUBSET Row
  BY <1>0 DEF TypeOK, Calls, Result
<1> HIDE DEF p, rows
<1>4. /\ page' \in [Page -> Pages] /\ client' \in [Call -> Clients] /\ leaked' \in BOOLEAN
      /\ \A q \in Page : /\ page'[q].kind = page[q].kind /\ page'[q].phase = page[q].phase
                         /\ page'[q].covered = page[q].covered
                         /\ q # p => page'[q] = page[q]
      /\ call[c].res.ok /\ Alive(p) => page'[p].items = rows
      /\ ~ (call[c].res.ok /\ Alive(p)) => page'[p].items = page[p].items
      /\ ~ call[c].res.ok => page'[p].failed = Alive(p)
  <2>1. page[p] \in Pages /\ page \in [Page -> Pages] /\ p \in Page
    BY <1>0, <1>1 DEF ScreenTypes, p
  <2>2. client' \in [Call -> Clients]
    BY <1>0, <1>1, ScreenData DEF ScreenTypes
  <2>3. CASE call[c].res.ok /\ Alive(p) /\ page' = SetState(p, rows) /\ leaked' = leaked
    <3>1. page' = [page EXCEPT ![p] = [page[p] EXCEPT !.items = rows, !.failed = FALSE]]
      BY <2>1, <2>3 DEF SetState
    <3>2. [page[p] EXCEPT !.items = rows, !.failed = FALSE] \in Pages
      BY <1>3, <2>1 DEF Pages
    <3> QED BY <1>0, <2>1, <2>2, <2>3, <3>1, <3>2 DEF ScreenTypes, Pages
  <2>4. CASE call[c].res.ok /\ ~ Alive(p) /\ page' = page /\ leaked' = (conn = "open")
    BY <1>0, <2>1, <2>2, <2>4 DEF ScreenTypes
  <2>5. CASE ~ call[c].res.ok /\ page' = [page EXCEPT ![p].failed = Alive(p)] /\ leaked' = leaked
    <3>1. Alive(p) \in BOOLEAN
      BY DEF Alive
    <3>2. [page[p] EXCEPT !.failed = Alive(p)] \in Pages
      BY <2>1, <3>1 DEF Pages
    <3> QED BY <1>0, <2>1, <2>2, <2>5, <3>1, <3>2 DEF ScreenTypes, Pages
  <2> QED BY <1>2, <2>3, <2>4, <2>5
<1>5. /\ p \in Page /\ Made(c, "getAllUsers", p) /\ \A q \in Page : Made(c, "getAllUsers", q) => q = p
      /\ \A q \in Page : ~ Made(c, "deleteUser", q)
  BY <1>1 DEF Made, p
<1>6. /\ \A d \in new : call'[d].op = "close"
      /\ \A d \in Others(new, c) : client'[d] = client[d]
  BY <1>1, <1>2 DEF NewCall, Others
<1>7. /\ ScreenTypes' /\ PagesInv'
      /\ \A q \in Page : OnTopSinceBuilt(q)' => OnTopSinceBuilt(q)
      /\ ListPushed <=> ListPushed'
  <2>1. \A q \in Page : page[q].phase = "pushed" => page'[q].items = page[q].items
    BY <1>4 DEF Alive
  <2> QED BY <1>0, <1>1, <1>2, <1>4, <1>6, <2>1, ScreensKept
<1>8. DataInv' /\ OpsInv'
  <2>1. \A q \in Page : Listing(q)' = Listing(q) \/ Listing(q)' = rows
    <3>1. rows # None
      BY <1>3, IdentitiesAssumption
    <3> QED BY <1>4, <3>1 DEF Listing
  <2>2. \A q \in Page : Unique(Listing(q)')
    BY <1>0, <2>1 DEF DataInv, rows
  <2> QED BY <1>0, <1>2, <1>6, <2>2, AskedData
<1>9. SpareInv'
  <2>1. /\ IdleCalls' = (IdleCalls \ new) \cup {d \in Call \ new : d = c}
        /\ Deletes' = (Deletes \ {c}) \cup {d \in new : call'[d].op = "deleteUser"}
    BY <1>2, AskedCounts
  <2>2. c \notin IdleCalls
    BY <1>1, ScreenData DEF IdleCalls
  <2>3. IdleCalls \subseteq IdleCalls'
    BY <2>1, <2>2
  <2>4. Deletes' \subseteq Deletes
    BY <1>6, <2>1
  <2> QED BY <1>0, <2>3, <2>4, SpareGrows
<1>10. PageInv'
  <2> SUFFICES ASSUME NEW q \in Page, OnTopSinceBuilt(q)
               PROVE  ForeignInv(q)' /\ ShrinkInv(q)' /\ StaleInv(q)' /\ FreshInv(q)'
    BY <1>7 DEF PageInv
  <2>1. ForeignInv(q) /\ ShrinkInv(q) /\ StaleInv(q) /\ FreshInv(q)
    BY <1>0 DEF PageInv
  <2>2. \/ page'[q].items = page[q].items
        \/ Lists(c, q) /\ c \in Call /\ page'[q].items = call[c].res.rows
    BY <1>1, <1>4, <1>5 DEF Lists, Answered, rows
  <2>3. ForeignInv(q)' /\ ShrinkInv(q)' /\ StaleInv(q)'
    BY <1>2, <1>6, <2>1, <2>2, AskedPage
  <2>4. FreshInv(q)'
    <3>1. CASE q # p
      <4>1. ~ Refresher(c, q)
        BY <1>5, <3>1 DEF Refresher
      <4> QED BY <1>2, <1>4, <1>6, <2>1, <3>1, <4>1, AskedFresh
    <3>2. CASE q = p
      <4>1. Alive(p)
        BY <3>2 DEF Alive, OnTopSinceBuilt
      <4>2. CASE ~ call[c].res.ok
        BY <1>4, <3>2, <4>1, <4>2 DEF FreshInv
      <4>3. CASE call[c].res.ok /\ rows = table
        BY <1>2, <1>4, <3>2, <4>1, <4>3 DEF FreshInv, Asked
      <4>4. CASE call[c].res.ok /\ rows # table
        <5>1. Lists(c, p)
          BY <1>1, <1>5, <4>4 DEF Lists, Answered
        <5>2. PICK d \in Call : Made(d, "deleteUser", q) /\ stage[d] = "effected"
          BY <2>1, <3>2, <4>4, <5>1 DEF StaleInv, rows
        <5>3. d \in Others(new, c)
          BY <1>2, <5>2 DEF Asked, Others
        <5>4. stage'[d] = stage[d] /\ call'[d] = call[d] /\ client'[d] = client[d]
          BY <1>2, <1>6, <5>3 DEF Asked, Others
        <5>5. Refresher(d, q)'
          BY <5>2, <5>4 DEF Refresher, Made, Answered
        <5> QED BY <5>5 DEF FreshInv
      <4> QED BY <4>2, <4>3, <4>4
    <3> QED BY <3>1, <3>2
  <2> QED BY <2>3, <2>4
<1>11. TappedInv'
  BY <1>0, <1>2, <1>6, AskedTapped
<1>12. OpenInv'
  <2>1. /\ AfterInserts' /\ (\A d \in new : Flying(d)')
        /\ \A d \in Call : (Flying(d) => Flying(d)') /\ (Goes(d) /\ d # c => Goes(d)')
    BY <1>0, <1>2, <1>6, <1>7, AskedOpen
  <2>2. conn' = conn
    BY <1>2 DEF Asked
  <2>3. ~ call[c].res.ok => conn = "closing"
    BY <1>0, <1>1, ScreenData DEF FailsOnlyByClose
  <2> QED BY <1>2, <2>1, <2>2, <2>3 DEF OpenInv
<1> QED BY <1>1, <1>7, <1>8, <1>9, <1>10, <1>11, <1>12 DEF TodoInv

\* A delete is over: its page will get a list that is not out of date.
LEMMA DeleteSettledKeeps ==
  ASSUME TodoInv, NEW c \in Call, DeleteSettled(c)
  PROVE  TodoInv'
<1>0. /\ HelperInv /\ ScreenTypes /\ DataInv /\ OpsInv /\ SpareInv
      /\ PagesInv /\ PageInv /\ TappedInv /\ OpenInv /\ FailsOnlyByClose
  BY DEF TodoInv, HelperInv, RInv, IInv
<1>1. PICK p \in Page : p = client[c].page
  BY <1>0, DeleteSettledIs
<1>2. /\ HelperInv'
      /\ stage[c] = "done" /\ call[c].op = "deleteUser"
      /\ UNCHANGED <<stack, page, leaked>>
      /\ \/ /\ call[c].res.ok /\ client' = [client EXCEPT ![c] = For(p)]
            /\ \E f \in Call : /\ f # c /\ stage[f] = "idle" /\ Asked({c, f}, c)
                               /\ call'[c] = NewCall("getAllUsers", Nothing)
                               /\ call'[f] = NewCall("close", Nothing)
         \/ /\ ~ call[c].res.ok /\ client' = [client EXCEPT ![c] = NoOne]
            /\ Asked({}, c)
  BY <1>0, <1>1, DeleteSettledIs
<1>3. PICK new \in SUBSET Call :
        /\ Asked(new, c)
        /\ \A d \in new : \/ d = c /\ call'[d].op = "getAllUsers"
                          \/ d # c /\ call'[d].op = "close"
        /\ \/ /\ call[c].res.ok /\ client' = [client EXCEPT ![c] = For(p)]
              /\ \E f \in Call : f # c /\ stage[f] = "idle" /\ new = {c, f}
           \/ /\ ~ call[c].res.ok /\ client' = [client EXCEPT ![c] = NoOne] /\ new = {}
  <2>1. CASE call[c].res.ok
    <3>1. PICK f \in Call : /\ f # c /\ stage[f] = "idle" /\ Asked({c, f}, c)
                            /\ call'[c] = NewCall("getAllUsers", Nothing)
                            /\ call'[f] = NewCall("close", Nothing)
      BY <1>2, <2>1
    <3>2. {c, f} \in SUBSET Call /\ call'[c].op = "getAllUsers" /\ call'[f].op = "close"
      BY <3>1 DEF NewCall
    <3>3. \A d \in {c, f} : \/ d = c /\ call'[d].op = "getAllUsers"
                            \/ d # c /\ call'[d].op = "close"
      BY <3>1, <3>2
    <3>4. client' = [client EXCEPT ![c] = For(p)]
      BY <1>2, <2>1
    <3> WITNESS {c, f} \in SUBSET Call
    <3> QED BY <2>1, <3>1, <3>3, <3>4
  <2>2. CASE ~ call[c].res.ok
    <3> WITNESS {} \in SUBSET Call
    <3> QED BY <1>2, <2>2
  <2> QED BY <2>1, <2>2
<1>4. /\ client' \in [Call -> Clients] /\ \A d \in Others(new, c) : client'[d] = client[d]
      /\ client'[c].page = p \/ new = {}
  <2>1. For(p) \in Clients /\ NoOne \in Clients /\ For(p).page = p
    BY ScreenData DEF For
  <2> QED BY <1>0, <1>3, <2>1 DEF ScreenTypes, Others
<1>5. /\ page[p].phase # "pushed" /\ Made(c, "deleteUser", p)
      /\ \A q \in Page : Made(c, "deleteUser", q) => q = p
      /\ \A q \in Page : ~ Made(c, "getAllUsers", q)
  BY <1>0, <1>1, <1>2 DEF Made, PagesInv
<1>6. /\ ScreenTypes' /\ PagesInv'
      /\ \A q \in Page : OnTopSinceBuilt(q)' => OnTopSinceBuilt(q)
      /\ ListPushed <=> ListPushed'
  <2>1. page' \in [Page -> Pages] /\ leaked' \in BOOLEAN
    BY <1>0, <1>2 DEF ScreenTypes
  <2>2. \A d \in new : call'[d].op \in {"deleteUser", "getAllUsers"} =>
                         client'[d].page \in Page /\ page[client'[d].page].phase # "pushed"
    BY <1>3, <1>4, <1>5
  <2> QED BY <1>0, <1>2, <1>3, <1>4, <2>1, <2>2, ScreensKept
<1>7. DataInv' /\ OpsInv'
  <2>1. \A q \in Page : Listing(q)' = Listing(q)
    BY <1>2 DEF Listing
  <2>2. \A q \in Page : Unique(Listing(q)')
    BY <1>0, <2>1 DEF DataInv
  <2>3. \A d \in new : call'[d].op \in {"insertUser", "deleteUser", "getAllUsers", "close"}
    BY <1>3
  <2> QED BY <1>0, <1>3, <2>2, <2>3, AskedData
<1>8. SpareInv'
  <2>1. /\ IdleCalls' = (IdleCalls \ new) \cup {d \in Call \ new : d = c}
        /\ Deletes' = (Deletes \ {c}) \cup {d \in new : call'[d].op = "deleteUser"}
    BY <1>3, AskedCounts
  <2>2. c \notin IdleCalls /\ c \in Deletes
    BY <1>2, ScreenData DEF IdleCalls, Deletes
  <2>3. Deletes' = Deletes \ {c}
    BY <1>3, <2>1
  <2>4. CASE new = {}
    <3>1. IdleCalls \subseteq IdleCalls' /\ Deletes' \subseteq Deletes
      BY <2>1, <2>3, <2>4
    <3> QED BY <1>0, <3>1, SpareGrows
  <2>5. CASE \E f \in Call : f # c /\ stage[f] = "idle" /\ new = {c, f}
    <3>1. PICK f \in Call : f # c /\ stage[f] = "idle" /\ new = {c, f}
      BY <2>5
    <3>2. IdleCalls' = IdleCalls \ {f}
      BY <2>1, <2>2, <3>1
    <3>3. f \in IdleCalls
      BY <3>1, ScreenData DEF IdleCalls
    <3>4. Cardinality(IdleCalls') = Cardinality(IdleCalls) - 1 /\ Cardinality(Deletes') = Cardinality(Deletes) - 1
      BY <2>2, <2>3, <3>2, <3>3, CountTypes, FS_RemoveElement
    <3>5. Cardinality(IdleCalls') >= Cardinality(Deletes')
      BY <1>0, <3>4, CountTypes DEF SpareInv
    <3> QED BY <3>5 DEF SpareInv
  <2> QED BY <1>3, <2>4, <2>5
<1>9. PageInv'
  <2> SUFFICES ASSUME NEW q \in Page, OnTopSinceBuilt(q)
               PROVE  ForeignInv(q)' /\ ShrinkInv(q)' /\ StaleInv(q)' /\ FreshInv(q)'
    BY <1>6 DEF PageInv
  <2>1. ForeignInv(q) /\ ShrinkInv(q) /\ StaleInv(q) /\ FreshInv(q)
    BY <1>0 DEF PageInv
  <2>2. page'[q] = page[q] /\ \A d \in new : call'[d].op \in {"getAllUsers", "close"}
    BY <1>2, <1>3
  <2>3. ForeignInv(q)' /\ ShrinkInv(q)' /\ StaleInv(q)'
    BY <1>3, <1>4, <2>1, <2>2, AskedPage
  <2>4. FreshInv(q)'
    <3>1. CASE q = p /\ call[c].res.ok
      <4>1. stage'[c] = "pending" /\ call'[c].op = "getAllUsers" /\ client'[c].page = p
        BY <1>3, <1>4, <3>1 DEF Asked
      <4>2. Refresher(c, q)'
        BY <3>1, <4>1 DEF Refresher, Made
      <4> QED BY <4>2 DEF FreshInv
    <3>2. CASE q # p \/ ~ call[c].res.ok
      <4>1. ~ Refresher(c, q)
        BY <1>2, <1>5, <3>2 DEF Refresher, Answered
      <4> QED BY <1>3, <1>4, <2>1, <2>2, <4>1, AskedFresh
    <3> QED BY <3>1, <3>2
  <2> QED BY <2>3, <2>4
<1>10. TappedInv'
  <2>1. \A d \in new : call'[d].op # "deleteUser"
    BY <1>3
  <2> QED BY <1>0, <1>3, <1>4, <2>1, AskedTapped
<1>11. OpenInv'
  <2>1. \A d \in new : call'[d].op # "insertUser"
    BY <1>3
  <2>2. /\ AfterInserts' /\ (\A d \in new : Flying(d)')
        /\ \A d \in Call : (Flying(d) => Flying(d)') /\ (Goes(d) /\ d # c => Goes(d)')
    BY <1>0, <1>3, <1>6, <2>1, AskedOpen
  <2>3. conn' = conn
    BY <1>3 DEF Asked
  <2>4. ~ call[c].res.ok => conn = "closing"
    BY <1>0, <1>2, ScreenData DEF FailsOnlyByClose
  <2> QED BY <1>2, <1>3, <2>2, <2>3, <2>4 DEF OpenInv
<1> QED BY <1>2, <1>6, <1>7, <1>8, <1>9, <1>10, <1>11 DEF TodoInv

\* Nothing is in flight and no page built; the rows' keys are different.
Started ==
  /\ \E kind \in {"todo", "add"} : stack = Home(kind).on /\ page = Home(kind).pages
  /\ client = [c \in Call |-> NoOne] /\ leaked = FALSE
  /\ call = [c \in Call |-> Idle] /\ conn = "none"
  /\ Unique(table) /\ HelperInv

\* Then there is nothing that could be wrong.
LEMMA StartedKeeps == Started => TodoInv
<1> SUFFICES ASSUME Started PROVE TodoInv
  OBVIOUS
<1>0. PICK kind \in {"todo", "add"} :
        /\ stack = Home(kind).on /\ page = Home(kind).pages
        /\ client = [c \in Call |-> NoOne] /\ leaked = FALSE
        /\ call = [c \in Call |-> Idle] /\ conn = "none"
        /\ Unique(table) /\ HelperInv
  BY DEF Started
<1> DEFINE p == CHOOSE p \in Page : TRUE
<1>1. p \in Page /\ stack = <<p>> /\ page = [q \in Page |-> IF q = p THEN NewPage(kind) ELSE Gone]
  BY <1>0, IdentitiesAssumption DEF Home
<1> HIDE DEF p
<1>2. Idle.pc = "idle" /\ Idle.op = "close" /\ Idle.res.rows = {}
  BY DEF Idle, NewCall, Failure
<1>3. \A c \in Call : stage[c] = "idle"
  BY <1>0, <1>2, ScreenData
<1>4. /\ NewPage(kind).phase = "pushed" /\ NewPage(kind).items = None
      /\ Gone.phase = "gone" /\ Gone.items = None
  BY DEF NewPage, Gone
<1>5. \A q \in Page : page[q].items = None /\ page[q].phase # "mounted"
  BY <1>1, <1>4
<1>6. Len(stack) = 1 /\ \A i \in 1 .. Len(stack) : stack[i] = p
  BY <1>1
<1>7. ScreenTypes
  <2>1. stack \in Seq(Page) /\ stack # <<>> /\ IsInjective(stack) /\ Range(stack) = {p}
    BY <1>1 DEF IsInjective, Range
  <2>2. page \in [Page -> Pages] /\ client \in [Call -> Clients]
    BY <1>0, <1>1, ScreenData
  <2> QED BY <1>0, <1>1, <1>3, <1>4, <2>1, <2>2 DEF ScreenTypes
<1>8. DataInv
  <2>1. Unique({})
    BY DEF Unique
  <2> QED BY <1>0, <1>2, <1>5, <2>1 DEF DataInv, Listing
<1>9. OpsInv
  BY <1>0, <1>2 DEF OpsInv
<1>10. SpareInv
  <2>1. Deletes = {}
    BY <1>0, <1>2 DEF Deletes
  <2> QED BY <2>1, CountTypes, FS_EmptySet DEF SpareInv
<1>11. PagesInv
  BY <1>3, <1>5, <1>6 DEF PagesInv, Made
<1>12. PageInv
  BY <1>5 DEF PageInv, OnTopSinceBuilt
<1>13. TappedInv /\ OpenInv
  BY <1>0, <1>3 DEF TappedInv, OpenInv, AfterInserts, Flying
<1> QED BY <1>0, <1>7, <1>8, <1>9, <1>10, <1>11, <1>12, <1>13 DEF TodoInv

\* The app starts.
LEMMA TodoInvInit == TodoInit => TodoInv
<1> SUFFICES ASSUME TodoInit PROVE TodoInv
  OBVIOUS
<1>1. RInv
  BY RInvInit DEF TodoInit
<1>2. replyQ = <<>> /\ cmdQ = <<>> /\ waiters = <<>> /\ pathQ = <<>> /\ call = [c \in Call |-> Idle] /\ conn = "none"
  BY DEF TodoInit, Init
<1>3. FlightInv
  <2>1. Flight = <<>>
    BY <1>2 DEF Flight
  <2>2. \A c \in Call : stage[c] = "idle"
    BY <1>2, ScreenData DEF Idle, NewCall
  <2> QED BY <2>1, <2>2 DEF FlightInv, Flying, Distinct
<1>4. Unique(table)
  BY DEF TodoInit, Init, Unique
<1> QED BY <1>1, <1>2, <1>3, <1>4, StartedKeeps DEF TodoInit, HelperInv, Started

\* And starts again, on what sqlite kept.
LEMMA RelaunchKeeps == TodoInv /\ Relaunch => TodoInv'
<1>1. ASSUME TodoInv, Relaunch PROVE Started'
  <2>1. RInv'
    BY <1>1, RInvStep DEF TodoInv, HelperInv, Relaunch, Next
  <2>2. /\ replyQ' = <<>> /\ cmdQ' = <<>> /\ waiters' = <<>> /\ pathQ' = <<>>
        /\ call' = [c \in Call |-> Idle] /\ conn' = "none" /\ table' = table
    BY <1>1 DEF Relaunch, Restart
  <2>3. FlightInv'
    <3>1. Flight' = <<>>
      BY <2>2 DEF Flight
    <3>2. \A c \in Call : stage'[c] = "idle"
      BY <2>2, ScreenData DEF Idle, NewCall
    <3> QED BY <3>1, <3>2 DEF FlightInv, Flying, Distinct
  <2>4. Unique(table)'
    BY <1>1, <2>2 DEF TodoInv, DataInv, Unique
  <2>5. \E kind \in {"todo", "add"} : stack' = Home(kind).on /\ page' = Home(kind).pages
    BY <1>1 DEF Relaunch
  <2>6. client' = [c \in Call |-> NoOne] /\ leaked' = FALSE
    BY <1>1 DEF Relaunch
  <2>7. Home("todo")' = Home("todo") /\ Home("add")' = Home("add")
    BY DEF Home, NewPage, Gone
  <2> QED BY <2>1, <2>2, <2>3, <2>4, <2>5, <2>6, <2>7 DEF Started, HelperInv
<1>2. Started => TodoInv
  BY StartedKeeps
<1>3. Started' => TodoInv'
  BY <1>2, PTL
<1> QED BY <1>1, <1>3

\* The helper moves on: the screens do not.
LEMMA HelperKeepsScreens ==
  ASSUME TodoInv, UNCHANGED <<stack, page, client>>, leaked' \in BOOLEAN, KeepsAsking,
         \A d \in Call : stage'[d] = "idle" <=> stage[d] = "idle"
  PROVE  /\ ScreenTypes' /\ OpsInv' /\ SpareInv' /\ PagesInv'
         /\ \A d \in Call : \A op, p : Made(d, op, p)' <=> Made(d, op, p)
         /\ \A p \in Page : (OnTopSinceBuilt(p)' <=> OnTopSinceBuilt(p)) /\ Listing(p)' = Listing(p)
         /\ ListPushed' <=> ListPushed
<1>0. ScreenTypes /\ OpsInv /\ SpareInv /\ PagesInv
  BY DEF TodoInv
<1>1. ScreenTypes'
  BY <1>0 DEF ScreenTypes, KeepsAsking
<1>2. OpsInv'
  BY <1>0 DEF OpsInv, KeepsAsking
<1>3. SpareInv'
  <2>1. IdleCalls' = IdleCalls
    BY ScreenData DEF IdleCalls
  <2>2. Deletes' = Deletes
    BY ScreenData DEF Deletes, KeepsAsking
  <2> QED BY <1>0, <2>1, <2>2 DEF SpareInv
<1>4. \A d \in Call : \A op, p : Made(d, op, p)' <=> Made(d, op, p)
  BY DEF Made, KeepsAsking
<1>5. PagesInv'
  BY <1>0, <1>4 DEF PagesInv
<1>6. \A p \in Page : (OnTopSinceBuilt(p)' <=> OnTopSinceBuilt(p)) /\ Listing(p)' = Listing(p)
  BY DEF OnTopSinceBuilt, Listing
<1>7. ListPushed' <=> ListPushed
  BY DEF ListPushed
<1> QED BY <1>1, <1>2, <1>3, <1>4, <1>5, <1>6, <1>7

\* A call takes effect: an insert finds no list that could lack its row, a delete
\* none that it does not belong to.
LEMMA RunsKeeps ==
  ASSUME TodoInv, HelperInv', NEW c \in Call, Runs(c), UNCHANGED <<stack, page, client>>,
         leaked' = (leaked /\ conn' # "none")
  PROVE  TodoInv'
<1>0. HelperInv /\ TypeOK /\ ScreenTypes /\ DataInv /\ OpsInv /\ PageInv /\ TappedInv /\ OpenInv
  BY DEF TodoInv, HelperInv, RInv, IInv
<1>1. /\ stage[c] = "pending" /\ stage'[c] = "effected"
      /\ \A d \in Call : d # c => stage'[d] = stage[d] /\ call'[d].res = call[d].res
      /\ \A d \in Call : call'[d].op = call[d].op /\ call'[d].arg = call[d].arg
      /\ conn' = conn /\ before' = before
      /\ \A d \in Call : stage[d] = "pending" => <<d, c>> \notin before
  BY ScreenData DEF Runs, KeepsAsking, OtherResults
<1>2. Effect(c)
  BY <1>0 DEF Runs, OpsInv
<1>3. \/ /\ call[c].op = "insertUser"
         /\ table' = table \/ \E r \in Row : Rows(r._id) = {} /\ table' = table \cup {r}
      \/ call[c].op = "deleteUser" /\ table' = table \ Rows(call[c].arg.id)
      \/ call[c].op = "getAllUsers" /\ table' = table /\ call'[c].res.rows = table
      \/ call[c].op = "close" /\ table' = table
  BY <1>0, <1>2 DEF Effect, OpsInv
<1>4. call[c].op # "getAllUsers" => call'[c].res.rows = {}
  BY <1>0, <1>2 DEF Effect, OpsInv
<1>5. /\ ScreenTypes' /\ OpsInv' /\ SpareInv' /\ PagesInv'
      /\ \A d \in Call : \A op, p : Made(d, op, p)' <=> Made(d, op, p)
      /\ \A p \in Page : (OnTopSinceBuilt(p)' <=> OnTopSinceBuilt(p)) /\ Listing(p)' = Listing(p)
      /\ ListPushed' <=> ListPushed
  <2>1. leaked' \in BOOLEAN /\ \A d \in Call : stage'[d] = "idle" <=> stage[d] = "idle"
    BY <1>0, <1>1 DEF ScreenTypes
  <2> QED BY <2>1, HelperKeepsScreens DEF Runs
<1>6. DataInv'
  <2>1. Unique(table')
    <3>1. Unique(table)
      BY <1>0 DEF DataInv
    <3>2. CASE \E r \in Row : Rows(r._id) = {} /\ table' = table \cup {r}
      BY <3>1, <3>2 DEF Unique, Rows
    <3>3. CASE table' \subseteq table
      BY <3>1, <3>3 DEF Unique
    <3> QED BY <1>3, <3>2, <3>3
  <2>2. \A d \in Call : Unique(call'[d].res.rows)
    <3>1. Unique({}) /\ Unique(table)
      BY <1>0 DEF Unique, DataInv
    <3>2. Unique(call'[c].res.rows)
      BY <1>3, <1>4, <3>1
    <3> QED BY <1>0, <1>1, <3>2 DEF DataInv
  <2>3. \A p \in Page : Unique(Listing(p)')
    BY <1>0, <1>5 DEF DataInv
  <2>4. /\ Unique(table)' /\ (\A d \in Call : Unique(call[d].res.rows)')
        /\ \A p \in Page : Unique(Listing(p))'
    BY <2>1, <2>2, <2>3 DEF Unique
  <2> QED BY <2>4 DEF DataInv
<1>7. PageInv'
  <2> SUFFICES ASSUME NEW p \in Page, OnTopSinceBuilt(p)
               PROVE  ForeignInv(p)' /\ ShrinkInv(p)' /\ StaleInv(p)' /\ FreshInv(p)'
    BY <1>5 DEF PageInv
  <2>1. ForeignInv(p) /\ ShrinkInv(p) /\ StaleInv(p) /\ FreshInv(p)
    BY <1>0 DEF PageInv
  <2>2. /\ \A d \in Call : Foreign(d, p)' => Foreign(d, p) /\ d # c
        /\ page' = page
    BY <1>1 DEF Foreign
  <2>3. \A d \in Call : /\ d # c => (Answered(d)' <=> Answered(d)) /\ (Lists(d, p)' <=> Lists(d, p))
                        /\ ~ Answered(c) /\ Answered(c)'
                        /\ Lists(c, p)' <=> Made(c, "getAllUsers", p)
    BY <1>1, <1>5 DEF Answered, Lists
  <2>4. ASSUME NEW m \in Call, Foreign(m, p), Made(c, "getAllUsers", p) PROVE FALSE
    BY <1>1, <2>1, <2>4 DEF ForeignInv, Foreign
  <2>5. ForeignInv(p)'
    <3> SUFFICES ASSUME NEW m \in Call, Foreign(m, p)', NEW d \in Call, Made(d, "getAllUsers", p)'
                 PROVE  ~ Answered(d)' /\ (stage'[d] = "pending" => <<m, d>> \in before')
      BY <2>1, <2>2 DEF ForeignInv
    <3>1. Foreign(m, p) /\ Made(d, "getAllUsers", p) /\ d # c
      BY <1>5, <2>2, <2>4
    <3> QED BY <1>1, <2>1, <2>3, <3>1 DEF ForeignInv
  <2>6. Foreign(c, p) => page[p].items = None /\ \A d \in Call : ~ Lists(d, p) /\ ~ Lists(d, p)'
    BY <1>1, <2>1, <2>3, <2>4 DEF ForeignInv, Lists
  <2>7. \/ Foreign(c, p)
        \/ call[c].op = "deleteUser" /\ Made(c, "deleteUser", p) /\ table' \subseteq table
        \/ call[c].op = "getAllUsers" /\ table' = table /\ call'[c].res.rows = table
        \/ call[c].op = "close" /\ table' = table
    BY <1>1, <1>3 DEF Foreign, Made
  <2>8. \A d, e \in Call : Older(d, e)' <=> Older(d, e)
    BY <1>1 DEF Older
  <2>9. \A d \in Call : Lists(d, p) => d # c /\ Older(d, c) /\ ~ Older(c, d)
    <3> SUFFICES ASSUME NEW d \in Call, Lists(d, p) PROVE d # c /\ Older(d, c) /\ ~ Older(c, d)
      OBVIOUS
    <3>1. d # c /\ stage[d] \in {"effected", "done"}
      BY <1>1, <2>3 DEF Lists, Answered
    <3> QED BY <1>0, <1>1, <3>1, FlightOrder DEF Older, Flying
  <2>10. ShrinkInv(p)'
    <3>1. CASE Foreign(c, p)
      BY <2>2, <2>6, <3>1 DEF ShrinkInv
    <3>2. CASE table' \subseteq table /\ call[c].op # "getAllUsers"
      <4>1. \A d \in Call : Lists(d, p)' => Lists(d, p) /\ d # c
        BY <1>1, <2>3, <3>2 DEF Made
      <4>2. page'[p].items # None => table' \subseteq page'[p].items
        BY <2>1, <2>2, <3>2 DEF ShrinkInv
      <4>3. ASSUME NEW d \in Call, Lists(d, p)'
            PROVE  /\ table' \subseteq call'[d].res.rows
                   /\ page'[p].items # None => call'[d].res.rows \subseteq page'[p].items
                   /\ \A e \in Call \ {d} : Lists(e, p)' /\ Older(d, e)' => call'[e].res.rows \subseteq call'[d].res.rows
        <5>1. Lists(d, p) /\ call'[d].res = call[d].res
          BY <1>1, <4>1, <4>3
        <5>2. /\ table' \subseteq call'[d].res.rows
              /\ page'[p].items # None => call'[d].res.rows \subseteq page'[p].items
          BY <2>1, <2>2, <3>2, <5>1 DEF ShrinkInv
        <5>3. ASSUME NEW e \in Call \ {d}, Lists(e, p)', Older(d, e)' PROVE call'[e].res.rows \subseteq call'[d].res.rows
          <6>1. Lists(e, p) /\ Older(d, e) /\ call'[e].res = call[e].res
            BY <1>1, <2>8, <4>1, <5>3
          <6> QED BY <2>1, <5>1, <6>1 DEF ShrinkInv
        <5> QED BY <5>2, <5>3
      <4> QED BY <4>2, <4>3 DEF ShrinkInv
    <3>3. CASE call[c].op = "getAllUsers" /\ table' = table /\ call'[c].res.rows = table
      <4>1. \A d \in Call : Lists(d, p)' => d = c \/ (d # c /\ Lists(d, p))
        BY <2>3
      <4>2. page'[p].items # None => table' \subseteq page'[p].items
        BY <2>1, <2>2, <3>3 DEF ShrinkInv
      <4>3. ASSUME NEW d \in Call, Lists(d, p)'
            PROVE  /\ table' \subseteq call'[d].res.rows
                   /\ page'[p].items # None => call'[d].res.rows \subseteq page'[p].items
                   /\ \A e \in Call \ {d} : Lists(e, p)' /\ Older(d, e)' => call'[e].res.rows \subseteq call'[d].res.rows
        <5>1. CASE d = c
          <6>1. \A e \in Call \ {d} : Lists(e, p)' => ~ Older(d, e)'
            BY <2>8, <2>9, <4>1, <5>1
          <6> QED BY <2>2, <3>3, <4>2, <5>1, <6>1
        <5>2. CASE d # c
          <6>1. Lists(d, p) /\ call'[d].res = call[d].res
            BY <1>1, <4>1, <4>3, <5>2
          <6>2. /\ table' \subseteq call'[d].res.rows
                /\ page'[p].items # None => call'[d].res.rows \subseteq page'[p].items
            BY <2>1, <2>2, <3>3, <6>1 DEF ShrinkInv
          <6>3. ASSUME NEW e \in Call \ {d}, Lists(e, p)', Older(d, e)' PROVE call'[e].res.rows \subseteq call'[d].res.rows
            <7>1. CASE e = c
              BY <3>3, <6>2, <7>1
            <7>2. CASE e # c
              <8>1. Lists(e, p) /\ Older(d, e) /\ call'[e].res = call[e].res
                BY <1>1, <2>8, <4>1, <6>3, <7>2
              <8> QED BY <2>1, <6>1, <8>1 DEF ShrinkInv
            <7> QED BY <7>1, <7>2
          <6> QED BY <6>2, <6>3
        <5> QED BY <5>1, <5>2
      <4> QED BY <4>2, <4>3 DEF ShrinkInv
    <3> QED BY <2>7, <3>1, <3>2, <3>3
  <2>11. StaleInv(p)'
    <3> SUFFICES ASSUME NEW d \in Call, Lists(d, p)', call'[d].res.rows # table'
                 PROVE  \E e \in Call : Made(e, "deleteUser", p)' /\ stage'[e] = "effected" /\ Older(d, e)'
      BY DEF StaleInv
    <3>1. CASE Foreign(c, p)
      BY <2>6, <3>1
    <3>2. CASE call[c].op = "deleteUser" /\ Made(c, "deleteUser", p)
      <4>1. Lists(d, p)
        BY <1>1, <2>3, <3>2 DEF Made
      <4> QED BY <1>1, <1>5, <2>8, <2>9, <3>2, <4>1
    <3>3. CASE table' = table /\ (call[c].op = "getAllUsers" => call'[c].res.rows = table) /\ call[c].op # "deleteUser"
      <4>1. d # c /\ Lists(d, p) /\ call'[d].res = call[d].res
        BY <1>1, <2>3, <3>3 DEF Made
      <4>2. PICK e \in Call : Made(e, "deleteUser", p) /\ stage[e] = "effected" /\ Older(d, e)
        BY <2>1, <3>3, <4>1 DEF StaleInv
      <4>3. e # c
        BY <1>1, <4>2
      <4> QED BY <1>1, <1>5, <2>8, <4>2, <4>3
    <3> QED BY <2>7, <3>1, <3>2, <3>3
  <2>12. FreshInv(p)'
    <3>1. ASSUME NEW d \in Call, d # c, Refresher(d, p), ~ Lists(d, p) \/ table' = table PROVE Refresher(d, p)'
      <4>1. stage'[d] = stage[d] /\ call'[d].res = call[d].res /\ (Answered(d)' <=> Answered(d))
        BY <1>1, <2>3, <3>1
      <4>2. (Made(d, "getAllUsers", p)' <=> Made(d, "getAllUsers", p)) /\ (Made(d, "deleteUser", p)' <=> Made(d, "deleteUser", p))
        BY <1>5
      <4> QED BY <3>1, <4>1, <4>2 DEF Refresher, Lists
    <3>2. CASE Foreign(c, p)
      <4>1. page[p].items # table
        <5>1. table \in SUBSET Row
          BY <1>0 DEF TypeOK
        <5> QED BY <2>6, <3>2, <5>1, IdentitiesAssumption
      <4>2. ~ Refresher(c, p)
        BY <2>3, <3>2 DEF Refresher, Foreign, Made
      <4> QED BY <2>1, <2>2, <2>6, <3>1, <3>2, <4>1, <4>2 DEF FreshInv
    <3>3. CASE call[c].op = "deleteUser" /\ Made(c, "deleteUser", p)
      BY <1>5, <2>3, <3>3 DEF FreshInv, Refresher
    <3>4. CASE table' = table /\ (call[c].op = "getAllUsers" => call'[c].res.rows = table) /\ call[c].op # "deleteUser"
      <4>1. Refresher(c, p) => Refresher(c, p)'
        <5>1. ASSUME Refresher(c, p) PROVE Made(c, "getAllUsers", p) /\ call[c].op = "getAllUsers"
          BY <2>3, <5>1 DEF Refresher, Made
        <5>2. Made(c, "getAllUsers", p)' <=> Made(c, "getAllUsers", p)
          BY <1>5
        <5> QED BY <2>3, <3>4, <5>1, <5>2 DEF Refresher
      <4> QED BY <2>1, <2>2, <3>1, <3>4, <4>1 DEF FreshInv
    <3> QED BY <2>7, <3>2, <3>3, <3>4
  <2> QED BY <2>5, <2>10, <2>11, <2>12
<1>8. TappedInv'
  <2> SUFFICES ASSUME NEW d \in Call, call'[d].op = "deleteUser", stage'[d] = "pending", ~ client'[d].covered
               PROVE  /\ (Rows(call[d].arg.id) \subseteq {client[d].row})'
                      /\ \A m \in Call : call'[m].op = "insertUser" /\ stage'[m] = "pending" => <<d, m>> \in before'
    BY DEF TappedInv
  <2>1. d # c /\ stage[d] = "pending" /\ call[d].op = "deleteUser" /\ ~ client[d].covered
    BY <1>1
  <2>2. /\ Rows(call[d].arg.id) \subseteq {client[d].row}
        /\ \A m \in Call : call[m].op = "insertUser" /\ stage[m] = "pending" => <<d, m>> \in before
    BY <1>0, <2>1 DEF TappedInv
  <2>3. call[c].op # "insertUser"
    BY <1>1, <2>1, <2>2
  <2>4. table' \subseteq table
    BY <1>3, <2>3
  <2>5. (Rows(call[d].arg.id) \subseteq {client[d].row})'
    BY <1>1, <2>2, <2>4 DEF Rows
  <2>6. \A m \in Call : call'[m].op = "insertUser" /\ stage'[m] = "pending" => <<d, m>> \in before'
    BY <1>1, <2>2
  <2> QED BY <2>5, <2>6
<1>9. OpenInv'
  <2>1. \A d \in Call : (Flying(d)' <=> Flying(d)) /\ (Goes(d) => Goes(d)')
    BY <1>1 DEF Flying, Goes
  <2>2. AfterInserts'
    BY <1>0, <1>1, <1>5, <2>1 DEF OpenInv, AfterInserts
  <2> QED BY <1>0, <1>1, <1>5, <2>1, <2>2 DEF OpenInv
<1> QED BY <1>5, <1>6, <1>7, <1>8, <1>9 DEF TodoInv

\* A call of which the reply arrives: those that wait for it, to refresh a page or
\* to close, are due.
LEMMA SettlesKeeps ==
  ASSUME TodoInv, HelperInv', NEW c \in Call, Settles(c), UNCHANGED <<stack, page, client>>,
         leaked' = (leaked /\ conn' # "none")
  PROVE  TodoInv'
<1>0. HelperInv /\ ScreenTypes /\ DataInv /\ OpsInv /\ PageInv /\ TappedInv /\ OpenInv
  BY DEF TodoInv
<1>1. /\ stage[c] = "effected" /\ stage'[c] = "done"
      /\ \A d \in Call : d # c => stage'[d] = stage[d]
      /\ \A d \in Call : stage[d] # "done"
      /\ \A d \in Call : call'[d].op = call[d].op /\ call'[d].arg = call[d].arg /\ call'[d].res = call[d].res
      /\ call[c].op \in {"getAllUsers", "deleteUser"} => call[c].res.ok
      /\ table' = table
      /\ conn' = (IF call[c].op = "close" THEN "none" ELSE conn)
  BY ScreenData DEF Settles, KeepsAsking, ById
<1>2. \A d, e \in Call : <<d, e>> \in before' <=> <<d, e>> \in before /\ d # c /\ e # c
  BY DEF Settles, Forgets
<1>3. /\ \A d \in Call : Flying(d) /\ d # c => <<c, d>> \in before /\ <<d, c>> \notin before
      /\ \A d \in Call : Flying(d)' <=> Flying(d) /\ d # c
  BY <1>0, <1>1, FlightOrder DEF Settles, Flying
<1>4. /\ ScreenTypes' /\ OpsInv' /\ SpareInv' /\ PagesInv'
      /\ \A d \in Call : \A op, p : Made(d, op, p)' <=> Made(d, op, p)
      /\ \A p \in Page : (OnTopSinceBuilt(p)' <=> OnTopSinceBuilt(p)) /\ Listing(p)' = Listing(p)
      /\ ListPushed' <=> ListPushed
  <2>1. leaked' \in BOOLEAN /\ \A d \in Call : stage'[d] = "idle" <=> stage[d] = "idle"
    BY <1>0, <1>1 DEF ScreenTypes
  <2> QED BY <2>1, HelperKeepsScreens DEF Settles
<1>5. DataInv'
  BY <1>0, <1>1, <1>4 DEF DataInv, Unique
<1>6. PageInv'
  <2> SUFFICES ASSUME NEW p \in Page, OnTopSinceBuilt(p)
               PROVE  ForeignInv(p)' /\ ShrinkInv(p)' /\ StaleInv(p)' /\ FreshInv(p)'
    BY <1>4 DEF PageInv
  <2>1. ForeignInv(p) /\ ShrinkInv(p) /\ StaleInv(p) /\ FreshInv(p)
    BY <1>0 DEF PageInv
  <2>2. /\ \A d \in Call : (Made(d, "getAllUsers", p) \/ Made(d, "deleteUser", p)) => (Answered(d)' <=> Answered(d))
        /\ page' = page
    BY <1>1 DEF Answered, Made
  <2>3. \A d \in Call : Lists(d, p)' <=> Lists(d, p)
    BY <1>4, <2>2 DEF Lists
  <2>4. \A d \in Call : Lists(d, p) => stage[d] = "effected" /\ Flying(d)
    BY <1>1 DEF Lists, Answered, Flying
  <2>5. ForeignInv(p)'
    <3> SUFFICES ASSUME NEW m \in Call, Foreign(m, p)', NEW d \in Call, Made(d, "getAllUsers", p)'
                 PROVE  /\ page'[p].items = None
                        /\ ~ Answered(d)' /\ (stage'[d] = "pending" => <<m, d>> \in before')
      <4>1. \A m \in Call : Foreign(m, p)' => Foreign(m, p)
        BY <1>1 DEF Foreign
      <4> QED BY <2>1, <2>2, <4>1 DEF ForeignInv
    <3>1. Foreign(m, p) /\ Made(d, "getAllUsers", p) /\ m # c
      BY <1>1, <1>4 DEF Foreign
    <3> QED BY <1>1, <1>2, <2>1, <2>2, <3>1 DEF ForeignInv
  <2>6. \A d, e \in Call : d # e /\ Lists(d, p) /\ Lists(e, p) /\ Older(d, e)' => Older(d, e)
    BY <1>1, <1>2, <1>3, <2>4 DEF Older
  <2>7. ShrinkInv(p)'
    BY <1>1, <2>1, <2>2, <2>3, <2>6 DEF ShrinkInv
  <2>8. StaleInv(p)'
    <3> SUFFICES ASSUME NEW d \in Call, Lists(d, p)', call'[d].res.rows # table'
                 PROVE  \E e \in Call : Made(e, "deleteUser", p)' /\ stage'[e] = "effected" /\ Older(d, e)'
      BY DEF StaleInv
    <3>1. Lists(d, p) /\ call[d].res.rows # table /\ Flying(d) /\ stage[d] = "effected"
      BY <1>1, <2>3, <2>4
    <3>2. PICK e \in Call : Made(e, "deleteUser", p) /\ stage[e] = "effected" /\ Older(d, e)
      BY <2>1, <3>1 DEF StaleInv
    <3>3. <<d, e>> \in before
      BY <3>1, <3>2 DEF Older
    <3>4. e # c
      <4>1. d # e
        BY <1>0, <3>3, FlightOrder
      <4> QED BY <1>3, <3>1, <3>3, <4>1
    <3>5. Older(d, e)'
      BY <1>1, <1>2, <3>3, <3>4 DEF Older
    <3> QED BY <1>1, <1>4, <3>2, <3>4, <3>5
  <2>9. FreshInv(p)'
    <3>1. ASSUME NEW d \in Call, Refresher(d, p) PROVE Refresher(d, p)'
      <4>1. /\ call'[d].res = call[d].res
            /\ (Made(d, "getAllUsers", p)' <=> Made(d, "getAllUsers", p)) /\ (Made(d, "deleteUser", p)' <=> Made(d, "deleteUser", p))
        BY <1>1, <1>4
      <4>2. (stage[d] = "pending" \/ stage[d] = "done") => stage'[d] = stage[d]
        BY <1>1
      <4> QED BY <1>1, <2>2, <3>1, <4>1, <4>2 DEF Refresher
    <3> QED BY <1>1, <2>1, <2>2, <3>1 DEF FreshInv
  <2> QED BY <2>5, <2>7, <2>8, <2>9
<1>7. TappedInv'
  <2> SUFFICES ASSUME NEW d \in Call, call'[d].op = "deleteUser", stage'[d] = "pending", ~ client'[d].covered
               PROVE  /\ (Rows(call[d].arg.id) \subseteq {client[d].row})'
                      /\ \A m \in Call : call'[m].op = "insertUser" /\ stage'[m] = "pending" => <<d, m>> \in before'
    BY DEF TappedInv
  <2>1. d # c /\ stage[d] = "pending" /\ call[d].op = "deleteUser" /\ ~ client[d].covered
    BY <1>1
  <2>2. /\ Rows(call[d].arg.id) \subseteq {client[d].row}
        /\ \A m \in Call : call[m].op = "insertUser" /\ stage[m] = "pending" => <<d, m>> \in before
    BY <1>0, <2>1 DEF TappedInv
  <2>3. (Rows(call[d].arg.id) \subseteq {client[d].row})'
    BY <1>1, <2>2 DEF Rows
  <2>4. \A m \in Call : call'[m].op = "insertUser" /\ stage'[m] = "pending" => <<d, m>> \in before'
    BY <1>1, <1>2, <2>1, <2>2
  <2> QED BY <2>3, <2>4
<1>8. OpenInv'
  <2>1. AfterInserts'
    <3> SUFFICES ASSUME NEW m \in Call, Flying(m)', call'[m].op = "insertUser", ~ ListPushed
                 PROVE  \E d \in Call : Flying(d)' /\ call'[d].op # "insertUser" /\ <<m, d>> \in before'
      BY <1>4 DEF AfterInserts
    <3>1. Flying(m) /\ m # c /\ call[m].op = "insertUser"
      BY <1>1, <1>3
    <3>2. PICK d \in Call : Flying(d) /\ call[d].op # "insertUser" /\ <<m, d>> \in before
      BY <1>0, <3>1 DEF OpenInv, AfterInserts
    <3>3. d # c
      BY <1>3, <3>1, <3>2
    <3> QED BY <1>1, <1>2, <1>3, <3>1, <3>2, <3>3
  <2>2. ASSUME conn' = "open", ~ ListPushed PROVE \E d \in Call : Flying(d)' \/ Goes(d)'
    <3>1. call[c].op \in {"insertUser", "deleteUser", "getAllUsers"}
      BY <1>0, <1>1, <2>2 DEF OpsInv
    <3>2. CASE call[c].op = "insertUser"
      <4>1. Flying(c)
        BY <1>1 DEF Flying
      <4>2. PICK d \in Call : Flying(d) /\ call[d].op # "insertUser"
        BY <1>0, <2>2, <3>2, <4>1 DEF OpenInv, AfterInserts
      <4> QED BY <1>3, <3>2, <4>2
    <3>3. CASE call[c].op \in {"deleteUser", "getAllUsers"}
      <4>1. Goes(c)'
        BY <1>1, <3>3 DEF Goes
      <4> QED BY <4>1
    <3> QED BY <3>1, <3>2, <3>3
  <2> QED BY <1>4, <2>1, <2>2 DEF OpenInv
<1> QED BY <1>4, <1>5, <1>6, <1>7, <1>8 DEF TodoInv

\* A call that is refused has no effect; its page is told, and there is a close.
LEMMA RefusedKeeps ==
  ASSUME TodoInv, HelperInv', NEW c \in Call, Refused(c), UNCHANGED <<stack, page, client>>,
         leaked' = (leaked /\ conn' # "none")
  PROVE  TodoInv'
<1>0. HelperInv /\ ScreenTypes /\ DataInv /\ OpsInv /\ PageInv /\ TappedInv /\ OpenInv
  BY DEF TodoInv
<1>1. /\ stage[c] = "pending" /\ stage'[c] = "done"
      /\ \A d \in Call : d # c => stage'[d] = stage[d] /\ call'[d].res = call[d].res
      /\ \A d \in Call : call'[d].op = call[d].op /\ call'[d].arg = call[d].arg
      /\ call'[c].res.rows = {} /\ (call'[c].res.ok <=> call[c].op = "close")
      /\ table' = table /\ conn' = "closing"
  BY ScreenData DEF Refused, KeepsAsking, OtherResults
<1>2. \A d, e \in Call : <<d, e>> \in before' <=> <<d, e>> \in before /\ d # c /\ e # c
  BY DEF Refused, Forgets
<1>3. \A d \in Call : Flying(d)' <=> Flying(d) /\ d # c
  BY <1>1 DEF Flying
<1>4. /\ ScreenTypes' /\ OpsInv' /\ SpareInv' /\ PagesInv'
      /\ \A d \in Call : \A op, p : Made(d, op, p)' <=> Made(d, op, p)
      /\ \A p \in Page : (OnTopSinceBuilt(p)' <=> OnTopSinceBuilt(p)) /\ Listing(p)' = Listing(p)
      /\ ListPushed' <=> ListPushed
  <2>1. leaked' \in BOOLEAN /\ \A d \in Call : stage'[d] = "idle" <=> stage[d] = "idle"
    BY <1>0, <1>1 DEF ScreenTypes
  <2> QED BY <2>1, HelperKeepsScreens DEF Refused
<1>5. DataInv'
  <2>1. \A d \in Call : Unique(call'[d].res.rows)
    <3>1. Unique({})
      BY DEF Unique
    <3> QED BY <1>0, <1>1, <3>1 DEF DataInv
  <2>2. Unique(table') /\ \A p \in Page : Unique(Listing(p)')
    BY <1>0, <1>1, <1>4 DEF DataInv
  <2>3. /\ Unique(table)' /\ (\A d \in Call : Unique(call[d].res.rows)')
        /\ \A p \in Page : Unique(Listing(p))'
    BY <2>1, <2>2 DEF Unique
  <2> QED BY <2>3 DEF DataInv
<1>6. PageInv'
  <2> SUFFICES ASSUME NEW p \in Page, OnTopSinceBuilt(p)
               PROVE  ForeignInv(p)' /\ ShrinkInv(p)' /\ StaleInv(p)' /\ FreshInv(p)'
    BY <1>4 DEF PageInv
  <2>1. ForeignInv(p) /\ ShrinkInv(p) /\ StaleInv(p) /\ FreshInv(p)
    BY <1>0 DEF PageInv
  <2>2. /\ \A d \in Call : (Made(d, "getAllUsers", p) \/ Made(d, "deleteUser", p)) => (Answered(d)' <=> Answered(d))
        /\ page' = page
    BY <1>1 DEF Answered, Made
  <2>3. \A d \in Call : Lists(d, p)' <=> Lists(d, p)
    BY <1>4, <2>2 DEF Lists
  <2>4. \A d \in Call : Lists(d, p) => d # c
    BY <1>1 DEF Lists, Answered
  <2>5. ForeignInv(p)'
    <3> SUFFICES ASSUME NEW m \in Call, Foreign(m, p)', NEW d \in Call, Made(d, "getAllUsers", p)'
                 PROVE  /\ page'[p].items = None
                        /\ ~ Answered(d)' /\ (stage'[d] = "pending" => <<m, d>> \in before')
      <4>1. \A m \in Call : Foreign(m, p)' => Foreign(m, p)
        BY <1>1 DEF Foreign
      <4> QED BY <2>1, <2>2, <4>1 DEF ForeignInv
    <3>1. Foreign(m, p) /\ Made(d, "getAllUsers", p) /\ m # c
      BY <1>1, <1>4 DEF Foreign
    <3> QED BY <1>1, <1>2, <2>1, <2>2, <3>1 DEF ForeignInv
  <2>6. \A d, e \in Call : d # c /\ e # c => (Older(d, e)' <=> Older(d, e))
    BY <1>1, <1>2 DEF Older
  <2>7. ShrinkInv(p)'
    BY <1>1, <2>1, <2>2, <2>3, <2>4, <2>6 DEF ShrinkInv
  <2>8. StaleInv(p)'
    <3> SUFFICES ASSUME NEW d \in Call, Lists(d, p)', call'[d].res.rows # table'
                 PROVE  \E e \in Call : Made(e, "deleteUser", p)' /\ stage'[e] = "effected" /\ Older(d, e)'
      BY DEF StaleInv
    <3>1. Lists(d, p) /\ call[d].res.rows # table /\ d # c
      BY <1>1, <2>3, <2>4
    <3>2. PICK e \in Call : Made(e, "deleteUser", p) /\ stage[e] = "effected" /\ Older(d, e)
      BY <2>1, <3>1 DEF StaleInv
    <3>3. e # c
      BY <1>1, <3>2
    <3> QED BY <1>1, <1>4, <2>6, <3>1, <3>2, <3>3
  <2>9. FreshInv(p)'
    <3>1. ASSUME NEW d \in Call, Refresher(d, p) PROVE Refresher(d, p)'
      <4>1. (Made(d, "getAllUsers", p)' <=> Made(d, "getAllUsers", p)) /\ (Made(d, "deleteUser", p)' <=> Made(d, "deleteUser", p))
        BY <1>4
      <4>2. CASE d = c
        <5>1. ~ Answered(c)
          BY <1>1 DEF Answered
        <5>2. Made(c, "getAllUsers", p)
          BY <3>1, <4>2, <5>1 DEF Refresher
        <5>3. ~ call'[c].res.ok
          BY <1>1, <5>2 DEF Made
        <5> QED BY <1>1, <4>1, <4>2, <5>2, <5>3 DEF Refresher
      <4>3. CASE d # c
        BY <1>1, <2>2, <3>1, <4>1, <4>3 DEF Refresher
      <4> QED BY <4>2, <4>3
    <3> QED BY <1>1, <2>1, <2>2, <3>1 DEF FreshInv
  <2> QED BY <2>5, <2>7, <2>8, <2>9
<1>7. TappedInv'
  <2> SUFFICES ASSUME NEW d \in Call, call'[d].op = "deleteUser", stage'[d] = "pending", ~ client'[d].covered
               PROVE  /\ (Rows(call[d].arg.id) \subseteq {client[d].row})'
                      /\ \A m \in Call : call'[m].op = "insertUser" /\ stage'[m] = "pending" => <<d, m>> \in before'
    BY DEF TappedInv
  <2>1. d # c /\ stage[d] = "pending" /\ call[d].op = "deleteUser" /\ ~ client[d].covered
    BY <1>1
  <2>2. /\ Rows(call[d].arg.id) \subseteq {client[d].row}
        /\ \A m \in Call : call[m].op = "insertUser" /\ stage[m] = "pending" => <<d, m>> \in before
    BY <1>0, <2>1 DEF TappedInv
  <2>3. (Rows(call[d].arg.id) \subseteq {client[d].row})'
    BY <1>1, <2>2 DEF Rows
  <2>4. \A m \in Call : call'[m].op = "insertUser" /\ stage'[m] = "pending" => <<d, m>> \in before'
    BY <1>1, <1>2, <2>1, <2>2
  <2> QED BY <2>3, <2>4
<1>8. AfterInserts'
  <2> SUFFICES ASSUME NEW m \in Call, Flying(m)', call'[m].op = "insertUser", ~ ListPushed
               PROVE  \E d \in Call : Flying(d)' /\ call'[d].op # "insertUser" /\ <<m, d>> \in before'
    BY <1>4 DEF AfterInserts
  <2>1. Flying(m) /\ m # c /\ call[m].op = "insertUser"
    BY <1>1, <1>3
  <2>2. PICK d \in Call : Flying(d) /\ call[d].op # "insertUser" /\ <<m, d>> \in before
    BY <1>0, <2>1 DEF OpenInv, AfterInserts
  <2>3. CASE d # c
    BY <1>1, <1>2, <1>3, <2>1, <2>2, <2>3
  <2>4. CASE d = c
    <3>1. PICK k \in Call : /\ Flying(k) /\ call[k].op = "close" /\ k # c
                            /\ \A e \in Call : Flying(e) /\ e \notin {c, k} => <<e, k>> \in before \/ <<c, e>> \in before
      BY DEF Refused
    <3>2. <<c, m>> \notin before
      BY <1>0, <2>2, <2>4, FlightOrder
    <3>3. <<m, k>> \in before
      BY <2>1, <3>1, <3>2
    <3> QED BY <1>1, <1>2, <1>3, <2>1, <3>1, <3>3
  <2> QED BY <2>3, <2>4
<1>9. OpenInv'
  BY <1>1, <1>8 DEF OpenInv
<1> QED BY <1>4, <1>5, <1>6, <1>7, <1>9 DEF TodoInv

\* A call goes on to another queue, or nothing happens.
LEMMA UnseenKeeps ==
  ASSUME TodoInv, HelperInv', UNCHANGED <<table, stage, before, stack, page, client>>, leaked' \in BOOLEAN,
         KeepsAsking, \A d \in Call : call'[d].res = call[d].res,
         conn' = "open" => (\E c \in Call : Flying(c)) \/ (conn = "open" /\ leaked' = leaked)
  PROVE  TodoInv'
<1>0. DataInv /\ PageInv /\ TappedInv /\ OpenInv
  BY DEF TodoInv
<1>1. /\ table' = table /\ stage' = stage /\ before' = before
      /\ \A d \in Call : call'[d].op = call[d].op /\ call'[d].arg = call[d].arg /\ call'[d].res = call[d].res
  BY DEF KeepsAsking
<1>2. /\ ScreenTypes' /\ OpsInv' /\ SpareInv' /\ PagesInv'
      /\ \A d \in Call : \A op, p : Made(d, op, p)' <=> Made(d, op, p)
      /\ \A p \in Page : (OnTopSinceBuilt(p)' <=> OnTopSinceBuilt(p)) /\ Listing(p)' = Listing(p)
      /\ ListPushed' <=> ListPushed
  BY <1>1, HelperKeepsScreens
<1>3. DataInv'
  BY <1>0, <1>1, <1>2 DEF DataInv, Unique
<1>4. PageInv'
  <2> SUFFICES ASSUME NEW p \in Page, OnTopSinceBuilt(p)
               PROVE  ForeignInv(p)' /\ ShrinkInv(p)' /\ StaleInv(p)' /\ FreshInv(p)'
    BY <1>2 DEF PageInv
  <2>1. ForeignInv(p) /\ ShrinkInv(p) /\ StaleInv(p) /\ FreshInv(p)
    BY <1>0 DEF PageInv
  <2>2. \A d \in Call : (Answered(d)' <=> Answered(d)) /\ (Foreign(d, p)' <=> Foreign(d, p))
    BY <1>1 DEF Answered, Foreign
  <2>3. \A d \in Call : (Lists(d, p)' <=> Lists(d, p)) /\ (Refresher(d, p)' <=> Refresher(d, p))
    BY <1>1, <1>2, <2>2 DEF Lists, Refresher
  <2>4. \A d, e \in Call : Older(d, e)' <=> Older(d, e)
    BY <1>1 DEF Older
  <2>5. ForeignInv(p)'
    BY <1>1, <1>2, <2>1, <2>2 DEF ForeignInv
  <2>6. ShrinkInv(p)' /\ StaleInv(p)'
    BY <1>1, <1>2, <2>1, <2>3, <2>4 DEF ShrinkInv, StaleInv
  <2>7. FreshInv(p)'
    BY <1>1, <2>1, <2>3 DEF FreshInv
  <2> QED BY <2>5, <2>6, <2>7
<1>5. TappedInv'
  BY <1>0, <1>1 DEF TappedInv, Rows
<1>6. OpenInv'
  <2>1. \A d \in Call : (Flying(d)' <=> Flying(d)) /\ (Goes(d)' <=> Goes(d))
    BY <1>1 DEF Flying, Goes
  <2>2. AfterInserts'
    BY <1>0, <1>1, <1>2, <2>1 DEF OpenInv, AfterInserts
  <2>3. conn' = "open" /\ ~ leaked' => ListPushed' \/ \E d \in Call : Flying(d)' \/ Goes(d)'
    BY <1>0, <1>2, <2>1 DEF OpenInv
  <2> QED BY <2>2, <2>3 DEF OpenInv
<1> QED BY <1>2, <1>3, <1>4, <1>5, <1>6 DEF TodoInv


\* The plugin moves on.
LEMMA HelperStepKeeps ==
  ASSUME TodoInv, HelperStep
  PROVE  TodoInv'
<1>1. Plugin /\ leaked' = (leaked /\ conn' # "none") /\ UNCHANGED <<stack, page, client>>
  BY DEF HelperStep
<1>2. HelperInv' /\ (Unseen \/ \E c \in Call : Runs(c) \/ Settles(c) \/ Refused(c))
  BY <1>1, PluginMoves DEF TodoInv
<1>3. leaked' \in BOOLEAN
  BY <1>1 DEF TodoInv, ScreenTypes
<1>4. CASE Unseen
  BY <1>1, <1>2, <1>3, <1>4, UnseenKeeps DEF Unseen
<1>5. CASE \E c \in Call : Runs(c) \/ Settles(c) \/ Refused(c)
  BY <1>1, <1>2, <1>5, RunsKeeps, SettlesKeeps, RefusedKeeps
<1> QED BY <1>2, <1>4, <1>5

\* Every step of the app keeps the invariant.
LEMMA TodoStep == TodoInv /\ [TodoNext]_vars => TodoInv'
<1> SUFFICES ASSUME TodoInv, [TodoNext]_vars PROVE TodoInv'
  OBVIOUS
<1>1. ASSUME NEW p \in Page, NEW index, TapDelete(p, index) PROVE TodoInv'
  BY <1>1, TapDeleteKeeps
<1>2. ASSUME NEW p \in Page, TapFab(p) PROVE TodoInv'
  BY <1>2, TapFabKeeps
<1>3. ASSUME NEW p \in Page, NEW name \in Name, Type(p, name) PROVE TodoInv'
  BY <1>3, NameTypedKeeps
<1>4. ASSUME NEW p \in Page, TapInsert(p) PROVE TodoInv'
  BY <1>4, TapInsertKeeps
<1>5. ASSUME NEW p \in Page, Dispose(p) PROVE TodoInv'
  BY <1>5, DisposeKeeps
<1>6. ASSUME NEW c \in Call, ListArrived(c) PROVE TodoInv'
  BY <1>6, ListArrivedKeeps
<1>7. ASSUME NEW c \in Call, DeleteSettled(c) PROVE TodoInv'
  BY <1>7, DeleteSettledKeeps
<1>8. ASSUME NEW c \in Call, Unawaited(c) PROVE TodoInv'
  BY <1>8, UnawaitedKeeps
<1>9. Back => TodoInv'
  BY BackKeeps
<1>10. Frame => TodoInv'
  BY FrameKeeps
<1>11. HelperStep => TodoInv'
  BY HelperStepKeeps
<1>12. Relaunch => TodoInv'
  BY RelaunchKeeps
<1>13. CASE UNCHANGED vars
  <2>1. UNCHANGED dbVars /\ UNCHANGED <<stack, page, client, leaked>>
    BY <1>13 DEF vars, uiVars
  <2>2. HelperInv' /\ KeepsAsking /\ (\A d \in Call : call'[d].res = call[d].res) /\ conn' = conn /\ table' = table
    BY <2>1, NothingAsked DEF TodoInv, dbVars, plugin, KeepsAsking
  <2>3. stage' = stage /\ before' = before
    <3>1. call' = call /\ replyQ' = replyQ /\ cmdQ' = cmdQ /\ waiters' = waiters /\ pathQ' = pathQ
      BY <2>1 DEF dbVars, plugin
    <3> QED BY <3>1 DEF stage, before, Flight, Ahead, AbsState, In
  <2>4. leaked' \in BOOLEAN
    BY <2>1 DEF TodoInv, ScreenTypes
  <2> QED BY <2>1, <2>2, <2>3, <2>4, UnseenKeeps
<1> QED BY <1>1, <1>2, <1>3, <1>4, <1>5, <1>6, <1>7, <1>8, <1>9, <1>10, <1>11, <1>12, <1>13 DEF TodoNext, Tap, Microtask

\* The invariant.
LEMMA TodoInvAlways == TodoSpec => []TodoInv
<1>1. TodoInit => TodoInv
  BY TodoInvInit
<1>2. TodoInv /\ [TodoNext]_vars => TodoInv'
  BY TodoStep
<1> QED BY <1>1, <1>2, PTL DEF TodoSpec

-----------------------------------------------------------------------------
(* What follows. *)

\* Of the types.
LEMMA TypesFollow == TodoInv => TodoTypeOK
<1> SUFFICES ASSUME TodoInv PROVE TodoTypeOK
  OBVIOUS
<1>1. ScreenTypes
  BY DEF TodoInv
<1>2. ASSUME NEW p \in Page
      PROVE  /\ page[p].kind \in {"todo", "add"}
             /\ page[p].phase \in {"gone", "pushed", "mounted", "leaving"}
             /\ page[p].items \in (SUBSET Row) \cup {None}
             /\ page[p].built \in SUBSET Row
             /\ page[p].text \in Name
             /\ page[p].phase \in {"pushed", "mounted"} <=> p \in Range(stack)
  BY <1>1 DEF ScreenTypes, Pages
<1>3. \A c \in Call :
        call[c].pc # "idle" /\ call[c].op \in {"deleteUser", "getAllUsers"} => client[c].page \in Page
  BY <1>1, ScreenData DEF ScreenTypes
<1> QED BY <1>1, <1>2, <1>3 DEF ScreenTypes, TodoTypeOK

\* When nothing is in flight, no list page is to be built and no call to be
\* continued: the connection is not open, and neither is it being opened or closed.
LEMMA ClosedFollows == TodoInv => QuietIsClosed
<1> SUFFICES ASSUME TodoInv, Quiet, conn # "none", ~ leaked PROVE FALSE
  BY DEF QuietIsClosed
<1>1. TypeOK /\ ConnInv /\ CloseInv /\ SentInv /\ OpenInv
  BY DEF TodoInv, HelperInv, RInv, IInv
<1>2. \A c \in Call : call[c].pc = "idle" /\ stage[c] = "idle"
  BY ScreenData DEF Quiet
<1>3. cmdQ = <<>> /\ replyQ = <<>>
  <2>1. ASSUME NEW q \in Seq(Call), AllAt(call, q, SentPc) PROVE q = <<>>
    <3>1. Len(q) \in Nat /\ (Len(q) = 0 => q = <<>>)
      OBVIOUS
    <3>2. SentPc # "idle"
      BY DEF SentPc
    <3>3. \A i \in 1 .. Len(q) : FALSE
      BY <1>2, <2>1, <3>2 DEF AllAt
    <3>4. \A n \in Nat : n # 0 => 1 \in 1 .. n
      OBVIOUS
    <3> QED BY <3>1, <3>3, <3>4
  <2> QED BY <1>1, <2>1 DEF TypeOK, SentInv
<1>4. conn # "opening"
  BY <1>1, <1>3 DEF ConnInv
<1>5. conn # "closing"
  BY <1>1, <1>3, <1>4 DEF CloseInv
<1>6. conn = "open"
  BY <1>1, <1>4, <1>5 DEF TypeOK
<1>7. ListPushed \/ \E c \in Call : Flying(c) \/ Goes(c)
  BY <1>1, <1>6 DEF OpenInv
<1> QED BY <1>2, <1>7 DEF Quiet, ListPushed, Flying, Goes

\* A delete that has not run is pending.
LEMMA TappedFollows == TodoInv => DeletesTappedRow
<1> SUFFICES ASSUME TodoInv, NEW c \in Call, call[c].op = "deleteUser", NotYetRun(c), ~ client[c].covered
             PROVE  Rows(call[c].arg.id) \subseteq {client[c].row}
  BY DEF DeletesTappedRow
<1>1. TypeOK /\ FlightInv /\ TappedInv
  BY DEF TodoInv, HelperInv, RInv, IInv
<1>2. In(c, cmdQ) => ~ In(c, replyQ)
  <2>1. /\ replyQ \in Seq(Call) /\ cmdQ \in Seq(Call)
        /\ replyQ \o cmdQ \in Seq(Call) /\ (replyQ \o cmdQ) \o waiters \in Seq(Call)
        /\ waiters \in Seq(Call) /\ pathQ \in Seq(Call)
    BY <1>1, Queues
  <2>2. Distinct((replyQ \o cmdQ) \o waiters)
    BY <1>1, <2>1, InRow DEF FlightInv, Flight
  <2>3. Distinct(replyQ \o cmdQ)
    BY <2>1, <2>2, InRow
  <2>4. Disjoint(replyQ, cmdQ)
    BY <2>1, <2>3, InRow
  <2> QED BY <2>4 DEF Disjoint, In
<1>3. stage[c] = "pending"
  BY <1>2, StageIs DEF NotYetRun, AbsState, In
<1> QED BY <1>1, <1>3 DEF TappedInv

\* When nothing is in flight, nothing will bring a page up to date: it is.
LEMMA SettledFollows == TodoInv => SettledListIsTable
<1> SUFFICES ASSUME TodoInv, Quiet, NEW p \in Page, OnTopSinceBuilt(p), ~ page[p].failed
             PROVE  page[p].items = table
  BY DEF SettledListIsTable
<1>1. FreshInv(p)
  BY DEF TodoInv, PageInv
<1>2. \A c \in Call : stage[c] = "idle"
  BY ScreenData DEF Quiet
<1> QED BY <1>1, <1>2 DEF FreshInv, Refresher, Made

\* Only a list that arrives changes what a page shows.
LEMMA ItemsStay ==
  ASSUME TodoInv, TodoNext, \A c \in Call : ~ ListArrived(c),
         NEW p \in Page, page[p].phase = "mounted", page'[p].phase = "mounted"
  PROVE  page'[p].items = page[p].items
<1>0. HelperInv /\ ScreenTypes /\ page \in [Page -> Pages]
  BY DEF TodoInv, ScreenTypes
<1>1. CASE page' = page
  BY <1>1
<1>2. ASSUME NEW pages \in [Page -> Pages], NEW kind, Push(pages, kind), pages[p].items = page[p].items
      PROVE  page'[p].items = page[p].items
  <2>1. (CHOOSE q \in FreePages : TRUE) \in FreePages
    BY <1>2 DEF Push
  <2>2. PICK q \in FreePages : page' = [r \in Page |->
            IF r = q THEN NewPage(kind)
            ELSE IF r \in Range(stack) THEN [pages[r] EXCEPT !.covered = TRUE]
            ELSE pages[r]]
    BY <1>2, <2>1 DEF Push
  <2>3. p # q
    BY <2>2 DEF FreePages
  <2> QED BY <1>2, <2>2, <2>3 DEF Pages
<1>3. ASSUME NEW r \in Page, TapFab(r) PROVE page'[p].items = page[p].items
  BY <1>0, <1>2, <1>3 DEF TapFab
<1>4. ASSUME NEW r \in Page, NEW name \in Name, Type(r, name) PROVE page'[p].items = page[p].items
  BY <1>0, <1>4 DEF Type, Pages
<1>5. ASSUME NEW r \in Page, TapInsert(r) PROVE page'[p].items = page[p].items
  <2>1. [page EXCEPT ![r].text = Blank] \in [Page -> Pages]
    BY <1>0, BlankAssumption DEF Pages
  <2>2. [page EXCEPT ![r].text = Blank][p].items = page[p].items
    BY <1>0 DEF Pages
  <2> QED BY <1>2, <1>5, <2>1, <2>2 DEF TapInsert
<1>6. Back => page'[p].items = page[p].items
  BY <1>0 DEF Back, Pages
<1>7. ASSUME NEW r \in Page, Dispose(r) PROVE page'[p].items = page[p].items
  <2>1. page' = [page EXCEPT ![r] = Gone] /\ Gone.phase = "gone"
    BY <1>7 DEF Dispose, Gone, NewPage
  <2> QED BY <1>0, <2>1
<1>8. Frame => page'[p].items = page[p].items
  <2> SUFFICES ASSUME Frame PROVE page'[p].items = page[p].items
    OBVIOUS
  <2>1. Mounts
    BY <1>0, FrameIs
  <2> QED BY <1>0, <2>1 DEF Mounts, Pages
<1>9. Relaunch => page'[p].items = page[p].items
  <2> SUFFICES ASSUME Relaunch PROVE FALSE
    OBVIOUS
  <2>1. PICK kind \in {"todo", "add"} : page' = Home(kind).pages
    BY DEF Relaunch
  <2>2. page'[p] \in {NewPage(kind), Gone}
    BY <2>1 DEF Home
  <2> QED BY <2>2 DEF NewPage, Gone
<1>10. ASSUME NEW r \in Page, NEW index, TapDelete(r, index) PROVE page' = page
  BY <1>10 DEF TapDelete
<1>11. ASSUME NEW c \in Call, DeleteSettled(c) \/ Unawaited(c) PROVE page' = page
  BY <1>11 DEF DeleteSettled, Unawaited, uiVars
<1>12. HelperStep => page' = page
  BY DEF HelperStep
<1> QED BY <1>1, <1>3, <1>4, <1>5, <1>6, <1>7, <1>8, <1>9, <1>10, <1>11, <1>12 DEF TodoNext, Tap, Microtask

\* The list that arrives at a page has no row the page does not show.
LEMMA ShrinkFollows ==
  ASSUME TodoInv, [TodoNext]_vars, NEW p \in Page, OnTopSinceBuilt(p), page[p].items # None,
         page'[p].phase = "mounted"
  PROVE  page'[p].items \subseteq page[p].items
<1>1. CASE UNCHANGED vars
  BY <1>1 DEF vars, uiVars
<1>2. CASE TodoNext /\ \A c \in Call : ~ ListArrived(c)
  BY <1>2, ItemsStay DEF OnTopSinceBuilt
<1>3. ASSUME NEW c \in Call, ListArrived(c) PROVE page'[p].items \subseteq page[p].items
  <2>0. ScreenTypes /\ HelperInv /\ page \in [Page -> Pages] /\ ShrinkInv(p)
    BY DEF TodoInv, ScreenTypes, PageInv
  <2> DEFINE q == client[c].page
  <2>1. /\ q \in Page /\ stage[c] = "done" /\ call[c].op = "getAllUsers"
        /\ \/ call[c].res.ok /\ page' = SetState(q, call[c].res.rows)
           \/ page' = page
           \/ page' = [page EXCEPT ![q].failed = Alive(q)]
    BY <1>3, <2>0, ListArrivedIs
  <2> HIDE DEF q
  <2>2. CASE call[c].res.ok /\ page' = SetState(q, call[c].res.rows)
    <3>1. CASE p = q
      <4>1. Lists(c, p)
        BY <2>1, <2>2, <3>1 DEF Lists, Made, Answered, q
      <4>2. call[c].res.rows \subseteq page[p].items
        BY <2>0, <4>1 DEF ShrinkInv
      <4>3. page'[p].items = call[c].res.rows
        BY <2>0, <2>2, <3>1 DEF SetState, Pages
      <4> QED BY <4>2, <4>3
    <3>2. CASE p # q
      BY <2>0, <2>2, <3>2 DEF SetState
    <3> QED BY <3>1, <3>2
  <2>3. CASE page' = page
    BY <2>3
  <2>4. CASE page' = [page EXCEPT ![q].failed = Alive(q)]
    BY <2>0, <2>4 DEF Pages
  <2> QED BY <2>1, <2>2, <2>3, <2>4
<1> QED BY <1>1, <1>2, <1>3

-----------------------------------------------------------------------------
(* The theorems. *)

\* The screens' state is of the right type: the stack is never empty and holds
\* each page that is on the screen or about to be, once.
THEOREM TodoTypesCorrect == TodoSpec => []TodoTypeOK
<1>1. TodoInv => TodoTypeOK
  BY TypesFollow
<1> QED BY <1>1, TodoInvAlways, PTL

\* For any number of calls and pages, the connection is closed when nothing is in
\* flight, unless a list arrived at a disposed page.
THEOREM ConnectionCloses == TodoSpec => []QuietIsClosed
<1>1. TodoInv => QuietIsClosed
  BY ClosedFollows
<1> QED BY <1>1, TodoInvAlways, PTL

\* A delete tapped on a page nothing was pushed on removes no row but the one
\* that was tapped, whatever inserts and deletes are under way.
THEOREM OnlyTappedRow == TodoSpec => []DeletesTappedRow
<1>1. TodoInv => DeletesTappedRow
  BY TappedFollows
<1> QED BY <1>1, TodoInvAlways, PTL

\* When nothing is in flight, a page nothing was pushed on, whose last list was
\* not refused, shows the table.
THEOREM SettledList == TodoSpec => []SettledListIsTable
<1>1. TodoInv => SettledListIsTable
  BY SettledFollows
<1> QED BY <1>1, TodoInvAlways, PTL

\* However many lists are on their way to a page nothing was pushed on, what it
\* shows only ever loses rows.
THEOREM ListsShrink == TodoSpec => ListOnlyShrinks
<1>1. TodoInv /\ [TodoNext]_vars =>
        [\A p \in Page :
           /\ OnTopSinceBuilt(p) /\ page[p].items # None
           /\ page'[p].phase = "mounted" /\ page'[p].kind = "todo"
           => page'[p].items \subseteq page[p].items]_vars
  BY ShrinkFollows
<1> QED BY <1>1, TodoInvAlways, PTL DEF TodoSpec, ListOnlyShrinks

\* The helper keeps its promises to the screens, whose calls are made in twos
\* and threes and in continuations: its own theorems are about single requests.
THEOREM HelperKeepsPromises == TodoSpec => [](TypeOK /\ CloseIsLast /\ OpenIsAlone /\ FailsOnlyByClose)
<1>1. TodoInv => IInv
  BY DEF TodoInv, HelperInv, RInv
<1>2. IInv => TypeOK /\ CloseIsLast /\ OpenIsAlone /\ FailsOnlyByClose
  BY InvImpliesCloseIsLast, InvImpliesOpenIsAlone DEF IInv
<1> QED BY <1>1, <1>2, TodoInvAlways, PTL
=============================================================================
