--------------------------- MODULE FirestoreDBProofs ---------------------------
(***************************************************************************)
(* Proofs about the Firestore screen of Home, and from them and HomeProofs *)
(* that the variables of all the screens keep their types.                 *)
(***************************************************************************)
EXTENDS HomeProofs, FiniteSetTheorems

-----------------------------------------------------------------------------
(***************************************************************************)
(* Lists of documents in the order of their names.                         *)
(***************************************************************************)

Rising(s) == \A i, j \in DOMAIN s : i < j => s[i] < s[j]

\* Firestore counts as the library does.
LEMMA Counts == \A S : Firestore!Cardinality(S) = Cardinality(S)
BY DEF Firestore!Cardinality, Cardinality

\* A set of natural numbers that is not empty has a least element.
LEMMA LeastNatural ==
  ASSUME NEW T, T \subseteq Nat, T # {}
  PROVE  \E m \in T : \A n \in T : m <= n
<1> DEFINE Less == {ss \in Nat \X Nat : ss[1] < ss[2]}
<1>1. Less = OpToRel(<, Nat)
  BY DEF OpToRel
<1>2. IsWellFoundedOn(Less, Nat)
  BY <1>1, NatLessThanWellFounded, Zenon
<1> HIDE DEF Less
<1>3. PICK m \in T : \A y \in T : ~(<<y, m>> \in Less)
  BY <1>2, WFMin, Zenon
<1>4. ASSUME NEW n \in T PROVE m <= n
  <2>1. m \in Nat /\ n \in Nat /\ ~(<<n, m>> \in Less)
    BY <1>3
  <2>2. ~(n < m)
    BY <2>1 DEF Less
  <2> QED
    BY <2>1, <2>2
<1> QED
  BY <1>4

\* One that is bounded also has a greatest element.
LEMMA GreatestNatural ==
  ASSUME NEW b \in Nat, NEW S, S \subseteq 1 .. b, S # {}
  PROVE  \E m \in S : \A n \in S : n <= m
<1> DEFINE T == {b - y : y \in S}
<1>1. \A y \in S : y \in Nat /\ b - y \in Nat
  OBVIOUS
<1>2. T \subseteq Nat /\ T # {}
  BY <1>1
<1> HIDE DEF T
<1>3. PICK t \in T : \A u \in T : t <= u
  BY <1>2, LeastNatural
<1>4. PICK x \in S : t = b - x
  BY DEF T
<1>5. ASSUME NEW n \in S PROVE n <= x
  <2>1. b - n \in T
    BY DEF T
  <2>2. b - x <= b - n
    BY <1>3, <1>4, <2>1
  <2> QED
    BY <1>1, <2>2
<1> QED
  BY <1>5

\* A rising list has no element twice.
LEMMA RisingInjective ==
  ASSUME NEW n \in Nat, NEW S, S \subseteq Nat, NEW s \in [1 .. n -> S], Rising(s)
  PROVE  s \in Injection(1 .. n, S)
<1>1. ASSUME NEW i \in 1 .. n, NEW j \in 1 .. n, s[i] = s[j] PROVE i = j
  <2>1. s[i] \in Nat /\ s[j] \in Nat
    OBVIOUS
  <2>2. (i < j => s[i] < s[j]) /\ (j < i => s[j] < s[i])
    BY DEF Rising
  <2> QED
    BY <1>1, <2>1, <2>2
<1> QED
  BY <1>1 DEF Injection, IsInjective

\* There is only one rising list of all elements of a set.
LEMMA RisingUnique ==
  ASSUME NEW n \in Nat, NEW S, S \subseteq Nat,
         NEW s \in Surjection(1 .. n, S), NEW t \in Surjection(1 .. n, S),
         Rising(s), Rising(t)
  PROVE  s = t
<1>1. s \in [1 .. n -> S] /\ t \in [1 .. n -> S]
  BY DEF Surjection
<1> DEFINE T == {i \in 1 .. n : s[i] # t[i]}
<1>2. ASSUME T # {} PROVE FALSE
  <2>1. T \subseteq Nat
    OBVIOUS
  <2>2. PICK m \in T : \A i \in T : m <= i
    BY <1>2, <2>1, LeastNatural
  <2>3. m \in 1 .. n /\ s[m] # t[m] /\ \A i \in 1 .. n : i < m => s[i] = t[i]
    BY <2>2
  <2>4. PICK j \in 1 .. n : s[m] = t[j]
    BY <1>1, <2>3 DEF Surjection
  <2>5. PICK k \in 1 .. n : t[m] = s[k]
    BY <1>1, <2>3 DEF Surjection
  <2>6. s[m] \in Nat /\ t[m] \in Nat /\ s[k] \in Nat /\ t[j] \in Nat
    BY <1>1, <2>3
  <2>7. m < j /\ t[m] < t[j]
    <3>1. ~(j < m)
      <4>1. ASSUME j < m PROVE FALSE
        <5>1. s[j] = t[j] /\ s[j] < s[m]
          BY <1>1, <2>3, <4>1 DEF Rising
        <5> QED
          BY <2>4, <2>6, <5>1
      <4> QED
        BY <4>1
    <3>2. j # m
      BY <2>3, <2>4
    <3>3. m < j
      BY <2>3, <3>1, <3>2
    <3> QED
      BY <1>1, <2>3, <3>3 DEF Rising
  <2>8. m < k /\ s[m] < s[k]
    <3>1. ~(k < m)
      <4>1. ASSUME k < m PROVE FALSE
        <5>1. s[k] = t[k] /\ t[k] < t[m]
          BY <1>1, <2>3, <4>1 DEF Rising
        <5> QED
          BY <2>5, <2>6, <5>1
      <4> QED
        BY <4>1
    <3>2. k # m
      BY <2>3, <2>5
    <3>3. m < k
      BY <2>3, <3>1, <3>2
    <3> QED
      BY <1>1, <2>3, <3>3 DEF Rising
  <2> QED
    BY <2>4, <2>5, <2>6, <2>7, <2>8
<1> QED
  BY <1>1, <1>2

\* Every set of documents has one.
LEMMA RisingExists ==
  ASSUME NEW b \in Nat
  PROVE  \A D \in SUBSET (1 .. b) : \E s \in [1 .. Cardinality(D) -> D] : Rising(s)
<1> DEFINE Listed(D) == \E s \in [1 .. Cardinality(D) -> D] : Rising(s)
           T == {Cardinality(D) : D \in {D \in SUBSET (1 .. b) : ~Listed(D)}}
<1>1. \A D \in SUBSET (1 .. b) : IsFiniteSet(D) /\ Cardinality(D) \in Nat
  <2>1. IsFiniteSet(1 .. b)
    BY FS_Interval
  <2>2. ASSUME NEW D \in SUBSET (1 .. b) PROVE IsFiniteSet(D)
    BY <2>1, FS_Subset
  <2> QED
    BY <2>2, FS_CardinalityType
<1>2. ASSUME T # {} PROVE FALSE
  <2>1. T \subseteq Nat
    BY <1>1
  <2>2. PICK n \in T : \A i \in T : n <= i
    BY <1>2, <2>1, LeastNatural, Zenon
  <2>3. PICK D \in SUBSET (1 .. b) : n = Cardinality(D) /\ ~Listed(D)
    BY <2>2
  <2>4. \A C \in SUBSET (1 .. b) : ~Listed(C) => n <= Cardinality(C)
    BY <2>2
  <2>5. n \in Nat /\ IsFiniteSet(D)
    BY <1>1, <2>3
  <2>6. D # {}
    <3>1. ASSUME D = {} PROVE FALSE
      <4>1. n = 0
        BY <2>3, <3>1, FS_EmptySet
      <4>2. <<>> \in [1 .. 0 -> D] /\ Rising(<<>>)
        BY <3>1 DEF Rising
      <4> QED
        BY <2>3, <4>1, <4>2
    <3> QED
      BY <3>1
  <2>7. PICK m \in D : \A x \in D : x <= m
    BY <2>3, <2>6, GreatestNatural
  <2>8. Cardinality(D \ {m}) = n - 1 /\ n - 1 \in Nat
    <3>1. Cardinality(D \ {m}) = n - 1
      BY <2>3, <2>5, <2>7, FS_RemoveElement
    <3>2. n - 1 \in Nat
      BY <1>1, <2>3, <3>1
    <3> QED
      BY <3>1, <3>2
  <2>9. Listed(D \ {m})
    <3>1. D \ {m} \in SUBSET (1 .. b)
      BY <2>3
    <3>2. ~(n <= n - 1)
      BY <2>5
    <3> HIDE DEF Listed
    <3> QED
      BY <2>4, <2>8, <3>1, <3>2
  <2>10. PICK s \in [1 .. n - 1 -> D \ {m}] : Rising(s)
    BY <2>8, <2>9
  <2> DEFINE t == [i \in 1 .. n |-> IF i < n THEN s[i] ELSE m]
  <2>11. t \in [1 .. n -> D]
    <3>1. ASSUME NEW i \in 1 .. n PROVE t[i] \in D
      <4>1. i < n => i \in 1 .. n - 1
        BY <2>5
      <4> QED
        BY <2>7, <2>10, <4>1
    <3> QED
      BY <3>1
  <2>12. Rising(t)
    <3>1. ASSUME NEW i \in 1 .. n, NEW j \in 1 .. n, i < j PROVE t[i] < t[j]
      <4>1. i \in 1 .. n - 1 /\ t[i] = s[i]
        BY <2>5, <3>1
      <4>2. s[i] \in D \ {m}
        BY <2>10, <4>1
      <4>3. CASE j < n
        <5>1. j \in 1 .. n - 1 /\ t[j] = s[j]
          BY <2>5, <4>3
        <5> QED
          BY <2>10, <3>1, <4>1, <5>1 DEF Rising
      <4>4. CASE ~(j < n)
        <5>1. t[j] = m
          BY <4>4
        <5>2. s[i] <= m /\ s[i] # m
          BY <2>7, <4>2
        <5>3. s[i] \in 1 .. b /\ m \in 1 .. b
          BY <4>2
        <5> QED
          BY <4>1, <5>1, <5>2, <5>3
      <4> QED
        BY <4>3, <4>4
    <3>2. DOMAIN t = 1 .. n
      OBVIOUS
    <3> QED
      BY <3>1, <3>2 DEF Rising
  <2> HIDE DEF t
  <2> QED
    BY <2>3, <2>11, <2>12
<1> QED
  BY <1>2, Zenon

\* The rising list of a set of documents has each of them once.
LEMMA SortedLists ==
  ASSUME NEW D \in SUBSET Firestore!Doc
  PROVE  LET s == Firestore!Sorted(D) IN
           /\ s \in Seq(Firestore!Doc) /\ Rising(s)
           /\ Len(s) = Cardinality(D) /\ Firestore!ToSet(s) = D
<1> DEFINE s == Firestore!Sorted(D)
<1>1. MaxDoc \in Nat /\ Firestore!Doc = 1 .. MaxDoc
  BY HomeAssumption DEF Firestore!Doc
<1>2. IsFiniteSet(D)
  <2>1. IsFiniteSet(1 .. MaxDoc)
    BY <1>1, FS_Interval
  <2> QED
    BY <1>1, <2>1, FS_Subset
<1>3. PICK n \in Nat : n = Cardinality(D)
  BY <1>2, FS_CardinalityType
<1>4. s \in [1 .. n -> D] /\ Rising(s)
  <2>1. \E t \in [1 .. n -> D] : Rising(t)
    BY <1>1, <1>3, RisingExists, Zenon
  <2>2. Firestore!Sorted(D) = CHOOSE t \in [1 .. n -> D] : Rising(t)
    BY <1>3, Counts DEF Firestore!Sorted, Rising
  <2> HIDE DEF s
  <2>3. s = CHOOSE t \in [1 .. n -> D] : Rising(t)
    BY <2>2 DEF s
  <2> QED
    BY <2>1, <2>3
<1> HIDE DEF s
<1>5. D \subseteq Nat
  BY <1>1
<1>6. s \in Injection(1 .. n, D)
  BY <1>3, <1>4, <1>5, RisingInjective
<1>7. s \in Surjection(1 .. n, D)
  <2>1. Cardinality(1 .. n) = n
    BY FS_Interval
  <2> QED
    BY <1>2, <1>3, <1>6, <2>1, FS_Injection
<1>8. s \in Seq(Firestore!Doc)
  <2>1. s \in [1 .. n -> Firestore!Doc]
    BY <1>4
  <2> QED
    BY <2>1, SeqDef
<1>9. Len(s) = n
  BY <1>4
<1>10. Firestore!ToSet(s) = D
  BY <1>4, <1>7 DEF Firestore!ToSet, Surjection
<1> QED
  BY <1>3, <1>4, <1>8, <1>9, <1>10 DEF s

\* A rising list is the one of its documents.
LEMMA RisingIsSorted ==
  ASSUME NEW s \in Seq(Firestore!Doc), Rising(s)
  PROVE  s = Firestore!Sorted(Firestore!ToSet(s)) /\ Len(s) = Cardinality(Firestore!ToSet(s))
<1> DEFINE D == Firestore!ToSet(s)
           t == Firestore!Sorted(D)
<1>1. MaxDoc \in Nat /\ Firestore!Doc = 1 .. MaxDoc
  BY HomeAssumption DEF Firestore!Doc
<1>2. PICK n \in Nat : n = Len(s)
  OBVIOUS
<1>3. s \in [1 .. n -> Firestore!Doc] /\ DOMAIN s = 1 .. n
  BY <1>2
<1>4. D \subseteq Firestore!Doc
  BY <1>3 DEF Firestore!ToSet
<1>5. s \in Surjection(1 .. n, D)
  BY <1>3 DEF Firestore!ToSet, Surjection
<1> HIDE DEF D
<1>6. D \subseteq Nat
  BY <1>1, <1>4
<1>7. s \in [1 .. n -> D]
  BY <1>5 DEF Surjection
<1>8. s \in Injection(1 .. n, D)
  BY <1>6, <1>7, RisingInjective
<1>9. Cardinality(D) = n
  <2>1. Cardinality(1 .. n) = n /\ IsFiniteSet(1 .. n)
    BY FS_Interval
  <2> QED
    BY <1>5, <1>8, <2>1, FS_Surjection
<1>10. /\ t \in Seq(Firestore!Doc) /\ Rising(t)
       /\ Len(t) = n /\ Firestore!ToSet(t) = D
  BY <1>4, <1>9, SortedLists
<1> HIDE DEF t
<1>11. t \in Surjection(1 .. n, D)
  <2>1. t \in [1 .. n -> Firestore!Doc] /\ DOMAIN t = 1 .. n
    BY <1>10
  <2> QED
    BY <1>10, <2>1 DEF Firestore!ToSet, Surjection
<1>12. s = t
  BY <1>5, <1>6, <1>10, <1>11, RisingUnique
<1> QED
  BY <1>2, <1>9, <1>12 DEF t, D

\* Without one of its elements, a list rises still.
LEMMA RisingWithout ==
  ASSUME NEW s \in Seq(Firestore!Doc), Rising(s), NEW i \in 1 .. Len(s)
  PROVE  LET r == Firestore!RemoveAt(s, i) IN
           /\ r \in Seq(Firestore!Doc) /\ Rising(r) /\ Len(r) + 1 = Len(s)
           /\ Firestore!ToSet(r) \subseteq Firestore!ToSet(s)
<1> DEFINE r == Firestore!RemoveAt(s, i)
<1>1. PICK n \in Nat : /\ Len(s) = n + 1 /\ Len(r) = n /\ r \in Seq(Firestore!Doc)
                       /\ \A j \in 1 .. n : r[j] = IF j < i THEN s[j] ELSE s[j + 1]
  BY RemoveAtProperties, Zenon DEF Firestore!RemoveAt
<1>2. DOMAIN s = 1 .. n + 1 /\ DOMAIN r = 1 .. n
  BY <1>1, LenProperties
<1>3. i \in Nat
  BY <1>1
<1> HIDE DEF r
<1>4. ASSUME NEW j \in 1 .. n, NEW k \in 1 .. n, j < k PROVE r[j] < r[k]
  <2>1. PICK p \in 1 .. n + 1 : r[j] = s[p] /\ p = (IF j < i THEN j ELSE j + 1)
    BY <1>1
  <2>2. PICK q \in 1 .. n + 1 : r[k] = s[q] /\ q = (IF k < i THEN k ELSE k + 1)
    BY <1>1
  <2>3. p < q
    BY <1>3, <1>4, <2>1, <2>2
  <2> QED
    BY <1>2, <2>1, <2>2, <2>3 DEF Rising
<1>5. Rising(r)
  BY <1>2, <1>4 DEF Rising
<1>6. Firestore!ToSet(r) \subseteq Firestore!ToSet(s)
  <2>1. ASSUME NEW j \in 1 .. n PROVE \E p \in 1 .. n + 1 : r[j] = s[p]
    <3>1. j \in 1 .. n + 1 /\ j + 1 \in 1 .. n + 1
      OBVIOUS
    <3> QED
      BY <1>1, <3>1
  <2> QED
    BY <1>2, <2>1 DEF Firestore!ToSet
<1> QED
  BY <1>1, <1>5, <1>6 DEF r

-----------------------------------------------------------------------------
(***************************************************************************)
(* The Firestore screen, for any number of documents, listeners and        *)
(* messages under way, and any restarts.                                   *)
(*                                                                         *)
(* As long as there is no listener, one is on its way.  As soon as there   *)
(* is one, the last snapshot on its way is of what the cache holds; or     *)
(* there is none and the list is the last one, less what deletes removed.  *)
(***************************************************************************)

\* Commands that can be: a tile has a position, and what it deletes is never there.
Sent == {c \in Firestore!Command : /\ c.op = "delete" => c.doc = None /\ c.position # 0
                                   /\ c.op = "insert" => c.doc \in Firestore!Doc}
Told == {e \in Firestore!Event : e.of \in Sent}

Listens(q) == \E i \in DOMAIN q : q[i].op = "listen"

NoSnapshot(q) == \A i \in DOMAIN q : q[i].kind # "snapshot"

LastSnapshot(q, docs) ==
  \E k \in DOMAIN q : /\ q[k].kind = "snapshot" /\ q[k].docs = docs
                      /\ \A j \in DOMAIN q : j > k => q[j].kind # "snapshot"

\* The list shows these documents but as many as were removed.
Shows(items, docs, removed) ==
  items # None /\ Firestore!ToSet(items) \subseteq docs /\ Len(items) + removed = Cardinality(docs)

Follows(q, docs, items, removed) ==
  LastSnapshot(q, docs) \/ (NoSnapshot(q) /\ Shows(items, docs, removed))

Items == {items \in Seq(Firestore!Doc) : Rising(items)} \cup {None}

FirestoreInv ==
  /\ collection \subseteq Firestore!Doc /\ listeners \in Nat
  /\ writes \in Seq(Sent) /\ toNative \in Seq(Sent) /\ toDart \in Seq(Told)
  /\ list \in Items /\ built \in Seq(Firestore!Doc) /\ hidden \in Nat
  /\ listeners = 0 => Listens(toNative)
  /\ listeners # 0 => Follows(toDart, collection, list, hidden)

\* No list is null.
LEMMA NullIsNoList == None \notin Seq(Firestore!Doc) /\ None \notin Firestore!Doc
BY HomeAssumption DEF Firestore!Doc

\* What the handlers send and are sent.
LEMMA MessageTypes ==
  /\ Firestore!Listen \in Sent /\ Firestore!Listen.op = "listen"
  /\ \A d \in Firestore!Doc : Firestore!Insert(d) \in Sent
  /\ \A i \in Firestore!Doc : \A d : Firestore!Delete(Firestore!Reference(d), i) \in Sent
  /\ \A docs \in SUBSET Firestore!Doc :
       LET e == Firestore!Snapshot(docs) IN
         e \in Told /\ e.kind = "snapshot" /\ e.docs = docs
  /\ \A c \in Sent : Firestore!Done(c) \in Told /\ Firestore!Done(c).kind # "snapshot"
<1>1. MaxDoc \in Nat /\ Firestore!Doc = 1 .. MaxDoc
  BY HomeAssumption DEF Firestore!Doc
<1>2. 0 \in 0 .. MaxDoc /\ \A i \in 1 .. MaxDoc : i \in 0 .. MaxDoc /\ i # 0
  BY <1>1
<1>3. Firestore!Listen \in Sent /\ Firestore!Listen.op = "listen"
  BY <1>2 DEF Firestore!Listen, Sent, Firestore!Command
<1>4. \A d \in Firestore!Doc : Firestore!Insert(d) \in Sent
  BY <1>2 DEF Firestore!Listen, Firestore!Insert, Sent, Firestore!Command
<1>5. \A i \in Firestore!Doc : \A d : Firestore!Delete(Firestore!Reference(d), i) \in Sent
  BY <1>1, <1>2 DEF Firestore!Delete, Firestore!Reference, Sent, Firestore!Command
<1>6. \A docs \in SUBSET Firestore!Doc :
        LET e == Firestore!Snapshot(docs) IN
          e \in Told /\ e.kind = "snapshot" /\ e.docs = docs
  BY <1>3 DEF Firestore!Snapshot, Told, Firestore!Event, Sent
<1>7. \A c \in Sent : Firestore!Done(c) \in Told /\ Firestore!Done(c).kind # "snapshot"
  BY DEF Firestore!Done, Told, Firestore!Event, Sent
<1> QED
  BY <1>3, <1>4, <1>5, <1>6, <1>7

\* An answer at the end of the messages is no snapshot.
LEMMA DoneFollows ==
  ASSUME NEW q \in Seq(Told), NEW e \in Told, e.kind # "snapshot",
         NEW docs, NEW items, NEW removed, Follows(q, docs, items, removed)
  PROVE  Follows(Append(q, e), docs, items, removed)
<1> DEFINE r == Append(q, e)
<1>1. PICK n \in Nat : n = Len(q) /\ DOMAIN q = 1 .. n
  BY LenProperties
<1>2. /\ r \in Seq(Told) /\ Len(r) = n + 1
      /\ \A i \in 1 .. n : r[i] = q[i]
      /\ r[n + 1] = e
  BY <1>1, AppendProperties
<1>3. DOMAIN r = 1 .. n + 1
  BY <1>2, LenProperties
<1> HIDE DEF r
<1>4. \A i \in 1 .. n + 1 : i \in 1 .. n \/ i = n + 1
  OBVIOUS
<1>5. CASE LastSnapshot(q, docs)
  <2>1. PICK k \in 1 .. n : /\ q[k].kind = "snapshot" /\ q[k].docs = docs
                            /\ \A j \in 1 .. n : j > k => q[j].kind # "snapshot"
    BY <1>1, <1>5 DEF LastSnapshot
  <2>2. k \in 1 .. n + 1 /\ r[k].kind = "snapshot" /\ r[k].docs = docs
    BY <1>2, <2>1
  <2>3. \A j \in 1 .. n + 1 : j > k => r[j].kind # "snapshot"
    BY <1>2, <1>4, <2>1
  <2> QED
    BY <1>3, <2>2, <2>3 DEF LastSnapshot, Follows, r
<1>6. CASE NoSnapshot(q) /\ Shows(items, docs, removed)
  <2>1. \A j \in 1 .. n + 1 : r[j].kind # "snapshot"
    BY <1>1, <1>2, <1>4, <1>6 DEF NoSnapshot
  <2> QED
    BY <1>3, <1>6, <2>1 DEF NoSnapshot, Follows, r
<1> QED
  BY <1>5, <1>6 DEF Follows

\* A snapshot at the end is the last.
LEMMA SnapshotFollows ==
  ASSUME NEW q \in Seq(Told), NEW docs \in SUBSET Firestore!Doc, NEW items, NEW removed
  PROVE  /\ Append(q, Firestore!Snapshot(docs)) \in Seq(Told)
         /\ Follows(Append(q, Firestore!Snapshot(docs)), docs, items, removed)
<1> DEFINE e == Firestore!Snapshot(docs)
           r == Append(q, e)
<1>1. PICK n \in Nat : n = Len(q) /\ DOMAIN q = 1 .. n
  BY LenProperties
<1>2. e \in Told /\ e.kind = "snapshot" /\ e.docs = docs
  BY MessageTypes
<1> HIDE DEF e
<1>3. r \in Seq(Told) /\ Len(r) = n + 1 /\ r[n + 1] = e
  BY <1>1, <1>2, AppendProperties
<1>4. DOMAIN r = 1 .. n + 1
  BY <1>3, LenProperties
<1> HIDE DEF r
<1>5. n + 1 \in 1 .. n + 1 /\ \A j \in 1 .. n + 1 : ~(j > n + 1)
  OBVIOUS
<1>6. LastSnapshot(r, docs)
  BY <1>2, <1>3, <1>4, <1>5 DEF LastSnapshot
<1> QED
  BY <1>3, <1>6 DEF Follows, r, e

\* So it is when every listener is told.
LEMMA ChangeFollows ==
  ASSUME NEW q \in Seq(Told), listeners \in Nat, NEW docs \in SUBSET Firestore!Doc
  PROVE  /\ q \o Firestore!Notify(docs) \in Seq(Told)
         /\ listeners # 0 =>
              \A items, removed : Follows(q \o Firestore!Notify(docs), docs, items, removed)
<1> DEFINE e == Firestore!Snapshot(docs)
           m == Firestore!Notify(docs)
           r == q \o m
<1>1. PICK n \in Nat : n = Len(q) /\ DOMAIN q = 1 .. n
  BY LenProperties
<1>2. e \in Told /\ e.kind = "snapshot" /\ e.docs = docs
  BY MessageTypes
<1>3. m \in Seq(Told) /\ Len(m) = listeners /\ \A i \in 1 .. listeners : m[i] = e
  <2>1. m = [i \in 1 .. listeners |-> e]
    BY DEF Firestore!Notify
  <2> HIDE DEF m, e
  <2>2. m \in [1 .. listeners -> Told] /\ \A i \in 1 .. listeners : m[i] = e
    BY <1>2, <2>1
  <2>3. m \in Seq(Told)
    BY <2>2, SeqDef
  <2> QED
    BY <2>2, <2>3
<1> HIDE DEF m, e
<1>4. /\ r \in Seq(Told) /\ Len(r) = n + listeners
      /\ \A i \in 1 .. n + listeners : r[i] = IF i <= n THEN q[i] ELSE m[i - n]
  BY <1>1, <1>3, ConcatProperties
<1>5. DOMAIN r = 1 .. n + listeners
  BY <1>4, LenProperties
<1> HIDE DEF r
<1>6. CASE listeners # 0
  <2>1. /\ n + listeners \in 1 .. n + listeners /\ ~(n + listeners <= n)
        /\ n + listeners - n \in 1 .. listeners
        /\ \A j \in 1 .. n + listeners : ~(j > n + listeners)
    BY <1>6
  <2>2. r[n + listeners] = e
    BY <1>3, <1>4, <2>1
  <2>3. LastSnapshot(r, docs)
    BY <1>2, <1>5, <2>1, <2>2 DEF LastSnapshot
  <2> QED
    BY <1>4, <2>3 DEF Follows, r, m
<1>7. CASE listeners = 0
  BY <1>4, <1>7 DEF r, m
<1> QED
  BY <1>6, <1>7

\* The last snapshot stays the last until it arrives.
LEMMA TailFollows ==
  ASSUME NEW q \in Seq(Told), q # <<>>, NEW docs, LastSnapshot(q, docs)
  PROVE  \/ LastSnapshot(Tail(q), docs)
         \/ Head(q).kind = "snapshot" /\ Head(q).docs = docs /\ NoSnapshot(Tail(q))
<1>1. PICK n \in Nat : /\ DOMAIN q = 1 .. n + 1 /\ DOMAIN Tail(q) = 1 .. n
                       /\ \A i \in 1 .. n : Tail(q)[i] = q[i + 1]
  BY TailMessages, Zenon
<1>2. Head(q) = q[1]
  BY TailMessages
<1>3. PICK k \in 1 .. n + 1 : /\ q[k].kind = "snapshot" /\ q[k].docs = docs
                              /\ \A j \in 1 .. n + 1 : j > k => q[j].kind # "snapshot"
  BY <1>1 DEF LastSnapshot
<1>4. \A j \in 1 .. n : j + 1 \in 1 .. n + 1
  OBVIOUS
<1>5. CASE k = 1
  <2>1. \A j \in 1 .. n : j + 1 > k
    BY <1>5
  <2>2. \A j \in 1 .. n : Tail(q)[j].kind # "snapshot"
    BY <1>1, <1>3, <1>4, <2>1
  <2> QED
    BY <1>1, <1>2, <1>3, <1>5, <2>2 DEF NoSnapshot
<1>6. CASE k # 1
  <2>1. k - 1 \in 1 .. n /\ k - 1 + 1 = k
    BY <1>6
  <2>2. Tail(q)[k - 1] = q[k]
    BY <1>1, <2>1
  <2>3. ASSUME NEW j \in 1 .. n, j > k - 1 PROVE Tail(q)[j].kind # "snapshot"
    <3>1. j + 1 > k
      BY <2>3
    <3> QED
      BY <1>1, <1>3, <1>4, <3>1
  <2> QED
    BY <1>1, <1>3, <2>1, <2>2, <2>3 DEF LastSnapshot
<1> QED
  BY <1>5, <1>6

\* Without a snapshot there is none after the first message.
LEMMA TailNoSnapshot ==
  ASSUME NEW q \in Seq(Told), q # <<>>, NoSnapshot(q)
  PROVE  NoSnapshot(Tail(q)) /\ Head(q).kind # "snapshot"
<1>1. PICK n \in Nat : /\ DOMAIN q = 1 .. n + 1 /\ DOMAIN Tail(q) = 1 .. n
                       /\ \A i \in 1 .. n : Tail(q)[i] = q[i + 1]
  BY TailMessages, Zenon
<1>2. Head(q) = q[1]
  BY TailMessages
<1>3. 1 \in 1 .. n + 1 /\ \A j \in 1 .. n : j + 1 \in 1 .. n + 1
  OBVIOUS
<1> QED
  BY <1>1, <1>2, <1>3 DEF NoSnapshot

\* Sets of documents can be counted.
LEMMA DocumentsFinite ==
  \A D \in SUBSET Firestore!Doc : IsFiniteSet(D) /\ Cardinality(D) \in Nat
<1>1. MaxDoc \in Nat /\ Firestore!Doc = 1 .. MaxDoc
  BY HomeAssumption DEF Firestore!Doc
<1>2. IsFiniteSet(1 .. MaxDoc)
  BY <1>1, FS_Interval
<1>3. ASSUME NEW D \in SUBSET (1 .. MaxDoc) PROVE IsFiniteSet(D)
  BY <1>2, FS_Subset
<1> QED
  BY <1>1, <1>3, FS_CardinalityType

\* At the start the cache may hold documents, and one listener is on its way.
LEMMA FirestoreInit == ASSUME Init PROVE FirestoreInv
<1>1. /\ collection \subseteq Firestore!Doc /\ writes = <<>> /\ listeners = 0
      /\ toNative = <<Firestore!Listen>> /\ toDart = <<>>
      /\ list = None /\ built = <<>> /\ hidden = 0
  BY DEF Init, Firestore!Init, Firestore!initState
<1>2. Firestore!Listen \in Sent /\ Firestore!Listen.op = "listen"
  BY MessageTypes
<1>3. toNative \in Seq(Sent) /\ Listens(toNative)
  <2>1. <<Firestore!Listen>> \in Seq(Sent) /\ DOMAIN <<Firestore!Listen>> = 1 .. 1
        /\ <<Firestore!Listen>>[1] = Firestore!Listen
    BY <1>2
  <2> QED
    BY <1>1, <1>2, <2>1 DEF Listens
<1>4. writes \in Seq(Sent) /\ toDart \in Seq(Told) /\ built \in Seq(Firestore!Doc)
  BY <1>1, EmptySeq
<1> QED
  BY <1>1, <1>3, <1>4 DEF FirestoreInv, Items

\* A tap sends a command.
LEMMA TapInv ==
  ASSUME FirestoreInv, NEW c \in Sent, toNative' = Append(toNative, c),
         UNCHANGED <<collection, listeners, writes, toDart, list, built, hidden>>
  PROVE  FirestoreInv'
<1>1. toNative \in Seq(Sent)
  BY DEF FirestoreInv
<1>2. toNative' \in Seq(Sent)
  BY <1>1, AppendProperties
<1>3. Listens(toNative) => Listens(toNative)'
  <2>1. PICK n \in Nat : n = Len(toNative) /\ DOMAIN toNative = 1 .. n
    BY <1>1, LenProperties
  <2>2. Len(toNative') = n + 1 /\ \A i \in 1 .. n : toNative'[i] = toNative[i]
    BY <1>1, <2>1, AppendProperties
  <2>3. DOMAIN toNative' = 1 .. n + 1
    BY <1>2, <2>2, LenProperties
  <2>4. \A i \in 1 .. n : i \in 1 .. n + 1
    OBVIOUS
  <2> QED
    BY <2>1, <2>2, <2>3, <2>4 DEF Listens
<1> QED
  BY <1>2, <1>3 DEF FirestoreInv, Follows, LastSnapshot, NoSnapshot, Shows

\* What is under way from the plugin matters only once there is a listener.
LEMMA CacheInv ==
  ASSUME FirestoreInv, collection' \subseteq Firestore!Doc, writes' \in Seq(Sent),
         toDart' \in Seq(Told),
         UNCHANGED <<listeners, toNative, built>>, list' \in Items, hidden' \in Nat,
         listeners # 0 => Follows(toDart, collection, list, hidden)'
  PROVE  FirestoreInv'
BY DEF FirestoreInv, Listens

\* A snapshot is the list, or another one follows.
LEMMA SnapshotArrivesInv == ASSUME FirestoreInv, Firestore!SnapshotArrives PROVE FirestoreInv'
<1>1. toDart # <<>> /\ toDart \in Seq(Told) /\ collection \subseteq Firestore!Doc
  BY DEF Firestore!SnapshotArrives, FirestoreInv
<1>2. /\ Head(toDart).kind = "snapshot" /\ toDart' = Tail(toDart) /\ hidden' = 0
      /\ list' = Firestore!Sorted(Head(toDart).docs)
      /\ UNCHANGED <<collection, listeners, writes, toNative, built>>
  BY DEF Firestore!SnapshotArrives, Firestore!SetItems, Firestore!remote
<1>3. Head(toDart) \in Told /\ Tail(toDart) \in Seq(Told)
  BY <1>1, TailMessages
<1>4. Head(toDart).docs \subseteq Firestore!Doc
  BY <1>3 DEF Told, Firestore!Event
<1>5. /\ list' \in Seq(Firestore!Doc) /\ Rising(list')
      /\ Len(list') = Cardinality(Head(toDart).docs)
      /\ Firestore!ToSet(list') = Head(toDart).docs
  BY <1>2, <1>4, SortedLists
<1>6. ASSUME listeners # 0 PROVE Follows(toDart, collection, list, hidden)'
  <2>1. LastSnapshot(toDart, collection)
    BY <1>1, <1>2, <1>6, TailNoSnapshot DEF FirestoreInv, Follows
  <2>2. CASE LastSnapshot(Tail(toDart), collection)
    BY <1>2, <2>2 DEF Follows, LastSnapshot
  <2>3. CASE Head(toDart).docs = collection /\ NoSnapshot(Tail(toDart))
    <3>1. Cardinality(collection) \in Nat
      BY <1>1, DocumentsFinite
    <3>2. list' # None
      BY <1>5, NullIsNoList
    <3>3. Len(list') + hidden' = Cardinality(collection)
      BY <1>2, <1>5, <2>3, <3>1
    <3>4. Shows(list', collection', hidden')
      BY <1>2, <1>5, <2>3, <3>2, <3>3 DEF Shows
    <3> QED
      BY <1>2, <2>3, <3>4 DEF Follows, NoSnapshot, Shows
  <2> QED
    BY <1>1, <2>1, <2>2, <2>3, TailFollows
<1>7. list' \in Items /\ hidden' \in Nat /\ toDart' \in Seq(Told)
  BY <1>2, <1>3, <1>5 DEF Items
<1> QED
  BY <1>2, <1>6, <1>7, CacheInv DEF FirestoreInv

\* An insert has completed: one more listener.
LEMMA InsertFinishedInv == ASSUME FirestoreInv, Firestore!InsertFinished PROVE FirestoreInv'
<1>1. toDart # <<>> /\ toDart \in Seq(Told) /\ Head(toDart).kind = "done"
  BY DEF Firestore!InsertFinished, Firestore!Finished, FirestoreInv
<1>2. /\ toDart' = Tail(toDart) /\ toNative' = Append(toNative, Firestore!Listen)
      /\ UNCHANGED <<collection, listeners, writes, list, built, hidden>>
  BY DEF Firestore!InsertFinished, Firestore!FetchValues, Firestore!remote, Firestore!screen
<1>3. Tail(toDart) \in Seq(Told)
  BY <1>1, TailMessages
<1>4. toNative' \in Seq(Sent) /\ Listens(toNative)'
  <2>1. toNative \in Seq(Sent) /\ Firestore!Listen \in Sent /\ Firestore!Listen.op = "listen"
    BY MessageTypes DEF FirestoreInv
  <2>2. PICK n \in Nat : n = Len(toNative)
    BY <2>1, LenProperties
  <2>3. toNative' \in Seq(Sent) /\ Len(toNative') = n + 1 /\ toNative'[n + 1] = Firestore!Listen
    BY <1>2, <2>1, <2>2, AppendProperties
  <2>4. DOMAIN toNative' = 1 .. n + 1 /\ n + 1 \in 1 .. n + 1
    BY <2>3, LenProperties
  <2> QED
    BY <2>1, <2>3, <2>4 DEF Listens
<1>5. ASSUME listeners # 0 PROVE Follows(toDart, collection, list, hidden)'
  <2>1. CASE LastSnapshot(toDart, collection)
    <3>1. LastSnapshot(Tail(toDart), collection)
      BY <1>1, <2>1, TailFollows
    <3> QED
      BY <1>2, <3>1 DEF Follows, LastSnapshot
  <2>2. CASE NoSnapshot(toDart) /\ Shows(list, collection, hidden)
    <3>1. NoSnapshot(Tail(toDart))
      BY <1>1, <2>2, TailNoSnapshot
    <3> QED
      BY <1>2, <2>2, <3>1 DEF Follows, NoSnapshot, Shows
  <2> QED
    BY <1>5, <2>1, <2>2 DEF FirestoreInv, Follows
<1> QED
  BY <1>2, <1>3, <1>4, <1>5 DEF FirestoreInv

\* A delete has completed: a tile goes, or the list is too short.
LEMMA DeleteFinishedInv == ASSUME FirestoreInv, Firestore!DeleteFinished PROVE FirestoreInv'
<1> DEFINE position == Head(toDart).of.position
<1>1. /\ toDart # <<>> /\ toDart \in Seq(Told) /\ list \in Items /\ hidden \in Nat
      /\ Head(toDart).kind = "done" /\ Head(toDart).of.op = "delete"
  BY DEF Firestore!DeleteFinished, Firestore!Finished, FirestoreInv
<1>2. /\ toDart' = Tail(toDart)
      /\ UNCHANGED <<collection, listeners, writes, built, toNative>>
      /\ \/ /\ position <= Len(Firestore!Shown)
            /\ list' = Firestore!RemoveAt(list, position)
            /\ hidden' = hidden + 1
         \/ UNCHANGED <<list, hidden>>
  BY DEF Firestore!DeleteFinished, Firestore!AfterDelete, Firestore!remote
<1>3. Head(toDart) \in Told /\ Tail(toDart) \in Seq(Told)
  BY <1>1, TailMessages
<1>4. position \in Nat \ {0}
  <2>1. Head(toDart).of \in Sent
    BY <1>3 DEF Told
  <2>2. position \in 0 .. MaxDoc /\ position # 0
    BY <1>1, <2>1 DEF Sent, Firestore!Command
  <2> QED
    BY <2>2
<1> HIDE DEF position
<1>5. \/ /\ list # None /\ list' \in Items /\ list' # None /\ hidden' = hidden + 1
         /\ Len(list') + 1 = Len(list) /\ Firestore!ToSet(list') \subseteq Firestore!ToSet(list)
         /\ Len(list') \in Nat
      \/ UNCHANGED <<list, hidden>>
  <2>1. CASE /\ position <= Len(Firestore!Shown)
             /\ list' = Firestore!RemoveAt(list, position)
             /\ hidden' = hidden + 1
    <3>1. list # None
      <4>1. ASSUME list = None PROVE FALSE
        <5>1. Len(Firestore!Shown) = 0
          BY <4>1 DEF Firestore!Shown
        <5> QED
          BY <1>4, <2>1, <5>1
      <4> QED
        BY <4>1
    <3>2. list \in Seq(Firestore!Doc) /\ Rising(list) /\ Firestore!Shown = list
      BY <1>1, <3>1 DEF Items, Firestore!Shown
    <3>3. Len(list) \in Nat
      BY <3>2, LenProperties
    <3>4. position \in 1 .. Len(list)
      BY <1>4, <2>1, <3>2, <3>3
    <3>5. /\ list' \in Seq(Firestore!Doc) /\ Rising(list') /\ Len(list') + 1 = Len(list)
          /\ Firestore!ToSet(list') \subseteq Firestore!ToSet(list)
      BY <2>1, <3>2, <3>4, RisingWithout
    <3>6. Len(list') \in Nat
      BY <3>5, LenProperties
    <3>7. list' # None /\ list' \in Items
      BY <3>5, NullIsNoList DEF Items
    <3> QED
      BY <2>1, <3>1, <3>5, <3>6, <3>7
  <2> QED
    BY <1>2, <2>1
<1>6. list' \in Items /\ hidden' \in Nat
  BY <1>1, <1>5
<1>7. ASSUME listeners # 0 PROVE Follows(toDart, collection, list, hidden)'
  <2>1. CASE LastSnapshot(toDart, collection)
    <3>1. LastSnapshot(Tail(toDart), collection)
      BY <1>1, <2>1, TailFollows
    <3> QED
      BY <1>2, <3>1 DEF Follows, LastSnapshot
  <2>2. CASE NoSnapshot(toDart) /\ Shows(list, collection, hidden)
    <3>1. NoSnapshot(Tail(toDart))
      BY <1>1, <2>2, TailNoSnapshot
    <3>2. Shows(list', collection, hidden')
      <4>1. CASE UNCHANGED <<list, hidden>>
        BY <2>2, <4>1 DEF Shows
      <4>2. CASE ~UNCHANGED <<list, hidden>>
        <5>1. /\ hidden' = hidden + 1 /\ Len(list') + 1 = Len(list)
              /\ Len(list') \in Nat /\ hidden \in Nat
          BY <1>1, <1>5, <4>2
        <5>2. Len(list') + hidden' = Len(list) + hidden
          BY <5>1
        <5> QED
          BY <1>5, <2>2, <4>2, <5>2 DEF Shows
      <4> QED
        BY <4>1, <4>2
    <3> QED
      BY <1>2, <3>1, <3>2 DEF Follows, NoSnapshot, Shows
  <2> QED
    BY <1>7, <2>1, <2>2 DEF FirestoreInv, Follows
<1> QED
  BY <1>2, <1>3, <1>6, <1>7, CacheInv DEF FirestoreInv

\* The tiles are built from the list.
LEMMA FrameInv == ASSUME FirestoreInv, Firestore!Frame PROVE FirestoreInv'
<1>1. /\ built' = Firestore!Shown
      /\ UNCHANGED <<collection, listeners, writes, toNative, toDart, list, hidden>>
  BY DEF Firestore!Frame, Firestore!remote
<1>2. built' \in Seq(Firestore!Doc)
  BY <1>1, EmptySeq DEF FirestoreInv, Items, Firestore!Shown
<1> QED
  BY <1>1, <1>2 DEF FirestoreInv, Listens, Follows, LastSnapshot, NoSnapshot, Shows

\* The plugin takes the next command.
LEMMA NativeInvF == ASSUME FirestoreInv, Firestore!Native PROVE FirestoreInv'
<1> DEFINE c == Head(toNative)
<1>1. /\ toNative # <<>> /\ toNative \in Seq(Sent) /\ collection \subseteq Firestore!Doc
      /\ toDart \in Seq(Told) /\ listeners \in Nat /\ writes \in Seq(Sent)
  BY DEF Firestore!Native, FirestoreInv
<1>2. toNative' = Tail(toNative) /\ UNCHANGED <<list, built, hidden>>
  BY DEF Firestore!Native, Firestore!screen
<1>3. c \in Sent /\ Tail(toNative) \in Seq(Sent)
  BY <1>1, TailMessages
<1>4. Listens(toNative) => c.op = "listen" \/ Listens(Tail(toNative))
  <2>1. PICK n \in Nat : /\ DOMAIN toNative = 1 .. n + 1 /\ DOMAIN Tail(toNative) = 1 .. n
                         /\ \A i \in 1 .. n : Tail(toNative)[i] = toNative[i + 1]
    BY <1>1, TailMessages, Zenon
  <2>2. Head(toNative) = toNative[1]
    BY <1>1, TailMessages
  <2>3. ASSUME NEW i \in 1 .. n + 1, toNative[i].op = "listen", i # 1
        PROVE  Listens(Tail(toNative))
    <3>1. i - 1 \in 1 .. n /\ i - 1 + 1 = i
      BY <2>3
    <3>2. Tail(toNative)[i - 1] = toNative[i]
      BY <2>1, <3>1
    <3> QED
      BY <2>1, <2>3, <3>1, <3>2 DEF Listens
  <2> QED
    BY <2>1, <2>2, <2>3 DEF Listens
<1>5. CASE c.op = "listen"
  <2>1. /\ listeners' = listeners + 1 /\ UNCHANGED <<collection, writes>>
        /\ toDart' = Append(toDart, Firestore!Snapshot(collection))
    BY <1>5 DEF Firestore!Native
  <2>2. toDart' \in Seq(Told) /\ Follows(toDart', collection, list, hidden)
    BY <1>1, <2>1, SnapshotFollows
  <2>3. listeners' \in Nat /\ listeners' # 0
    BY <1>1, <2>1
  <2>4. Follows(toDart, collection, list, hidden)'
    BY <1>2, <2>1, <2>2 DEF Follows, LastSnapshot, NoSnapshot, Shows
  <2> QED
    BY <1>2, <1>3, <2>1, <2>2, <2>3, <2>4 DEF FirestoreInv
<1>6. CASE c.op # "listen"
  <2>1. UNCHANGED listeners /\ writes' = Append(writes, c)
    BY <1>6 DEF Firestore!Native
  <2>2. \/ /\ toDart' = toDart \o Firestore!Notify(collection')
           /\ collection' \in {collection \cup {c.doc}, collection \ {c.doc}}
           /\ c.op = "insert" \/ c.doc \in collection
        \/ UNCHANGED <<collection, toDart>>
    BY <1>6 DEF Firestore!Native, Firestore!Change
  <2>3. collection' \subseteq Firestore!Doc
    <3>1. c.op = "insert" => c.doc \in Firestore!Doc
      BY <1>3 DEF Sent
    <3> HIDE DEF c
    <3> QED
      BY <1>1, <2>2, <3>1
  <2>4. toDart' \in Seq(Told)
    BY <1>1, <2>2, <2>3, ChangeFollows
  <2>5. ASSUME listeners' # 0 PROVE Follows(toDart, collection, list, hidden)'
    <3>1. CASE toDart' = toDart \o Firestore!Notify(collection')
      <4>1. Follows(toDart', collection', list', hidden')
        BY <1>1, <2>1, <2>3, <2>5, <3>1, ChangeFollows
      <4> QED
        BY <4>1 DEF Follows, LastSnapshot, NoSnapshot, Shows
    <3>2. CASE UNCHANGED <<collection, toDart>>
      BY <1>2, <2>1, <2>5, <3>2 DEF FirestoreInv, Follows, LastSnapshot, NoSnapshot, Shows
    <3> QED
      BY <2>2, <3>1, <3>2
  <2>6. writes' \in Seq(Sent)
    BY <1>1, <1>3, <2>1, AppendProperties
  <2>7. listeners' = 0 => Listens(toNative)'
    BY <1>2, <1>4, <1>6, <2>1 DEF FirestoreInv, Listens
  <2> QED
    BY <1>2, <1>3, <2>1, <2>3, <2>4, <2>5, <2>6, <2>7 DEF FirestoreInv
<1> QED
  BY <1>5, <1>6

\* The server has a write.
LEMMA AcknowledgeInv == ASSUME FirestoreInv, Firestore!Acknowledge PROVE FirestoreInv'
<1>1. /\ writes # <<>> /\ writes \in Seq(Sent) /\ toDart \in Seq(Told)
      /\ writes' = Tail(writes)
      /\ UNCHANGED <<collection, listeners, toNative, list, built, hidden>>
      /\ toDart' \in {toDart, Append(toDart, Firestore!Done(Head(writes)))}
  BY DEF Firestore!Acknowledge, FirestoreInv, Firestore!screen
<1>2. Head(writes) \in Sent /\ Tail(writes) \in Seq(Sent)
  BY <1>1, TailMessages
<1>3. /\ Firestore!Done(Head(writes)) \in Told
      /\ Firestore!Done(Head(writes)).kind # "snapshot"
  BY <1>2, MessageTypes
<1>4. toDart' \in Seq(Told)
  <2>1. Append(toDart, Firestore!Done(Head(writes))) \in Seq(Told)
    BY <1>1, <1>3, AppendProperties
  <2> QED
    BY <1>1, <2>1
<1>5. ASSUME listeners # 0 PROVE Follows(toDart, collection, list, hidden)'
  <2>1. Follows(toDart, collection, list, hidden)
    BY <1>5 DEF FirestoreInv
  <2>2. Follows(toDart', collection, list, hidden)
    BY <1>1, <1>3, <2>1, DoneFollows
  <2> QED
    BY <1>1, <2>2 DEF Follows, LastSnapshot, NoSnapshot, Shows
<1> QED
  BY <1>1, <1>2, <1>4, <1>5, CacheInv DEF FirestoreInv

\* The cache changes, and every listener is told; or nothing happens.
LEMMA ChangeInv ==
  ASSUME FirestoreInv, NEW docs \in SUBSET Firestore!Doc,
         Firestore!Change(docs) \/ UNCHANGED <<collection, toDart>>,
         writes' \in Seq(Sent), UNCHANGED <<listeners, toNative, list, built, hidden>>
  PROVE  FirestoreInv'
<1>1. /\ toDart \in Seq(Told) /\ listeners \in Nat /\ collection \subseteq Firestore!Doc
      /\ list \in Items /\ hidden \in Nat
  BY DEF FirestoreInv
<1>2. CASE Firestore!Change(docs)
  <2>1. collection' = docs /\ toDart' = toDart \o Firestore!Notify(docs)
    BY <1>2 DEF Firestore!Change
  <2>2. toDart' \in Seq(Told) /\ (listeners # 0 => Follows(toDart', docs, list, hidden))
    BY <1>1, <2>1, ChangeFollows
  <2>3. listeners # 0 => Follows(toDart, collection, list, hidden)'
    BY <2>1, <2>2 DEF Follows, LastSnapshot, NoSnapshot, Shows
  <2>4. collection' \subseteq Firestore!Doc
    BY <2>1
  <2> QED
    BY <1>1, <2>2, <2>3, <2>4, CacheInv
<1>3. CASE UNCHANGED <<collection, toDart>>
  <2>1. listeners # 0 => Follows(toDart, collection, list, hidden)'
    BY <1>3 DEF FirestoreInv, Follows, LastSnapshot, NoSnapshot, Shows
  <2> QED
    BY <1>1, <1>3, <2>1, CacheInv
<1> QED
  BY <1>2, <1>3

\* The server refuses a write.
LEMMA RefuseInv == ASSUME FirestoreInv, Firestore!Refuse PROVE FirestoreInv'
<1> DEFINE docs == collection \ {Head(writes).doc}
<1>1. writes # <<>> /\ writes \in Seq(Sent) /\ collection \subseteq Firestore!Doc
  BY DEF Firestore!Refuse, FirestoreInv
<1>2. /\ writes' = Tail(writes) /\ UNCHANGED <<listeners, toNative, list, built, hidden>>
      /\ Firestore!Change(docs) \/ UNCHANGED <<collection, toDart>>
  BY DEF Firestore!Refuse, Firestore!screen
<1>3. docs \in SUBSET Firestore!Doc
  BY <1>1
<1> HIDE DEF docs
<1>4. writes' \in Seq(Sent)
  BY <1>1, <1>2, TailMessages
<1> QED
  BY <1>2, <1>3, <1>4, ChangeInv

\* Another device writes.
LEMMA OtherDeviceInv == ASSUME FirestoreInv, Firestore!OtherDevice PROVE FirestoreInv'
<1>1. collection \subseteq Firestore!Doc /\ writes \in Seq(Sent)
  BY DEF FirestoreInv
<1>2. UNCHANGED <<listeners, writes, toNative, list, built, hidden>>
  BY DEF Firestore!OtherDevice, Firestore!screen
<1>3. PICK d \in Firestore!Doc :
        Firestore!Change(collection \cup {d}) \/ Firestore!Change(collection \ {d})
  BY <1>1 DEF Firestore!OtherDevice
<1>4. collection \cup {d} \in SUBSET Firestore!Doc /\ collection \ {d} \in SUBSET Firestore!Doc
  BY <1>1
<1>5. writes' \in Seq(Sent)
  BY <1>1, <1>2
<1>6. CASE Firestore!Change(collection \cup {d})
  BY <1>2, <1>4, <1>5, <1>6, ChangeInv
<1>7. CASE Firestore!Change(collection \ {d})
  BY <1>2, <1>4, <1>5, <1>7, ChangeInv
<1> QED
  BY <1>3, <1>6, <1>7

\* The app starts again.
LEMMA RestartInv == ASSUME FirestoreInv, Firestore!Restart PROVE FirestoreInv'
<1>1. writes \in Seq(Sent) /\ collection \subseteq Firestore!Doc
  BY DEF FirestoreInv
<1>2. /\ writes' = [i \in 1 .. Len(writes) |-> [writes[i] EXCEPT !.heard = FALSE]]
      /\ listeners' = 0 /\ toNative' = <<Firestore!Listen>> /\ toDart' = <<>>
      /\ list' = None /\ built' = <<>> /\ hidden' = 0 /\ UNCHANGED collection
  BY DEF Firestore!Restart, Firestore!initState
<1>3. writes' \in Seq(Sent)
  <2>1. PICK n \in Nat : n = Len(writes) /\ \A i \in 1 .. n : writes[i] \in Sent
    BY <1>1, LenProperties, ElementOfSeq
  <2>2. \A c \in Sent : [c EXCEPT !.heard = FALSE] \in Sent
    BY DEF Sent, Firestore!Command
  <2>3. writes' \in [1 .. n -> Sent]
    BY <1>2, <2>1, <2>2
  <2> QED
    BY <2>3, SeqDef
<1>4. toNative' \in Seq(Sent) /\ Listens(toNative)'
  <2>1. Firestore!Listen \in Sent /\ Firestore!Listen.op = "listen"
    BY MessageTypes
  <2>2. <<Firestore!Listen>> \in Seq(Sent) /\ DOMAIN <<Firestore!Listen>> = 1 .. 1
        /\ <<Firestore!Listen>>[1] = Firestore!Listen
    BY <2>1
  <2> QED
    BY <1>2, <2>1, <2>2 DEF Listens
<1>5. toDart' \in Seq(Told) /\ built' \in Seq(Firestore!Doc)
  BY <1>2, EmptySeq
<1> QED
  BY <1>1, <1>2, <1>3, <1>4, <1>5 DEF FirestoreInv, Items

\* The home screen is the only one that takes steps.
LEMMA FirestoreOrOther == ASSUME [Next]_vars PROVE Firestore!Next \/ UNCHANGED firestore_
BY DEF Next, Step, OthersKept, vars

\* Each of its steps keeps the invariant.
LEMMA FirestoreStep == ASSUME FirestoreInv, [Next]_vars PROVE FirestoreInv'
<1>1. CASE Firestore!InsertValue
  <2>1. PICK d \in Firestore!Doc : toNative' = Append(toNative, Firestore!Insert(d))
    BY <1>1 DEF Firestore!InsertValue
  <2>2. UNCHANGED <<collection, listeners, writes, toDart, list, built, hidden>>
    BY <1>1 DEF Firestore!InsertValue, Firestore!screen
  <2>3. Firestore!Insert(d) \in Sent
    BY MessageTypes
  <2> QED
    BY <2>1, <2>2, <2>3, TapInv
<1>2. ASSUME NEW index \in Firestore!Doc, Firestore!DeleteValue(index) PROVE FirestoreInv'
  <2>1. /\ toNative' = Append(toNative, Firestore!Delete(Firestore!Reference(built[index]), index))
        /\ UNCHANGED <<collection, listeners, writes, toDart, list, built, hidden>>
    BY <1>2 DEF Firestore!DeleteValue, Firestore!screen, Firestore!remote
  <2>2. Firestore!Delete(Firestore!Reference(built[index]), index) \in Sent
    BY MessageTypes
  <2> QED
    BY <2>1, <2>2, TapInv
<1>3. CASE UNCHANGED firestore_
  BY <1>3 DEF firestore_, FirestoreInv, Listens, Follows, LastSnapshot, NoSnapshot, Shows
<1> QED
  BY <1>1, <1>2, <1>3, SnapshotArrivesInv, InsertFinishedInv, DeleteFinishedInv, FrameInv,
     NativeInvF, AcknowledgeInv, RefuseInv, OtherDeviceInv, RestartInv, FirestoreOrOther
     DEF Firestore!Next, Firestore!Tap, Firestore!Deliver

\* What the invariant says once nothing is under way.
LEMMA SettledFollows == ASSUME FirestoreInv PROVE Firestore!SnapshotsSettle
<1> DEFINE S == Firestore!ToSet(list)
<1> SUFFICES ASSUME toNative = <<>>, toDart = <<>>
             PROVE  /\ list # None /\ S \subseteq collection /\ list = Firestore!Sorted(S)
                    /\ hidden = 0 => S = collection
  BY DEF Firestore!SnapshotsSettle, Firestore!Settled
<1>1. DOMAIN <<>> = {}
  OBVIOUS
<1>2. listeners # 0
  BY <1>1 DEF FirestoreInv, Listens
<1>3. Shows(list, collection, hidden)
  BY <1>1, <1>2 DEF FirestoreInv, Follows, LastSnapshot
<1>4. list \in Seq(Firestore!Doc) /\ Rising(list)
  BY <1>3 DEF FirestoreInv, Items, Shows
<1>5. list = Firestore!Sorted(S) /\ Len(list) = Cardinality(S)
  BY <1>4, RisingIsSorted
<1>6. S \subseteq collection /\ list # None /\ Len(list) + hidden = Cardinality(collection)
  BY <1>3 DEF Shows
<1>7. IsFiniteSet(collection)
  BY DocumentsFinite DEF FirestoreInv
<1> HIDE DEF S
<1>8. ASSUME hidden = 0 PROVE S = collection
  <2>1. Cardinality(S) = Cardinality(collection)
    BY <1>4, <1>5, <1>6, <1>8
  <2> QED
    BY <1>6, <1>7, <2>1, FS_Subset
<1> QED
  BY <1>5, <1>6, <1>8

\* However many listeners there are, and whatever deletes, other devices, refusals
\* and restarts do: once no message is under way the list shows no document that
\* is gone, and all there are unless a delete has edited it since.
THEOREM ListSettles == Spec => []SnapshotsSettle
<1>1. Init => FirestoreInv
  BY FirestoreInit
<1>2. FirestoreInv /\ [Next]_vars => FirestoreInv'
  BY FirestoreStep
<1>3. FirestoreInv => SnapshotsSettle
  BY SettledFollows DEF SnapshotsSettle
<1> QED
  BY <1>1, <1>2, <1>3, PTL DEF Spec

-----------------------------------------------------------------------------
(***************************************************************************)
(* The types of the Firestore screen.  A listener is asked for at the      *)
(* start and by each insert whose answer this run of the app awaits, so    *)
(* that there are never more of them than documents, and one.              *)
(***************************************************************************)

Count(q, S) == Cardinality({i \in DOMAIN q : q[i] \in S})

One(P) == IF P THEN 1 ELSE 0

\* Messages that are, or will be, one more listener.
AsksNative == {c \in Sent : c.op = "listen" \/ (c.op = "insert" /\ c.heard)}
AsksServer == {c \in Sent : c.op = "insert" /\ c.heard}
AsksScreen == {e \in Told : e.kind = "done" /\ e.of.op = "insert"}

FewListeners ==
  listeners + Count(toNative, AsksNative) + Count(writes, AsksServer) + Count(toDart, AsksScreen)
    <= 1 + Cardinality(used)

ListenersInv ==
  /\ collection \subseteq used /\ used \subseteq Firestore!Doc
  /\ \A i \in DOMAIN toNative : toNative[i].op = "insert" => toNative[i].doc \in used
  /\ FewListeners

\* There are finitely many of any messages.
LEMMA CountType ==
  ASSUME NEW T, NEW q \in Seq(T), NEW S
  PROVE  IsFiniteSet({i \in DOMAIN q : q[i] \in S}) /\ Count(q, S) \in Nat
<1>1. PICK n \in Nat : DOMAIN q = 1 .. n
  BY LenProperties
<1>2. IsFiniteSet(1 .. n)
  BY FS_Interval
<1>3. IsFiniteSet({i \in DOMAIN q : q[i] \in S})
  BY <1>1, <1>2, FS_Subset
<1> QED
  BY <1>3, FS_CardinalityType DEF Count

\* A message more.
LEMMA CountAppend ==
  ASSUME NEW T, NEW q \in Seq(T), NEW e \in T, NEW S
  PROVE  Count(Append(q, e), S) = Count(q, S) + One(e \in S)
<1> DEFINE r == Append(q, e)
           A == {i \in DOMAIN q : q[i] \in S}
           B == {i \in DOMAIN r : r[i] \in S}
<1>1. PICK n \in Nat : n = Len(q) /\ DOMAIN q = 1 .. n
  BY LenProperties
<1>2. /\ r \in Seq(T) /\ Len(r) = n + 1 /\ r[n + 1] = e
      /\ \A i \in 1 .. n : r[i] = q[i]
  BY <1>1, AppendProperties
<1>3. DOMAIN r = 1 .. n + 1
  BY <1>2, LenProperties
<1> HIDE DEF r
<1>4. /\ \A i \in 1 .. n + 1 : i \in 1 .. n \/ i = n + 1
      /\ n + 1 \in 1 .. n + 1 /\ n + 1 \notin 1 .. n
      /\ \A i \in 1 .. n : i \in 1 .. n + 1
  OBVIOUS
<1>5. IsFiniteSet(A) /\ Cardinality(A) \in Nat
  BY CountType DEF Count
<1>6. CASE e \in S
  <2>1. B = A \cup {n + 1} /\ n + 1 \notin A
    BY <1>1, <1>2, <1>3, <1>4, <1>6
  <2> HIDE DEF A, B
  <2>2. Cardinality(B) = Cardinality(A) + 1
    BY <1>5, <2>1, FS_AddElement
  <2> QED
    BY <1>6, <2>2 DEF Count, One, A, B, r
<1>7. CASE e \notin S
  <2>1. B = A
    BY <1>1, <1>2, <1>3, <1>4, <1>7
  <2> HIDE DEF A, B
  <2>2. Cardinality(B) = Cardinality(A) + 0
    BY <1>5, <2>1
  <2> QED
    BY <1>7, <2>2 DEF Count, One, A, B, r
<1> QED
  BY <1>6, <1>7

\* One message less.
LEMMA CountTail ==
  ASSUME NEW T, NEW q \in Seq(T), q # <<>>, NEW S
  PROVE  Count(q, S) = Count(Tail(q), S) + One(Head(q) \in S)
<1> DEFINE r == Tail(q)
           A == {i \in DOMAIN q : q[i] \in S}
           B == {i \in DOMAIN r : r[i] \in S}
           C == A \ {1}
           f == [i \in B |-> i + 1]
<1>1. PICK n \in Nat : /\ DOMAIN q = 1 .. n + 1 /\ DOMAIN r = 1 .. n
                       /\ \A i \in 1 .. n : r[i] = q[i + 1]
  BY TailMessages, Zenon
<1>2. Head(q) = q[1] /\ r \in Seq(T)
  BY TailMessages
<1> HIDE DEF r
<1>3. IsFiniteSet(A) /\ Cardinality(A) \in Nat /\ IsFiniteSet(B) /\ Cardinality(B) \in Nat
  BY <1>2, CountType DEF Count
<1>4. f \in Bijection(B, C)
  <2>1. ASSUME NEW i \in B PROVE i + 1 \in C
    <3>1. i \in 1 .. n /\ q[i + 1] \in S
      BY <1>1
    <3>2. i + 1 \in 1 .. n + 1 /\ i + 1 # 1
      BY <3>1
    <3> QED
      BY <1>1, <3>1, <3>2
  <2>2. ASSUME NEW i \in B, NEW j \in B, i + 1 = j + 1 PROVE i = j
    <3>1. i \in 1 .. n /\ j \in 1 .. n
      BY <1>1
    <3> QED
      BY <2>2, <3>1
  <2>3. ASSUME NEW k \in C PROVE \E i \in B : i + 1 = k
    <3>1. k \in 1 .. n + 1 /\ k # 1 /\ q[k] \in S
      BY <1>1
    <3>2. k - 1 \in 1 .. n /\ k - 1 + 1 = k
      BY <3>1
    <3>3. k - 1 \in B
      BY <1>1, <3>1, <3>2
    <3> QED
      BY <3>2, <3>3
  <2> HIDE DEF B, C
  <2>4. f \in [B -> C] /\ \A i \in B : f[i] = i + 1
    BY <2>1
  <2> HIDE DEF f
  <2>5. f \in Injection(B, C)
    BY <2>2, <2>4 DEF Injection, IsInjective
  <2>6. f \in Surjection(B, C)
    BY <2>3, <2>4 DEF Surjection
  <2> QED
    BY <2>5, <2>6 DEF Bijection
<1>5. Cardinality(C) = Cardinality(B)
  <2>1. ExistsBijection(B, C)
    BY <1>4 DEF ExistsBijection
  <2> HIDE DEF B, C
  <2> QED
    BY <1>3, <2>1, FS_Bijection
<1>6. 1 \in A <=> Head(q) \in S
  <2>1. 1 \in 1 .. n + 1
    OBVIOUS
  <2> QED
    BY <1>1, <1>2, <2>1
<1>7. Cardinality(C) = IF 1 \in A THEN Cardinality(A) - 1 ELSE Cardinality(A)
  <2> HIDE DEF A
  <2> QED
    BY <1>3, FS_RemoveElement
<1> HIDE DEF A, B, C
<1>8. Cardinality(A) = Cardinality(B) + One(Head(q) \in S)
  BY <1>3, <1>5, <1>6, <1>7 DEF One
<1> QED
  BY <1>8 DEF Count, A, B, r

\* Messages that do not count.
LEMMA CountOthers ==
  ASSUME NEW T, NEW q \in Seq(T), NEW m \in Seq(T), NEW S, \A i \in DOMAIN m : m[i] \notin S
  PROVE  Count(q \o m, S) = Count(q, S) /\ Count(m, S) = 0
<1> DEFINE r == q \o m
<1>1. PICK n \in Nat : n = Len(q) /\ DOMAIN q = 1 .. n
  BY LenProperties
<1>2. PICK k \in Nat : k = Len(m) /\ DOMAIN m = 1 .. k
  BY LenProperties
<1>3. /\ r \in Seq(T) /\ Len(r) = n + k
      /\ \A i \in 1 .. n + k : r[i] = IF i <= n THEN q[i] ELSE m[i - n]
  BY <1>1, <1>2, ConcatProperties
<1>4. DOMAIN r = 1 .. n + k
  BY <1>3, LenProperties
<1> HIDE DEF r
<1>5. \A i \in 1 .. n : i \in 1 .. n + k /\ i <= n
  OBVIOUS
<1>6. \A i \in 1 .. n + k : i \in 1 .. n \/ (~(i <= n) /\ i - n \in 1 .. k)
  OBVIOUS
<1>7. {i \in DOMAIN r : r[i] \in S} = {i \in DOMAIN q : q[i] \in S}
  <2>1. ASSUME NEW i \in 1 .. n + k, r[i] \in S PROVE i \in 1 .. n /\ q[i] \in S
    <3>1. i \in 1 .. n
      BY <1>2, <1>3, <1>6, <2>1
    <3> QED
      BY <1>3, <1>5, <2>1, <3>1
  <2>2. ASSUME NEW i \in 1 .. n, q[i] \in S PROVE i \in 1 .. n + k /\ r[i] \in S
    BY <1>3, <1>5, <2>2
  <2> QED
    BY <1>1, <1>4, <2>1, <2>2
<1>8. {i \in DOMAIN m : m[i] \in S} = {}
  OBVIOUS
<1> QED
  BY <1>7, <1>8, FS_EmptySet DEF Count, r

\* The sums of FewListeners.
LEMMA Sums ==
  ASSUME FirestoreInv, ListenersInv
  PROVE  /\ listeners \in Nat /\ Count(toNative, AsksNative) \in Nat
         /\ Count(writes, AsksServer) \in Nat /\ Count(toDart, AsksScreen) \in Nat
         /\ IsFiniteSet(used) /\ Cardinality(used) \in Nat
         /\ One(TRUE) = 1 /\ One(FALSE) = 0 /\ \A P : One(P) \in {0, 1}
<1>1. IsFiniteSet(used) /\ Cardinality(used) \in Nat
  BY DocumentsFinite DEF ListenersInv
<1>2. One(TRUE) = 1 /\ One(FALSE) = 0 /\ \A P : One(P) \in {0, 1}
  BY DEF One
<1> QED
  BY <1>1, <1>2, CountType DEF FirestoreInv

\* Messages that are sent, and what they count for.
LEMMA MessagesCount ==
  /\ Firestore!Listen \in AsksNative
  /\ \A d \in Firestore!Doc : Firestore!Insert(d).op = "insert" /\ Firestore!Insert(d).doc = d
  /\ \A i, d : /\ Firestore!Delete(d, i) \notin AsksNative
               /\ Firestore!Delete(d, i).op # "insert"
  /\ \A docs : Firestore!Snapshot(docs) \notin AsksScreen
  /\ \A c \in Sent :
       /\ c.op = "listen" => c \in AsksNative
       /\ c.op = "insert" => (c \in AsksNative <=> c.heard) /\ (c \in AsksServer <=> c.heard)
       /\ c.op = "delete" => c \notin AsksServer
       /\ c.heard /\ c \notin AsksServer => Firestore!Done(c) \notin AsksScreen
  /\ Firestore!Listen.op # "insert"
<1>1. Firestore!Listen \in Sent /\ Firestore!Listen.op = "listen"
  BY MessageTypes
<1>2. Firestore!Listen \in AsksNative
  BY <1>1 DEF AsksNative
<1>3. \A d \in Firestore!Doc : Firestore!Insert(d).op = "insert" /\ Firestore!Insert(d).doc = d
  BY DEF Firestore!Insert, Firestore!Listen
<1>4. \A i, d : Firestore!Delete(d, i) \notin AsksNative /\ Firestore!Delete(d, i).op # "insert"
  BY DEF Firestore!Delete, AsksNative
<1>5. \A docs : Firestore!Snapshot(docs) \notin AsksScreen
  BY DEF Firestore!Snapshot, AsksScreen
<1>6. ASSUME NEW c \in Sent
      PROVE  /\ c.op = "listen" => c \in AsksNative
             /\ c.op = "insert" => (c \in AsksNative <=> c.heard) /\ (c \in AsksServer <=> c.heard)
             /\ c.op = "delete" => c \notin AsksServer
  BY DEF AsksNative, AsksServer
<1>7. ASSUME NEW c \in Sent, c.heard, c \notin AsksServer PROVE Firestore!Done(c) \notin AsksScreen
  <2>1. c.op # "insert"
    BY <1>7 DEF AsksServer
  <2> QED
    BY <2>1 DEF Firestore!Done, AsksScreen
<1>8. Firestore!Listen.op # "insert"
  BY <1>1
<1> QED
  BY <1>2, <1>3, <1>4, <1>5, <1>6, <1>7, <1>8

\* At the start there is one to be asked for.
LEMMA ListenersInit == ASSUME Init PROVE ListenersInv
<1>1. /\ used = collection /\ collection \subseteq Firestore!Doc /\ listeners = 0
      /\ writes = <<>> /\ toNative = <<Firestore!Listen>> /\ toDart = <<>>
  BY DEF Init, Firestore!Init, Firestore!initState
<1>2. <<>> \in Seq(Sent) /\ <<>> \in Seq(Told) /\ DOMAIN <<>> = {}
  BY EmptySeq
<1>3. Count(<<>>, AsksServer) = 0 /\ Count(<<>>, AsksScreen) = 0 /\ Count(<<>>, AsksNative) = 0
  <2>1. \A S : {i \in DOMAIN <<>> : <<>>[i] \in S} = {}
    BY <1>2
  <2> QED
    BY <2>1, FS_EmptySet DEF Count
<1>4. Firestore!Listen \in Sent /\ Firestore!Listen \in AsksNative /\ Firestore!Listen.op # "insert"
  BY MessageTypes, MessagesCount
<1>5. Count(toNative, AsksNative) = 1
  <2>1. toNative = Append(<<>>, Firestore!Listen)
    BY <1>1
  <2>2. Count(Append(<<>>, Firestore!Listen), AsksNative)
          = Count(<<>>, AsksNative) + One(Firestore!Listen \in AsksNative)
    <3>1. <<>> \in Seq(Sent) /\ Firestore!Listen \in Sent
      BY MessageTypes, EmptySeq
    <3> QED
      BY <3>1, CountAppend
  <2>3. One(Firestore!Listen \in AsksNative) = 1
    BY <1>4 DEF One
  <2> QED
    BY <1>3, <2>1, <2>2, <2>3
<1>6. Cardinality(used) \in Nat
  BY <1>1, DocumentsFinite
<1>7. FewListeners
  <2>1. 0 + 1 + 0 + 0 <= 1 + Cardinality(used)
    BY <1>6
  <2> QED
    BY <1>1, <1>3, <1>5, <2>1 DEF FewListeners
<1>8. \A i \in DOMAIN toNative : toNative[i].op # "insert"
  <2>1. \A e : DOMAIN <<e>> = 1 .. 1 /\ \A i \in 1 .. 1 : <<e>>[i] = e
    OBVIOUS
  <2> QED
    BY <1>1, <1>4, <2>1
<1> QED
  BY <1>1, <1>7, <1>8 DEF ListenersInv

\* The documents to be inserted when one more command is sent, or one is taken.
LEMMA InsertsNamed ==
  ASSUME NEW q \in Seq(Sent), NEW names,
         \A i \in DOMAIN q : q[i].op = "insert" => q[i].doc \in names
  PROVE  /\ \A c \in Sent : (c.op = "insert" => c.doc \in names) =>
              \A i \in DOMAIN Append(q, c) :
                Append(q, c)[i].op = "insert" => Append(q, c)[i].doc \in names
         /\ q # <<>> =>
              /\ Head(q).op = "insert" => Head(q).doc \in names
              /\ \A i \in DOMAIN Tail(q) : Tail(q)[i].op = "insert" => Tail(q)[i].doc \in names
<1>1. ASSUME NEW c \in Sent, c.op = "insert" => c.doc \in names
      PROVE  \A i \in DOMAIN Append(q, c) :
                Append(q, c)[i].op = "insert" => Append(q, c)[i].doc \in names
  <2> DEFINE r == Append(q, c)
  <2>1. PICK n \in Nat : n = Len(q) /\ DOMAIN q = 1 .. n
    BY LenProperties
  <2>2. /\ r \in Seq(Sent) /\ Len(r) = n + 1 /\ r[n + 1] = c
        /\ \A i \in 1 .. n : r[i] = q[i]
    BY <2>1, AppendProperties
  <2>3. DOMAIN r = 1 .. n + 1
    BY <2>2, LenProperties
  <2> HIDE DEF r
  <2>4. \A i \in 1 .. n + 1 : i \in 1 .. n \/ i = n + 1
    OBVIOUS
  <2>5. \A i \in DOMAIN r : r[i].op = "insert" => r[i].doc \in names
    BY <1>1, <2>1, <2>2, <2>3, <2>4
  <2> QED
    BY <2>5 DEF r
<1>2. ASSUME q # <<>>
      PROVE  /\ Head(q).op = "insert" => Head(q).doc \in names
             /\ \A i \in DOMAIN Tail(q) : Tail(q)[i].op = "insert" => Tail(q)[i].doc \in names
  <2>1. PICK n \in Nat : /\ DOMAIN q = 1 .. n + 1 /\ DOMAIN Tail(q) = 1 .. n
                         /\ \A i \in 1 .. n : Tail(q)[i] = q[i + 1]
    BY <1>2, TailMessages, Zenon
  <2>2. Head(q) = q[1]
    BY <1>2, TailMessages
  <2>3. 1 \in 1 .. n + 1 /\ \A i \in 1 .. n : i + 1 \in 1 .. n + 1
    OBVIOUS
  <2> QED
    BY <2>1, <2>2, <2>3
<1> QED
  BY <1>1, <1>2

\* When every listener is told, none of the messages is one more listener.
LEMMA ChangeCount ==
  ASSUME FirestoreInv, NEW docs \in SUBSET Firestore!Doc,
         Firestore!Change(docs) \/ UNCHANGED <<collection, toDart>>
  PROVE  Count(toDart', AsksScreen) = Count(toDart, AsksScreen)
<1>1. toDart \in Seq(Told) /\ listeners \in Nat
  BY DEF FirestoreInv
<1> DEFINE m == Firestore!Notify(docs)
           e == Firestore!Snapshot(docs)
<1>2. e \in Told /\ e \notin AsksScreen
  BY MessageTypes, MessagesCount
<1>3. m = [i \in 1 .. listeners |-> e]
  BY DEF Firestore!Notify
<1> HIDE DEF m, e
<1>4. m \in Seq(Told) /\ \A i \in DOMAIN m : m[i] \notin AsksScreen
  <2>1. m \in [1 .. listeners -> Told] /\ \A i \in DOMAIN m : m[i] = e
    BY <1>2, <1>3
  <2>2. m \in Seq(Told)
    BY <1>1, <2>1, SeqDef
  <2> QED
    BY <1>2, <2>1, <2>2
<1>5. CASE Firestore!Change(docs)
  <2>1. toDart' = toDart \o m
    BY <1>5 DEF Firestore!Change, m
  <2> QED
    BY <1>1, <1>4, <2>1, CountOthers
<1>6. CASE UNCHANGED <<collection, toDart>>
  BY <1>6
<1> QED
  BY <1>5, <1>6

\* Each step of the screen keeps its listeners few.
LEMMA ListenersStep == ASSUME FirestoreInv, ListenersInv, [Next]_vars PROVE ListenersInv'
<1> DEFINE a == Count(toNative, AsksNative)
           s == Count(writes, AsksServer)
           t == Count(toDart, AsksScreen)
           u == Cardinality(used)
<1>1. /\ toNative \in Seq(Sent) /\ writes \in Seq(Sent) /\ toDart \in Seq(Told)
      /\ collection \subseteq used /\ used \subseteq Firestore!Doc
      /\ \A i \in DOMAIN toNative : toNative[i].op = "insert" => toNative[i].doc \in used
  BY DEF FirestoreInv, ListenersInv
<1>2. /\ listeners \in Nat /\ a \in Nat /\ s \in Nat /\ t \in Nat /\ u \in Nat /\ IsFiniteSet(used)
      /\ listeners + a + s + t <= 1 + u
  BY Sums DEF ListenersInv, FewListeners
<1>3. One(TRUE) = 1 /\ One(FALSE) = 0 /\ \A P : One(P) \in {0, 1}
  BY DEF One
<1> HIDE DEF a, s, t, u
<1>4. ASSUME collection' \subseteq used', used' \subseteq Firestore!Doc,
             \A i \in DOMAIN toNative' : toNative'[i].op = "insert" => toNative'[i].doc \in used',
             listeners' + Count(toNative', AsksNative) + Count(writes', AsksServer)
               + Count(toDart', AsksScreen) <= 1 + Cardinality(used')
      PROVE  ListenersInv'
  BY <1>4 DEF ListenersInv, FewListeners, Count
<1>5. CASE Firestore!InsertValue
  <2>1. PICK d \in Firestore!Doc \ used :
          toNative' = Append(toNative, Firestore!Insert(d)) /\ used' = used \cup {d}
    BY <1>5 DEF Firestore!InsertValue
  <2>2. UNCHANGED <<collection, listeners, writes, toDart>>
    BY <1>5 DEF Firestore!InsertValue
  <2>3. Firestore!Insert(d) \in Sent /\ Firestore!Insert(d).doc = d
    BY MessageTypes, MessagesCount
  <2>4. \A i \in DOMAIN toNative' : toNative'[i].op = "insert" => toNative'[i].doc \in used'
    <3>1. \A i \in DOMAIN toNative : toNative[i].op = "insert" => toNative[i].doc \in used'
      BY <1>1, <2>1
    <3>2. Firestore!Insert(d).doc \in used'
      BY <2>1, <2>3
    <3>3. \A i \in DOMAIN Append(toNative, Firestore!Insert(d)) :
            Append(toNative, Firestore!Insert(d))[i].op = "insert"
              => Append(toNative, Firestore!Insert(d))[i].doc \in used'
      BY <1>1, <2>3, <3>1, <3>2, InsertsNamed
    <3> QED
      BY <2>1, <3>3
  <2>5. PICK o \in {0, 1} : Count(toNative', AsksNative) = a + o
    BY <1>1, <1>3, <2>1, <2>3, CountAppend DEF a
  <2>6. Cardinality(used') = u + 1
    BY <1>2, <2>1, FS_AddElement DEF u
  <2>7. listeners + (a + o) + s + t <= 1 + (u + 1)
    BY <1>2
  <2> QED
    BY <1>1, <1>4, <2>1, <2>2, <2>4, <2>5, <2>6, <2>7 DEF s, t
<1>6. ASSUME NEW index \in Firestore!Doc, Firestore!DeleteValue(index) PROVE ListenersInv'
  <2> DEFINE c == Firestore!Delete(Firestore!Reference(built[index]), index)
  <2>1. toNative' = Append(toNative, c) /\ UNCHANGED <<collection, used, listeners, writes, toDart>>
    BY <1>6 DEF Firestore!DeleteValue, Firestore!remote
  <2>2. c \in Sent /\ c \notin AsksNative /\ c.op # "insert"
    BY MessageTypes, MessagesCount
  <2> HIDE DEF c
  <2>3. Count(toNative', AsksNative) = a + 0
    <3>1. Count(toNative', AsksNative) = a + One(c \in AsksNative)
      BY <1>1, <2>1, <2>2, CountAppend DEF a
    <3>2. One(c \in AsksNative) = 0
      BY <2>2 DEF One
    <3> QED
      BY <3>1, <3>2
  <2>4. \A i \in DOMAIN toNative' : toNative'[i].op = "insert" => toNative'[i].doc \in used'
    BY <1>1, <2>1, <2>2, InsertsNamed
  <2>5. listeners + (a + 0) + s + t <= 1 + u
    BY <1>2
  <2> QED
    BY <1>1, <1>4, <2>1, <2>3, <2>4, <2>5 DEF s, t, u
<1>7. CASE Firestore!SnapshotArrives \/ Firestore!DeleteFinished
  <2>1. /\ toDart # <<>> /\ toDart' = Tail(toDart)
        /\ UNCHANGED <<collection, used, listeners, writes, toNative>>
    BY <1>7 DEF Firestore!SnapshotArrives, Firestore!DeleteFinished, Firestore!Finished,
                Firestore!AfterDelete, Firestore!remote
  <2>2. PICK o \in {0, 1} : t = Count(toDart', AsksScreen) + o
    BY <1>1, <1>3, <2>1, CountTail DEF t
  <2>3. toDart' \in Seq(Told)
    BY <1>1, <2>1, TailMessages
  <2>4. PICK n \in Nat : n = Count(toDart', AsksScreen)
    BY <2>3, CountType
  <2>5. listeners + a + s + n <= 1 + u
    BY <1>2, <2>2, <2>4
  <2> QED
    BY <1>1, <1>4, <2>1, <2>4, <2>5 DEF a, s, u
<1>8. CASE Firestore!InsertFinished
  <2>1. /\ toDart # <<>> /\ toDart' = Tail(toDart)
        /\ Head(toDart).kind = "done" /\ Head(toDart).of.op = "insert"
        /\ toNative' = Append(toNative, Firestore!Listen)
        /\ UNCHANGED <<collection, used, listeners, writes>>
    BY <1>8 DEF Firestore!InsertFinished, Firestore!Finished, Firestore!FetchValues, Firestore!remote
  <2>2. toDart' \in Seq(Told) /\ Head(toDart) \in AsksScreen
    BY <1>1, <2>1, TailMessages DEF AsksScreen
  <2>3. PICK n \in Nat : n = Count(toDart', AsksScreen)
    BY <2>2, CountType
  <2>4. t = n + 1
    <3>1. t = n + One(Head(toDart) \in AsksScreen)
      BY <1>1, <2>1, <2>3, CountTail DEF t
    <3>2. One(Head(toDart) \in AsksScreen) = 1
      BY <2>2 DEF One
    <3> QED
      BY <3>1, <3>2
  <2>5. Firestore!Listen \in Sent /\ Firestore!Listen.op # "insert"
    BY MessageTypes, MessagesCount
  <2>6. PICK o \in {0, 1} : Count(toNative', AsksNative) = a + o
    BY <1>1, <1>3, <2>1, <2>5, CountAppend DEF a
  <2>7. \A i \in DOMAIN toNative' : toNative'[i].op = "insert" => toNative'[i].doc \in used'
    BY <1>1, <2>1, <2>5, InsertsNamed
  <2>8. listeners + (a + o) + s + n <= 1 + u
    BY <1>2, <2>4
  <2> QED
    BY <1>1, <1>4, <2>1, <2>3, <2>6, <2>7, <2>8 DEF s, u
<1>9. CASE Firestore!Native
  <2> DEFINE c == Head(toNative)
  <2>1. toNative # <<>> /\ toNative' = Tail(toNative) /\ UNCHANGED used
    BY <1>9 DEF Firestore!Native
  <2>2. c \in Sent /\ toNative' \in Seq(Sent)
    BY <1>1, <2>1, TailMessages
  <2>3. /\ c.op = "insert" => c.doc \in used
        /\ \A i \in DOMAIN toNative' : toNative'[i].op = "insert" => toNative'[i].doc \in used'
    BY <1>1, <2>1, InsertsNamed
  <2>4. PICK n \in Nat : n = Count(toNative', AsksNative)
    BY <2>2, CountType
  <2>5. a = n + One(c \in AsksNative)
    BY <1>1, <2>1, <2>4, CountTail DEF a
  <2>6. CASE c.op = "listen"
    <3>1. /\ listeners' = listeners + 1 /\ UNCHANGED <<collection, writes>>
          /\ toDart' = Append(toDart, Firestore!Snapshot(collection))
      BY <1>9, <2>6 DEF Firestore!Native
    <3>2. a = n + 1
      BY <1>3, <2>2, <2>5, <2>6, MessagesCount
    <3>3. Firestore!Snapshot(collection) \in Told /\ Firestore!Snapshot(collection) \notin AsksScreen
      <4>1. collection \in SUBSET Firestore!Doc
        BY <1>1
      <4> QED
        BY <4>1, MessageTypes, MessagesCount
    <3>4. Count(toDart', AsksScreen) = t + 0
      <4>1. Count(toDart', AsksScreen) = t + One(Firestore!Snapshot(collection) \in AsksScreen)
        BY <1>1, <3>1, <3>3, CountAppend DEF t
      <4>2. One(Firestore!Snapshot(collection) \in AsksScreen) = 0
        BY <3>3 DEF One
      <4> QED
        BY <4>1, <4>2
    <3>5. listeners + 1 + n + s + (t + 0) <= 1 + u
      BY <1>2, <3>2
    <3> QED
      BY <1>1, <1>4, <2>1, <2>3, <2>4, <3>1, <3>4, <3>5 DEF s, u
  <2>7. CASE c.op # "listen"
    <3>1. /\ listeners' = listeners /\ writes' = Append(writes, c)
          /\ \/ c.op = "insert" /\ Firestore!Change(collection \cup {c.doc})
             \/ c.op = "delete" /\ Firestore!Change(collection \ {c.doc})
             \/ c.op = "delete" /\ UNCHANGED <<collection, toDart>>
      BY <1>9, <2>7 DEF Firestore!Native
    <3>2. collection' \subseteq used
      BY <1>1, <2>3, <3>1 DEF Firestore!Change
    <3>3. Count(toDart', AsksScreen) = t
      <4>1. collection \cup {c.doc} \in SUBSET Firestore!Doc \/ c.op # "insert"
        BY <1>1, <2>3
      <4>2. collection \ {c.doc} \in SUBSET Firestore!Doc
        BY <1>1
      <4> HIDE DEF c
      <4> QED
        BY <1>1, <3>1, <4>1, <4>2, ChangeCount DEF t
    <3>4. PICK o \in {0, 1} : o = One(c \in AsksNative) /\ Count(writes', AsksServer) = s + o
      <4>1. Count(writes', AsksServer) = s + One(c \in AsksServer)
        BY <1>1, <2>2, <3>1, CountAppend DEF s
      <4>2. c \in AsksNative <=> c \in AsksServer
        BY <2>2, <2>7 DEF AsksNative, AsksServer
      <4>3. One(c \in AsksServer) = One(c \in AsksNative)
        BY <4>2 DEF One
      <4> QED
        BY <1>3, <4>1, <4>3
    <3>5. listeners + n + (s + o) + t <= 1 + u
      BY <1>2, <2>5, <3>4
    <3> QED
      BY <1>1, <1>4, <2>1, <2>3, <2>4, <3>1, <3>2, <3>3, <3>4, <3>5 DEF u
  <2> QED
    BY <2>6, <2>7
<1>10. CASE Firestore!Acknowledge
  <2> DEFINE c == Head(writes)
  <2>1. /\ writes # <<>> /\ writes' = Tail(writes)
        /\ UNCHANGED <<collection, used, listeners, toNative>>
        /\ toDart' = IF c.heard THEN Append(toDart, Firestore!Done(c)) ELSE toDart
    BY <1>10 DEF Firestore!Acknowledge
  <2>2. c \in Sent /\ writes' \in Seq(Sent)
    BY <1>1, <2>1, TailMessages
  <2>3. PICK n \in Nat : n = Count(writes', AsksServer)
    BY <2>2, CountType
  <2>4. s = n + One(c \in AsksServer)
    BY <1>1, <2>1, <2>3, CountTail DEF s
  <2>5. PICK k \in Nat : k = Count(toDart', AsksScreen) /\ k <= t + One(c \in AsksServer)
    <3>1. CASE ~c.heard
      <4>1. toDart' = toDart
        BY <2>1, <3>1
      <4>2. t <= t + One(c \in AsksServer)
        BY <1>2, <1>3
      <4> QED
        BY <1>2, <4>1, <4>2 DEF t
    <3>2. CASE c.heard
      <4>1. toDart' = Append(toDart, Firestore!Done(c))
        BY <2>1, <3>2
      <4>2. Firestore!Done(c) \in Told
        BY <2>2, MessageTypes
      <4>3. Count(toDart', AsksScreen) = t + One(Firestore!Done(c) \in AsksScreen)
        BY <1>1, <4>1, <4>2, CountAppend DEF t
      <4>4. c \notin AsksServer => Firestore!Done(c) \notin AsksScreen
        BY <2>2, <3>2, MessagesCount
      <4>5. One(Firestore!Done(c) \in AsksScreen) <= One(c \in AsksServer)
        BY <4>4 DEF One
      <4>6. PICK o \in {0, 1}, p \in {0, 1} :
              o = One(Firestore!Done(c) \in AsksScreen) /\ p = One(c \in AsksServer)
        BY <1>3
      <4>7. t + o \in Nat /\ t + o <= t + p
        BY <1>2, <4>5, <4>6
      <4> QED
        BY <4>3, <4>6, <4>7
    <3> QED
      BY <3>1, <3>2
  <2>6. PICK p \in {0, 1} : p = One(c \in AsksServer)
    BY <1>3
  <2>7. listeners + a + n + k <= 1 + u
    BY <1>2, <2>4, <2>5, <2>6
  <2> QED
    BY <1>1, <1>4, <2>1, <2>3, <2>5, <2>7 DEF a, u
<1>11. CASE Firestore!Refuse
  <2> DEFINE docs == collection \ {Head(writes).doc}
  <2>1. /\ writes # <<>> /\ writes' = Tail(writes) /\ UNCHANGED <<used, listeners, toNative>>
        /\ Firestore!Change(docs) \/ UNCHANGED <<collection, toDart>>
    BY <1>11 DEF Firestore!Refuse
  <2>2. docs \in SUBSET Firestore!Doc /\ docs \subseteq used
    BY <1>1
  <2> HIDE DEF docs
  <2>3. Count(toDart', AsksScreen) = t
    BY <2>1, <2>2, ChangeCount DEF t
  <2>4. collection' \subseteq used
    BY <1>1, <2>1, <2>2 DEF Firestore!Change
  <2>5. writes' \in Seq(Sent)
    BY <1>1, <2>1, TailMessages
  <2>6. PICK n \in Nat : n = Count(writes', AsksServer)
    BY <2>5, CountType
  <2>7. PICK o \in {0, 1} : s = n + o
    BY <1>1, <1>3, <2>1, <2>6, CountTail DEF s
  <2>8. listeners + a + n + t <= 1 + u
    BY <1>2, <2>7
  <2> QED
    BY <1>1, <1>4, <2>1, <2>3, <2>4, <2>6, <2>8 DEF a, u
<1>12. CASE Firestore!OtherDevice
  <2>1. UNCHANGED <<listeners, writes, toNative>>
    BY <1>12 DEF Firestore!OtherDevice
  <2>2. PICK d \in Firestore!Doc :
          \/ d \notin used /\ used' = used \cup {d} /\ Firestore!Change(collection \cup {d})
          \/ UNCHANGED used /\ Firestore!Change(collection \ {d})
    BY <1>1, <1>12 DEF Firestore!OtherDevice
  <2>3. collection \cup {d} \in SUBSET Firestore!Doc /\ collection \ {d} \in SUBSET Firestore!Doc
    BY <1>1
  <2>4. Count(toDart', AsksScreen) = t
    BY <2>2, <2>3, ChangeCount DEF t
  <2>5. /\ collection' \subseteq used' /\ used' \subseteq Firestore!Doc /\ used \subseteq used'
    BY <1>1, <2>2 DEF Firestore!Change
  <2>6. PICK v \in Nat : v = Cardinality(used') /\ u <= v
    <3>1. IsFiniteSet(used')
      BY <2>5, DocumentsFinite
    <3>2. Cardinality(used') \in Nat /\ Cardinality(used) <= Cardinality(used')
      BY <2>5, <3>1, FS_CardinalityType, FS_Subset
    <3> QED
      BY <3>2 DEF u
  <2>7. listeners + a + s + t <= 1 + v
    BY <1>2, <2>6
  <2> QED
    BY <1>1, <1>4, <2>1, <2>4, <2>5, <2>6, <2>7 DEF a, s
<1>13. CASE Firestore!Restart
  <2>1. /\ writes' = [i \in 1 .. Len(writes) |-> [writes[i] EXCEPT !.heard = FALSE]]
        /\ listeners' = 0 /\ toNative' = <<Firestore!Listen>> /\ toDart' = <<>>
        /\ UNCHANGED <<collection, used>>
    BY <1>13 DEF Firestore!Restart, Firestore!initState
  <2>2. \A S : Count(<<>>, S) = 0
    <3>1. \A S : {i \in DOMAIN <<>> : <<>>[i] \in S} = {}
      OBVIOUS
    <3> QED
      BY <3>1, FS_EmptySet DEF Count
  <2>3. Count(writes', AsksServer) = 0
    <3>1. ASSUME NEW i \in 1 .. Len(writes) PROVE writes'[i] \notin AsksServer
      <4>1. writes[i] \in Sent
        BY <1>1, ElementOfSeq
      <4>2. writes'[i].heard = FALSE
        BY <2>1, <4>1 DEF Sent, Firestore!Command
      <4> QED
        BY <4>2 DEF AsksServer
    <3>2. {i \in DOMAIN writes' : writes'[i] \in AsksServer} = {}
      BY <2>1, <3>1
    <3> QED
      BY <3>2, FS_EmptySet DEF Count
  <2>4. Count(toNative', AsksNative) \in {0, 1}
    <3>1. <<>> \in Seq(Sent) /\ Firestore!Listen \in Sent
      BY MessageTypes, EmptySeq
    <3>2. Count(Append(<<>>, Firestore!Listen), AsksNative)
            = Count(<<>>, AsksNative) + One(Firestore!Listen \in AsksNative)
      BY <3>1, CountAppend
    <3>3. toNative' = Append(<<>>, Firestore!Listen)
      BY <2>1
    <3> QED
      BY <1>3, <2>2, <3>2, <3>3
  <2>5. PICK o \in {0, 1} : o = Count(toNative', AsksNative)
    BY <2>4
  <2>6. 0 + o + 0 + 0 <= 1 + u
    BY <1>2
  <2>7. \A i \in DOMAIN toNative' : toNative'[i].op # "insert"
    <3>1. \A e : DOMAIN <<e>> = 1 .. 1 /\ \A i \in 1 .. 1 : <<e>>[i] = e
      OBVIOUS
    <3> QED
      BY <2>1, <3>1, MessagesCount
  <2>8. Count(toDart', AsksScreen) = 0
    BY <2>1, <2>2
  <2> QED
    BY <1>1, <1>4, <2>1, <2>3, <2>5, <2>6, <2>7, <2>8 DEF u
<1>14. CASE Firestore!Frame \/ UNCHANGED firestore_
  <2>1. UNCHANGED <<collection, used, listeners, writes, toNative, toDart>>
    BY <1>14 DEF Firestore!Frame, Firestore!remote, firestore_
  <2> QED
    BY <1>1, <1>2, <1>4, <2>1 DEF a, s, t, u
<1> QED
  BY <1>5, <1>6, <1>7, <1>8, <1>9, <1>10, <1>11, <1>12, <1>13, <1>14, FirestoreOrOther
     DEF Firestore!Next, Firestore!Tap, Firestore!Deliver

\* What the two invariants say of the types.
LEMMA FirestoreTyped == ASSUME FirestoreInv, ListenersInv PROVE Firestore!FirestoreTypeOK
<1>1. listeners \in 0 .. 1 + Cardinality(used)
  <2> DEFINE a == Count(toNative, AsksNative)
             s == Count(writes, AsksServer)
             t == Count(toDart, AsksScreen)
             u == Cardinality(used)
  <2>1. /\ listeners \in Nat /\ a \in Nat /\ s \in Nat /\ t \in Nat /\ u \in Nat
        /\ listeners + a + s + t <= 1 + u
    BY Sums DEF ListenersInv, FewListeners
  <2> HIDE DEF a, s, t, u
  <2>2. listeners \in 0 .. 1 + u
    BY <2>1
  <2> QED
    BY <2>2 DEF u
<1>2. /\ writes \in Seq(Firestore!Command) /\ toNative \in Seq(Firestore!Command)
      /\ toDart \in Seq(Firestore!Event)
  <2>1. Sent \subseteq Firestore!Command /\ Told \subseteq Firestore!Event
    BY DEF Sent, Told
  <2>2. writes \in Seq(Sent) /\ toNative \in Seq(Sent) /\ toDart \in Seq(Told)
    BY DEF FirestoreInv
  <2> QED
    BY <2>1, <2>2, SeqMonotonic
<1>3. list = None \/ (list \in Seq(Firestore!Doc) /\ Firestore!IsInjective(list))
  <2>1. ASSUME list # None PROVE list \in Seq(Firestore!Doc) /\ Firestore!IsInjective(list)
    <3>1. list \in Seq(Firestore!Doc) /\ Rising(list)
      BY <2>1 DEF FirestoreInv, Items
    <3>2. PICK n \in Nat : DOMAIN list = 1 .. n /\ \A i \in 1 .. n : list[i] \in Firestore!Doc
      BY <3>1, LenProperties, ElementOfSeq
    <3>3. ASSUME NEW i \in 1 .. n, NEW j \in 1 .. n, list[i] = list[j] PROVE i = j
      <4>1. list[i] \in Nat /\ list[j] \in Nat
        <5>1. MaxDoc \in Nat
          BY HomeAssumption
        <5>2. Firestore!Doc \subseteq Nat
          BY <5>1 DEF Firestore!Doc
        <5> QED
          BY <3>2, <5>2
      <4>2. (i < j => list[i] < list[j]) /\ (j < i => list[j] < list[i])
        BY <3>1, <3>2 DEF Rising
      <4> QED
        BY <3>3, <4>1, <4>2
    <3> QED
      BY <3>1, <3>2, <3>3 DEF Firestore!IsInjective
  <2> QED
    BY <2>1
<1> QED
  BY <1>1, <1>2, <1>3, Counts DEF FirestoreInv, ListenersInv, Firestore!FirestoreTypeOK

-----------------------------------------------------------------------------
(* All the screens. *)

\* Whatever the screens do, their variables keep their types.
THEOREM HomeTypesCorrect == Spec => []TypeOK
<1>1. Init => /\ RequestsTypes /\ WeatherInv /\ PrefsInv /\ LoginInv /\ LoginTypes
              /\ AnimationInv /\ FirestoreInv /\ ListenersInv
  BY RequestsTypesInit, WeatherInit, PrefsInit, LoginInit, LoginTypesInit, AnimationInit,
     FirestoreInit, ListenersInit
<1>2. /\ RequestsTypes /\ WeatherInv /\ PrefsInv /\ LoginInv /\ LoginTypes
      /\ AnimationInv /\ FirestoreInv /\ ListenersInv
      /\ [Next]_vars
      => /\ RequestsTypes' /\ WeatherInv' /\ PrefsInv' /\ LoginInv' /\ LoginTypes'
         /\ AnimationInv' /\ FirestoreInv' /\ ListenersInv'
  BY RequestsTypesStep, WeatherStep, PrefsStep, LoginStep, LoginTypesStep, AnimationStep,
     FirestoreStep, ListenersStep
<1>3. /\ RequestsTypes /\ WeatherInv /\ PrefsInv /\ LoginInv /\ LoginTypes
      /\ AnimationInv /\ FirestoreInv /\ ListenersInv
      => TypeOK
  BY RequestsTyped, WeatherTyped, LoginTyped, AnimationTypes, FirestoreTyped DEF TypeOK, PrefsInv
<1> QED
  BY <1>1, <1>2, <1>3, PTL DEF Spec
=============================================================================
