------------------------- MODULE LevelDBFilesProofs -------------------------
(***************************************************************************)
(* Proofs about LevelDB, for any keys, writes, levels and bounds: its      *)
(* state stays of its types, the tables of a level disjoint, the newer     *)
(* entries of a key above its older ones, and a read finds the newest.     *)
(*                                                                         *)
(* The inputs of a compaction fit between the tables of the next level,    *)
(* and still do after a flush within the compaction has put a table there: *)
(* it meets no table down to its level, and the inputs leave no gap for it *)
(* (Movable).  So what an edit makes of the version is disjoint as well    *)
(* (LevelsInv).                                                            *)
(*                                                                         *)
(* What the tables of a version hold is older than what the logs it needs  *)
(* and the memory tables hold (AgesInv), so that a flush may put its table *)
(* above the others.  The inputs of a compaction take along every table of *)
(* their two levels that shares a key with them, and a flush within the    *)
(* compaction adds newer entries only (Fits).  So their outputs may stand  *)
(* in their place, as long as no two of them share a key (NewerInv); a     *)
(* merge sees to that when nobody holds a snapshot, for then it keeps one  *)
(* entry of a key (SeenInv).                                               *)
(*                                                                         *)
(* A reader looks into the memory tables and then into the version.  Each  *)
(* has what the one before it has not: all that was written is in a memory *)
(* table (MemInv), or was in the logs that the version no longer needs     *)
(* (LogsInv).  Of those entries the version has all that a reader of the   *)
(* least number in use, or of a later one, would miss (KeptInv): a merge   *)
(* drops an older entry only below a newer one that everybody sees, and a  *)
(* deletion only if no deeper level may hold the key (DeepInv).  And of    *)
(* what the version has, the first table that has the key has its newest   *)
(* entry, on level 0 too (StackInv).                                       *)
(***************************************************************************)
EXTENDS LevelDBProofs

-----------------------------------------------------------------------------
(* Types.                                                                  *)

\* Whatever the interleaving of writers, readers, the background thread, failed calls and
\* crashes, the database's state is of its types: the sequence numbers given out fit
\* (DBImpl::Write), a table has entries (BuildTable), a file in a version is numbered below the
\* next number and lies on a level (VersionSet::Recover), and the thread at work is scheduled.
THEOREM DatabaseTypesCorrect == Spec => []TypeOK
<1>1. Init => TypesInv
  BY TypesInit
<1>2. TypesInv /\ [Next]_vars => TypesInv'
  BY TypesStep
<1>3. TypesInv => TypeOK
  BY TypesHold
<1> QED
  BY <1>1, <1>2, <1>3, PTL DEF Spec

-----------------------------------------------------------------------------
(* Ranges of keys.                                                         *)

Below(A, k) == \A e \in A : e.key < k
Above(A, k) == \A e \in A : e.key > k

\* These files are there, and have entries.
Filled(T, fs) == \A f \in fs : T[f] \subseteq Entry /\ T[f] # {}

\* A set of natural numbers that is not empty has a least element.
LEMMA MinIsLeast ==
  ASSUME NEW S, S \subseteq Nat, S # {}
  PROVE  Min(S) \in S /\ \A y \in S : Min(S) <= y
<1> DEFINE Less == {ss \in Nat \X Nat : ss[1] < ss[2]}
<1>1. Less = OpToRel(<, Nat)
  BY DEF OpToRel
<1>2. IsWellFoundedOn(Less, Nat)
  BY <1>1, NatLessThanWellFounded, Zenon
<1> HIDE DEF Less
<1>3. PICK x \in S : \A y \in S : ~(<<y, x>> \in Less)
  BY <1>2, WFMin, Zenon
<1>4. ASSUME NEW y \in S PROVE x <= y
  <2>1. x \in Nat /\ y \in Nat /\ ~(<<y, x>> \in Less)
    BY <1>3
  <2> QED
    BY <2>1 DEF Less
<1> QED
  BY <1>4 DEF Min

\* Keys are numbers up to NumKeys.
LEMMA KeysAreNumbers ==
  ASSUME NEW A, A \subseteq Entry
  PROVE  /\ NumKeys \in Nat /\ \A e \in A : e.key \in Nat /\ e.key \in 0 .. NumKeys
BY LevelsAssumption DEF Entry, Key

\* The smallest and the largest key of a table.
LEMMA Ends ==
  ASSUME NEW T, NEW f, T[f] \subseteq Entry, T[f] # {}
  PROVE  /\ Smallest(T, f) \in 0 .. NumKeys /\ Largest(T, f) \in 0 .. NumKeys
         /\ \A e \in T[f] : Smallest(T, f) <= e.key /\ e.key <= Largest(T, f)
         /\ \E e \in T[f] : e.key = Smallest(T, f)
         /\ \E e \in T[f] : e.key = Largest(T, f)
<1>1. NumKeys \in Nat /\ \A e \in T[f] : e.key \in Nat /\ e.key \in 0 .. NumKeys
  BY KeysAreNumbers
<1>2. Keys(T, f) \subseteq 0 .. NumKeys /\ Keys(T, f) \subseteq Nat /\ Keys(T, f) # {}
  BY <1>1 DEF Keys
<1>3. Smallest(T, f) \in Keys(T, f) /\ \A k \in Keys(T, f) : Smallest(T, f) <= k
  BY <1>2, MinIsLeast DEF Smallest
<1>4. Largest(T, f) \in Keys(T, f) /\ \A k \in Keys(T, f) : k <= Largest(T, f)
  BY <1>1, <1>2, MaxIsGreatest DEF Largest
<1>5. \A e \in T[f] : e.key \in Keys(T, f)
  BY DEF Keys
<1>6. \A k \in Keys(T, f) : \E e \in T[f] : e.key = k
  BY DEF Keys
<1>7. Smallest(T, f) \in 0 .. NumKeys /\ Largest(T, f) \in 0 .. NumKeys
  BY <1>2, <1>3, <1>4, Zenon
<1> QED
  BY <1>3, <1>4, <1>5, <1>6, <1>7

\* The range of some tables.
LEMMA Hull ==
  ASSUME NEW T, NEW fs, Filled(T, fs), fs # {}
  PROVE  /\ Lo(T, fs) \in 0 .. NumKeys /\ Hi(T, fs) \in 0 .. NumKeys
         /\ \A f \in fs : \A e \in T[f] : Lo(T, fs) <= e.key /\ e.key <= Hi(T, fs)
         /\ \E f \in fs : \E e \in T[f] : e.key = Lo(T, fs)
         /\ \E f \in fs : \E e \in T[f] : e.key = Hi(T, fs)
<1> DEFINE S == {Smallest(T, f) : f \in fs}
           L == {Largest(T, f) : f \in fs}
<1>1. ASSUME NEW f \in fs
      PROVE  /\ Smallest(T, f) \in 0 .. NumKeys /\ Largest(T, f) \in 0 .. NumKeys
             /\ \A e \in T[f] : Smallest(T, f) <= e.key /\ e.key <= Largest(T, f)
             /\ \E e \in T[f] : e.key = Smallest(T, f)
             /\ \E e \in T[f] : e.key = Largest(T, f)
  BY Ends DEF Filled
<1>2. NumKeys \in Nat
  BY LevelsAssumption
<1>3. S \subseteq 0 .. NumKeys /\ L \subseteq 0 .. NumKeys /\ S # {} /\ L # {}
  BY <1>1
<1>4. S \subseteq Nat
  BY <1>2, <1>3
<1>5. Lo(T, fs) \in S /\ \A k \in S : Lo(T, fs) <= k
  BY <1>3, <1>4, MinIsLeast DEF Lo
<1>6. Hi(T, fs) \in L /\ \A k \in L : k <= Hi(T, fs)
  BY <1>2, <1>3, MaxIsGreatest DEF Hi
<1>7. Lo(T, fs) \in 0 .. NumKeys /\ Hi(T, fs) \in 0 .. NumKeys
  BY <1>3, <1>5, <1>6, Zenon
<1>8. ASSUME NEW f \in fs, NEW e \in T[f] PROVE Lo(T, fs) <= e.key /\ e.key <= Hi(T, fs)
  <2>1. Lo(T, fs) <= Smallest(T, f) /\ Largest(T, f) <= Hi(T, fs)
    BY <1>5, <1>6
  <2>2. Smallest(T, f) <= e.key /\ e.key <= Largest(T, f) /\ Smallest(T, f) \in 0 .. NumKeys
        /\ Largest(T, f) \in 0 .. NumKeys
    BY <1>1
  <2>3. e.key \in Nat
    BY KeysAreNumbers DEF Filled
  <2> QED
    BY <1>2, <1>7, <2>1, <2>2, <2>3
<1>9. PICK f \in fs : Lo(T, fs) = Smallest(T, f)
  BY <1>5
<1>10. PICK g \in fs : Hi(T, fs) = Largest(T, g)
  BY <1>6
<1>11. \E e \in T[f] : e.key = Lo(T, fs)
  BY <1>1, <1>9
<1>12. \E e \in T[g] : e.key = Hi(T, fs)
  BY <1>1, <1>10
<1> QED
  BY <1>7, <1>8, <1>11, <1>12

\* A table of a level meets a range, or stands on one side of it.
LEMMA MeetingSides ==
  ASSUME NEW v, NEW T, NEW l, NEW f \in Level(v, l), T[f] \subseteq Entry, T[f] # {},
         NEW lo \in Nat, NEW hi \in Nat
  PROVE  /\ f \in Meeting(v, T, l, lo, hi) => /\ \E e \in T[f] : e.key <= hi
                                              /\ \E e \in T[f] : e.key >= lo
         /\ f \notin Meeting(v, T, l, lo, hi) => Above(T[f], hi) \/ Below(T[f], lo)
<1>1. /\ Smallest(T, f) \in 0 .. NumKeys /\ Largest(T, f) \in 0 .. NumKeys
      /\ \A e \in T[f] : Smallest(T, f) <= e.key /\ e.key <= Largest(T, f)
      /\ \E e \in T[f] : e.key = Smallest(T, f)
      /\ \E e \in T[f] : e.key = Largest(T, f)
  BY Ends
<1>2. NumKeys \in Nat /\ \A e \in T[f] : e.key \in Nat
  BY KeysAreNumbers
<1>3. f \in Meeting(v, T, l, lo, hi) <=> Smallest(T, f) <= hi /\ Largest(T, f) >= lo
  BY DEF Meeting
<1>4. Smallest(T, f) \in Nat /\ Largest(T, f) \in Nat
  BY <1>1, <1>2
<1>5. Smallest(T, f) > hi => Above(T[f], hi)
  BY <1>1, <1>2, <1>4 DEF Above
<1>6. Largest(T, f) < lo => Below(T[f], lo)
  BY <1>1, <1>2, <1>4 DEF Below
<1> QED
  BY <1>1, <1>3, <1>4, <1>5, <1>6

\* A range that is wider meets more.
LEMMA MeetingGrows ==
  ASSUME NEW v, NEW T, NEW l, Filled(T, Level(v, l)),
         NEW lo \in Nat, NEW hi \in Nat, NEW lo1 \in Nat, NEW hi1 \in Nat, lo1 <= lo, hi <= hi1
  PROVE  Meeting(v, T, l, lo, hi) \subseteq Meeting(v, T, l, lo1, hi1)
<1> SUFFICES ASSUME NEW f \in Level(v, l), Smallest(T, f) <= hi, Largest(T, f) >= lo
             PROVE  Smallest(T, f) <= hi1 /\ Largest(T, f) >= lo1
  BY DEF Meeting
<1>1. Smallest(T, f) \in 0 .. NumKeys /\ Largest(T, f) \in 0 .. NumKeys
  BY Ends DEF Filled
<1>2. NumKeys \in Nat
  BY LevelsAssumption
<1> QED
  BY <1>1, <1>2

\* A smaller set of tables has a smaller range.
LEMMA HullGrows ==
  ASSUME NEW T, NEW gs, Filled(T, gs), NEW fs, fs \subseteq gs, fs # {}
  PROVE  Lo(T, gs) <= Lo(T, fs) /\ Hi(T, fs) <= Hi(T, gs)
<1>1. Filled(T, fs) /\ gs # {}
  BY DEF Filled
<1>2. /\ \E f \in fs : \E e \in T[f] : e.key = Lo(T, fs)
      /\ \E f \in fs : \E e \in T[f] : e.key = Hi(T, fs)
  BY <1>1, Hull
<1>3. \A f \in gs : \A e \in T[f] : Lo(T, gs) <= e.key /\ e.key <= Hi(T, gs)
  BY <1>1, Hull
<1> QED
  BY <1>2, <1>3

\* What GetOverlappingInputs finds.
LEMMA OverlappingFiles ==
  ASSUME NEW v, NEW T, NEW l \in Nat, NEW lo, NEW hi
  PROVE  /\ Overlapping(v, T, l, lo, hi) \subseteq Level(v, l)
         /\ Meeting(v, T, l, lo, hi) \subseteq Overlapping(v, T, l, lo, hi)
         /\ l > 0 => Overlapping(v, T, l, lo, hi) = Meeting(v, T, l, lo, hi)
<1>1. Meeting(v, T, l, lo, hi) \subseteq Level(v, l)
  BY DEF Meeting
<1>2. CASE l > 0 \/ Meeting(v, T, l, lo, hi) = {}
  BY <1>1, <1>2 DEF Overlapping
<1>3. CASE ~(l > 0 \/ Meeting(v, T, l, lo, hi) = {})
  <2>1. l = 0
    BY <1>3
  <2> QED
    BY <1>1, <1>3, <2>1 DEF Overlapping
<1> QED
  BY <1>2, <1>3

\* What it finds at level 0 is the least set that no table outside meets.
LEMMA OverlappingIsLeast ==
  ASSUME NEW v, NEW T, NEW lo, NEW hi, Filled(T, Level(v, 0)), Meeting(v, T, 0, lo, hi) # {},
         NEW side, side \subseteq Overlapping(v, T, 0, lo, hi), Meeting(v, T, 0, lo, hi) \subseteq side,
         \A f \in Overlapping(v, T, 0, lo, hi) : f \in Meeting(v, T, 0, Lo(T, side), Hi(T, side)) => f \in side
  PROVE  Overlapping(v, T, 0, lo, hi) \subseteq side
<1> DEFINE direct == Meeting(v, T, 0, lo, hi)
           Closed(fs) == /\ direct \subseteq fs
                         /\ fs # {} => Meeting(v, T, 0, Lo(T, fs), Hi(T, fs)) \subseteq fs
           O == Overlapping(v, T, 0, lo, hi)
<1>1. O = {f \in Level(v, 0) : \A fs \in {fs \in SUBSET Level(v, 0) : Closed(fs)} : f \in fs}
  BY DEF Overlapping
<1>2. side \subseteq Level(v, 0) /\ side # {} /\ O \subseteq Level(v, 0)
  BY <1>1
<1>3. Meeting(v, T, 0, Lo(T, side), Hi(T, side)) \subseteq O
  <2>1. ASSUME NEW fs \in SUBSET Level(v, 0), Closed(fs)
        PROVE  Meeting(v, T, 0, Lo(T, side), Hi(T, side)) \subseteq fs
    <3>1. O \subseteq fs
      BY <1>1, <2>1
    <3>2. side \subseteq fs /\ fs # {} /\ Filled(T, fs) /\ Filled(T, side)
      BY <1>2, <3>1 DEF Filled
    <3>3. Lo(T, fs) <= Lo(T, side) /\ Hi(T, side) <= Hi(T, fs)
      BY <1>2, <3>2, HullGrows
    <3>4. Lo(T, fs) \in 0 .. NumKeys /\ Hi(T, fs) \in 0 .. NumKeys /\ Lo(T, side) \in 0 .. NumKeys
          /\ Hi(T, side) \in 0 .. NumKeys
      BY <1>2, <3>2, Hull
    <3>5. \A k \in 0 .. NumKeys : k \in Nat
      BY LevelsAssumption
    <3>6. Meeting(v, T, 0, Lo(T, side), Hi(T, side)) \subseteq Meeting(v, T, 0, Lo(T, fs), Hi(T, fs))
      <4>1. Lo(T, fs) \in Nat /\ Hi(T, fs) \in Nat /\ Lo(T, side) \in Nat /\ Hi(T, side) \in Nat
        BY <3>4, <3>5, Zenon
      <4> QED
        BY <3>3, <4>1, MeetingGrows
    <3> QED
      BY <2>1, <3>2, <3>6
  <2>2. Meeting(v, T, 0, Lo(T, side), Hi(T, side)) \subseteq Level(v, 0)
    BY DEF Meeting
  <2> HIDE DEF Closed
  <2> QED
    BY <1>1, <2>1, <2>2
<1>4. Closed(side)
  <2>1. Meeting(v, T, 0, Lo(T, side), Hi(T, side)) \subseteq side
    BY <1>3
  <2> QED
    BY <2>1
<1> HIDE DEF Closed
<1> QED
  BY <1>1, <1>2, <1>4

\* If what it finds parts into tables on two sides of a .. b, and the range is on
\* one side, then all it finds is.
LEMMA OverlappingSides ==
  ASSUME NEW v, NEW T, NEW l \in Nat, Filled(T, Level(v, l)), NEW lo \in Nat, NEW hi \in Nat,
         NEW a \in Nat, NEW b \in Nat, a <= b,
         \A f \in Overlapping(v, T, l, lo, hi) : Below(T[f], a) \/ Above(T[f], b)
  PROVE  /\ hi < a => \A f \in Overlapping(v, T, l, lo, hi) : Below(T[f], a)
         /\ lo > b => \A f \in Overlapping(v, T, l, lo, hi) : Above(T[f], b)
<1> DEFINE O == Overlapping(v, T, l, lo, hi)
           direct == Meeting(v, T, l, lo, hi)
<1>1. O \subseteq Level(v, l) /\ direct \subseteq O /\ (l > 0 => O = direct)
  BY OverlappingFiles
<1>2. \A f \in O : \A e \in T[f] : e.key \in Nat
  BY <1>1, KeysAreNumbers DEF Filled
<1>3. ASSUME NEW f \in O, NEW x \in Nat, NEW y \in Nat, f \in Meeting(v, T, l, x, y)
      PROVE  (y < a => Below(T[f], a)) /\ (x > b => Above(T[f], b))
  <2>1. (\E e \in T[f] : e.key <= y) /\ (\E e \in T[f] : e.key >= x)
    BY <1>1, <1>3, MeetingSides DEF Filled
  <2>2. y < a => ~Above(T[f], b)
    BY <1>2, <2>1 DEF Above
  <2>3. x > b => ~Below(T[f], a)
    BY <1>2, <2>1 DEF Below
  <2> QED
    BY <2>2, <2>3
<1>4. CASE l > 0 \/ direct = {}
  <2>1. O = direct
    BY <1>1, <1>4 DEF Overlapping
  <2> QED
    BY <1>3, <2>1
<1>5. CASE l = 0 /\ direct # {}
  <2>1. ASSUME NEW side, side \subseteq O, direct \subseteq side,
               \A f \in O : f \in Meeting(v, T, 0, Lo(T, side), Hi(T, side)) => f \in side
        PROVE  O \subseteq side
    BY <1>5, <2>1, OverlappingIsLeast
  <2>2. ASSUME NEW side, side \subseteq O, direct \subseteq side
        PROVE  /\ Lo(T, side) \in Nat /\ Hi(T, side) \in Nat
               /\ \E f \in side : \E e \in T[f] : e.key = Lo(T, side)
               /\ \E f \in side : \E e \in T[f] : e.key = Hi(T, side)
    <3>1. side # {} /\ Filled(T, side)
      BY <1>1, <1>5, <2>2 DEF Filled
    <3>2. /\ Lo(T, side) \in 0 .. NumKeys /\ Hi(T, side) \in 0 .. NumKeys
          /\ \E f \in side : \E e \in T[f] : e.key = Lo(T, side)
          /\ \E f \in side : \E e \in T[f] : e.key = Hi(T, side)
      BY <3>1, Hull
    <3>3. \A k \in 0 .. NumKeys : k \in Nat
      BY LevelsAssumption
    <3> QED
      BY <3>2, <3>3, Zenon
  <2>3. ASSUME hi < a PROVE \A f \in O : Below(T[f], a)
    <3> DEFINE side == {f \in O : Below(T[f], a)}
    <3>1. direct \subseteq side
      BY <1>1, <1>3, <2>3
    <3>2. Lo(T, side) \in Nat /\ Hi(T, side) \in Nat /\ \E f \in side : \E e \in T[f] : e.key = Hi(T, side)
      BY <2>2, <3>1
    <3>3. Hi(T, side) < a
      BY <3>2 DEF Below
    <3>4. \A f \in O : f \in Meeting(v, T, 0, Lo(T, side), Hi(T, side)) => f \in side
      BY <1>3, <1>5, <3>2, <3>3
    <3> QED
      BY <2>1, <3>1, <3>4
  <2>4. ASSUME lo > b PROVE \A f \in O : Above(T[f], b)
    <3> DEFINE side == {f \in O : Above(T[f], b)}
    <3>1. direct \subseteq side
      BY <1>1, <1>3, <2>4
    <3>2. Lo(T, side) \in Nat /\ Hi(T, side) \in Nat /\ \E f \in side : \E e \in T[f] : e.key = Lo(T, side)
      BY <2>2, <3>1
    <3>3. Lo(T, side) > b
      BY <3>2 DEF Above
    <3>4. \A f \in O : f \in Meeting(v, T, 0, Lo(T, side), Hi(T, side)) => f \in side
      BY <1>3, <1>5, <3>2, <3>3
    <3> QED
      BY <2>1, <3>1, <3>4
  <2> QED
    BY <2>3, <2>4
<1> QED
  BY <1>4, <1>5

-----------------------------------------------------------------------------
(* The inputs of a compaction.                                             *)

\* One of two sets of entries is all before the other.
OneSide(A, B) ==
  \/ \A d \in A, e \in B : Order(d) < Order(e)
  \/ \A d \in A, e \in B : Order(d) > Order(e)

\* There is no range of keys with some of the tables on one side and some on the other.
Linked(T, fs) ==
  \A a, b \in Key :
    a <= b /\ (\A f \in fs : Below(T[f], a) \/ Above(T[f], b))
      => (\A f \in fs : Below(T[f], a)) \/ (\A f \in fs : Above(T[f], b))

\* The inputs of a compaction may be put between the tables of the next level.
Movable(c, v, T) ==
  /\ c.in0 \subseteq Level(v, c.level) /\ c.in1 \subseteq Level(v, c.level + 1)
  /\ Linked(T, c.in0 \cup c.in1)
  /\ \A g \in Level(v, c.level + 1) \ c.in1 : OneSide(T[g], Entries(T, c.in0 \cup c.in1))

\* Entries are in the order of their keys.
LEMMA OrderOfKeys ==
  ASSUME NEW d \in Entry, NEW e \in Entry, d.key < e.key
  PROVE  Order(d) < Order(e)
<1>1. MaxSequence \in Nat /\ d.key \in Nat /\ e.key \in Nat /\ d.seq \in 1 .. MaxSequence /\ e.seq \in 1 .. MaxSequence
  BY LevelsAssumption DEF Entry, Key, Sequence
<1> DEFINE M == MaxSequence + 1
<1>2. M \in Nat
  BY <1>1
<1>3. d.key * M + M <= e.key * M
  <2>1. \A j, k, n \in Nat : j < k => j * n + n <= k * n
    <3>1. \A j, k, n \in Nat : j < k => (k - j) - 1 \in Nat /\ ((k - j) - 1) * n \in Nat
      OBVIOUS
    <3>2. \A j, k, n \in Nat : j < k => k * n = j * n + n + ((k - j) - 1) * n
      OBVIOUS
    <3> QED
      BY <3>1, <3>2
  <2> HIDE DEF M
  <2> QED
    BY <1>1, <1>2, <2>1
<1>4. d.key * M \in Nat /\ e.key * M \in Nat
  BY <1>1, <1>2
<1>5. MaxSequence - d.seq < M /\ MaxSequence - e.seq >= 0 /\ MaxSequence - d.seq \in Nat /\ MaxSequence - e.seq \in Nat
  BY <1>1
<1>6. Order(d) = d.key * M + (MaxSequence - d.seq) /\ Order(e) = e.key * M + (MaxSequence - e.seq)
  BY DEF Order, InternalKey
<1> HIDE DEF M
<1> QED
  BY <1>2, <1>3, <1>4, <1>5, <1>6

\* The order is one of numbers.
LEMMA OrderIsNat == ASSUME NEW e \in Entry PROVE Order(e) \in Nat
<1>1. MaxSequence \in Nat /\ e.key \in Nat /\ e.seq \in 1 .. MaxSequence
  BY LevelsAssumption DEF Entry, Key, Sequence
<1>2. e.key * (MaxSequence + 1) \in Nat /\ MaxSequence - e.seq \in Nat
  BY <1>1
<1> QED
  BY <1>2 DEF Order, InternalKey

\* A range of numbers that are keys.
LEMMA KeyRange == NumKeys \in Nat /\ \A k \in 0 .. NumKeys : k \in Nat
BY LevelsAssumption

\* Tables on one side of a .. b have their range there.
LEMMA HullSides ==
  ASSUME NEW T, NEW fs, Filled(T, fs), fs # {}, NEW a \in Nat, NEW b \in Nat
  PROVE  /\ Lo(T, fs) \in Nat /\ Hi(T, fs) \in Nat
         /\ (\A f \in fs : Below(T[f], a)) => Hi(T, fs) < a
         /\ (\A f \in fs : Above(T[f], b)) => Lo(T, fs) > b
<1>1. /\ Lo(T, fs) \in 0 .. NumKeys /\ Hi(T, fs) \in 0 .. NumKeys
      /\ \E f \in fs : \E e \in T[f] : e.key = Lo(T, fs)
      /\ \E f \in fs : \E e \in T[f] : e.key = Hi(T, fs)
  BY Hull
<1>2. Lo(T, fs) \in Nat /\ Hi(T, fs) \in Nat
  BY <1>1, KeyRange, Zenon
<1> QED
  BY <1>1, <1>2 DEF Below, Above

\* The tables that meet the range of linked ones are linked with them.
LEMMA LinkedMore ==
  ASSUME NEW v, NEW T, NEW l \in Nat, Filled(T, Level(v, l)),
         NEW P, Linked(T, P), Filled(T, P), P # {}
  PROVE  Linked(T, P \cup Overlapping(v, T, l, Lo(T, P), Hi(T, P)))
<1> DEFINE O == Overlapping(v, T, l, Lo(T, P), Hi(T, P))
<1> SUFFICES ASSUME NEW a \in Key, NEW b \in Key, a <= b,
                    \A f \in P \cup O : Below(T[f], a) \/ Above(T[f], b)
             PROVE  (\A f \in P \cup O : Below(T[f], a)) \/ (\A f \in P \cup O : Above(T[f], b))
  BY DEF Linked
<1>1. a \in Nat /\ b \in Nat
  BY DEF Key
<1>2. /\ Lo(T, P) \in Nat /\ Hi(T, P) \in Nat
      /\ (\A f \in P : Below(T[f], a)) => Hi(T, P) < a
      /\ (\A f \in P : Above(T[f], b)) => Lo(T, P) > b
  BY <1>1, HullSides
<1>3. (\A f \in P : Below(T[f], a)) \/ (\A f \in P : Above(T[f], b))
  BY DEF Linked
<1>4. /\ Hi(T, P) < a => \A f \in O : Below(T[f], a)
      /\ Lo(T, P) > b => \A f \in O : Above(T[f], b)
  BY <1>1, <1>2, OverlappingSides
<1> QED
  BY <1>2, <1>3, <1>4

\* The tables a compaction begins with are linked.
LEMMA PickedLinked ==
  ASSUME NEW v, NEW T, Filled(T, DOMAIN v), NEW f \in DOMAIN v, v[f] \in Nat
  PROVE  LET P == Picked(v, T, v[f], f)
         IN f \in P /\ P \subseteq Level(v, v[f]) /\ Linked(T, P)
<1> DEFINE P == Picked(v, T, v[f], f)
<1>1. f \in Level(v, v[f]) /\ T[f] \subseteq Entry /\ T[f] # {}
  BY DEF Level, Filled
<1>2. CASE v[f] # 0
  <2>1. P = {f}
    BY <1>2 DEF Picked
  <2> QED
    BY <1>1, <2>1 DEF Linked
<1>3. CASE v[f] = 0
  <2>1. P = Overlapping(v, T, 0, Smallest(T, f), Largest(T, f))
    BY <1>3 DEF Picked
  <2>2. /\ Smallest(T, f) \in 0 .. NumKeys /\ Largest(T, f) \in 0 .. NumKeys
        /\ \E e \in T[f] : e.key = Smallest(T, f)
        /\ \E e \in T[f] : e.key = Largest(T, f)
        /\ \A e \in T[f] : Smallest(T, f) <= e.key /\ e.key <= Largest(T, f)
    BY <1>1, Ends
  <2>3. Smallest(T, f) \in Nat /\ Largest(T, f) \in Nat
    BY <2>2, KeyRange, Zenon
  <2>4. f \in P
    <3>1. Smallest(T, f) <= Largest(T, f)
      BY <2>2, <2>3
    <3>2. f \in Meeting(v, T, 0, Smallest(T, f), Largest(T, f))
      BY <1>1, <1>3, <3>1 DEF Meeting
    <3> QED
      BY <2>1, <3>2, OverlappingFiles
  <2>5. P \subseteq Level(v, v[f])
    BY <1>3, <2>1, OverlappingFiles
  <2>6. Filled(T, Level(v, 0))
    BY DEF Filled, Level
  <2>7. Linked(T, P)
    <3> SUFFICES ASSUME NEW a \in Key, NEW b \in Key, a <= b, \A g \in P : Below(T[g], a) \/ Above(T[g], b)
                 PROVE  (\A g \in P : Below(T[g], a)) \/ (\A g \in P : Above(T[g], b))
      BY DEF Linked
    <3>1. a \in Nat /\ b \in Nat
      BY DEF Key
    <3>2. /\ Largest(T, f) < a => \A g \in P : Below(T[g], a)
          /\ Smallest(T, f) > b => \A g \in P : Above(T[g], b)
      <4>1. \A g \in Overlapping(v, T, 0, Smallest(T, f), Largest(T, f)) : Below(T[g], a) \/ Above(T[g], b)
        BY <2>1
      <4> QED
        BY <2>1, <2>3, <2>6, <3>1, <4>1, OverlappingSides
    <3>3. Below(T[f], a) \/ Above(T[f], b)
      BY <2>4
    <3>4. Below(T[f], a) => Largest(T, f) < a
      BY <2>2 DEF Below
    <3>5. Above(T[f], b) => Smallest(T, f) > b
      BY <2>2 DEF Above
    <3> QED
      BY <3>2, <3>3, <3>4, <3>5
  <2> QED
    BY <2>4, <2>5, <2>7
<1> QED
  BY <1>2, <1>3

\* A table of a disjoint level that does not meet a range is on one side of all that
\* is in the range, and of all that meets it.
LEMMA OneSided ==
  ASSUME NEW v, NEW T, Filled(T, DOMAIN v), Disjoint(v, T), NEW k \in Nat \ {0},
         NEW P, P \subseteq DOMAIN v, P # {},
         NEW g \in Level(v, k), g \notin Meeting(v, T, k, Lo(T, P), Hi(T, P))
  PROVE  OneSide(T[g], Entries(T, P \cup Meeting(v, T, k, Lo(T, P), Hi(T, P))))
<1> DEFINE in1 == Meeting(v, T, k, Lo(T, P), Hi(T, P))
<1>1. Filled(T, P) /\ T[g] \subseteq Entry /\ T[g] # {} /\ in1 \subseteq Level(v, k) /\ Filled(T, in1)
  BY DEF Filled, Level, Meeting
<1>2. /\ Lo(T, P) \in 0 .. NumKeys /\ Hi(T, P) \in 0 .. NumKeys
      /\ \A f \in P : \A e \in T[f] : Lo(T, P) <= e.key /\ e.key <= Hi(T, P)
  BY <1>1, Hull
<1>3. Lo(T, P) \in Nat /\ Hi(T, P) \in Nat
  BY <1>2, KeyRange, Zenon
<1>4. Above(T[g], Hi(T, P)) \/ Below(T[g], Lo(T, P))
  BY <1>1, <1>3, MeetingSides
<1>5. \A h \in in1 : (\E e \in T[h] : e.key <= Hi(T, P)) /\ (\E e \in T[h] : e.key >= Lo(T, P))
  BY <1>1, <1>3, MeetingSides DEF Filled
<1>6. \A d \in T[g] : d.key \in Nat
  BY <1>1, KeysAreNumbers
<1>7. ASSUME NEW h \in in1 PROVE OneSide(T[g], T[h])
  <2>1. g # h /\ h \in DOMAIN v /\ g \in DOMAIN v /\ v[g] = v[h] /\ v[g] > 0
    BY DEF Meeting, Level
  <2> QED
    BY <2>1 DEF Disjoint, OneSide
<1>8. \A f \in P \cup in1 : \A e \in T[f] : e \in Entry /\ e.key \in Nat /\ Order(e) \in Nat
  BY <1>1, KeysAreNumbers, OrderIsNat DEF Filled
<1>9. \A d \in T[g] : Order(d) \in Nat
  BY <1>1, OrderIsNat
<1>10. CASE Above(T[g], Hi(T, P))
  <2>1. ASSUME NEW f \in P \cup in1, NEW e \in T[f], NEW d \in T[g] PROVE Order(d) > Order(e)
    <3>1. CASE f \in P
      <4>1. e.key < d.key
        BY <1>2, <1>3, <1>6, <1>8, <1>10, <2>1, <3>1 DEF Above
      <4>2. Order(e) < Order(d)
        BY <1>1, <1>8, <2>1, <4>1, OrderOfKeys
      <4> QED
        BY <1>8, <1>9, <2>1, <4>2
    <3>2. CASE f \in in1
      <4>1. PICK e0 \in T[f] : e0.key <= Hi(T, P)
        BY <1>5, <3>2
      <4>2. e0.key < d.key
        BY <1>3, <1>6, <1>8, <1>10, <2>1, <4>1 DEF Above
      <4>3. Order(e0) < Order(d)
        BY <1>1, <1>8, <2>1, <4>2, OrderOfKeys
      <4>4. ~(Order(d) < Order(e0))
        BY <1>8, <1>9, <2>1, <4>3
      <4> QED
        BY <1>7, <2>1, <3>2, <4>4 DEF OneSide
    <3> QED
      BY <3>1, <3>2
  <2> QED
    BY <2>1 DEF OneSide, Entries
<1>11. CASE Below(T[g], Lo(T, P))
  <2>1. ASSUME NEW f \in P \cup in1, NEW e \in T[f], NEW d \in T[g] PROVE Order(d) < Order(e)
    <3>1. CASE f \in P
      <4>1. d.key < e.key
        BY <1>2, <1>3, <1>6, <1>8, <1>11, <2>1, <3>1 DEF Below
      <4> QED
        BY <1>1, <1>8, <2>1, <4>1, OrderOfKeys
    <3>2. CASE f \in in1
      <4>1. PICK e0 \in T[f] : e0.key >= Lo(T, P)
        BY <1>5, <3>2
      <4>2. d.key < e0.key
        BY <1>3, <1>6, <1>8, <1>11, <2>1, <4>1 DEF Below
      <4>3. Order(d) < Order(e0)
        BY <1>1, <1>8, <2>1, <4>2, OrderOfKeys
      <4>4. ~(Order(d) > Order(e0))
        BY <1>8, <1>9, <2>1, <4>3
      <4> QED
        BY <1>7, <2>1, <3>2, <4>4 DEF OneSide
    <3> QED
      BY <3>1, <3>2
  <2> QED
    BY <2>1 DEF OneSide, Entries
<1> QED
  BY <1>4, <1>10, <1>11

\* No table of level 0 outside meets what it finds there.
LEMMA OverlappingClosed ==
  ASSUME NEW v, NEW T, NEW lo, NEW hi, Filled(T, Level(v, 0)), Overlapping(v, T, 0, lo, hi) # {}
  PROVE  LET O == Overlapping(v, T, 0, lo, hi) IN Meeting(v, T, 0, Lo(T, O), Hi(T, O)) \subseteq O
<1> DEFINE direct == Meeting(v, T, 0, lo, hi)
           Closed(fs) == /\ direct \subseteq fs
                         /\ fs # {} => Meeting(v, T, 0, Lo(T, fs), Hi(T, fs)) \subseteq fs
           O == Overlapping(v, T, 0, lo, hi)
<1>1. O = {f \in Level(v, 0) : \A fs \in {fs \in SUBSET Level(v, 0) : Closed(fs)} : f \in fs}
  BY DEF Overlapping
<1>2. ASSUME NEW fs \in SUBSET Level(v, 0), Closed(fs)
      PROVE  Meeting(v, T, 0, Lo(T, O), Hi(T, O)) \subseteq fs
  <2>1. O \subseteq fs
    BY <1>1, <1>2
  <2> HIDE DEF O
  <2>2. O # {} /\ fs # {} /\ Filled(T, fs) /\ Filled(T, O)
    BY <2>1 DEF Filled, O
  <2>3. Lo(T, fs) <= Lo(T, O) /\ Hi(T, O) <= Hi(T, fs)
    BY <2>1, <2>2, HullGrows
  <2>4. Lo(T, fs) \in 0 .. NumKeys /\ Hi(T, fs) \in 0 .. NumKeys /\ Lo(T, O) \in 0 .. NumKeys
        /\ Hi(T, O) \in 0 .. NumKeys
    BY <2>2, Hull
  <2>5. Lo(T, fs) \in Nat /\ Hi(T, fs) \in Nat /\ Lo(T, O) \in Nat /\ Hi(T, O) \in Nat
    BY <2>4, KeyRange, Zenon
  <2>6. Meeting(v, T, 0, Lo(T, O), Hi(T, O)) \subseteq Meeting(v, T, 0, Lo(T, fs), Hi(T, fs))
    BY <2>3, <2>5, MeetingGrows
  <2> QED
    BY <1>2, <2>2, <2>6
<1>3. Meeting(v, T, 0, Lo(T, O), Hi(T, O)) \subseteq Level(v, 0)
  BY DEF Meeting
<1> HIDE DEF Closed
<1> QED
  BY <1>1, <1>2, <1>3

\* PickCompaction and SetupOtherInputs: the inputs of the next level are all that meet
\* those of the first, and no other table of level 0 meets its inputs there.
LEMMA InputsMeet ==
  ASSUME NEW v, NEW T, Filled(T, DOMAIN v), IsFiniteSet(DOMAIN v), NEW f \in DOMAIN v, v[f] \in Nat
  PROVE  LET c == Inputs(v, T, v[f], Picked(v, T, v[f], f))
         IN /\ c.level = v[f] /\ f \in c.in0 /\ c.in0 \subseteq Level(v, v[f])
            /\ c.in1 = Meeting(v, T, v[f] + 1, Lo(T, c.in0), Hi(T, c.in0))
            /\ v[f] = 0 => Meeting(v, T, 0, Lo(T, c.in0), Hi(T, c.in0)) \subseteq c.in0
            /\ Linked(T, c.in0 \cup c.in1)
<1> DEFINE l == v[f]
           P == Picked(v, T, l, f)
           in1 == Overlapping(v, T, l + 1, Lo(T, P), Hi(T, P))
           all == P \cup in1
           more == Overlapping(v, T, l, Lo(T, all), Hi(T, all))
           more1 == Overlapping(v, T, l + 1, Lo(T, more), Hi(T, more))
           grow == in1 # {} /\ Cardinality(more) > Cardinality(P) /\ Cardinality(more1) = Cardinality(in1)
           c == Inputs(v, T, l, P)
<1> SUFFICES /\ c.level = l /\ f \in c.in0 /\ c.in0 \subseteq Level(v, l)
             /\ c.in1 = Meeting(v, T, l + 1, Lo(T, c.in0), Hi(T, c.in0))
             /\ l = 0 => Meeting(v, T, 0, Lo(T, c.in0), Hi(T, c.in0)) \subseteq c.in0
             /\ Linked(T, c.in0 \cup c.in1)
  OBVIOUS
<1>1. c.in0 = (IF grow THEN more ELSE P) /\ c.in1 = in1 /\ c.level = l
  BY DEF Inputs
<1>2. l \in Nat /\ l + 1 \in Nat \ {0}
  OBVIOUS
<1>3. f \in P /\ P \subseteq Level(v, l) /\ Linked(T, P)
  BY PickedLinked
<1>4. \A m : Level(v, m) \subseteq DOMAIN v /\ Filled(T, Level(v, m))
  BY DEF Level, Filled
<1>5. l = 0 => Meeting(v, T, 0, Lo(T, P), Hi(T, P)) \subseteq P
  <2>1. l = 0 => P = Overlapping(v, T, 0, Smallest(T, f), Largest(T, f))
    BY DEF Picked
  <2> QED
    BY <1>3, <1>4, <2>1, OverlappingClosed
<1> HIDE DEF c, P
<1>6. Filled(T, P) /\ P # {} /\ P \subseteq DOMAIN v
  BY <1>3, <1>4 DEF Filled
<1>7. Linked(T, all)
  BY <1>2, <1>3, <1>4, <1>6, LinkedMore
<1>8. \A lo, hi : /\ Overlapping(v, T, l + 1, lo, hi) = Meeting(v, T, l + 1, lo, hi)
                   /\ Overlapping(v, T, l + 1, lo, hi) \subseteq Level(v, l + 1)
  BY <1>2, OverlappingFiles
<1>9. in1 = Meeting(v, T, l + 1, Lo(T, P), Hi(T, P)) /\ in1 \subseteq Level(v, l + 1)
  BY <1>8
<1>10. CASE ~grow
  <2>1. c.in0 = P /\ c.in1 = in1
    BY <1>1, <1>10
  <2> HIDE DEF in1
  <2> QED
    BY <1>1, <1>3, <1>5, <1>7, <1>9, <2>1
<1>11. CASE grow
  <2>1. c.in0 = more /\ c.in1 = in1
    BY <1>1, <1>11
  <2>2. Filled(T, all) /\ all # {} /\ all \subseteq DOMAIN v
    BY <1>4, <1>6, <1>9 DEF Filled
  <2>3. more \subseteq Level(v, l) /\ Meeting(v, T, l, Lo(T, all), Hi(T, all)) \subseteq more
    BY <1>2, OverlappingFiles
  <2>4. /\ Lo(T, all) \in Nat /\ Hi(T, all) \in Nat
        /\ \A g \in all : \A e \in T[g] : Lo(T, all) <= e.key /\ e.key <= Hi(T, all)
    <3>1. /\ Lo(T, all) \in 0 .. NumKeys /\ Hi(T, all) \in 0 .. NumKeys
          /\ \A g \in all : \A e \in T[g] : Lo(T, all) <= e.key /\ e.key <= Hi(T, all)
      BY <2>2, Hull
    <3> HIDE DEF all
    <3> QED
      BY <3>1, KeyRange, Zenon
  <2>5. P \subseteq more
    <3> SUFFICES ASSUME NEW g \in P PROVE g \in more
      OBVIOUS
    <3>1. /\ Smallest(T, g) \in 0 .. NumKeys /\ Largest(T, g) \in 0 .. NumKeys
          /\ \E e \in T[g] : e.key = Smallest(T, g)
          /\ \E e \in T[g] : e.key = Largest(T, g)
      BY <1>6, Ends DEF Filled
    <3>2. g \in all
      OBVIOUS
    <3> HIDE DEF all
    <3>3. Smallest(T, g) <= Hi(T, all) /\ Largest(T, g) >= Lo(T, all)
      BY <2>4, <3>1, <3>2, KeyRange
    <3>4. g \in Meeting(v, T, l, Lo(T, all), Hi(T, all))
      BY <1>3, <3>3 DEF Meeting
    <3> QED
      BY <2>3, <3>4
  <2>6. Filled(T, more) /\ more # {} /\ more \subseteq DOMAIN v
    BY <1>3, <1>4, <2>3, <2>5 DEF Filled
  <2>7. more1 = Meeting(v, T, l + 1, Lo(T, more), Hi(T, more)) /\ more1 \subseteq Level(v, l + 1)
    <3> HIDE DEF more
    <3> QED
      BY <1>8
  <2>8. in1 \subseteq more1
    <3>1. Lo(T, more) <= Lo(T, P) /\ Hi(T, P) <= Hi(T, more)
      BY <1>6, <2>5, <2>6, HullGrows
    <3>2. Lo(T, more) \in 0 .. NumKeys /\ Hi(T, more) \in 0 .. NumKeys
      BY <2>6, Hull
    <3>3. Lo(T, P) \in 0 .. NumKeys /\ Hi(T, P) \in 0 .. NumKeys
      BY <1>6, Hull
    <3> HIDE DEF more, in1, more1
    <3>4. Lo(T, more) \in Nat /\ Hi(T, more) \in Nat /\ Lo(T, P) \in Nat /\ Hi(T, P) \in Nat
      BY <3>2, <3>3, KeyRange, Zenon
    <3>5. Meeting(v, T, l + 1, Lo(T, P), Hi(T, P)) \subseteq Meeting(v, T, l + 1, Lo(T, more), Hi(T, more))
      BY <1>4, <3>1, <3>4, MeetingGrows
    <3> QED
      BY <1>9, <2>7, <3>5
  <2>9. in1 = more1
    <3>1. IsFiniteSet(more1)
      BY <1>4, <2>7, FS_Subset
    <3>2. Cardinality(more1) = Cardinality(in1)
      BY <1>11
    <3> HIDE DEF in1, more1
    <3> QED
      BY <2>8, <3>1, <3>2, FS_Subset
  <2>10. Linked(T, more \cup in1)
    <3>1. Linked(T, all \cup more)
      BY <1>2, <1>4, <1>7, <2>2, LinkedMore
    <3>2. all \cup more = more \cup in1
      BY <2>5
    <3> HIDE DEF all, more, in1
    <3> QED
      BY <3>1, <3>2
  <2>11. l = 0 => Meeting(v, T, 0, Lo(T, more), Hi(T, more)) \subseteq more
    <3> HIDE DEF all
    <3> QED
      BY <1>4, <2>6, OverlappingClosed
  <2> HIDE DEF in1, all, more, more1, grow
  <2> QED
    BY <1>1, <1>3, <2>1, <2>3, <2>5, <2>7, <2>9, <2>10, <2>11
<1> QED
  BY <1>10, <1>11

\* The inputs may be put between the tables of the next level.
LEMMA InputsMovable ==
  ASSUME NEW v, NEW T, Filled(T, DOMAIN v), Disjoint(v, T), IsFiniteSet(DOMAIN v),
         NEW f \in DOMAIN v, v[f] \in Nat
  PROVE  LET c == Inputs(v, T, v[f], Picked(v, T, v[f], f))
         IN f \in c.in0 /\ Movable(c, v, T)
<1> DEFINE l == v[f]
           c == Inputs(v, T, l, Picked(v, T, l, f))
<1>1. /\ c.level = l /\ f \in c.in0 /\ c.in0 \subseteq Level(v, l)
      /\ c.in1 = Meeting(v, T, l + 1, Lo(T, c.in0), Hi(T, c.in0))
      /\ Linked(T, c.in0 \cup c.in1)
  BY InputsMeet
<1> HIDE DEF c
<1>2. c.in1 \subseteq Level(v, l + 1) /\ c.in0 \subseteq DOMAIN v /\ c.in0 # {}
  BY <1>1 DEF Meeting, Level
<1>3. l + 1 \in Nat \ {0}
  OBVIOUS
<1>4. \A g \in Level(v, l + 1) \ c.in1 : OneSide(T[g], Entries(T, c.in0 \cup c.in1))
  BY <1>1, <1>2, <1>3, OneSided
<1>5. f \in c.in0 /\ Movable(c, v, T)
  BY <1>1, <1>2, <1>4 DEF Movable
<1> QED
  BY <1>5 DEF c

-----------------------------------------------------------------------------
(* What an edit does to the levels.                                        *)

\* The tables of a version are the same in both.
Agree(v, T, U) == \A f \in DOMAIN v : U[f] = T[f]

\* Only the tables of the version count.
LEMMA DisjointFrame ==
  ASSUME NEW v, NEW T, NEW U, Agree(v, T, U), Disjoint(v, T) PROVE Disjoint(v, U)
BY DEF Agree, Disjoint

\* For the inputs of a compaction too.
LEMMA MovableFrame ==
  ASSUME NEW v, NEW T, NEW U, Agree(v, T, U), NEW c, NEW d, Movable(c, v, T),
         d.level = c.level, d.in0 = c.in0, d.in1 = c.in1
  PROVE  Movable(d, v, U)
<1> DEFINE fs == c.in0 \cup c.in1
<1>1. fs \subseteq DOMAIN v /\ \A g \in Level(v, c.level + 1) : g \in DOMAIN v
  BY DEF Movable, Level
<1>2. \A f \in fs : U[f] = T[f]
  BY <1>1 DEF Agree
<1>3. Entries(U, fs) = Entries(T, fs)
  BY <1>2 DEF Entries
<1>4. Linked(T, fs)
  BY DEF Movable
<1>5. Linked(U, fs)
  <2> HIDE DEF fs
  <2> QED
    BY <1>2, <1>4 DEF Linked
<1>6. \A g \in Level(v, c.level + 1) \ c.in1 : OneSide(U[g], Entries(U, fs))
  <2>1. \A g \in Level(v, c.level + 1) \ c.in1 : OneSide(T[g], Entries(T, fs)) /\ U[g] = T[g]
    BY <1>1 DEF Movable, Agree
  <2> HIDE DEF fs
  <2> QED
    BY <1>3, <2>1
<1>7. c.in0 \subseteq Level(v, c.level) /\ c.in1 \subseteq Level(v, c.level + 1)
  BY DEF Movable
<1> QED
  BY <1>5, <1>6, <1>7 DEF Movable

\* Either of two sets may be looked at first.
LEMMA OneSideSwaps ==
  ASSUME NEW A, NEW B, A \subseteq Entry, B \subseteq Entry, OneSide(A, B) PROVE OneSide(B, A)
<1>1. \A e \in A \cup B : Order(e) \in Nat
  BY OrderIsNat
<1> QED
  BY <1>1 DEF OneSide

\* A version with one table more, or one on another level.
LEMMA AddDisjoint ==
  ASSUME NEW v, NEW T, NEW file, NEW p, NEW e, e.drop = {}, e.add = [f \in {file} |-> p],
         Filled(T, DOMAIN v \cup {file}),
         Disjoint(v, T), p > 0 => \A g \in Level(v, p) \ {file} : OneSide(T[g], T[file])
  PROVE  Disjoint(Edited(v, e), T)
<1> DEFINE w == Edited(v, e)
<1>1. DOMAIN w = DOMAIN v \cup {file} /\ w[file] = p /\ \A f \in DOMAIN v \ {file} : w[f] = v[f]
  BY DEF Edited
<1> HIDE DEF w
<1>2. ASSUME NEW h \in DOMAIN w, h # file, w[h] = p, p > 0
      PROVE  OneSide(T[h], T[file]) /\ OneSide(T[file], T[h])
  <2>1. OneSide(T[h], T[file])
    BY <1>1, <1>2 DEF Level
  <2>2. T[h] \subseteq Entry /\ T[file] \subseteq Entry
    BY <1>1 DEF Filled
  <2> QED
    BY <2>1, <2>2, OneSideSwaps
<1>3. ASSUME NEW f \in DOMAIN w, NEW g \in DOMAIN w, f # g, w[f] = w[g], w[f] > 0
      PROVE  OneSide(T[f], T[g])
  <2>1. CASE f = file \/ g = file
    BY <1>1, <1>2, <1>3, <2>1
  <2>2. CASE f # file /\ g # file
    <3>1. f \in DOMAIN v /\ g \in DOMAIN v /\ v[f] = v[g] /\ v[f] > 0
      BY <1>1, <1>3, <2>2
    <3> QED
      BY <1>3, <3>1 DEF Disjoint, OneSide
  <2> QED
    BY <2>1, <2>2
<1> QED
  BY <1>3 DEF Disjoint, OneSide, w

\* A table that no table meets down to its own level goes between the tables there,
\* and leaves the inputs of a compaction together.
LEMMA FlushFits ==
  ASSUME NEW v, NEW T, NEW file, file \notin DOMAIN v, Filled(T, DOMAIN v \cup {file}),
         NEW p \in Nat, NEW e, e.drop = {}, e.add = [f \in {file} |-> p],
         NEW lo \in Key, NEW hi \in Key, lo <= hi, \A d \in T[file] : lo <= d.key /\ d.key <= hi,
         p > 0 => \A f \in DOMAIN v : v[f] <= p => Above(T[f], hi) \/ Below(T[f], lo),
         Disjoint(v, T), \A f \in DOMAIN v : v[f] \in Nat
  PROVE  /\ Disjoint(Edited(v, e), T)
         /\ \A c : c.level \in Nat /\ Movable(c, v, T) => Movable(c, Edited(v, e), T)
<1>1. lo \in Nat /\ hi \in Nat
  BY DEF Key
<1>2. \A f \in DOMAIN v \cup {file} : \A d \in T[f] : d \in Entry /\ d.key \in Nat /\ Order(d) \in Nat
  BY KeysAreNumbers, OrderIsNat DEF Filled
<1>3. ASSUME NEW f \in DOMAIN v, Above(T[f], hi)
      PROVE  \A d \in T[file], b \in T[f] : Order(d) < Order(b)
  <2>1. \A d \in T[file], b \in T[f] : d.key < b.key
    BY <1>1, <1>2, <1>3 DEF Above
  <2> QED
    BY <1>2, <2>1, OrderOfKeys
<1>4. ASSUME NEW f \in DOMAIN v, Below(T[f], lo)
      PROVE  \A d \in T[file], b \in T[f] : Order(d) > Order(b)
  <2>1. \A d \in T[file], b \in T[f] : b.key < d.key
    BY <1>1, <1>2, <1>4 DEF Below
  <2>2. \A d \in T[file], b \in T[f] : Order(b) < Order(d)
    BY <1>2, <2>1, OrderOfKeys
  <2> QED
    BY <1>2, <2>2
<1>5. Disjoint(Edited(v, e), T)
  <2>1. ASSUME p > 0, NEW g \in Level(v, p) PROVE OneSide(T[g], T[file])
    <3>1. g \in DOMAIN v /\ v[g] <= p
      BY DEF Level
    <3>2. OneSide(T[file], T[g])
      BY <1>3, <1>4, <2>1, <3>1 DEF OneSide
    <3>3. T[g] \subseteq Entry /\ T[file] \subseteq Entry
      BY <3>1 DEF Filled
    <3> QED
      BY <3>2, <3>3, OneSideSwaps
  <2> QED
    BY <2>1, AddDisjoint
<1>6. ASSUME NEW c, c.level \in Nat, Movable(c, v, T) PROVE Movable(c, Edited(v, e), T)
  <2> DEFINE w == Edited(v, e)
             fs == c.in0 \cup c.in1
  <2>1. DOMAIN w = DOMAIN v \cup {file} /\ w[file] = p /\ \A f \in DOMAIN v : w[f] = v[f]
    BY DEF Edited
  <2> HIDE DEF w
  <2>2. c.in0 \subseteq Level(v, c.level) /\ c.in1 \subseteq Level(v, c.level + 1)
    BY <1>6 DEF Movable
  <2>3. c.in0 \subseteq Level(w, c.level) /\ c.in1 \subseteq Level(w, c.level + 1)
    BY <2>1, <2>2 DEF Level
  <2>4. ASSUME p = c.level + 1 PROVE OneSide(T[file], Entries(T, fs))
    <3>1. p > 0 /\ \A f \in fs : f \in DOMAIN v /\ v[f] <= p
      BY <1>6, <2>2, <2>4 DEF Level
    <3>2. \A f \in fs : Below(T[f], lo) \/ Above(T[f], hi)
      BY <3>1
    <3>3. Linked(T, fs)
      BY <1>6 DEF Movable
    <3>4. (\A f \in fs : Below(T[f], lo)) \/ (\A f \in fs : Above(T[f], hi))
      BY <3>2, <3>3 DEF Linked
    <3> HIDE DEF fs
    <3> QED
      BY <1>3, <1>4, <3>1, <3>4 DEF OneSide, Entries
  <2>5. ASSUME NEW g \in Level(w, c.level + 1) \ c.in1 PROVE OneSide(T[g], Entries(T, fs))
    <3>1. CASE g = file
      BY <2>1, <2>4, <3>1 DEF Level
    <3>2. CASE g # file
      <4>1. g \in Level(v, c.level + 1) \ c.in1
        BY <2>1, <3>2 DEF Level
      <4> QED
        BY <1>6, <4>1 DEF Movable
    <3> QED
      BY <3>1, <3>2
  <2> QED
    BY <1>6, <2>3, <2>5 DEF Movable, w
<1> QED
  BY <1>5, <1>6

\* The outputs of a compaction stand where its inputs stood.
LEMMA MergeFits ==
  ASSUME NEW v, NEW T, NEW U, Agree(v, T, U), Filled(T, DOMAIN v), Disjoint(v, T),
         NEW c, c.level \in Nat, Movable(c, v, T),
         NEW new, new \cap DOMAIN v = {},
         NEW e, e.drop = c.in0 \cup c.in1, e.add = [f \in new |-> c.level + 1],
         \A f \in new : U[f] \subseteq Entry /\ U[f] \subseteq Entries(T, c.in0 \cup c.in1),
         \A f, g \in new : f # g => OneSide(U[f], U[g])
  PROVE  Disjoint(Edited(v, e), U)
<1> DEFINE w == Edited(v, e)
           fs == c.in0 \cup c.in1
           l == c.level + 1
<1>1. /\ DOMAIN w = (DOMAIN v \ fs) \cup new
      /\ \A f \in new : w[f] = l
      /\ \A f \in DOMAIN v \ fs : w[f] = v[f]
  BY DEF Edited
<1>2. ASSUME NEW g \in DOMAIN v \ fs, v[g] = l, NEW f \in new PROVE OneSide(U[g], U[f]) /\ OneSide(U[f], U[g])
  <2>1. g \in Level(v, l) \ c.in1
    BY <1>2 DEF Level
  <2>2. OneSide(T[g], Entries(T, fs)) /\ U[g] = T[g] /\ T[g] \subseteq Entry
    BY <1>2, <2>1 DEF Movable, Agree, Filled
  <2>3. U[f] \subseteq Entries(T, fs) /\ U[f] \subseteq Entry
    OBVIOUS
  <2> HIDE DEF fs
  <2>4. OneSide(U[g], U[f])
    BY <2>2, <2>3 DEF OneSide
  <2> QED
    BY <2>2, <2>3, <2>4, OneSideSwaps
<1>3. ASSUME NEW f \in DOMAIN w, NEW g \in DOMAIN w, f # g, w[f] = w[g], w[f] > 0
      PROVE  OneSide(U[f], U[g])
  <2> HIDE DEF w, fs, l
  <2>1. CASE f \in new /\ g \in new
    BY <1>3, <2>1
  <2>2. CASE f \in new /\ g \notin new
    <3>1. g \in DOMAIN v \ fs /\ v[g] = l
      BY <1>1, <1>3, <2>2
    <3> QED
      BY <1>2, <2>2, <3>1
  <2>3. CASE f \notin new /\ g \in new
    <3>1. f \in DOMAIN v \ fs /\ v[f] = l
      BY <1>1, <1>3, <2>3
    <3> QED
      BY <1>2, <2>3, <3>1
  <2>4. CASE f \notin new /\ g \notin new
    <3>1. f \in DOMAIN v /\ g \in DOMAIN v /\ v[f] = v[g] /\ v[f] > 0
      BY <1>1, <1>3, <2>4
    <3>2. OneSide(T[f], T[g])
      BY <1>3, <3>1 DEF Disjoint, OneSide
    <3> QED
      BY <3>1, <3>2 DEF Agree
  <2> QED
    BY <2>1, <2>2, <2>3, <2>4
<1> QED
  BY <1>3 DEF Disjoint, OneSide, w

-----------------------------------------------------------------------------
(* Levels.                                                                 *)

\* The levels are disjoint in the version, in the manifest's and in the one an edit will
\* make, and the inputs of the compaction may be moved.
LevelsInv ==
  /\ LevelsDisjoint
  /\ \A m \in manifest : Disjoint(m.version, tables)
  /\ up = "open" /\ (bg.at # "idle" \/ ~bgError) => \A m \in manifest : m.version = version
  /\ up # "open" => \A m, d \in manifest : m = d
  /\ bg.at = "edit" => Disjoint(Edited(version, bg.edit), tables)
  /\ bg.at = "merge" \/ (bg.at = "build" /\ bg.comp # None) => Movable(bg.comp, version, tables)
  /\ bg.at = "edit" /\ bg.file # 0 /\ bg.comp # None => Movable(bg.comp, Edited(version, bg.edit), tables)

\* A flush within a compaction whose manifest record fails: the compaction goes on, and
\* tries it again.
Retried == InstallFails /\ Flushing /\ bg.comp # None

\* A merge cuts an output between two entries of a key.
Cut ==
  /\ Merge
  /\ LET outs == Outputs(bg.comp, tables, bg.comp.oldest)
     IN \E i, j \in DOMAIN outs : i # j /\ \E d \in outs[i], e \in outs[j] : d.key = e.key

\* The entries of a set have numbers up to s.
UpTo(A, s) == \A e \in A : e.seq <= s

\* The tables of the version, and of the manifest's states, are there.
LEMMA TablesFilled ==
  ASSUME TypesInv
  PROVE  /\ Filled(tables, DOMAIN version) /\ DOMAIN version \subseteq DOMAIN tables
         /\ \A m \in manifest : DOMAIN m.version \subseteq DOMAIN tables
         /\ \A f \in DOMAIN version : f \in Nat /\ f < nextFile /\ version[f] \in Nat
         /\ IsFiniteSet(DOMAIN version)
<1>1. /\ DOMAIN version \subseteq DOMAIN tables
      /\ \A m \in manifest : DOMAIN m.version \subseteq DOMAIN tables
  BY DEF TypesInv, TablesInv
<1>2. Filled(tables, DOMAIN version)
  BY <1>1 DEF TypesInv, EntriesInv, Filled
<1>3. \A f \in DOMAIN version : f \in Nat /\ f < nextFile /\ version[f] \in Nat
  BY LevelsAssumption DEF TypesInv, FilesInv, VersionOK
<1>4. nextFile \in Nat
  BY NumbersTyped DEF TypesInv
<1>5. DOMAIN version \subseteq 0 .. nextFile
  BY <1>3, <1>4
<1>6. IsFiniteSet(0 .. nextFile)
  BY <1>4, FS_Interval
<1> QED
  BY <1>1, <1>2, <1>3, <1>5, <1>6, FS_Subset

\* What is to be shown after a step.
LEMMA LevelsAfter ==
  ASSUME Disjoint(version', tables'), \A m \in manifest' : Disjoint(m.version, tables'),
         up' = "open" /\ (bg'.at # "idle" \/ ~bgError') => \A m \in manifest' : m.version = version',
         up' # "open" => \A m, d \in manifest' : m = d,
         bg'.at = "edit" => Disjoint(Edited(version', bg'.edit), tables'),
         bg'.at = "merge" \/ (bg'.at = "build" /\ bg'.comp # None) => Movable(bg'.comp, version', tables'),
         bg'.at = "edit" /\ bg'.file # 0 /\ bg'.comp # None => Movable(bg'.comp, Edited(version', bg'.edit), tables')
  PROVE  LevelsInv'
<1>1. LevelsDisjoint'
  BY DEF LevelsDisjoint, Disjoint, Order, InternalKey
<1>2. \A m \in manifest' : Disjoint(m.version, tables)'
  BY DEF Disjoint, Order, InternalKey
<1>3. bg'.at = "edit" => Disjoint(Edited(version, bg.edit), tables)'
  BY DEF Disjoint, Order, InternalKey, Edited
<1>4. bg'.at = "merge" \/ (bg'.at = "build" /\ bg'.comp # None) => Movable(bg.comp, version, tables)'
  BY DEF Movable, Linked, Level, OneSide, Entries, Below, Above, Order, InternalKey
<1>5. bg'.at = "edit" /\ bg'.file # 0 /\ bg'.comp # None => Movable(bg.comp, Edited(version, bg.edit), tables)'
  BY DEF Movable, Linked, Level, OneSide, Entries, Below, Above, Order, InternalKey, Edited
<1> QED
  BY <1>1, <1>2, <1>3, <1>4, <1>5 DEF LevelsInv

\* Writers, readers, and steps that change neither files nor the thread.
LEMMA OthersLevels ==
  ASSUME LevelsInv, UNCHANGED <<tables, manifest, up, version, bg>>, bgError => bgError'
  PROVE  LevelsInv'
BY LevelsAfter DEF LevelsInv, LevelsDisjoint

\* A deletion leaves the tables it does not take as they are.
LEMMA Deletes ==
  ASSUME NEW v, NEW log, NEW comp, NEW writing, NEW failed, DeleteObsoleteFiles(v, log, comp, writing, failed)
  PROVE  /\ \A f \in DOMAIN tables' : f \in DOMAIN tables /\ tables'[f] = tables[f]
         /\ failed => UNCHANGED tables
BY DEF DeleteObsoleteFiles, CannotTell, Restrict

\* Steps of the thread that leave the version and the manifest alone.
LEMMA ThreadLevels ==
  ASSUME LevelsInv, UNCHANGED <<manifest, up, version>>, up = "open",
         Agree(version, tables, tables'), \A m \in manifest : Agree(m.version, tables, tables'),
         bg'.at # "idle" \/ ~bgError' => bg.at # "idle" \/ ~bgError,
         bg'.at = "edit" => Disjoint(Edited(version, bg'.edit), tables'),
         bg'.at = "merge" \/ (bg'.at = "build" /\ bg'.comp # None) => Movable(bg'.comp, version, tables'),
         bg'.at = "edit" /\ bg'.file # 0 /\ bg'.comp # None => Movable(bg'.comp, Edited(version, bg'.edit), tables')
  PROVE  LevelsInv'
<1>1. Disjoint(version, tables') /\ \A m \in manifest : Disjoint(m.version, tables')
  BY DisjointFrame DEF LevelsInv, LevelsDisjoint
<1>2. up = "open" /\ (bg'.at # "idle" \/ ~bgError') => \A m \in manifest : m.version = version
  BY DEF LevelsInv
<1> QED
  BY <1>1, <1>2, LevelsAfter

\* A call that ends without an edit.
LEMMA CallEndsLevels ==
  ASSUME TypesInv, LevelsInv, NothingToDo \/ BuildTableFails \/ MergeFails PROVE LevelsInv'
<1>1. UNCHANGED <<manifest, up, version, tables>>
  <2>1. CASE NothingToDo \/ BuildTableFails
    BY <2>1 DEF NothingToDo, BuildTableFails, disk_, files_
  <2>2. CASE MergeFails
    <3>1. DeleteObsoleteFiles(version, logNumber, None, pending', TRUE) /\ UNCHANGED <<manifest, up, version>>
      BY <2>2 DEF MergeFails, files_
    <3> QED
      BY <3>1, Deletes
  <2> QED
    BY <2>1, <2>2
<1>2. /\ up = "open"
      /\ \/ bg' = Idle
         \/ bg'.at = "merge" /\ bg'.comp = bg.comp /\ bg.comp # None /\ bg.at \in {"build", "edit"}
  BY CallEnds DEF TypesInv
<1>3. bgError' = TRUE \/ (bg.at = "idle" /\ bg' = Idle /\ UNCHANGED bgError)
  BY DEF NothingToDo, BuildTableFails, MergeFails, EndCall
<1>4. bg.at \in {"idle", "build", "merge"}
  BY DEF NothingToDo, BuildTableFails, MergeFails
<1>5. Agree(version, tables, tables') /\ \A m \in manifest : Agree(m.version, tables, tables')
  BY <1>1 DEF Agree
<1>6. bg'.at # "idle" \/ ~bgError' => bg.at # "idle" \/ ~bgError
  BY <1>2, <1>3 DEF Idle
<1>7. bg'.at \in {"idle", "merge"}
  BY <1>2 DEF Idle
<1>8. bg'.at = "merge" => Movable(bg'.comp, version, tables')
  BY <1>1, <1>2, <1>4, <1>7 DEF LevelsInv, Idle
<1> QED
  BY <1>1, <1>2, <1>5, <1>6, <1>7, <1>8, ThreadLevels

\* A flush begins, perhaps within a compaction.
LEMMA BeginFlushLevels == ASSUME TypesInv, LevelsInv, BeginFlush PROVE LevelsInv'
<1>1. /\ UNCHANGED <<manifest, up, version, tables, bgError>>
      /\ (bg.at = "idle" /\ ~bgError) \/ bg.at = "merge"
      /\ bg' = [bg EXCEPT !.at = "build", !.file = nextFile]
  BY DEF BeginFlush, disk_, files_
<1>2. bg'.at = "build" /\ bg'.comp = bg.comp /\ (bg.at = "idle" => bg.comp = None)
  BY <1>1 DEF TypesInv, TablesInv, ThreadInv, ThreadRecord
<1>3. up = "open"
  BY ThreadIsOpen DEF TypesInv
<1>4. Agree(version, tables, tables') /\ \A m \in manifest : Agree(m.version, tables, tables')
  BY <1>1 DEF Agree
<1>5. bg'.comp # None => Movable(bg'.comp, version, tables')
  BY <1>1, <1>2 DEF LevelsInv
<1> QED
  BY <1>1, <1>2, <1>3, <1>4, <1>5, ThreadLevels

\* What BuildTable makes: a table of the memory table that waits, with its range, and an
\* edit that puts it on a level such that no table down to there meets the range.
LEMMA BuildTableMakes ==
  ASSUME TypesInv, BuildTable
  PROVE  \E p \in Nat, lo, hi \in Key :
           /\ up = "open" /\ bg.at = "build" /\ bg'.at = "edit" /\ bg'.file = bg.file /\ bg'.comp = bg.comp
           /\ bg'.edit.add = [f \in {bg.file} |-> p] /\ bg'.edit.drop = {}
           /\ bg'.edit.log = logfile /\ bg'.edit.seq = lastSeq
           /\ UNCHANGED <<manifest, up, version, bgError>>
           /\ bg.file # 0 /\ bg.file \notin DOMAIN version
           /\ imm # None /\ tables'[bg.file] = imm
           /\ Agree(version, tables, tables') /\ \A m \in manifest : Agree(m.version, tables, tables')
           /\ Filled(tables', DOMAIN version \cup {bg.file})
           /\ lo <= hi /\ \A d \in imm : lo <= d.key /\ d.key <= hi
           /\ p > 0 => \A f \in DOMAIN version : version[f] <= p => Above(tables'[f], hi) \/ Below(tables'[f], lo)
<1> DEFINE keys == {d.key : d \in imm}
           lo == Min(keys)
           hi == Max(keys)
           p == PickLevel(version, tables, lo, hi)
<1>1. /\ up = "open" /\ bg.at = "build" /\ bg'.at = "edit" /\ bg'.file = bg.file /\ bg'.comp = bg.comp
      /\ bg'.edit.add = [f \in {bg.file} |-> p] /\ bg'.edit.drop = {}
      /\ bg'.edit.log = logfile /\ bg'.edit.seq = lastSeq
  BY BuildTableDoes DEF TypesInv
<1>2. UNCHANGED <<manifest, up, version, bgError>> /\ tables' = Over([f \in {bg.file} |-> imm], tables)
  BY DEF BuildTable, files_
<1>3. imm \subseteq Entry /\ imm # {} /\ imm # None
  BY <1>1 DEF TypesInv, EntriesInv
<1>4. bg.file # 0 /\ bg.file \notin DOMAIN version /\ \A m \in manifest : bg.file \notin DOMAIN m.version
  <2>1. /\ bg.file # 0 /\ bg.file \in Nat /\ VersionOK(version, bg.file)
        /\ \A m \in manifest : m.next <= bg.file /\ VersionOK(m.version, m.next) /\ m.next \in Nat
    BY <1>1, NumbersTyped DEF TypesInv, FilesInv
  <2> QED
    BY <2>1 DEF VersionOK
<1>5. /\ tables'[bg.file] = imm
      /\ Agree(version, tables, tables') /\ \A m \in manifest : Agree(m.version, tables, tables')
  BY <1>2, <1>4, TablesFilled DEF Over, Agree
<1>6. Filled(tables, DOMAIN version) /\ \A f \in DOMAIN version : version[f] \in Nat
  BY TablesFilled
<1>7. Filled(tables', DOMAIN version \cup {bg.file})
  BY <1>3, <1>5, <1>6 DEF Filled, Agree
<1>8. lo \in Key /\ hi \in Key /\ lo <= hi /\ \A d \in imm : lo <= d.key /\ d.key <= hi
  <2>1. keys \subseteq Key /\ keys # {} /\ NumKeys \in Nat
    BY <1>3, LevelsAssumption DEF Entry
  <2>2. keys \subseteq Nat /\ keys \subseteq 0 .. NumKeys
    BY <2>1 DEF Key
  <2>3. lo \in keys /\ \A k \in keys : lo <= k
    BY <2>1, <2>2, MinIsLeast
  <2>4. hi \in keys /\ \A k \in keys : k <= hi
    BY <2>1, <2>2, MaxIsGreatest
  <2>5. \A d \in imm : d.key \in keys
    OBVIOUS
  <2> HIDE DEF keys
  <2> QED
    BY <2>1, <2>3, <2>4, <2>5
<1> HIDE DEF keys, lo, hi, p
<1>9. lo \in Nat /\ hi \in Nat
  BY <1>8 DEF Key
<1>10. p \in Nat /\ (p > 0 => \A m \in 0 .. p : Meeting(version, tables, m, lo, hi) = {})
  <2>1. p \in 0 .. MaxMemLevel /\ (p > 0 => \A m \in 0 .. p : Meeting(version, tables, m, lo, hi) = {})
    BY PickLevelIsLevel DEF p
  <2> QED
    BY <2>1, LevelsAssumption
<1>11. ASSUME p > 0, NEW f \in DOMAIN version, version[f] <= p
       PROVE  Above(tables'[f], hi) \/ Below(tables'[f], lo)
  <2>1. f \in Level(version, version[f]) /\ f \notin Meeting(version, tables, version[f], lo, hi)
    BY <1>6, <1>10, <1>11 DEF Level
  <2>2. Above(tables[f], hi) \/ Below(tables[f], lo)
    BY <1>6, <1>9, <2>1, MeetingSides DEF Filled
  <2> QED
    BY <1>5, <2>2 DEF Agree
<1> QED
  BY <1>1, <1>2, <1>3, <1>4, <1>5, <1>7, <1>8, <1>10, <1>11

\* The new table goes down as long as it meets no other.
LEMMA BuildTableLevels == ASSUME TypesInv, LevelsInv, BuildTable PROVE LevelsInv'
<1>1. PICK p \in Nat, lo \in Key, hi \in Key :
        /\ up = "open" /\ bg.at = "build" /\ bg'.at = "edit" /\ bg'.file = bg.file /\ bg'.comp = bg.comp
        /\ bg'.edit.add = [f \in {bg.file} |-> p] /\ bg'.edit.drop = {}
        /\ bg'.edit.log = logfile /\ bg'.edit.seq = lastSeq
        /\ UNCHANGED <<manifest, up, version, bgError>>
        /\ bg.file # 0 /\ bg.file \notin DOMAIN version
        /\ imm # None /\ tables'[bg.file] = imm
        /\ Agree(version, tables, tables') /\ \A m \in manifest : Agree(m.version, tables, tables')
        /\ Filled(tables', DOMAIN version \cup {bg.file})
        /\ lo <= hi /\ \A d \in imm : lo <= d.key /\ d.key <= hi
        /\ p > 0 => \A f \in DOMAIN version : version[f] <= p => Above(tables'[f], hi) \/ Below(tables'[f], lo)
  BY BuildTableMakes
<1>2. \A f \in DOMAIN version : version[f] \in Nat
  BY TablesFilled
<1>3. Disjoint(version, tables')
  BY <1>1, DisjointFrame DEF LevelsInv, LevelsDisjoint
<1>4. /\ Disjoint(Edited(version, bg'.edit), tables')
      /\ \A c : c.level \in Nat /\ Movable(c, version, tables') => Movable(c, Edited(version, bg'.edit), tables')
  <2>1. /\ bg'.edit.drop = {} /\ bg'.edit.add = [f \in {bg.file} |-> p]
        /\ bg.file \notin DOMAIN version /\ Filled(tables', DOMAIN version \cup {bg.file})
        /\ lo <= hi /\ \A d \in tables'[bg.file] : lo <= d.key /\ d.key <= hi
        /\ p > 0 => \A f \in DOMAIN version : version[f] <= p => Above(tables'[f], hi) \/ Below(tables'[f], lo)
    BY <1>1
  <2> QED
    BY <1>2, <1>3, <2>1, FlushFits
<1>5. bg.comp # None => Movable(bg'.comp, version, tables') /\ bg'.comp.level \in Nat
  <2>1. ASSUME bg.comp # None PROVE Movable(bg.comp, version, tables) /\ bg.comp.level \in Nat
    BY <1>1, <2>1 DEF LevelsInv, TypesInv, FilesInv
  <2> QED
    BY <1>1, <2>1, MovableFrame
<1>6. bg'.comp # None => Movable(bg'.comp, Edited(version, bg'.edit), tables')
  BY <1>1, <1>4, <1>5
<1> QED
  BY <1>1, <1>4, <1>6, ThreadLevels

\* A compaction begins with tables that go together, or moves one that meets no other.
LEMMA BeginCompactionLevels == ASSUME TypesInv, LevelsInv, BeginCompaction PROVE LevelsInv'
<1>1. PICK f \in Pickable :
        LET l == version[f]
            c == Inputs(version, tables, l, Picked(version, tables, l, f))
        IN \/ /\ TrivialMove(c) /\ bg'.at = "edit" /\ bg'.file = 0 /\ bg'.comp = None
              /\ bg'.edit.add = [g \in {f} |-> l + 1] /\ bg'.edit.drop = {}
           \/ /\ bg'.at = "merge" /\ bg'.file = 0 /\ bg'.comp.level = l
              /\ bg'.comp.in0 = c.in0 /\ bg'.comp.in1 = c.in1
  BY BeginCompactionDoes DEF TypesInv
<1> DEFINE l == version[f]
           c == Inputs(version, tables, l, Picked(version, tables, l, f))
<1>2. up = "open" /\ bg.at = "idle" /\ ~bgError
  BY BeginCompactionDoes DEF TypesInv
<1>3. UNCHANGED <<manifest, up, version, tables, bgError>>
  BY DEF BeginCompaction, disk_, files_
<1>4. /\ f \in DOMAIN version /\ l \in Nat /\ IsFiniteSet(DOMAIN version) /\ Filled(tables, DOMAIN version)
      /\ Disjoint(version, tables)
  BY TablesFilled DEF Pickable, LevelsInv, LevelsDisjoint
<1>5. f \in c.in0 /\ Movable(c, version, tables)
  BY <1>4, InputsMovable
<1>6. c.level = l
  BY DEF Inputs
<1>7. \/ /\ TrivialMove(c) /\ bg'.at = "edit" /\ bg'.comp = None
         /\ bg'.edit.add = [g \in {f} |-> l + 1] /\ bg'.edit.drop = {}
      \/ /\ bg'.at = "merge" /\ bg'.comp.level = c.level
         /\ bg'.comp.in0 = c.in0 /\ bg'.comp.in1 = c.in1
  BY <1>1, <1>6
<1> HIDE DEF c
<1>8. Agree(version, tables, tables') /\ \A m \in manifest : Agree(m.version, tables, tables')
  BY <1>3 DEF Agree
<1>9. ASSUME bg'.at = "edit" PROVE Disjoint(Edited(version, bg'.edit), tables')
  <2>1. TrivialMove(c) /\ bg'.edit.add = [g \in {f} |-> l + 1] /\ bg'.edit.drop = {}
    BY <1>7, <1>9
  <2>2. c.in0 = {f} /\ c.in1 = {}
    <3>1. c.in0 \subseteq DOMAIN version
      BY <1>5 DEF Movable, Level
    <3>2. IsFiniteSet(c.in0) /\ Cardinality(c.in0) = 1
      BY <1>4, <2>1, <3>1, FS_Subset DEF TrivialMove
    <3>3. \E x : c.in0 = {x}
      BY <3>2, FS_Singleton
    <3> QED
      BY <1>5, <2>1, <3>3 DEF TrivialMove
  <2>3. ASSUME NEW g \in Level(version, l + 1) \ {f} PROVE OneSide(tables[g], tables[f])
    <3>1. OneSide(tables[g], Entries(tables, c.in0 \cup c.in1))
      BY <1>5, <1>6, <2>2 DEF Movable
    <3>2. Entries(tables, c.in0 \cup c.in1) = tables[f]
      BY <2>2 DEF Entries
    <3> QED
      BY <3>1, <3>2
  <2>4. DOMAIN version \cup {f} = DOMAIN version
    BY <1>4
  <2> HIDE DEF l
  <2>5. Disjoint(Edited(version, bg'.edit), tables)
    BY <1>4, <2>1, <2>3, <2>4, AddDisjoint
  <2> QED
    BY <1>3, <2>5
<1>10. bg'.at = "merge" => Movable(bg'.comp, version, tables')
  BY <1>5, <1>7, <1>8, MovableFrame
<1>11. bg'.at \in {"edit", "merge"} /\ (bg'.at = "edit" => bg'.comp = None)
  BY <1>7
<1> QED
  BY <1>2, <1>3, <1>8, <1>9, <1>10, <1>11, ThreadLevels

\* An output has a number of its own.
LEMMA WriteOutputAdds ==
  ASSUME TypesInv, WriteOutput
  PROVE  /\ up = "open" /\ bg.at = "merge" /\ UNCHANGED <<bg, up, version, manifest, bgError>>
         /\ Agree(version, tables, tables') /\ \A m \in manifest : Agree(m.version, tables, tables')
         /\ \A f \in DOMAIN bg.comp.base : f \in DOMAIN tables /\ tables'[f] = tables[f]
<1>1. /\ up = "open" /\ bg.at = "merge" /\ UNCHANGED <<bg, up, version, manifest, bgError>>
      /\ \E x : tables' = Over([f \in {nextFile} |-> x], tables)
  BY WriteOutputDoes DEF TypesInv
<1>2. \A f \in DOMAIN tables : f # nextFile => tables'[f] = tables[f]
  BY <1>1 DEF Over
<1>3. nextFile \in Nat
  BY NumbersTyped DEF TypesInv
<1>4. \A f \in DOMAIN version : f # nextFile /\ f \in DOMAIN tables
  BY <1>3, TablesFilled
<1>5. ASSUME NEW m \in manifest, NEW f \in DOMAIN m.version PROVE f # nextFile /\ f \in DOMAIN tables
  <2>1. m.next \in Nat /\ VersionOK(m.version, m.next) /\ m.next <= nextFile
    BY <1>1, NumbersTyped DEF TypesInv, FilesInv
  <2>2. f \in Nat /\ f < m.next
    BY <2>1 DEF VersionOK
  <2> QED
    BY <1>3, <2>1, <2>2, TablesFilled
<1>6. \A f \in DOMAIN bg.comp.base : f # nextFile /\ f \in DOMAIN tables
  <2>1. /\ \A f \in DOMAIN bg.comp.base : f \in Nat /\ f < nextFile
        /\ DOMAIN bg.comp.base \subseteq DOMAIN tables
    BY <1>1 DEF TypesInv, OutputsInv, TablesInv, ThreadInv
  <2> QED
    BY <1>3, <2>1
<1> QED
  BY <1>1, <1>2, <1>4, <1>5, <1>6 DEF Agree

\* The compaction goes on.
LEMMA WriteOutputLevels == ASSUME TypesInv, LevelsInv, WriteOutput PROVE LevelsInv'
<1>1. /\ up = "open" /\ bg.at = "merge" /\ UNCHANGED <<bg, up, version, manifest, bgError>>
      /\ Agree(version, tables, tables') /\ \A m \in manifest : Agree(m.version, tables, tables')
  BY WriteOutputAdds
<1>2. Movable(bg.comp, version, tables')
  BY <1>1, MovableFrame DEF LevelsInv
<1> QED
  BY <1>1, <1>2, ThreadLevels

\* What has been written when Merge begins its edit: tables of the entries of the
\* inputs, in order, which the edit puts in the inputs' place on the next level.
LEMMA MergeMakes ==
  ASSUME TypesInv, LevelsInv, Merge
  PROVE  \E new :
           /\ up = "open" /\ bg.at = "merge" /\ bg'.at = "edit" /\ bg'.file = 0
           /\ bg'.edit.add = [f \in new |-> bg.comp.level + 1]
           /\ bg'.edit.drop = bg.comp.in0 \cup bg.comp.in1
           /\ bg'.edit.log = logNumber /\ bg'.edit.seq = lastSeq
           /\ UNCHANGED <<manifest, up, version, bgError>>
           /\ new \cap DOMAIN version = {}
           /\ Agree(version, tables, tables') /\ \A m \in manifest : Agree(m.version, tables, tables')
           /\ \A f \in new : /\ f \in Nat /\ tables'[f] \subseteq Entry
                             /\ tables'[f] \subseteq Entries(tables, bg.comp.in0 \cup bg.comp.in1)
           /\ \A f, g \in new : f # g => OneSide(tables'[f], tables'[g])
           /\ ~Cut => \A f, g \in new : f # g => \A d \in tables'[f], e \in tables'[g] : d.key # e.key
<1> DEFINE outs == Outputs(bg.comp, tables, bg.comp.oldest)
           new  == outputs
<1>1. /\ up = "open" /\ bg.at = "merge" /\ bg'.at = "edit" /\ bg'.file = 0
      /\ bg'.edit.add = [f \in new |-> bg.comp.level + 1]
      /\ bg'.edit.drop = bg.comp.in0 \cup bg.comp.in1
      /\ bg'.edit.log = logNumber /\ bg'.edit.seq = lastSeq
      /\ UNCHANGED <<tables, manifest, up, version, bgError>>
  BY MergeDoes DEF TypesInv
<1>2. /\ new \cap DOMAIN version = {}
      /\ \A f \in new : \E i \in DOMAIN outs : tables[f] = outs[i]
      /\ \A f, g \in new : tables[f] = tables[g] => f = g
      /\ \A f \in new : f \in Nat
  BY <1>1 DEF TypesInv, OutputsInv, OutputsOK, OutputsHeld
<1>3. PICK b \in Nat : DOMAIN outs \subseteq 0 .. b
  BY OutputsInOrder
<1>4. \A i \in DOMAIN outs : outs[i] \subseteq Entry /\ outs[i] \subseteq Entries(tables, bg.comp.in0 \cup bg.comp.in1)
  BY OutputsOfInputs
<1>5. \A i, j \in DOMAIN outs : i < j => \A d \in outs[i], e \in outs[j] : Order(d) < Order(e)
  BY OutputsInOrder
<1>6. \A i \in DOMAIN outs : i \in Nat
  BY <1>3
<1>7. ~Cut => \A i, j \in DOMAIN outs : i # j => \A d \in outs[i], e \in outs[j] : d.key # e.key
  BY DEF Cut
<1> HIDE DEF outs
<1>8. Agree(version, tables, tables') /\ \A m \in manifest : Agree(m.version, tables, tables')
  BY <1>1 DEF Agree
<1>9. \A f \in new : /\ f \in Nat /\ tables'[f] \subseteq Entry
                     /\ tables'[f] \subseteq Entries(tables, bg.comp.in0 \cup bg.comp.in1)
  BY <1>1, <1>2, <1>4
<1>10. ASSUME NEW f \in new, NEW g \in new, f # g
       PROVE  /\ OneSide(tables'[f], tables'[g])
              /\ ~Cut => \A d \in tables'[f], e \in tables'[g] : d.key # e.key
  <2>1. PICK i \in DOMAIN outs : tables[f] = outs[i]
    BY <1>2
  <2>2. PICK j \in DOMAIN outs : tables[g] = outs[j]
    BY <1>2
  <2>3. i # j
    BY <1>2, <1>10, <2>1, <2>2
  <2>4. i < j \/ j < i
    BY <1>6, <2>3
  <2>5. OneSide(outs[i], outs[j]) \/ OneSide(outs[j], outs[i])
    BY <1>5, <2>4 DEF OneSide
  <2>6. OneSide(tables[f], tables[g])
    BY <1>4, <2>1, <2>2, <2>5, OneSideSwaps
  <2>7. ~Cut => \A d \in outs[i], e \in outs[j] : d.key # e.key
    BY <1>7, <2>3
  <2> QED
    BY <1>1, <2>1, <2>2, <2>6, <2>7
<1> WITNESS new
<1> QED
  BY <1>1, <1>2, <1>8, <1>9, <1>10

\* The outputs of a merge take the place of its inputs.
LEMMA MergeLevels == ASSUME TypesInv, LevelsInv, Merge PROVE LevelsInv'
<1>1. PICK new :
        /\ up = "open" /\ bg.at = "merge" /\ bg'.at = "edit" /\ bg'.file = 0
        /\ bg'.edit.add = [f \in new |-> bg.comp.level + 1]
        /\ bg'.edit.drop = bg.comp.in0 \cup bg.comp.in1
        /\ bg'.edit.log = logNumber /\ bg'.edit.seq = lastSeq
        /\ UNCHANGED <<manifest, up, version, bgError>>
        /\ new \cap DOMAIN version = {}
        /\ Agree(version, tables, tables') /\ \A m \in manifest : Agree(m.version, tables, tables')
        /\ \A f \in new : /\ f \in Nat /\ tables'[f] \subseteq Entry
                          /\ tables'[f] \subseteq Entries(tables, bg.comp.in0 \cup bg.comp.in1)
        /\ \A f, g \in new : f # g => OneSide(tables'[f], tables'[g])
        /\ ~Cut => \A f, g \in new : f # g => \A d \in tables'[f], e \in tables'[g] : d.key # e.key
  BY MergeMakes
<1>2. Movable(bg.comp, version, tables) /\ bg.comp.level \in Nat /\ Disjoint(version, tables)
  BY <1>1 DEF LevelsInv, LevelsDisjoint, TypesInv, FilesInv
<1>3. Filled(tables, DOMAIN version)
  BY TablesFilled
<1>4. Disjoint(Edited(version, bg'.edit), tables')
  BY <1>1, <1>2, <1>3, MergeFits
<1> QED
  BY <1>1, <1>4, ThreadLevels

\* The version is what the edit makes of it, and so is the manifest.
LEMMA InstallLevels == ASSUME TypesInv, TypesInv', LevelsInv, Install PROVE LevelsInv'
<1>1. /\ up = "open" /\ bg.at = "edit" /\ UNCHANGED up
      /\ manifest' = {Recorded(m, bg.edit) : m \in manifest} /\ version' = Edited(version, bg.edit)
  BY ThreadIsOpen DEF Install, TypesInv
<1>2. \A f \in DOMAIN tables' : f \in DOMAIN tables /\ tables'[f] = tables[f]
  <2>1. CASE Moving
    BY <2>1 DEF Install
  <2>2. CASE ~Moving
    <3>1. DeleteObsoleteFiles(version', logNumber', IF Flushing THEN bg.comp ELSE None, pending', bgError)
      BY <2>2 DEF Install
    <3> QED
      BY <3>1, Deletes
  <2> QED
    BY <2>1, <2>2
<1>3. DOMAIN version' \subseteq DOMAIN tables'
  BY DEF TypesInv, TablesInv
<1>4. Agree(version', tables, tables')
  BY <1>2, <1>3 DEF Agree
<1>5. \A m \in manifest' : m.version = version'
  BY <1>1 DEF LevelsInv, Recorded
<1>6. Disjoint(version', tables)
  BY <1>1 DEF LevelsInv
<1>7. Disjoint(version', tables')
  BY <1>4, <1>6, DisjointFrame
<1>8. bg' = Idle \/ (bg'.at = "merge" /\ bg'.comp = bg.comp /\ bg.comp # None /\ bg.file # 0)
  <2>1. bg' = Idle \/ (bg'.at = "merge" /\ bg'.comp = bg.comp /\ bg.comp # None)
    BY CallEnds DEF TypesInv
  <2>2. bg' # Idle => bg.file # 0
    BY DEF Install, EndCall, Flushing
  <2> QED
    BY <2>1, <2>2
<1>9. ASSUME bg'.at = "merge" PROVE Movable(bg'.comp, version', tables')
  <2>1. bg'.comp = bg.comp /\ Movable(bg.comp, version', tables)
    BY <1>1, <1>8, <1>9 DEF LevelsInv, Idle
  <2> QED
    BY <1>4, <2>1, MovableFrame
<1>10. bg'.at \in {"idle", "merge"}
  BY <1>8 DEF Idle
<1> QED
  BY <1>1, <1>5, <1>7, <1>9, <1>10, LevelsAfter

\* The manifest may say either; the version stays, and no more edits are made.
LEMMA InstallFailsLevels == ASSUME TypesInv, LevelsInv, InstallFails, ~Retried PROVE LevelsInv'
<1>1. /\ up = "open" /\ bg.at = "edit" /\ bgError' = TRUE /\ UNCHANGED <<up, version>>
      /\ manifest' = manifest \cup {Recorded(m, bg.edit) : m \in manifest}
  BY ThreadIsOpen DEF InstallFails, TypesInv, files_
<1>2. bg' = Idle
  BY DEF InstallFails, Retried, EndCall
<1>3. tables' = tables
  <2>1. CASE Flushing \/ Moving
    BY <2>1 DEF InstallFails
  <2>2. CASE ~(Flushing \/ Moving)
    <3>1. DeleteObsoleteFiles(version, logNumber, None, pending', TRUE)
      BY <2>2 DEF InstallFails
    <3> QED
      BY <3>1, Deletes
  <2> QED
    BY <2>1, <2>2
<1>4. \A m \in manifest : Recorded(m, bg.edit).version = Edited(version, bg.edit)
  BY <1>1 DEF LevelsInv, Recorded
<1>5. \A m \in manifest' : Disjoint(m.version, tables')
  BY <1>1, <1>3, <1>4 DEF LevelsInv
<1>6. Disjoint(version', tables')
  BY <1>1, <1>3 DEF LevelsInv, LevelsDisjoint
<1>7. bg'.at = "idle"
  BY <1>2 DEF Idle
<1> QED
  BY <1>1, <1>5, <1>6, <1>7, LevelsAfter

\* What the manifest says after a crash, an edit included or not.
LEMMA CrashLevels == ASSUME TypesInv, LevelsInv, Crash PROVE LevelsInv'
<1>1. /\ UNCHANGED tables /\ up' = "closed" /\ version' = NoFiles /\ bg' = Idle
      /\ \E m \in manifest \cup (IF bg.at = "edit" THEN {Recorded(d, bg.edit) : d \in manifest} ELSE {}) :
           manifest' = {m}
  BY DEF Crash
<1>2. ASSUME bg.at = "edit", NEW d \in manifest PROVE Disjoint(Recorded(d, bg.edit).version, tables)
  <2>1. up = "open"
    BY <1>2 DEF TypesInv, TablesInv, Idle
  <2>2. d.version = version
    BY <1>2, <2>1 DEF LevelsInv
  <2> QED
    BY <1>2, <2>2 DEF LevelsInv, Recorded
<1>3. \A m \in manifest' : Disjoint(m.version, tables')
  BY <1>1, <1>2 DEF LevelsInv
<1>4. Disjoint(version', tables')
  BY <1>1 DEF NoFiles, Disjoint
<1>5. \A m, d \in manifest' : m = d
  BY <1>1
<1>6. bg'.at = "idle"
  BY <1>1 DEF Idle
<1> QED
  BY <1>1, <1>3, <1>4, <1>5, <1>6, LevelsAfter

\* What RecoverLogs makes: tables of level 0, of what the logs say, and a sequence number
\* that is not below theirs.
LEMMA RecoverLogsMakes ==
  ASSUME TypesInv, LevelsInv, RecoverLogs
  PROVE  \E m \in manifest : \E files :
           /\ up = "closed" /\ up' = "replayed"
           /\ UNCHANGED <<manifest, bg, mem, imm, logs, stage, queue, group>>
           /\ \A d \in manifest : d = m
           /\ files \cap DOMAIN m.version = {} /\ DOMAIN version' = DOMAIN m.version \cup files
           /\ \A f \in files : version'[f] = 0 /\ tables'[f] \subseteq Logged(logs, m.log)
           /\ \A f \in DOMAIN m.version : version'[f] = m.version[f]
           /\ Agree(m.version, tables, tables')
           /\ lastSeq' \in Nat /\ m.seq <= lastSeq' /\ UpTo(Logged(logs, m.log), lastSeq')
<1>1. /\ up = "closed" /\ up' = "replayed"
      /\ UNCHANGED <<manifest, bg, mem, imm, logs, stage, queue, group>>
  BY DEF RecoverLogs, thread_, memory_, writers_
<1>2. PICK m \in manifest :
        LET old == {n \in DOMAIN logs : n >= m.log /\ UNION ToSet(logs[n]) # {}}
            number(n) == m.next + Cardinality({k \in old : k <= n})
            new == [f \in {number(n) : n \in old} |-> UNION ToSet(logs[CHOOSE n \in old : number(n) = f])]
        IN /\ tables' = Over(new, tables)
           /\ version' = Edited(m.version, [drop |-> {}, add |-> [f \in DOMAIN new |-> 0]])
           /\ lastSeq' = RecoveredSequence(m)
  BY DEF RecoverLogs
<1> DEFINE old == {n \in DOMAIN logs : n >= m.log /\ UNION ToSet(logs[n]) # {}}
           number(n) == m.next + Cardinality({k \in old : k <= n})
           files == {number(n) : n \in old}
           new == [f \in files |-> UNION ToSet(logs[CHOOSE n \in old : number(n) = f])]
           edit == [drop |-> {}, add |-> [f \in files |-> 0]]
           S == {m.seq} \cup {e.seq : e \in Logged(logs, m.log)}
<1>3. tables' = Over(new, tables) /\ version' = Edited(m.version, edit) /\ DOMAIN new = files
  BY <1>2
<1>4. lastSeq' = Max(S)
  BY <1>2 DEF RecoveredSequence
<1>5. IsFiniteSet(old)
  <2>1. PICK b \in Nat : DOMAIN logs \subseteq 0 .. b
    BY DEF TypesInv, SyncInv, Bounded
  <2>2. IsFiniteSet(0 .. b)
    BY FS_Interval
  <2>3. old \subseteq 0 .. b
    BY <2>1
  <2> QED
    BY <2>2, <2>3, FS_Subset
<1>6. m.next \in Nat
  BY NumbersTyped DEF TypesInv
<1>7. \A n : Cardinality({k \in old : k <= n}) \in Nat
  BY <1>5, Counted
<1>8. \A n \in old : UNION ToSet(logs[n]) \subseteq Logged(logs, m.log)
  BY DEF Logged
<1> HIDE DEF old
<1>9. \A f \in files : f \in Nat /\ f >= m.next
  <2>1. \A n : number(n) \in Nat /\ number(n) >= m.next
    BY <1>6, <1>7
  <2> HIDE DEF number
  <2> QED
    BY <2>1
<1>10. \A f \in files : new[f] \subseteq Logged(logs, m.log)
  <2> HIDE DEF number
  <2> SUFFICES ASSUME NEW f \in files PROVE new[f] \subseteq Logged(logs, m.log)
    OBVIOUS
  <2>1. \E n \in old : number(n) = f
    OBVIOUS
  <2>2. (CHOOSE n \in old : number(n) = f) \in old
    BY <2>1
  <2> QED
    BY <1>8, <2>2
<1>11. \A f \in DOMAIN m.version : f \in Nat /\ f < m.next
  BY DEF TypesInv, FilesInv, VersionOK
<1> HIDE DEF files, new
<1>12. files \cap DOMAIN m.version = {} /\ DOMAIN m.version \subseteq DOMAIN tables
  BY <1>6, <1>9, <1>11, TablesFilled
<1>13. Agree(m.version, tables, tables') /\ \A f \in files : tables'[f] = new[f]
  BY <1>3, <1>12 DEF Over, Agree
<1>14. \A d \in manifest : d = m
  BY <1>1 DEF LevelsInv
<1>15. /\ DOMAIN version' = DOMAIN m.version \cup files
       /\ \A f \in files : version'[f] = 0
       /\ \A f \in DOMAIN m.version : version'[f] = m.version[f]
  BY <1>3, <1>12 DEF Edited
<1>16. lastSeq' \in Nat /\ m.seq <= lastSeq' /\ UpTo(Logged(logs, m.log), lastSeq')
  <2>1. MaxSequence \in Nat /\ m.seq \in 0 .. MaxSequence
    BY LevelsAssumption DEF TypesInv, RoomInv, SyncInv, Numbers
  <2>2. \A e \in Logged(logs, m.log) : e.seq \in 0 .. MaxSequence
    BY <2>1, LoggedTyped DEF TypesInv, Entry, Sequence
  <2>3. S \subseteq 0 .. MaxSequence /\ S # {} /\ m.seq \in S /\ \A e \in Logged(logs, m.log) : e.seq \in S
    BY <2>1, <2>2
  <2> HIDE DEF S
  <2>4. Max(S) \in S /\ \A s \in S : s <= Max(S)
    BY <2>1, <2>3, MaxIsGreatest
  <2>5. Max(S) \in 0 .. MaxSequence
    BY <2>3, <2>4, Zenon
  <2>6. \A e \in Logged(logs, m.log) : e.seq <= Max(S)
    BY <2>3, <2>4, Zenon
  <2>7. Max(S) \in Nat /\ m.seq <= Max(S)
    BY <2>1, <2>3, <2>4, <2>5
  <2> QED
    BY <1>4, <2>6, <2>7 DEF UpTo
<1>17. \A f \in files : version'[f] = 0 /\ tables'[f] \subseteq Logged(logs, m.log)
  BY <1>10, <1>13, <1>15
<1> WITNESS m \in manifest
<1> WITNESS files
<1> QED
  BY <1>1, <1>12, <1>13, <1>14, <1>15, <1>16, <1>17

\* The logs' tables are new, and of level 0.
LEMMA RecoverLogsLevels == ASSUME TypesInv, LevelsInv, RecoverLogs PROVE LevelsInv'
<1>1. PICK m \in manifest : \E files :
        /\ up = "closed" /\ up' = "replayed"
        /\ UNCHANGED <<manifest, bg, mem, imm, logs, stage, queue, group>>
        /\ \A d \in manifest : d = m
        /\ files \cap DOMAIN m.version = {} /\ DOMAIN version' = DOMAIN m.version \cup files
        /\ \A f \in files : version'[f] = 0 /\ tables'[f] \subseteq Logged(logs, m.log)
        /\ \A f \in DOMAIN m.version : version'[f] = m.version[f]
        /\ Agree(m.version, tables, tables')
        /\ lastSeq' \in Nat /\ m.seq <= lastSeq' /\ UpTo(Logged(logs, m.log), lastSeq')
  BY RecoverLogsMakes
<1>2. Disjoint(m.version, tables')
  BY <1>1, DisjointFrame DEF LevelsInv
<1>3. Disjoint(version', tables')
  <2>1. \A f \in DOMAIN version' : version'[f] > 0 => f \in DOMAIN m.version /\ version'[f] = m.version[f]
    BY <1>1
  <2> QED
    BY <1>2, <2>1 DEF Disjoint
<1>4. bg'.at = "idle"
  BY <1>1 DEF TypesInv, TablesInv, Idle
<1> QED
  BY <1>1, <1>2, <1>3, <1>4, LevelsAfter

\* The files of the version are all there is.
LEMMA OpenLevels == ASSUME TypesInv, LevelsInv, Open PROVE LevelsInv'
<1>1. /\ up = "replayed" /\ up' = "open" /\ UNCHANGED <<version, bg>>
      /\ tables' = Restrict(tables, DOMAIN version)
      /\ \A m \in manifest' : m.version = version
  BY DEF Open
<1>2. Agree(version, tables, tables')
  BY <1>1 DEF Agree, Restrict
<1>3. Disjoint(version', tables')
  BY <1>1, <1>2, DisjointFrame DEF LevelsInv, LevelsDisjoint
<1>4. bg'.at = "idle"
  BY <1>1 DEF TypesInv, TablesInv, Idle
<1> QED
  BY <1>1, <1>3, <1>4, LevelsAfter

\* A new database has no tables.
LEMMA LevelsInit == ASSUME Init PROVE LevelsInv
<1>1. up = "open" /\ bg.at = "idle" /\ version = NoFiles /\ \A m \in manifest : m.version = NoFiles
  BY DEF Init, Idle
<1>2. \A T : Disjoint(NoFiles, T)
  BY DEF NoFiles, Disjoint
<1> QED
  BY <1>1, <1>2 DEF LevelsInv, LevelsDisjoint

\* Every step but that of a flush within a compaction whose record fails.
LEMMA LevelsStep == ASSUME TypesInv, LevelsInv, [Next]_vars, ~Retried PROVE LevelsInv'
<1>1. CASE \/ \E w \in Writes : Write(w)
           \/ Lead \/ LeadFails \/ AddRecord \/ Sync \/ InsertInto \/ Publish \/ WriteFails
           \/ GetSnapshot \/ ReleaseSnapshot \/ NewIterator \/ CleanupIterator \/ Reschedule \/ UNCHANGED vars
  <2>1. UNCHANGED <<tables, manifest, up, version, bg>>
    BY <1>1 DEF Write, Lead, LeadFails, AddRecord, Sync, InsertInto, Publish, WriteFails,
                GetSnapshot, ReleaseSnapshot, NewIterator, CleanupIterator, Reschedule, vars,
                disk_, files_, thread_
  <2>2. bgError => bgError'
    BY <1>1 DEF Write, Lead, LeadFails, AddRecord, Sync, InsertInto, Publish, WriteFails,
                GetSnapshot, ReleaseSnapshot, NewIterator, CleanupIterator, Reschedule, vars
  <2> QED
    BY <2>1, <2>2, OthersLevels
<1>2. CASE NothingToDo \/ BuildTableFails \/ MergeFails
  BY <1>2, CallEndsLevels
<1>3. CASE BeginFlush
  BY <1>3, BeginFlushLevels
<1>4. CASE BuildTable
  BY <1>4, BuildTableLevels
<1>5. CASE BeginCompaction
  BY <1>5, BeginCompactionLevels
<1>6. CASE WriteOutput \/ Merge
  BY <1>6, WriteOutputLevels, MergeLevels
<1>7. CASE Install
  BY <1>7, TypesStep, InstallLevels
<1>8. CASE InstallFails
  BY <1>8, InstallFailsLevels
<1>9. CASE Crash
  BY <1>9, CrashLevels
<1>10. CASE RecoverLogs
  BY <1>10, RecoverLogsLevels
<1>11. CASE Open
  BY <1>11, OpenLevels
<1> QED
  BY <1>1, <1>2, <1>3, <1>4, <1>5, <1>6, <1>7, <1>8, <1>9, <1>10, <1>11 DEF Next

\* version_set.cc:742 (Builder::SaveTo's assertion): unless the manifest record of a flush
\* within a compaction fails, the tables of a level above 0 never overlap, through
\* flushes, moves, merges, failures, crashes and recoveries.
THEOREM LevelsStayDisjoint == Spec /\ [][~Retried]_vars => []LevelsDisjoint
<1>1. Init => TypesInv /\ LevelsInv
  BY TypesInit, LevelsInit
<1>2. TypesInv /\ LevelsInv /\ [Next]_vars /\ [~Retried]_vars => TypesInv' /\ LevelsInv'
  <2> SUFFICES ASSUME TypesInv, LevelsInv, [Next]_vars, [~Retried]_vars PROVE TypesInv' /\ LevelsInv'
    OBVIOUS
  <2>1. CASE ~Retried
    BY <2>1, TypesStep, LevelsStep
  <2>2. CASE UNCHANGED vars
    <3>1. UNCHANGED <<tables, manifest, up, version, bg, bgError>>
      BY <2>2 DEF vars, disk_, files_, thread_
    <3> QED
      BY <2>2, <3>1, TypesStep, OthersLevels
  <2> QED
    BY <2>1, <2>2
<1>3. LevelsInv => LevelsDisjoint
  BY DEF LevelsInv
<1> QED
  BY <1>1, <1>2, <1>3, PTL DEF Spec

-----------------------------------------------------------------------------
(* Newer entries above older ones.                                         *)

\* Of two tables that hold a key, the one of the smaller level has its newer entries.
Newer(v, T) ==
  \A f, g \in DOMAIN v : v[f] < v[g] => \A d \in T[f], e \in T[g] : d.key = e.key => d.seq > e.seq

\* No two tables of a level above 0 hold the same key.
Apart(v, T) ==
  \A f, g \in DOMAIN v : f # g /\ v[f] = v[g] /\ v[f] > 0 => \A d \in T[f], e \in T[g] : d.key # e.key

\* The other tables of a compaction's level have newer entries than its inputs there,
\* and those of the next level none of their keys.
Fits(c, v, T) ==
  /\ c.in0 \subseteq Level(v, c.level) /\ c.in1 \subseteq Level(v, c.level + 1)
  /\ \A g \in Level(v, c.level) \ c.in0 : \A d \in T[g], e \in Entries(T, c.in0) : d.key = e.key => d.seq > e.seq
  /\ \A g \in Level(v, c.level + 1) \ c.in1 : \A d \in T[g], e \in Entries(T, c.in0 \cup c.in1) : d.key # e.key

\* A set of entries is older than another.
Older(A, B) == \A d \in A, e \in B : d.seq < e.seq

\* What a version stores.
Stored(v, T) == Entries(T, DOMAIN v)

\* A set of entries is of up to the number seq, and older than what a memory table M
\* and the logs L from log on hold.
Aged(A, seq, log, M, L) == UpTo(A, seq) /\ Older(A, M) /\ Older(A, Logged(L, log))

\* A version is older than what it is not made of: the version in use, the manifest's, the
\* one an edit will make, and the memory table that waits.
AgesInv ==
  /\ \A m \in manifest : /\ Aged(Stored(m.version, tables), m.seq, m.log, mem, logs)
                         /\ up # "closed" => m.seq <= lastSeq
  /\ UpTo(Stored(version, tables), lastSeq)
  /\ up = "open" => Aged(Stored(version, tables), lastSeq, logNumber, mem, logs)
  /\ bg.at = "edit" =>
       /\ bg.edit.seq <= lastSeq
       /\ Aged(Stored(Edited(version, bg.edit), tables), bg.edit.seq, bg.edit.log, mem, logs)
       /\ bg.file = 0 /\ imm # None => Older(Stored(Edited(version, bg.edit), tables), imm)
  /\ imm # None => Aged(imm, lastSeq, logfile, mem, logs) /\ Older(Stored(version, tables), imm)
  /\ up # "open" => mem = {} /\ imm = None
  /\ stage # "publish" => UpTo(mem, lastSeq)
  /\ stage = "publish" => UpTo(mem, lastSeq + Cardinality(Joined(group)))

\* The order holds of each of these versions, and the inputs of the compaction fit.
NewerInv ==
  /\ SmallerLevelIsNewer /\ Apart(version, tables)
  /\ \A m \in manifest : Newer(m.version, tables) /\ Apart(m.version, tables)
  /\ bg.at = "edit" => Newer(Edited(version, bg.edit), tables) /\ Apart(Edited(version, bg.edit), tables)
  /\ bg.at = "merge" \/ (bg.at = "build" /\ bg.comp # None) => Fits(bg.comp, version, tables)
  /\ bg.at = "edit" /\ bg.file # 0 /\ bg.comp # None => Fits(bg.comp, Edited(version, bg.edit), tables)

\* A table that holds a key of some others meets their range.
LEMMA KeyMeets ==
  ASSUME NEW v, NEW T, NEW l, NEW g \in Level(v, l), T[g] \subseteq Entry, T[g] # {},
         NEW P, Filled(T, P), NEW d \in T[g], NEW e \in Entries(T, P), d.key = e.key
  PROVE  g \in Meeting(v, T, l, Lo(T, P), Hi(T, P))
<1>1. PICK h \in P : e \in T[h]
  BY DEF Entries
<1>2. /\ Lo(T, P) \in 0 .. NumKeys /\ Hi(T, P) \in 0 .. NumKeys
      /\ \A f \in P : \A x \in T[f] : Lo(T, P) <= x.key /\ x.key <= Hi(T, P)
  BY <1>1, Hull
<1>3. Lo(T, P) <= d.key /\ d.key <= Hi(T, P)
  BY <1>1, <1>2
<1>4. /\ Smallest(T, g) \in 0 .. NumKeys /\ Largest(T, g) \in 0 .. NumKeys
      /\ Smallest(T, g) <= d.key /\ d.key <= Largest(T, g)
  BY Ends
<1>5. d.key \in Nat
  BY KeysAreNumbers
<1>6. Lo(T, P) \in Nat /\ Hi(T, P) \in Nat /\ Smallest(T, g) \in Nat /\ Largest(T, g) \in Nat
  BY <1>2, <1>4, KeyRange, Zenon
<1>7. Smallest(T, g) <= Hi(T, P) /\ Largest(T, g) >= Lo(T, P)
  BY <1>3, <1>4, <1>5, <1>6
<1> QED
  BY <1>7 DEF Meeting

\* The numbers of entries can be compared.
LEMMA SeqIsNat == ASSUME NEW A, A \subseteq Entry PROVE \A e \in A : e.seq \in Nat /\ e \in Entry
BY LevelsAssumption DEF Entry, Sequence

\* The inputs of a compaction as it begins.
LEMMA InputsFit ==
  ASSUME NEW v, NEW T, Filled(T, DOMAIN v), IsFiniteSet(DOMAIN v), Apart(v, T),
         NEW f \in DOMAIN v, v[f] \in Nat
  PROVE  LET c == Inputs(v, T, v[f], Picked(v, T, v[f], f))
         IN f \in c.in0 /\ Fits(c, v, T)
<1> DEFINE l == v[f]
           c == Inputs(v, T, l, Picked(v, T, l, f))
           in1 == Meeting(v, T, l + 1, Lo(T, c.in0), Hi(T, c.in0))
<1>1. /\ c.level = l /\ f \in c.in0 /\ c.in0 \subseteq Level(v, l) /\ c.in1 = in1
      /\ l = 0 => Meeting(v, T, 0, Lo(T, c.in0), Hi(T, c.in0)) \subseteq c.in0
  BY InputsMeet
<1> HIDE DEF c
<1>2. c.in1 \subseteq Level(v, l + 1)
  BY <1>1 DEF Meeting
<1>3. Filled(T, c.in0)
  BY <1>1 DEF Level, Filled
<1>4. ASSUME NEW g \in Level(v, l) \ c.in0, NEW d \in T[g], NEW e \in Entries(T, c.in0) PROVE d.key # e.key
  <2>1. T[g] \subseteq Entry /\ T[g] # {}
    BY DEF Level, Filled
  <2>2. CASE l = 0
    BY <1>1, <1>3, <1>4, <2>1, <2>2, KeyMeets
  <2>3. CASE l > 0
    <3>1. PICK h \in c.in0 : e \in T[h]
      BY DEF Entries
    <3>2. g \in DOMAIN v /\ h \in DOMAIN v /\ g # h /\ v[g] = v[h] /\ v[g] > 0
      BY <1>1, <2>3 DEF Level
    <3> QED
      BY <3>1, <3>2 DEF Apart
  <2> QED
    BY <2>2, <2>3
<1>5. ASSUME NEW g \in Level(v, l + 1) \ c.in1, NEW d \in T[g], NEW e \in Entries(T, c.in0 \cup c.in1) PROVE d.key # e.key
  <2>1. T[g] \subseteq Entry /\ T[g] # {}
    BY DEF Level, Filled
  <2>2. CASE e \in Entries(T, c.in0)
    BY <1>1, <1>3, <1>5, <2>1, <2>2, KeyMeets
  <2>3. CASE e \in Entries(T, c.in1)
    <3>1. PICK h \in c.in1 : e \in T[h]
      BY <2>3 DEF Entries
    <3>2. g \in DOMAIN v /\ h \in DOMAIN v /\ g # h /\ v[g] = v[h] /\ v[g] > 0
      BY <1>2 DEF Level
    <3> QED
      BY <3>1, <3>2 DEF Apart
  <2> QED
    BY <2>2, <2>3 DEF Entries
<1>6. Fits(c, v, T)
  BY <1>1, <1>2, <1>4, <1>5 DEF Fits
<1> QED
  BY <1>1, <1>6 DEF c

\* A version whose tables of a level and of the next gave way to others of the next:
\* the outputs of a merge, or a table that is moved.
LEMMA InputsReplaced ==
  ASSUME NEW v, NEW T, NEW U, NEW c, c.level \in Nat, Fits(c, v, T), Newer(v, T), Apart(v, T), Filled(T, DOMAIN v),
         \A f \in DOMAIN v : v[f] \in Nat, Agree(v, T, U),
         NEW a, \A f \in DOMAIN v : f \in a.drop \cup DOMAIN a.add <=> f \in c.in0 \cup c.in1,
         \A f \in DOMAIN a.add : a.add[f] = c.level + 1 /\ U[f] \subseteq Entries(T, c.in0 \cup c.in1),
         \A f, g \in DOMAIN a.add : f # g => \A d \in U[f], e \in U[g] : d.key # e.key
  PROVE  Newer(Edited(v, a), U) /\ Apart(Edited(v, a), U)
<1> DEFINE l == c.level
           fs == c.in0 \cup c.in1
           w == Edited(v, a)
           new == DOMAIN a.add
<1>0. /\ DOMAIN w = (DOMAIN v \ fs) \cup new
      /\ \A f \in new : w[f] = l + 1 /\ U[f] \subseteq Entries(T, fs)
      /\ \A f \in DOMAIN w \ new : w[f] = v[f] /\ U[f] = T[f]
      /\ \A f, g \in new : f # g => \A d \in U[f], e \in U[g] : d.key # e.key
  BY DEF Edited, Agree
<1> HIDE DEF w, new
<1>1. \A h \in fs : h \in DOMAIN v /\ (v[h] = l \/ v[h] = l + 1)
                  /\ (v[h] = l + 1 \/ h \in c.in0)
  BY DEF Fits, Level
<1>2. \A f \in new : \A e \in U[f] : \E h \in fs : e \in T[h]
  BY <1>0 DEF Entries
<1>3. \A h \in DOMAIN v : \A e \in T[h] : e.seq \in Nat
  BY SeqIsNat DEF Filled
<1>4. ASSUME NEW f \in DOMAIN w, NEW g \in DOMAIN w, w[f] < w[g], NEW d \in U[f], NEW e \in U[g], d.key = e.key
      PROVE  d.seq > e.seq
  <2>1. CASE f \notin new /\ g \notin new
    BY <1>0, <1>4, <2>1 DEF Newer
  <2>2. CASE f \in new /\ g \notin new
    <3>1. PICK h \in fs : d \in T[h]
      BY <1>2, <2>2
    <3>2. v[h] < v[g] /\ h \in DOMAIN v /\ g \in DOMAIN v /\ e \in T[g]
      BY <1>0, <1>1, <1>4, <2>2
    <3> QED
      BY <1>4, <3>1, <3>2 DEF Newer
  <2>3. CASE f \notin new /\ g \in new
    <3>1. PICK h \in fs : e \in T[h]
      BY <1>2, <2>3
    <3>2. f \in DOMAIN v /\ f \notin fs /\ d \in T[f] /\ v[f] < l + 1 /\ v[f] \in Nat
      BY <1>0, <1>4, <2>3
    <3>3. h \in DOMAIN v /\ (v[h] = l + 1 \/ (v[h] = l /\ h \in c.in0))
      BY <1>1
    <3>4. CASE v[f] < v[h]
      BY <1>4, <3>1, <3>2, <3>3, <3>4 DEF Newer
    <3>5. CASE ~(v[f] < v[h])
      <4>1. v[f] = l /\ h \in c.in0
        BY <3>2, <3>3, <3>5
      <4>2. f \in Level(v, l) \ c.in0 /\ e \in Entries(T, c.in0)
        BY <3>1, <3>2, <4>1 DEF Level, Entries
      <4> QED
        BY <1>4, <3>2, <4>2 DEF Fits
    <3> QED
      BY <3>4, <3>5
  <2>4. CASE f \in new /\ g \in new
    BY <1>0, <1>4, <2>4
  <2> QED
    BY <2>1, <2>2, <2>3, <2>4
<1>5. ASSUME NEW f \in new, NEW g \in DOMAIN w \ new, w[g] = l + 1, NEW d \in U[f], NEW e \in U[g]
      PROVE  d.key # e.key
  <2>1. g \in Level(v, l + 1) \ c.in1 /\ e \in T[g] /\ d \in Entries(T, fs)
    BY <1>0, <1>5 DEF Level
  <2> QED
    BY <2>1 DEF Fits
<1>6. ASSUME NEW f \in DOMAIN w, NEW g \in DOMAIN w, f # g, w[f] = w[g], w[f] > 0, NEW d \in U[f], NEW e \in U[g]
      PROVE  d.key # e.key
  <2>1. CASE f \notin new /\ g \notin new
    BY <1>0, <1>6, <2>1 DEF Apart
  <2>2. CASE f \in new /\ g \notin new
    BY <1>0, <1>5, <1>6, <2>2
  <2>3. CASE f \notin new /\ g \in new
    BY <1>0, <1>5, <1>6, <2>3
  <2>4. CASE f \in new /\ g \in new
    BY <1>0, <1>6, <2>4
  <2> QED
    BY <2>1, <2>2, <2>3, <2>4
<1>7. Newer(w, U) /\ Apart(w, U)
  BY <1>4, <1>6 DEF Newer, Apart
<1> QED
  BY <1>7 DEF w

\* A newer table that no table meets down to its own level.
LEMMA FlushIsNewer ==
  ASSUME NEW v, NEW T, NEW file, file \notin DOMAIN v, Filled(T, DOMAIN v \cup {file}),
         NEW p \in Nat, NEW e, e.drop = {}, e.add = [f \in {file} |-> p],
         p > 0 => \A f \in DOMAIN v : v[f] <= p => \A d \in T[f], x \in T[file] : d.key # x.key,
         Older(Stored(v, T), T[file]), Newer(v, T), Apart(v, T), \A f \in DOMAIN v : v[f] \in Nat
  PROVE  /\ Newer(Edited(v, e), T) /\ Apart(Edited(v, e), T)
         /\ \A c : c.level \in Nat /\ Fits(c, v, T) => Fits(c, Edited(v, e), T)
<1> DEFINE w == Edited(v, e)
<1>1. DOMAIN w = DOMAIN v \cup {file} /\ w[file] = p /\ \A f \in DOMAIN v : w[f] = v[f]
  BY DEF Edited
<1> HIDE DEF w
<1>2. \A f \in DOMAIN v : \A d \in T[f], x \in T[file] : x.seq > d.seq
  <2>1. \A f \in DOMAIN v : \A d \in T[f], x \in T[file] : d.seq < x.seq /\ d \in Entry /\ x \in Entry
    BY DEF Older, Stored, Entries, Filled
  <2> QED
    BY <2>1, SeqIsNat
<1>3. Newer(w, T)
  <2> SUFFICES ASSUME NEW f \in DOMAIN w, NEW g \in DOMAIN w, w[f] < w[g], NEW d \in T[f], NEW x \in T[g], d.key = x.key
               PROVE  d.seq > x.seq
    BY DEF Newer
  <2>1. CASE f # file /\ g # file
    BY <1>1, <2>1 DEF Newer
  <2>2. CASE f = file /\ g # file
    BY <1>1, <1>2, <2>2
  <2>3. CASE f # file /\ g = file
    BY <1>1, <2>3
  <2>4. CASE f = file /\ g = file
    BY <1>1, <2>4
  <2> QED
    BY <2>1, <2>2, <2>3, <2>4
<1>4. Apart(w, T)
  <2> SUFFICES ASSUME NEW f \in DOMAIN w, NEW g \in DOMAIN w, f # g, w[f] = w[g], w[f] > 0, NEW d \in T[f], NEW x \in T[g]
               PROVE  d.key # x.key
    BY DEF Apart
  <2>1. CASE f # file /\ g # file
    BY <1>1, <2>1 DEF Apart
  <2>2. CASE f = file /\ g # file
    BY <1>1, <2>2
  <2>3. CASE f # file /\ g = file
    BY <1>1, <2>3
  <2> QED
    BY <2>1, <2>2, <2>3
<1>5. ASSUME NEW c, c.level \in Nat, Fits(c, v, T) PROVE Fits(c, w, T)
  <2>1. c.in0 \subseteq Level(v, c.level) /\ c.in1 \subseteq Level(v, c.level + 1)
    BY <1>5 DEF Fits
  <2>2. c.in0 \subseteq Level(w, c.level) /\ c.in1 \subseteq Level(w, c.level + 1)
    BY <1>1, <2>1 DEF Level
  <2>3. ASSUME NEW g \in Level(w, c.level) \ c.in0, NEW d \in T[g], NEW x \in Entries(T, c.in0), d.key = x.key
        PROVE  d.seq > x.seq
    <3>1. CASE g = file
      BY <1>2, <2>1, <3>1 DEF Entries, Level
    <3>2. CASE g # file
      <4>1. g \in Level(v, c.level) \ c.in0
        BY <1>1, <3>2 DEF Level
      <4> QED
        BY <1>5, <2>3, <4>1 DEF Fits
    <3> QED
      BY <3>1, <3>2
  <2>4. ASSUME NEW g \in Level(w, c.level + 1) \ c.in1, NEW d \in T[g], NEW x \in Entries(T, c.in0 \cup c.in1)
        PROVE  d.key # x.key
    <3>1. CASE g = file
      <4>1. p = c.level + 1 /\ p > 0
        BY <1>1, <1>5, <3>1 DEF Level
      <4>2. PICK h \in c.in0 \cup c.in1 : x \in T[h]
        BY DEF Entries
      <4>3. h \in DOMAIN v /\ v[h] <= p
        BY <1>5, <2>1, <4>1 DEF Level
      <4> QED
        BY <3>1, <4>1, <4>2, <4>3
    <3>2. CASE g # file
      <4>1. g \in Level(v, c.level + 1) \ c.in1
        BY <1>1, <3>2 DEF Level
      <4> QED
        BY <1>5, <4>1 DEF Fits
    <3> QED
      BY <3>1, <3>2
  <2> QED
    BY <2>2, <2>3, <2>4 DEF Fits
<1> QED
  BY <1>3, <1>4, <1>5 DEF w

\* Only the tables of the version count.
LEMMA NewerFrame ==
  ASSUME NEW v, NEW T, NEW U, Agree(v, T, U)
  PROVE  /\ Newer(v, T) => Newer(v, U)
         /\ Apart(v, T) => Apart(v, U)
         /\ Stored(v, U) = Stored(v, T)
<1>1. \A f \in DOMAIN v : U[f] = T[f]
  BY DEF Agree
<1> QED
  BY <1>1 DEF Newer, Apart, Stored, Entries

\* For the inputs of a compaction too.
LEMMA FitsFrame ==
  ASSUME NEW v, NEW T, NEW U, Agree(v, T, U), NEW c, NEW d, Fits(c, v, T),
         d.level = c.level, d.in0 = c.in0, d.in1 = c.in1
  PROVE  Fits(d, v, U)
<1>1. c.in0 \subseteq Level(v, c.level) /\ c.in1 \subseteq Level(v, c.level + 1)
  BY DEF Fits
<1>2. \A l : \A g \in Level(v, l) : U[g] = T[g]
  BY DEF Agree, Level
<1>3. \A f \in c.in0 \cup c.in1 : U[f] = T[f]
  BY <1>1, <1>2
<1>4. Entries(U, c.in0) = Entries(T, c.in0) /\ Entries(U, c.in0 \cup c.in1) = Entries(T, c.in0 \cup c.in1)
  BY <1>3 DEF Entries
<1> QED
  BY <1>1, <1>2, <1>4 DEF Fits

-----------------------------------------------------------------------------
(* Ages.                                                                   *)

\* What a state stores and logs are entries.
LEMMA StoredTyped ==
  ASSUME TypesInv
  PROVE  /\ Stored(version, tables) \subseteq Entry /\ mem \subseteq Entry /\ (imm # None => imm \subseteq Entry)
         /\ \A m \in manifest : Stored(m.version, tables) \subseteq Entry
         /\ bg.at = "edit" => Stored(Edited(version, bg.edit), tables) \subseteq Entry
         /\ \A log : Logged(logs, log) \subseteq Entry
         /\ lastSeq \in Nat /\ (\A m \in manifest : m.seq \in Nat) /\ (bg.at = "edit" => bg.edit.seq \in Nat)
<1>1. \A f \in DOMAIN tables : tables[f] \subseteq Entry
  BY DEF TypesInv, EntriesInv
<1>2. DOMAIN version \subseteq DOMAIN tables /\ \A m \in manifest : DOMAIN m.version \subseteq DOMAIN tables
  BY TablesFilled
<1>3. bg.at = "edit" => DOMAIN Edited(version, bg.edit) \subseteq DOMAIN tables
  <2>1. bg.at = "edit" => DOMAIN bg.edit.add \subseteq DOMAIN tables
    BY DEF TypesInv, TablesInv, ThreadInv
  <2>2. DOMAIN Edited(version, bg.edit) \subseteq DOMAIN version \cup DOMAIN bg.edit.add
    BY EditedFiles
  <2> QED
    BY <1>2, <2>1, <2>2
<1>4. /\ Stored(version, tables) \subseteq Entry
      /\ \A m \in manifest : Stored(m.version, tables) \subseteq Entry
      /\ bg.at = "edit" => Stored(Edited(version, bg.edit), tables) \subseteq Entry
  BY <1>1, <1>2, <1>3 DEF Stored, Entries
<1>5. \A log : Logged(logs, log) \subseteq Entry
  BY LoggedTyped DEF TypesInv
<1>6. mem \subseteq Entry /\ (imm # None => imm \subseteq Entry)
  BY DEF TypesInv, EntriesInv
<1>7. lastSeq \in Nat /\ (\A m \in manifest : m.seq \in Nat) /\ (bg.at = "edit" => bg.edit.seq \in Nat)
  BY DEF TypesInv, SyncInv, Numbers
<1> QED
  BY <1>4, <1>5, <1>6, <1>7

\* What is to be shown after a step.
LEMMA AgesAfter ==
  ASSUME \A m \in manifest' : /\ Aged(Stored(m.version, tables'), m.seq, m.log, mem', logs')
                              /\ up' # "closed" => m.seq <= lastSeq',
         UpTo(Stored(version', tables'), lastSeq'),
         up' = "open" => Aged(Stored(version', tables'), lastSeq', logNumber', mem', logs'),
         bg'.at = "edit" =>
           /\ bg'.edit.seq <= lastSeq'
           /\ Aged(Stored(Edited(version', bg'.edit), tables'), bg'.edit.seq, bg'.edit.log, mem', logs')
           /\ bg'.file = 0 /\ imm' # None => Older(Stored(Edited(version', bg'.edit), tables'), imm'),
         imm' # None => Aged(imm', lastSeq', logfile', mem', logs') /\ Older(Stored(version', tables'), imm'),
         up' # "open" => mem' = {} /\ imm' = None,
         stage' # "publish" => UpTo(mem', lastSeq'),
         stage' = "publish" => UpTo(mem', lastSeq' + Cardinality(Joined(group))')
  PROVE  AgesInv'
<1>1. \A m \in manifest' : Aged(Stored(m.version, tables), m.seq, m.log, mem, logs)'
  BY DEF Aged, UpTo, Older, Stored, Entries, Logged
<1>2. UpTo(Stored(version, tables), lastSeq)'
  BY DEF UpTo, Stored, Entries
<1>3. up' = "open" => Aged(Stored(version, tables), lastSeq, logNumber, mem, logs)'
  BY DEF Aged, UpTo, Older, Stored, Entries, Logged
<1>4. bg'.at = "edit" => Aged(Stored(Edited(version, bg.edit), tables), bg.edit.seq, bg.edit.log, mem, logs)'
  BY DEF Aged, UpTo, Older, Stored, Entries, Logged, Edited
<1>5. bg'.at = "edit" /\ bg'.file = 0 /\ imm' # None => Older(Stored(Edited(version, bg.edit), tables), imm)'
  BY DEF Older, Stored, Entries, Edited
<1>6. imm' # None => Aged(imm, lastSeq, logfile, mem, logs)'
  BY DEF Aged, UpTo, Older, Logged
<1>7. imm' # None => Older(Stored(version, tables), imm)'
  BY DEF Older, Stored, Entries
<1>8. (stage' # "publish" => UpTo(mem, lastSeq)') /\ (stage' = "publish" => UpTo(mem, lastSeq + Cardinality(Joined(group)))')
  BY DEF UpTo
<1> QED
  BY <1>1, <1>2, <1>3, <1>4, <1>5, <1>6, <1>7, <1>8 DEF AgesInv

\* Younger entries join the memory table and the logs.
LEMMA AgedGrows ==
  ASSUME NEW A, A \subseteq Entry, NEW s \in Nat, NEW log, NEW M, NEW L, Aged(A, s, log, M, L),
         NEW t \in Nat, s <= t, NEW N, NEW K, \A e \in N : e \in M \/ (e.seq \in Nat /\ e.seq > t),
         \A e \in Logged(K, log) : e \in Logged(L, log) \/ (e.seq \in Nat /\ e.seq > t)
  PROVE  Aged(A, s, log, N, K)
<1>1. \A e \in A : e.seq \in Nat /\ e.seq <= t
  BY SeqIsNat DEF Aged, UpTo
<1> QED
  BY <1>1 DEF Aged, Older

\* A greater bound, a later log.
LEMMA AgedMore ==
  ASSUME NEW A, A \subseteq Entry, NEW s \in Nat, NEW t \in Nat, s <= t, UpTo(A, s)
  PROVE  UpTo(A, t)
BY SeqIsNat DEF UpTo

\* Writers: the memory table and the logs get entries with new numbers only.
LEMMA WritersAges ==
  ASSUME TypesInv, AgesInv, up = "open",
         UNCHANGED <<tables, manifest, version, bg, up, imm, logNumber, logfile>>,
         lastSeq' \in Nat, lastSeq <= lastSeq',
         \A e \in mem' : e \in mem \/ (e.seq \in Nat /\ e.seq > lastSeq),
         \A log : \A e \in Logged(logs', log) : e \in Logged(logs, log) \/ (e.seq \in Nat /\ e.seq > lastSeq),
         stage' # "publish" => UpTo(mem', lastSeq'),
         stage' = "publish" => UpTo(mem', lastSeq' + Cardinality(Joined(group))')
  PROVE  AgesInv'
<1>1. lastSeq \in Nat
  BY StoredTyped
<1>2. ASSUME NEW A, A \subseteq Entry, NEW s \in Nat, s <= lastSeq, NEW log, Aged(A, s, log, mem, logs)
      PROVE  Aged(A, s, log, mem', logs')
  <2>1. \A e \in Logged(logs', log) : e \in Logged(logs, log) \/ (e.seq \in Nat /\ e.seq > lastSeq)
    OBVIOUS
  <2> QED
    BY <1>1, <1>2, <2>1, AgedGrows
<1>3. ASSUME NEW A, A \subseteq Entry, UpTo(A, lastSeq) PROVE UpTo(A, lastSeq')
  BY <1>1, <1>3, AgedMore
<1>4. ASSUME NEW A, A \subseteq Entry, NEW log, Aged(A, lastSeq, log, mem, logs)
      PROVE  Aged(A, lastSeq', log, mem', logs')
  <2>1. Aged(A, lastSeq, log, mem', logs')
    BY <1>1, <1>2, <1>4
  <2> QED
    BY <1>3, <1>4, <2>1 DEF Aged
<1>5. \A m \in manifest : Aged(Stored(m.version, tables), m.seq, m.log, mem', logs') /\ m.seq <= lastSeq'
  <2> SUFFICES ASSUME NEW m \in manifest
               PROVE  Aged(Stored(m.version, tables), m.seq, m.log, mem', logs') /\ m.seq <= lastSeq'
    OBVIOUS
  <2>1. m.seq \in Nat /\ Stored(m.version, tables) \subseteq Entry
    BY StoredTyped
  <2>2. Aged(Stored(m.version, tables), m.seq, m.log, mem, logs) /\ m.seq <= lastSeq
    BY DEF AgesInv
  <2> QED
    BY <1>1, <1>2, <2>1, <2>2
<1>6. Stored(version, tables) \subseteq Entry /\ Aged(Stored(version, tables), lastSeq, logNumber, mem, logs)
  BY StoredTyped DEF AgesInv
<1>7. Aged(Stored(version, tables), lastSeq', logNumber, mem', logs') /\ UpTo(Stored(version, tables), lastSeq')
  <2>1. Aged(Stored(version, tables), lastSeq', logNumber, mem', logs')
    BY <1>4, <1>6
  <2> QED
    BY <2>1 DEF Aged
<1>8. ASSUME bg.at = "edit"
      PROVE  /\ bg.edit.seq <= lastSeq'
             /\ Aged(Stored(Edited(version, bg.edit), tables), bg.edit.seq, bg.edit.log, mem', logs')
             /\ bg.file = 0 /\ imm # None => Older(Stored(Edited(version, bg.edit), tables), imm)
  <2>1. Stored(Edited(version, bg.edit), tables) \subseteq Entry /\ bg.edit.seq \in Nat
    BY <1>8, StoredTyped
  <2>2. /\ bg.edit.seq <= lastSeq
        /\ Aged(Stored(Edited(version, bg.edit), tables), bg.edit.seq, bg.edit.log, mem, logs)
        /\ bg.file = 0 /\ imm # None => Older(Stored(Edited(version, bg.edit), tables), imm)
    BY <1>8 DEF AgesInv
  <2>3. Aged(Stored(Edited(version, bg.edit), tables), bg.edit.seq, bg.edit.log, mem', logs')
    BY <1>2, <2>1, <2>2
  <2> QED
    BY <1>1, <2>1, <2>2, <2>3
<1>9. imm # None => Aged(imm, lastSeq', logfile, mem', logs') /\ Older(Stored(version, tables), imm)
  <2>1. imm # None => imm \subseteq Entry /\ Aged(imm, lastSeq, logfile, mem, logs) /\ Older(Stored(version, tables), imm)
    BY StoredTyped DEF AgesInv
  <2> QED
    BY <1>4, <2>1
<1> QED
  BY <1>5, <1>7, <1>8, <1>9, AgesAfter

\* Steps that change none of it.
LEMMA OthersAges ==
  ASSUME TypesInv, AgesInv,
         UNCHANGED <<tables, manifest, version, bg, up, mem, imm, lastSeq, logNumber, logfile, logs, stage>>,
         Joined(group)' = Joined(group)
  PROVE  AgesInv'
BY AgesAfter DEF AgesInv

\* The log takes the leader's record.
LEMMA RecordLogged ==
  ASSUME SyncInv, AddRecord, NEW log, NEW e \in Logged(logs', log)
  PROVE  e \in Logged(logs, log) \/ e \in GroupEntries
<1>1. stage = "append" /\ logs' = [logs EXCEPT ![logfile] = Append(@, GroupEntries)]
  BY DEF AddRecord
<1>2. PICK n \in DOMAIN logs' : n >= log /\ e \in UNION ToSet(logs'[n])
  BY DEF Logged
<1>3. n \in DOMAIN logs /\ logs[n] \in Seq(SUBSET Written)
  BY <1>1 DEF SyncInv, LogsTyped
<1>4. CASE n # logfile
  BY <1>1, <1>2, <1>3, <1>4 DEF Logged
<1>5. CASE n = logfile
  <2>1. logs'[n] = Append(logs[n], GroupEntries)
    BY <1>1, <1>3, <1>5
  <2>2. \A r \in ToSet(logs'[n]) : r \in ToSet(logs[n]) \/ r = GroupEntries
    BY <1>3, <2>1 DEF ToSet
  <2> QED
    BY <1>2, <1>3, <2>2 DEF Logged
<1> QED
  BY <1>4, <1>5

\* AddRecord, Sync and InsertInto.
LEMMA RecordAges == ASSUME TypesInv, AgesInv, AddRecord \/ Sync \/ InsertInto PROVE AgesInv'
<1>1. /\ up = "open" /\ lastSeq \in Nat /\ Cardinality(Joined(group)) \in Nat
      /\ \A e \in GroupEntries : lastSeq < e.seq /\ e.seq <= lastSeq + Cardinality(Joined(group))
      /\ stage \in {"append", "sync", "insert"}
      /\ GroupEntries \subseteq Entry
  <2>1. stage \in {"append", "sync", "insert"}
    BY DEF AddRecord, Sync, InsertInto
  <2> QED
    BY <2>1, LeaderAtWork, GroupTyped DEF TypesInv
<1>2. UNCHANGED <<tables, manifest, version, bg, up, imm, logNumber, logfile, lastSeq, queue, group>>
  BY DEF AddRecord, Sync, InsertInto, disk_, memory_, files_, thread_
<1>3. Joined(group)' = Joined(group)
  BY <1>2 DEF Joined
<1>4. \A e \in GroupEntries : e.seq \in Nat /\ e.seq > lastSeq
  BY <1>1, SeqIsNat
<1>5. \A log : \A e \in Logged(logs', log) : e \in Logged(logs, log) \/ e \in GroupEntries
  <2>1. CASE AddRecord
    BY <2>1, RecordLogged DEF TypesInv
  <2>2. CASE Sync \/ InsertInto
    BY <2>2 DEF Sync, InsertInto, disk_
  <2> QED
    BY <2>1, <2>2
<1>6. mem \subseteq Entry /\ UpTo(mem, lastSeq)
  BY <1>1, StoredTyped DEF AgesInv
<1>7. \/ UNCHANGED mem /\ stage' # "publish"
      \/ mem' = mem \cup GroupEntries /\ stage' = "publish"
  BY DEF AddRecord, Sync, InsertInto, memory_
<1>8. UpTo(mem, lastSeq + Cardinality(Joined(group)))
  BY <1>1, <1>6, AgedMore
<1>9. UpTo(mem \cup GroupEntries, lastSeq + Cardinality(Joined(group)))
  BY <1>1, <1>8 DEF UpTo
<1>10. \A e \in mem' : e \in mem \/ (e.seq \in Nat /\ e.seq > lastSeq)
  BY <1>4, <1>7
<1>11. \A log : \A e \in Logged(logs', log) : e \in Logged(logs, log) \/ (e.seq \in Nat /\ e.seq > lastSeq)
  BY <1>4, <1>5
<1>12. stage' = "publish" => UpTo(mem', lastSeq' + Cardinality(Joined(group))')
  BY <1>2, <1>3, <1>7, <1>9
<1>13. stage' # "publish" => UpTo(mem', lastSeq')
  BY <1>2, <1>6, <1>7
<1>14. lastSeq' \in Nat /\ lastSeq <= lastSeq'
  BY <1>1, <1>2
<1> QED
  BY <1>1, <1>2, <1>10, <1>11, <1>12, <1>13, <1>14, WritersAges

\* The leader's numbers are used up.
LEMMA ReturnAges == ASSUME TypesInv, AgesInv, Publish \/ WriteFails PROVE AgesInv'
<1>1. stage \in {"append", "sync", "publish"} /\ (stage = "publish" \/ WriteFails) /\ Return
  BY DEF Publish, WriteFails
<1>2. up = "open" /\ lastSeq \in Nat /\ Cardinality(Joined(group)) \in Nat
  BY <1>1, LeaderAtWork DEF TypesInv
<1>3. UNCHANGED <<tables, manifest, version, bg, up, imm, logNumber, logfile, mem, logs>>
  BY DEF Publish, WriteFails, disk_, memory_, files_, thread_
<1>4. lastSeq' = lastSeq + Cardinality(Joined(group)) /\ stage' = "idle"
  BY <1>1 DEF Return
<1>5. mem \subseteq Entry /\ UpTo(mem, lastSeq')
  <2>1. mem \subseteq Entry
    BY StoredTyped
  <2>2. CASE stage = "publish"
    BY <1>4, <2>1, <2>2 DEF AgesInv
  <2>3. CASE stage # "publish"
    BY <1>2, <1>4, <2>1, <2>3, AgedMore DEF AgesInv
  <2> QED
    BY <2>1, <2>2, <2>3
<1> QED
  BY <1>2, <1>3, <1>4, <1>5, WritersAges

\* A writer joins, or leaves.
LEMMA QueueAges ==
  ASSUME TypesInv, AgesInv, (\E w \in Writes : Write(w)) \/ LeadFails
  PROVE  AgesInv'
<1>1. UNCHANGED <<tables, manifest, version, bg, up, mem, imm, lastSeq, logNumber, logfile, logs, stage>>
  BY DEF Write, LeadFails, disk_, memory_, files_, thread_
<1>2. CASE LeadFails
  <2>1. stage' # "publish" /\ lastSeq \in Nat /\ up = "open"
    BY <1>1, <1>2, StoredTyped DEF LeadFails
  <2> QED
    BY <1>1, <2>1, WritersAges DEF AgesInv
<1>3. CASE \E w \in Writes : Write(w)
  <2>1. PICK w \in Writes : Write(w)
    BY <1>3
  <2>2. queue' = Append(queue, w) /\ UNCHANGED group
    BY <2>1 DEF Write
  <2>3. queue \in Seq(Writes) /\ group \in 0 .. Len(queue)
    BY DEF TypesInv, SyncInv, Leading, RoomInv
  <2>4. \A i \in 1 .. group : queue'[i] = queue[i]
    BY <2>2, <2>3
  <2>5. Joined(group)' = Joined(group)
    BY <1>1, <2>2, <2>4, SameGroup
  <2> QED
    BY <1>1, <2>5, OthersAges
<1> QED
  BY <1>2, <1>3

\* A new memory table takes the place of the full one, with a log of its own.
LEMMA LeadAges == ASSUME TypesInv, AgesInv, Lead PROVE AgesInv'
<1>1. /\ up = "open" /\ stage = "idle" /\ stage' = "append" /\ (HasRoom \/ SwitchMemTable)
      /\ UNCHANGED <<tables, manifest, version, bg, up, lastSeq, logNumber>>
  BY DEF Lead, files_
<1>2. CASE HasRoom
  <2>1. UNCHANGED <<mem, imm, logfile, logs>> /\ lastSeq \in Nat
    BY <1>2, StoredTyped DEF HasRoom, memory_
  <2>2. UpTo(mem', lastSeq')
    BY <1>1, <2>1 DEF AgesInv
  <2> QED
    BY <1>1, <2>1, <2>2, WritersAges
<1>3. CASE SwitchMemTable
  <2>1. /\ imm = None /\ imm' = mem /\ mem' = {} /\ logfile' = nextFile
        /\ logs' = Over([n \in {nextFile} |-> <<>>], logs)
    BY <1>3 DEF SwitchMemTable, MaySwitch
  <2>2. \A n \in DOMAIN logs : n \in Nat /\ n < nextFile
    BY <1>1, LogfileIsNat DEF TypesInv, SyncInv, Latest
  <2>3. nextFile \in Nat
    BY NumbersTyped DEF TypesInv
  <2>4. /\ DOMAIN logs' = DOMAIN logs \cup {nextFile} /\ logs'[nextFile] = <<>>
        /\ \A n \in DOMAIN logs : logs'[n] = logs[n]
    BY <2>1, <2>2, <2>3 DEF Over
  <2>5. UNION ToSet(logs'[nextFile]) = {}
    BY <2>4 DEF ToSet
  <2>6. \A log : Logged(logs', log) \subseteq Logged(logs, log)
    BY <2>4, <2>5 DEF Logged
  <2>7. Logged(logs', nextFile) = {}
    <3>1. \A n \in DOMAIN logs' : n >= nextFile => n = nextFile
      BY <2>2, <2>3, <2>4
    <3> QED
      BY <2>5, <3>1 DEF Logged
  <2>8. \A A, s, log : Aged(A, s, log, mem, logs) => Aged(A, s, log, mem', logs')
    BY <2>1, <2>6 DEF Aged, Older
  <2> DEFINE S == Stored(version, tables)
             E == Stored(Edited(version, bg.edit), tables)
             R(m) == Stored(m.version, tables)
  <2>81. \A m \in manifest : Aged(R(m), m.seq, m.log, mem, logs) /\ m.seq <= lastSeq
    BY <1>1 DEF AgesInv
  <2>82. UpTo(S, lastSeq) /\ Aged(S, lastSeq, logNumber, mem, logs)
    BY <1>1 DEF AgesInv
  <2>83. bg.at = "edit" => bg.edit.seq <= lastSeq /\ Aged(E, bg.edit.seq, bg.edit.log, mem, logs)
    BY DEF AgesInv
  <2> HIDE DEF S, E, R
  <2>9. \A m \in manifest : Aged(R(m), m.seq, m.log, mem', logs') /\ m.seq <= lastSeq
    BY <2>8, <2>81
  <2>10. UpTo(S, lastSeq) /\ Aged(S, lastSeq, logNumber, mem', logs') /\ Older(S, mem)
    BY <2>8, <2>82 DEF Aged
  <2>11. bg.at = "edit" => /\ bg.edit.seq <= lastSeq
                           /\ Aged(E, bg.edit.seq, bg.edit.log, mem', logs') /\ Older(E, mem)
    BY <2>8, <2>83 DEF Aged
  <2>12. Aged(mem, lastSeq, nextFile, mem', logs')
    BY <1>1, <2>1, <2>7 DEF AgesInv, Aged, Older
  <2>13. UpTo(mem', lastSeq)
    BY <2>1 DEF UpTo
  <2> QED
    BY <1>1, <2>1, <2>9, <2>10, <2>11, <2>12, <2>13, AgesAfter DEF S, E, R
<1> QED
  BY <1>1, <1>2, <1>3

-----------------------------------------------------------------------------
\* Steps of the thread that leave the version, the memory tables and the logs alone.
LEMMA ThreadAges ==
  ASSUME AgesInv, up = "open",
         UNCHANGED <<manifest, version, up, mem, imm, lastSeq, logNumber, logfile, logs, stage, queue, group>>,
         Agree(version, tables, tables'), \A m \in manifest : Agree(m.version, tables, tables'),
         bg'.at = "edit" =>
           /\ bg'.edit.seq <= lastSeq
           /\ Aged(Stored(Edited(version, bg'.edit), tables'), bg'.edit.seq, bg'.edit.log, mem, logs)
           /\ bg'.file = 0 /\ imm # None => Older(Stored(Edited(version, bg'.edit), tables'), imm)
  PROVE  AgesInv'
<1>1. Stored(version, tables') = Stored(version, tables)
  BY NewerFrame
<1>2. \A m \in manifest : Stored(m.version, tables') = Stored(m.version, tables)
  BY NewerFrame
<1>3. Joined(group)' = Joined(group)
  BY DEF Joined
<1> QED
  BY <1>1, <1>2, <1>3, AgesAfter DEF AgesInv

\* An edit whose entries are those of the version, begun now.
LEMMA MovesAges ==
  ASSUME TypesInv, AgesInv, up = "open", NEW A, A \subseteq Stored(version, tables)
  PROVE  Aged(A, lastSeq, logNumber, mem, logs) /\ (imm # None => Older(A, imm))
BY DEF AgesInv, Aged, Older, UpTo

\* The thread's steps but for its edits.
LEMMA CallsAges ==
  ASSUME TypesInv, AgesInv, NothingToDo \/ BuildTableFails \/ MergeFails \/ BeginFlush
  PROVE  AgesInv'
<1>1. UNCHANGED <<manifest, version, up, mem, imm, lastSeq, logNumber, logfile, logs, stage, queue, group, tables>>
  <2>1. CASE NothingToDo \/ BuildTableFails \/ BeginFlush
    BY <2>1 DEF NothingToDo, BuildTableFails, BeginFlush, disk_, memory_, files_, writers_
  <2>2. CASE MergeFails
    BY <2>2 DEF MergeFails, DeleteObsoleteFiles, CannotTell, memory_, files_, writers_
  <2> QED
    BY <2>1, <2>2
<1>2. up = "open"
  BY ThreadIsOpen DEF TypesInv
<1>3. bg'.at # "edit"
  <2>1. CASE BeginFlush
    BY <2>1 DEF BeginFlush, TypesInv, TablesInv, ThreadInv, ThreadRecord
  <2>2. CASE NothingToDo \/ BuildTableFails \/ MergeFails
    BY <2>2, CallEnds DEF TypesInv, Idle
  <2> QED
    BY <2>1, <2>2
<1>4. Agree(version, tables, tables') /\ \A m \in manifest : Agree(m.version, tables, tables')
  BY <1>1 DEF Agree
<1> QED
  BY <1>1, <1>2, <1>3, <1>4, ThreadAges

\* A table moves, or a merge begins.
LEMMA BeginCompactionAges == ASSUME TypesInv, AgesInv, BeginCompaction PROVE AgesInv'
<1>1. UNCHANGED <<manifest, version, up, mem, imm, lastSeq, logNumber, logfile, logs, stage, queue, group, tables>>
  BY DEF BeginCompaction, disk_, memory_, files_, writers_
<1>2. PICK f \in Pickable :
        \/ /\ bg'.at = "edit" /\ bg'.edit.drop = {} /\ bg'.edit.add = [g \in {f} |-> version[f] + 1]
           /\ bg'.edit.log = logNumber /\ bg'.edit.seq = lastSeq
        \/ bg'.at = "merge"
  BY BeginCompactionDoes DEF TypesInv
<1>3. up = "open"
  BY BeginCompactionDoes DEF TypesInv
<1>4. Agree(version, tables, tables') /\ \A m \in manifest : Agree(m.version, tables, tables')
  BY <1>1 DEF Agree
<1>5. ASSUME bg'.at = "edit"
      PROVE  /\ bg'.edit.seq <= lastSeq
             /\ Aged(Stored(Edited(version, bg'.edit), tables'), bg'.edit.seq, bg'.edit.log, mem, logs)
             /\ imm # None => Older(Stored(Edited(version, bg'.edit), tables'), imm)
  <2>1. DOMAIN Edited(version, bg'.edit) \subseteq DOMAIN version
    BY <1>2, <1>5 DEF Edited, Pickable
  <2>2. Stored(Edited(version, bg'.edit), tables') \subseteq Stored(version, tables)
    BY <1>1, <2>1 DEF Stored, Entries
  <2>3. lastSeq \in Nat /\ bg'.edit.log = logNumber /\ bg'.edit.seq = lastSeq
    BY <1>2, <1>5, StoredTyped
  <2> QED
    BY <1>3, <2>2, <2>3, MovesAges
<1> QED
  BY <1>1, <1>3, <1>4, <1>5, ThreadAges

\* An output more.
LEMMA WriteOutputAges == ASSUME TypesInv, AgesInv, WriteOutput PROVE AgesInv'
<1>1. /\ up = "open" /\ bg'.at # "edit"
      /\ Agree(version, tables, tables') /\ \A m \in manifest : Agree(m.version, tables, tables')
  BY WriteOutputAdds
<1>2. UNCHANGED <<manifest, version, up, mem, imm, lastSeq, logNumber, logfile, logs, stage, queue, group>>
  BY DEF WriteOutput, memory_, files_, writers_
<1> QED
  BY <1>1, <1>2, ThreadAges

\* A merge's outputs have no entries that its inputs have not.
LEMMA MergeAges == ASSUME TypesInv, LevelsInv, AgesInv, Merge PROVE AgesInv'
<1>1. PICK new :
        /\ up = "open" /\ bg.at = "merge" /\ bg'.at = "edit"
        /\ bg'.edit.add = [f \in new |-> bg.comp.level + 1]
        /\ bg'.edit.drop = bg.comp.in0 \cup bg.comp.in1
        /\ bg'.edit.log = logNumber /\ bg'.edit.seq = lastSeq
        /\ Agree(version, tables, tables') /\ \A m \in manifest : Agree(m.version, tables, tables')
        /\ \A f \in new : tables'[f] \subseteq Entries(tables, bg.comp.in0 \cup bg.comp.in1)
  <2>1. PICK new :
          /\ up = "open" /\ bg.at = "merge" /\ bg'.at = "edit" /\ bg'.file = 0
          /\ bg'.edit.add = [f \in new |-> bg.comp.level + 1]
          /\ bg'.edit.drop = bg.comp.in0 \cup bg.comp.in1
          /\ bg'.edit.log = logNumber /\ bg'.edit.seq = lastSeq
          /\ UNCHANGED <<manifest, up, version, bgError>>
          /\ new \cap DOMAIN version = {}
          /\ Agree(version, tables, tables') /\ \A m \in manifest : Agree(m.version, tables, tables')
          /\ \A f \in new : /\ f \in Nat /\ tables'[f] \subseteq Entry
                            /\ tables'[f] \subseteq Entries(tables, bg.comp.in0 \cup bg.comp.in1)
          /\ \A f, g \in new : f # g => OneSide(tables'[f], tables'[g])
          /\ ~Cut => \A f, g \in new : f # g => \A d \in tables'[f], e \in tables'[g] : d.key # e.key
    BY MergeMakes
  <2> QED
    BY <2>1
<1>2. UNCHANGED <<manifest, version, up, mem, imm, lastSeq, logNumber, logfile, logs, stage, queue, group>>
  BY DEF Merge, disk_, memory_, files_, writers_
<1>3. bg.comp.in0 \cup bg.comp.in1 \subseteq DOMAIN version
  BY <1>1 DEF LevelsInv, Movable, Level
<1>4. Stored(Edited(version, bg'.edit), tables') \subseteq Stored(version, tables)
  <2>1. DOMAIN Edited(version, bg'.edit) \subseteq DOMAIN version \cup new
    BY <1>1 DEF Edited
  <2>2. \A f \in DOMAIN version : tables'[f] = tables[f]
    BY <1>1 DEF Agree
  <2>3. \A f \in new : tables'[f] \subseteq Entries(tables, DOMAIN version)
    BY <1>1, <1>3 DEF Entries
  <2> QED
    BY <2>1, <2>2, <2>3 DEF Stored, Entries
<1>5. /\ Aged(Stored(Edited(version, bg'.edit), tables'), lastSeq, logNumber, mem, logs)
      /\ imm # None => Older(Stored(Edited(version, bg'.edit), tables'), imm)
  BY <1>1, <1>4, MovesAges
<1>6. bg'.edit.seq <= lastSeq
  BY <1>1, StoredTyped
<1>7. /\ Aged(Stored(Edited(version, bg'.edit), tables'), bg'.edit.seq, bg'.edit.log, mem, logs)
      /\ imm # None => Older(Stored(Edited(version, bg'.edit), tables'), imm)
  BY <1>1, <1>5
<1> QED
  BY <1>1, <1>2, <1>6, <1>7, ThreadAges

\* A flush's table has the entries of the memory table that waits.
LEMMA BuildTableAges == ASSUME TypesInv, AgesInv, BuildTable PROVE AgesInv'
<1>1. /\ up = "open" /\ bg'.at = "edit" /\ bg'.file # 0
      /\ DOMAIN bg'.edit.add = {bg.file} /\ bg'.edit.drop = {}
      /\ bg'.edit.log = logfile /\ bg'.edit.seq = lastSeq
      /\ imm # None /\ tables'[bg.file] = imm
      /\ Agree(version, tables, tables') /\ \A m \in manifest : Agree(m.version, tables, tables')
  BY BuildTableMakes
<1>2. UNCHANGED <<manifest, version, up, mem, imm, lastSeq, logNumber, logfile, logs, stage, queue, group>>
  BY DEF BuildTable, memory_, files_, writers_
<1>3. Stored(Edited(version, bg'.edit), tables') \subseteq Stored(version, tables) \cup imm
  <2>1. DOMAIN Edited(version, bg'.edit) \subseteq DOMAIN version \cup {bg.file}
    BY <1>1 DEF Edited
  <2>2. \A f \in DOMAIN version : tables'[f] = tables[f]
    BY <1>1 DEF Agree
  <2> QED
    BY <1>1, <2>1, <2>2 DEF Stored, Entries
<1>4. Aged(imm, lastSeq, logfile, mem, logs)
  BY <1>1 DEF AgesInv
<1>5. Aged(Stored(version, tables), lastSeq, logfile, mem, logs)
  <2>1. logNumber \in Nat /\ logfile \in Nat /\ DOMAIN logs \subseteq Nat /\ logNumber <= logfile
    BY <1>1, NumbersTyped, LogfileIsNat DEF TypesInv, StateInv
  <2>2. Logged(logs, logfile) \subseteq Logged(logs, logNumber)
    BY <2>1 DEF Logged
  <2>3. Aged(Stored(version, tables), lastSeq, logNumber, mem, logs)
    BY <1>1 DEF AgesInv
  <2> QED
    BY <2>2, <2>3 DEF Aged, Older
<1>6. Aged(Stored(Edited(version, bg'.edit), tables'), lastSeq, logfile, mem, logs)
  BY <1>3, <1>4, <1>5 DEF Aged, Older, UpTo
<1>7. lastSeq <= lastSeq
  BY StoredTyped
<1>8. /\ bg'.edit.seq <= lastSeq
      /\ Aged(Stored(Edited(version, bg'.edit), tables'), bg'.edit.seq, bg'.edit.log, mem, logs)
  BY <1>1, <1>6, <1>7
<1> QED
  BY <1>1, <1>2, <1>8, ThreadAges

\* Logs that are deleted, and tables the version does not have.
LEMMA InstallAges == ASSUME TypesInv, TypesInv', LevelsInv, AgesInv, Install PROVE AgesInv'
<1>1. /\ up = "open" /\ bg.at = "edit" /\ UNCHANGED <<up, mem, lastSeq, logfile, stage, queue, group>>
      /\ manifest' = {Recorded(m, bg.edit) : m \in manifest} /\ version' = Edited(version, bg.edit)
      /\ logNumber' = bg.edit.log /\ imm' = IF Flushing THEN None ELSE imm
  BY ThreadIsOpen DEF Install, TypesInv, writers_
<1>2. /\ \A f \in DOMAIN tables' : f \in DOMAIN tables /\ tables'[f] = tables[f]
      /\ \A n \in DOMAIN logs' : n \in DOMAIN logs /\ logs'[n] = logs[n]
  <2>1. CASE Moving
    BY <2>1 DEF Install
  <2>2. CASE ~Moving
    <3>1. DeleteObsoleteFiles(version', logNumber', IF Flushing THEN bg.comp ELSE None, pending', bgError)
      BY <2>2 DEF Install
    <3>2. \A n \in DOMAIN logs' : n \in DOMAIN logs /\ logs'[n] = logs[n]
      BY <3>1 DEF DeleteObsoleteFiles, Restrict
    <3> QED
      BY <3>1, <3>2, Deletes
  <2> QED
    BY <2>1, <2>2
<1>3. DOMAIN version' \subseteq DOMAIN tables'
  BY DEF TypesInv, TablesInv
<1>4. \A log : Logged(logs', log) \subseteq Logged(logs, log)
  BY <1>2 DEF Logged
<1>5. Stored(version', tables') = Stored(Edited(version, bg.edit), tables)
  <2>1. Agree(version', tables, tables')
    BY <1>2, <1>3 DEF Agree
  <2> QED
    BY <1>1, <2>1, NewerFrame
<1> DEFINE E == Stored(Edited(version, bg.edit), tables)
<1>6. /\ bg.edit.seq <= lastSeq /\ Aged(E, bg.edit.seq, bg.edit.log, mem, logs)
      /\ bg.file = 0 /\ imm # None => Older(E, imm)
  BY <1>1 DEF AgesInv
<1>7. E \subseteq Entry /\ lastSeq \in Nat /\ bg.edit.seq \in Nat
  BY <1>1, StoredTyped
<1>8. \A m \in manifest' : m.version = version' /\ m.seq = bg.edit.seq /\ m.log = bg.edit.log
  BY <1>1 DEF LevelsInv, Recorded
<1> HIDE DEF E
<1>9. Aged(E, bg.edit.seq, bg.edit.log, mem, logs') /\ Aged(E, lastSeq, bg.edit.log, mem, logs')
  <2>1. UpTo(E, lastSeq)
    BY <1>6, <1>7, AgedMore DEF Aged
  <2> QED
    BY <1>4, <1>6, <2>1 DEF Aged, Older
<1>10. \A m \in manifest' : Aged(Stored(m.version, tables'), m.seq, m.log, mem', logs') /\ m.seq <= lastSeq'
  BY <1>1, <1>5, <1>6, <1>8, <1>9 DEF E
<1>11. UpTo(Stored(version', tables'), lastSeq') /\ Aged(Stored(version', tables'), lastSeq', logNumber', mem', logs')
  BY <1>1, <1>5, <1>9 DEF E, Aged
<1>12. bg'.at # "edit"
  BY CallEnds DEF TypesInv, Idle
<1>13. ASSUME imm' # None
       PROVE  Aged(imm', lastSeq', logfile', mem', logs') /\ Older(Stored(version', tables'), imm')
  <2>1. imm' = imm /\ bg.file = 0
    BY <1>1, <1>13 DEF Flushing
  <2>2. Aged(imm, lastSeq, logfile, mem, logs)
    BY <1>13, <2>1 DEF AgesInv
  <2> QED
    BY <1>1, <1>4, <1>5, <1>6, <1>13, <2>1, <2>2 DEF E, Aged, Older
<1>14. Joined(group)' = Joined(group)
  BY <1>1 DEF Joined
<1>15. /\ stage' # "publish" => UpTo(mem', lastSeq')
       /\ stage' = "publish" => UpTo(mem', lastSeq' + Cardinality(Joined(group))')
  BY <1>1, <1>14 DEF AgesInv
<1> QED
  BY <1>1, <1>10, <1>11, <1>12, <1>13, <1>15, AgesAfter

\* The manifest may say either.
LEMMA InstallFailsAges == ASSUME TypesInv, LevelsInv, AgesInv, InstallFails PROVE AgesInv'
<1>1. /\ up = "open" /\ bg.at = "edit"
      /\ UNCHANGED <<up, mem, imm, lastSeq, logNumber, logfile, logs, stage, queue, group, version, tables>>
      /\ manifest' = manifest \cup {Recorded(m, bg.edit) : m \in manifest}
  <2>1. /\ up = "open" /\ bg.at = "edit"
        /\ UNCHANGED <<up, mem, imm, lastSeq, logNumber, logfile, stage, queue, group, version>>
        /\ manifest' = manifest \cup {Recorded(m, bg.edit) : m \in manifest}
    BY ThreadIsOpen DEF InstallFails, TypesInv, files_, memory_, writers_
  <2>2. UNCHANGED <<tables, logs>>
    BY DEF InstallFails, DeleteObsoleteFiles, CannotTell
  <2> QED
    BY <2>1, <2>2
<1>2. ASSUME NEW m \in manifest'
      PROVE  Aged(Stored(m.version, tables), m.seq, m.log, mem, logs) /\ m.seq <= lastSeq
  <2>1. CASE m \in manifest
    BY <1>1, <2>1 DEF AgesInv
  <2>2. CASE m \notin manifest
    <3>1. m.version = Edited(version, bg.edit) /\ m.seq = bg.edit.seq /\ m.log = bg.edit.log
      BY <1>1, <1>2, <2>2 DEF LevelsInv, Recorded
    <3> QED
      BY <1>1, <3>1 DEF AgesInv
  <2> QED
    BY <2>1, <2>2
<1>3. bg'.at # "edit"
  BY CallEnds DEF TypesInv, Idle
<1>4. Joined(group)' = Joined(group)
  BY <1>1 DEF Joined
<1>5. /\ UpTo(Stored(version, tables), lastSeq) /\ Aged(Stored(version, tables), lastSeq, logNumber, mem, logs)
      /\ imm # None => Aged(imm, lastSeq, logfile, mem, logs) /\ Older(Stored(version, tables), imm)
      /\ stage # "publish" => UpTo(mem, lastSeq)
      /\ stage = "publish" => UpTo(mem, lastSeq + Cardinality(Joined(group)))
  BY <1>1 DEF AgesInv
<1> QED
  BY <1>1, <1>2, <1>3, <1>4, <1>5, AgesAfter

\* A crash loses what was in memory, and ends of logs.
LEMMA CrashAges == ASSUME TypesInv, LevelsInv, AgesInv, Crash PROVE AgesInv'
<1>1. /\ UNCHANGED <<tables, lastSeq>> /\ up' = "closed" /\ version' = NoFiles /\ bg' = Idle
      /\ mem' = {} /\ imm' = None /\ stage' = "idle"
  BY DEF Crash
<1>2. PICK m \in manifest \cup (IF bg.at = "edit" THEN {Recorded(d, bg.edit) : d \in manifest} ELSE {}) :
        \E kept \in [DOMAIN logs -> 0 .. Max({Len(logs[n]) : n \in DOMAIN logs})] :
          /\ \/ \A n \in DOMAIN logs : kept[n] = Len(logs[n])
             \/ \A n \in DOMAIN logs : kept[n] \in synced[n] .. Len(logs[n])
          /\ manifest' = {m}
          /\ logs' = [n \in DOMAIN logs |-> SubSeq(logs[n], 1, kept[n])]
  BY DEF Crash
<1>3. PICK kept : /\ \/ \A n \in DOMAIN logs : kept[n] = Len(logs[n])
                     \/ \A n \in DOMAIN logs : kept[n] \in synced[n] .. Len(logs[n])
                  /\ logs' = [n \in DOMAIN logs |-> SubSeq(logs[n], 1, kept[n])]
  BY <1>2
<1>4. \A log : Logged(logs', log) \subseteq Logged(logs, log)
  <2>1. ASSUME NEW n \in DOMAIN logs PROVE ToSet(logs'[n]) \subseteq ToSet(logs[n])
    <3>1. /\ logs[n] \in Seq(SUBSET Written) /\ synced[n] \in Nat /\ kept[n] \in Nat
          /\ kept[n] <= Len(logs[n])
      BY <1>3 DEF TypesInv, SyncInv, LogsTyped
    <3>2. logs'[n] = SubSeq(logs[n], 1, kept[n])
      BY <1>3
    <3>3. \A i \in 1 .. kept[n] : logs[n][i] \in SUBSET Written
      BY <3>1
    <3>4. Len(logs'[n]) = kept[n] /\ \A i \in 1 .. kept[n] : logs'[n][i] = logs[n][i] /\ i \in 1 .. Len(logs[n])
      BY <3>1, <3>2, <3>3, SubSeqProperties
    <3>5. DOMAIN logs'[n] = 1 .. kept[n]
      BY <3>1, <3>2, <3>3, SubSeqProperties
    <3> QED
      BY <3>1, <3>4, <3>5 DEF ToSet
  <2> QED
    BY <1>3, <2>1 DEF Logged
<1>5. Aged(Stored(m.version, tables), m.seq, m.log, mem, logs)
  <2>1. CASE m \in manifest
    BY <2>1 DEF AgesInv
  <2>2. CASE m \notin manifest
    <3>1. PICK d \in manifest : bg.at = "edit" /\ m = Recorded(d, bg.edit)
      BY <1>2, <2>2
    <3>2. up = "open"
      BY <3>1 DEF TypesInv, TablesInv, Idle
    <3>3. m.version = Edited(version, bg.edit) /\ m.seq = bg.edit.seq /\ m.log = bg.edit.log
      BY <3>1, <3>2 DEF LevelsInv, Recorded
    <3> QED
      BY <3>1, <3>3 DEF AgesInv
  <2> QED
    BY <2>1, <2>2
<1>6. \A d \in manifest' : Aged(Stored(d.version, tables'), d.seq, d.log, mem', logs')
  BY <1>1, <1>2, <1>4, <1>5 DEF Aged, Older
<1>7. Stored(version', tables') = {}
  BY <1>1 DEF NoFiles, Stored, Entries
<1>8. UpTo(Stored(version', tables'), lastSeq') /\ UpTo(mem', lastSeq')
  BY <1>1, <1>7 DEF UpTo
<1>9. bg'.at = "idle"
  BY <1>1 DEF Idle
<1> QED
  BY <1>1, <1>6, <1>8, <1>9, AgesAfter

\* The tables of the logs are of up to the number that is recovered.
LEMMA RecoverLogsAges == ASSUME TypesInv, LevelsInv, AgesInv, RecoverLogs PROVE AgesInv'
<1>1. PICK m \in manifest : \E files :
        /\ up = "closed" /\ up' = "replayed"
        /\ UNCHANGED <<manifest, bg, mem, imm, logs, stage, queue, group>>
        /\ \A d \in manifest : d = m
        /\ files \cap DOMAIN m.version = {} /\ DOMAIN version' = DOMAIN m.version \cup files
        /\ \A f \in files : version'[f] = 0 /\ tables'[f] \subseteq Logged(logs, m.log)
        /\ \A f \in DOMAIN m.version : version'[f] = m.version[f]
        /\ Agree(m.version, tables, tables')
        /\ lastSeq' \in Nat /\ m.seq <= lastSeq' /\ UpTo(Logged(logs, m.log), lastSeq')
  BY RecoverLogsMakes
<1>2. PICK files :
        /\ up = "closed" /\ up' = "replayed"
        /\ UNCHANGED <<manifest, bg, mem, imm, logs, stage>>
        /\ \A d \in manifest : d = m
        /\ DOMAIN version' = DOMAIN m.version \cup files
        /\ \A f \in files : tables'[f] \subseteq Logged(logs, m.log)
        /\ Agree(m.version, tables, tables')
        /\ lastSeq' \in Nat /\ m.seq <= lastSeq' /\ UpTo(Logged(logs, m.log), lastSeq')
  BY <1>1
<1>3. /\ mem = {} /\ imm = None /\ stage = "idle" /\ bg.at = "idle"
      /\ Stored(m.version, tables) \subseteq Entry /\ m.seq \in Nat
      /\ Aged(Stored(m.version, tables), m.seq, m.log, mem, logs)
  <2>1. mem = {} /\ imm = None /\ stage = "idle" /\ bg.at = "idle"
    BY <1>2 DEF AgesInv, TypesInv, RoomInv, TablesInv, Idle
  <2>2. Stored(m.version, tables) \subseteq Entry /\ m.seq \in Nat
    BY StoredTyped
  <2>3. Aged(Stored(m.version, tables), m.seq, m.log, mem, logs)
    BY DEF AgesInv
  <2> QED
    BY <2>1, <2>2, <2>3
<1>4. Stored(m.version, tables') = Stored(m.version, tables)
  BY <1>2, NewerFrame
<1>5. Stored(version', tables') \subseteq Stored(m.version, tables) \cup Logged(logs, m.log)
  <2>1. \A f \in DOMAIN m.version : tables'[f] = tables[f]
    BY <1>2 DEF Agree
  <2> QED
    BY <1>2, <2>1 DEF Stored, Entries
<1>6. UpTo(Stored(version', tables'), lastSeq')
  <2>1. UpTo(Stored(m.version, tables), lastSeq')
    BY <1>2, <1>3, AgedMore DEF Aged
  <2> QED
    BY <1>2, <1>5, <2>1 DEF UpTo
<1>7. \A d \in manifest' : Aged(Stored(d.version, tables'), d.seq, d.log, mem', logs') /\ d.seq <= lastSeq'
  BY <1>2, <1>3, <1>4
<1>8. UpTo(mem', lastSeq')
  BY <1>2, <1>3 DEF UpTo
<1> QED
  <2>1. bg'.at = "idle" /\ mem' = {} /\ imm' = None /\ stage' = "idle" /\ up' = "replayed"
    BY <1>2, <1>3
  <2> QED
    BY <1>6, <1>7, <1>8, <2>1, AgesAfter

\* The logs begin anew.
LEMMA OpenAges == ASSUME TypesInv, AgesInv, Open PROVE AgesInv'
<1>1. /\ up = "replayed" /\ up' = "open" /\ UNCHANGED <<version, bg, mem, imm, lastSeq, stage>>
      /\ \A m \in manifest' : m.version = version /\ m.seq = lastSeq
      /\ tables' = Restrict(tables, DOMAIN version) /\ logs' = [n \in {nextFile} |-> <<>>]
  BY DEF Open, writers_
<1>2. mem = {} /\ imm = None /\ stage = "idle" /\ bg.at = "idle" /\ lastSeq \in Nat
  <2>1. mem = {} /\ imm = None /\ stage = "idle" /\ bg.at = "idle"
    BY <1>1 DEF AgesInv, TypesInv, RoomInv, TablesInv, Idle
  <2> QED
    BY <2>1, StoredTyped
<1>3. \A log : Logged(logs', log) = {}
  BY <1>1 DEF Logged, ToSet
<1>4. Stored(version, tables') = Stored(version, tables)
  <2>1. Agree(version, tables, tables')
    BY <1>1 DEF Agree, Restrict
  <2> QED
    BY <2>1, NewerFrame
<1>5. UpTo(Stored(version, tables), lastSeq)
  BY DEF AgesInv
<1>6. \A log : Aged(Stored(version, tables'), lastSeq, log, mem', logs')
  BY <1>1, <1>2, <1>3, <1>4, <1>5 DEF Aged, Older
<1>7. UpTo(mem', lastSeq')
  BY <1>1, <1>2 DEF UpTo
<1> QED
  BY <1>1, <1>2, <1>4, <1>5, <1>6, <1>7, AgesAfter

\* A new database has no entries.
LEMMA AgesInit == ASSUME Init PROVE AgesInv
<1>1. /\ up = "open" /\ bg.at = "idle" /\ version = NoFiles /\ mem = {} /\ imm = None /\ stage = "idle"
      /\ lastSeq = 0 /\ \A m \in manifest : m.version = NoFiles /\ m.seq = 0
  BY DEF Init, Idle
<1>2. Stored(NoFiles, tables) = {}
  BY DEF Stored, Entries, NoFiles
<1>3. \A s, log : Aged({}, s, log, mem, logs) /\ UpTo({}, s)
  BY DEF Aged, UpTo, Older
<1>4. \A m \in manifest : Aged(Stored(m.version, tables), m.seq, m.log, mem, logs) /\ m.seq <= lastSeq
  BY <1>1, <1>2, <1>3
<1> QED
  BY <1>1, <1>2, <1>3, <1>4 DEF AgesInv

\* Every step.
LEMMA AgesStep == ASSUME TypesInv, TypesInv', LevelsInv, AgesInv, [Next]_vars PROVE AgesInv'
<1>1. CASE GetSnapshot \/ ReleaseSnapshot \/ NewIterator \/ CleanupIterator \/ Reschedule \/ UNCHANGED vars
  <2>1. UNCHANGED <<tables, manifest, version, bg, up, mem, imm, lastSeq, logNumber, logfile, logs, stage, queue, group>>
    BY <1>1 DEF GetSnapshot, ReleaseSnapshot, NewIterator, CleanupIterator, Reschedule, vars,
                disk_, files_, thread_, memory_, writers_
  <2>2. Joined(group)' = Joined(group)
    BY <2>1 DEF Joined
  <2> QED
    BY <2>1, <2>2, OthersAges
<1>2. CASE (\E w \in Writes : Write(w)) \/ LeadFails
  BY <1>2, QueueAges
<1>3. CASE Lead
  BY <1>3, LeadAges
<1>4. CASE AddRecord \/ Sync \/ InsertInto
  BY <1>4, RecordAges
<1>5. CASE Publish \/ WriteFails
  BY <1>5, ReturnAges
<1>6. CASE NothingToDo \/ BuildTableFails \/ MergeFails \/ BeginFlush
  BY <1>6, CallsAges
<1>7. CASE BuildTable
  BY <1>7, BuildTableAges
<1>8. CASE BeginCompaction
  BY <1>8, BeginCompactionAges
<1>9. CASE WriteOutput \/ Merge
  BY <1>9, WriteOutputAges, MergeAges
<1>10. CASE Install
  BY <1>10, InstallAges
<1>11. CASE InstallFails
  BY <1>11, InstallFailsAges
<1>12. CASE Crash
  BY <1>12, CrashAges
<1>13. CASE RecoverLogs
  BY <1>13, RecoverLogsAges
<1>14. CASE Open
  BY <1>14, OpenAges
<1> QED
  BY <1>1, <1>2, <1>3, <1>4, <1>5, <1>6, <1>7, <1>8, <1>9, <1>10, <1>11, <1>12, <1>13, <1>14 DEF Next

-----------------------------------------------------------------------------
(* Newer entries stay above older ones.                                    *)

\* What is to be shown after a step.
LEMMA NewerAfter ==
  ASSUME Newer(version', tables'), Apart(version', tables'),
         \A m \in manifest' : Newer(m.version, tables') /\ Apart(m.version, tables'),
         bg'.at = "edit" => Newer(Edited(version', bg'.edit), tables') /\ Apart(Edited(version', bg'.edit), tables'),
         bg'.at = "merge" \/ (bg'.at = "build" /\ bg'.comp # None) => Fits(bg'.comp, version', tables'),
         bg'.at = "edit" /\ bg'.file # 0 /\ bg'.comp # None => Fits(bg'.comp, Edited(version', bg'.edit), tables')
  PROVE  NewerInv'
<1>1. SmallerLevelIsNewer' /\ Apart(version, tables)'
  BY DEF SmallerLevelIsNewer, Newer, Apart
<1>2. \A m \in manifest' : Newer(m.version, tables)' /\ Apart(m.version, tables)'
  BY DEF Newer, Apart
<1>3. bg'.at = "edit" => Newer(Edited(version, bg.edit), tables)' /\ Apart(Edited(version, bg.edit), tables)'
  BY DEF Newer, Apart, Edited
<1>4. bg'.at = "merge" \/ (bg'.at = "build" /\ bg'.comp # None) => Fits(bg.comp, version, tables)'
  BY DEF Fits, Level, Entries
<1>5. bg'.at = "edit" /\ bg'.file # 0 /\ bg'.comp # None => Fits(bg.comp, Edited(version, bg.edit), tables)'
  BY DEF Fits, Level, Entries, Edited
<1> QED
  BY <1>1, <1>2, <1>3, <1>4, <1>5 DEF NewerInv

\* Writers, readers, and steps that change neither files nor the thread.
LEMMA OthersNewer ==
  ASSUME NewerInv, UNCHANGED <<tables, manifest, version, bg>> PROVE NewerInv'
BY NewerAfter DEF NewerInv, SmallerLevelIsNewer, Newer

\* Steps of the thread that leave the version and the manifest alone.
LEMMA ThreadNewer ==
  ASSUME NewerInv, UNCHANGED <<manifest, version>>,
         Agree(version, tables, tables'), \A m \in manifest : Agree(m.version, tables, tables'),
         bg'.at = "edit" => Newer(Edited(version, bg'.edit), tables') /\ Apart(Edited(version, bg'.edit), tables'),
         bg'.at = "merge" \/ (bg'.at = "build" /\ bg'.comp # None) => Fits(bg'.comp, version, tables'),
         bg'.at = "edit" /\ bg'.file # 0 /\ bg'.comp # None => Fits(bg'.comp, Edited(version, bg'.edit), tables')
  PROVE  NewerInv'
<1>1. Newer(version, tables) /\ Apart(version, tables) /\ \A m \in manifest : Newer(m.version, tables) /\ Apart(m.version, tables)
  BY DEF NewerInv, SmallerLevelIsNewer, Newer
<1>2. Newer(version, tables') /\ Apart(version, tables')
  BY <1>1, NewerFrame
<1>3. \A m \in manifest : Newer(m.version, tables') /\ Apart(m.version, tables')
  BY <1>1, NewerFrame
<1> QED
  BY <1>2, <1>3, NewerAfter

\* A call that ends without an edit, and the start of a flush.
LEMMA CallsNewer ==
  ASSUME TypesInv, NewerInv, NothingToDo \/ BuildTableFails \/ MergeFails \/ BeginFlush PROVE NewerInv'
<1>1. UNCHANGED <<manifest, version, tables>>
  BY DEF NothingToDo, BuildTableFails, BeginFlush, MergeFails, DeleteObsoleteFiles, CannotTell, disk_, files_
<1>2. Agree(version, tables, tables') /\ \A m \in manifest : Agree(m.version, tables, tables')
  BY <1>1 DEF Agree
<1>3. /\ bg'.at # "edit"
      /\ bg'.at = "merge" \/ (bg'.at = "build" /\ bg'.comp # None) =>
           bg'.comp = bg.comp /\ (bg.at = "merge" \/ (bg.at = "build" /\ bg.comp # None))
  <2>1. CASE BeginFlush
    <3>1. /\ bg.at = "idle" \/ bg.at = "merge"
          /\ bg' = [bg EXCEPT !.at = "build", !.file = nextFile]
      BY <2>1 DEF BeginFlush
    <3> QED
      BY <3>1 DEF TypesInv, TablesInv, ThreadInv, ThreadRecord
  <2>2. CASE NothingToDo \/ BuildTableFails \/ MergeFails
    <3>1. \/ bg' = Idle
          \/ bg'.at = "merge" /\ bg'.comp = bg.comp /\ bg.comp # None
      BY <2>2, CallEnds DEF TypesInv
    <3>2. bg.at = "idle" \/ bg.at = "build" \/ bg.at = "merge"
      BY <2>2 DEF NothingToDo, BuildTableFails, MergeFails
    <3>3. bg.at = "idle" => bg.comp = None
      BY DEF TypesInv, TablesInv, ThreadInv
    <3> QED
      BY <3>1, <3>2, <3>3 DEF Idle
  <2> QED
    BY <2>1, <2>2
<1>4. bg'.at = "merge" \/ (bg'.at = "build" /\ bg'.comp # None) => Fits(bg'.comp, version, tables')
  BY <1>1, <1>3 DEF NewerInv
<1> QED
  BY <1>1, <1>2, <1>3, <1>4, ThreadNewer

\* The new table is newer than all others, and goes down as long as it meets none.
LEMMA BuildTableNewer == ASSUME TypesInv, AgesInv, NewerInv, BuildTable PROVE NewerInv'
<1>1. PICK p \in Nat, lo \in Key, hi \in Key :
           /\ up = "open" /\ bg.at = "build" /\ bg'.at = "edit" /\ bg'.file = bg.file /\ bg'.comp = bg.comp
           /\ bg'.edit.add = [f \in {bg.file} |-> p] /\ bg'.edit.drop = {}
           /\ bg'.edit.log = logfile /\ bg'.edit.seq = lastSeq
           /\ UNCHANGED <<manifest, up, version, bgError>>
           /\ bg.file # 0 /\ bg.file \notin DOMAIN version
           /\ imm # None /\ tables'[bg.file] = imm
           /\ Agree(version, tables, tables') /\ \A m \in manifest : Agree(m.version, tables, tables')
           /\ Filled(tables', DOMAIN version \cup {bg.file})
           /\ lo <= hi /\ \A d \in imm : lo <= d.key /\ d.key <= hi
           /\ p > 0 => \A f \in DOMAIN version : version[f] <= p => Above(tables'[f], hi) \/ Below(tables'[f], lo)
  BY BuildTableMakes
<1>2. lo \in Nat /\ hi \in Nat
  BY DEF Key
<1>3. p > 0 => \A f \in DOMAIN version : version[f] <= p => \A d \in tables'[f], x \in tables'[bg.file] : d.key # x.key
  <2> SUFFICES ASSUME p > 0, NEW f \in DOMAIN version, version[f] <= p,
                      NEW d \in tables'[f], NEW x \in tables'[bg.file]
               PROVE  d.key # x.key
    OBVIOUS
  <2>1. (d.key > hi \/ d.key < lo) /\ lo <= x.key /\ x.key <= hi
    BY <1>1 DEF Above, Below
  <2>2. d.key \in Nat /\ x.key \in Nat
    BY <1>1 DEF Filled, Entry, Key
  <2> QED
    BY <1>2, <2>1, <2>2
<1>4. Older(Stored(version, tables'), tables'[bg.file])
  <2>1. Older(Stored(version, tables), imm)
    BY <1>1 DEF AgesInv
  <2>2. Stored(version, tables') = Stored(version, tables)
    BY <1>1, NewerFrame
  <2> QED
    BY <1>1, <2>1, <2>2
<1>5. \A f \in DOMAIN version : version[f] \in Nat
  BY TablesFilled
<1>6. Newer(version, tables') /\ Apart(version, tables')
  <2>1. Newer(version, tables) /\ Apart(version, tables)
    BY DEF NewerInv, SmallerLevelIsNewer, Newer
  <2> QED
    BY <1>1, <2>1, NewerFrame
<1>7. /\ bg.file \notin DOMAIN version /\ Filled(tables', DOMAIN version \cup {bg.file})
      /\ bg'.edit.drop = {} /\ bg'.edit.add = [f \in {bg.file} |-> p]
  BY <1>1
<1>8. /\ Newer(Edited(version, bg'.edit), tables') /\ Apart(Edited(version, bg'.edit), tables')
      /\ \A c : c.level \in Nat /\ Fits(c, version, tables') => Fits(c, Edited(version, bg'.edit), tables')
  BY <1>3, <1>4, <1>5, <1>6, <1>7, FlushIsNewer
<1>9. bg'.comp # None => Fits(bg'.comp, Edited(version, bg'.edit), tables')
  <2>1. ASSUME bg.comp # None PROVE Fits(bg.comp, version, tables) /\ bg.comp.level \in Nat
    BY <1>1, <2>1 DEF NewerInv, TypesInv, FilesInv
  <2>2. ASSUME bg.comp # None PROVE Fits(bg.comp, version, tables')
    BY <1>1, <2>1, <2>2, FitsFrame
  <2> QED
    BY <1>1, <1>8, <2>1, <2>2
<1>10. /\ UNCHANGED <<manifest, version>> /\ bg'.at = "edit"
       /\ Agree(version, tables, tables') /\ \A m \in manifest : Agree(m.version, tables, tables')
  BY <1>1
<1> QED
  BY <1>8, <1>9, <1>10, ThreadNewer

\* A compaction begins with tables that fit, or moves one that is alone.
LEMMA BeginCompactionNewer == ASSUME TypesInv, NewerInv, BeginCompaction PROVE NewerInv'
<1>1. PICK f \in Pickable :
        LET l == version[f]
            c == Inputs(version, tables, l, Picked(version, tables, l, f))
        IN \/ /\ TrivialMove(c) /\ bg'.at = "edit" /\ bg'.file = 0 /\ bg'.comp = None
              /\ bg'.edit.add = [g \in {f} |-> l + 1] /\ bg'.edit.drop = {}
           \/ /\ bg'.at = "merge" /\ bg'.file = 0 /\ bg'.comp.level = l
              /\ bg'.comp.in0 = c.in0 /\ bg'.comp.in1 = c.in1
  BY BeginCompactionDoes DEF TypesInv
<1> DEFINE l == version[f]
           c == Inputs(version, tables, l, Picked(version, tables, l, f))
<1>2. UNCHANGED <<manifest, version, tables>>
  BY DEF BeginCompaction, disk_, files_
<1>3. /\ f \in DOMAIN version /\ l \in Nat /\ IsFiniteSet(DOMAIN version) /\ Filled(tables, DOMAIN version)
      /\ \A g \in DOMAIN version : version[g] \in Nat
      /\ Newer(version, tables) /\ Apart(version, tables)
  BY TablesFilled DEF Pickable, NewerInv, SmallerLevelIsNewer, Newer
<1>4. f \in c.in0 /\ Fits(c, version, tables)
  BY <1>3, InputsFit
<1>5. c.level = l
  BY DEF Inputs
<1>6. \/ /\ TrivialMove(c) /\ bg'.at = "edit" /\ bg'.comp = None
         /\ bg'.edit.add = [g \in {f} |-> l + 1] /\ bg'.edit.drop = {}
      \/ /\ bg'.at = "merge" /\ bg'.comp.level = c.level
         /\ bg'.comp.in0 = c.in0 /\ bg'.comp.in1 = c.in1
  BY <1>1, <1>5
<1> HIDE DEF c
<1>7. Agree(version, tables, tables') /\ \A m \in manifest : Agree(m.version, tables, tables')
  BY <1>2 DEF Agree
<1>8. ASSUME bg'.at = "edit"
      PROVE  Newer(Edited(version, bg'.edit), tables') /\ Apart(Edited(version, bg'.edit), tables')
  <2>1. TrivialMove(c) /\ bg'.edit.add = [g \in {f} |-> l + 1] /\ bg'.edit.drop = {}
    BY <1>6, <1>8
  <2>2. c.in0 = {f} /\ c.in1 = {}
    <3>1. c.in0 \subseteq DOMAIN version
      BY <1>4 DEF Fits, Level
    <3>2. IsFiniteSet(c.in0) /\ Cardinality(c.in0) = 1
      BY <1>3, <2>1, <3>1, FS_Subset DEF TrivialMove
    <3>3. \E x : c.in0 = {x}
      BY <3>2, FS_Singleton
    <3> QED
      BY <1>4, <2>1, <3>3 DEF TrivialMove
  <2>3. /\ c.level \in Nat /\ DOMAIN bg'.edit.add = {f} /\ bg'.edit.add[f] = c.level + 1
        /\ tables'[f] \subseteq Entries(tables, c.in0 \cup c.in1)
    BY <1>2, <1>3, <1>5, <2>1, <2>2 DEF Entries
  <2>4. /\ \A g \in DOMAIN version : g \in bg'.edit.drop \cup DOMAIN bg'.edit.add <=> g \in c.in0 \cup c.in1
        /\ \A g \in DOMAIN bg'.edit.add :
             bg'.edit.add[g] = c.level + 1 /\ tables'[g] \subseteq Entries(tables, c.in0 \cup c.in1)
        /\ \A g, h \in DOMAIN bg'.edit.add : g # h => \A d \in tables'[g], e \in tables'[h] : d.key # e.key
    BY <2>1, <2>2, <2>3
  <2> HIDE DEF l
  <2> QED
    BY <1>3, <1>4, <1>7, <2>3, <2>4, InputsReplaced
<1>9. bg'.at = "merge" => Fits(bg'.comp, version, tables')
  BY <1>4, <1>6, <1>7, FitsFrame
<1>10. bg'.at \in {"edit", "merge"} /\ (bg'.at = "edit" => bg'.comp = None)
  BY <1>6
<1> QED
  BY <1>2, <1>7, <1>8, <1>9, <1>10, ThreadNewer

\* An output more.
LEMMA WriteOutputNewer == ASSUME TypesInv, NewerInv, WriteOutput PROVE NewerInv'
<1>1. /\ bg.at = "merge" /\ UNCHANGED <<bg, version, manifest>>
      /\ Agree(version, tables, tables') /\ \A m \in manifest : Agree(m.version, tables, tables')
  BY WriteOutputAdds
<1>2. Fits(bg.comp, version, tables')
  BY <1>1, FitsFrame DEF NewerInv
<1> QED
  BY <1>1, <1>2, ThreadNewer

\* The outputs of a merge take the place of its inputs.
LEMMA MergeNewer == ASSUME TypesInv, LevelsInv, NewerInv, Merge, ~Cut PROVE NewerInv'
<1>1. PICK new :
        /\ up = "open" /\ bg.at = "merge" /\ bg'.at = "edit" /\ bg'.file = 0
        /\ bg'.edit.add = [f \in new |-> bg.comp.level + 1]
        /\ bg'.edit.drop = bg.comp.in0 \cup bg.comp.in1
        /\ bg'.edit.log = logNumber /\ bg'.edit.seq = lastSeq
        /\ UNCHANGED <<manifest, up, version, bgError>>
        /\ new \cap DOMAIN version = {}
        /\ Agree(version, tables, tables') /\ \A m \in manifest : Agree(m.version, tables, tables')
        /\ \A f \in new : /\ f \in Nat /\ tables'[f] \subseteq Entry
                          /\ tables'[f] \subseteq Entries(tables, bg.comp.in0 \cup bg.comp.in1)
        /\ \A f, g \in new : f # g => OneSide(tables'[f], tables'[g])
        /\ ~Cut => \A f, g \in new : f # g => \A d \in tables'[f], e \in tables'[g] : d.key # e.key
  BY MergeMakes
<1>2. /\ Filled(tables, DOMAIN version) /\ \A f \in DOMAIN version : version[f] \in Nat
      /\ Newer(version, tables) /\ Apart(version, tables)
  BY TablesFilled DEF NewerInv, SmallerLevelIsNewer, Newer
<1>3. Fits(bg.comp, version, tables) /\ bg.comp.level \in Nat
  BY <1>1 DEF NewerInv, TypesInv, FilesInv
<1>4. Agree(version, tables, tables')
  BY <1>1
<1>5. /\ \A f \in DOMAIN version :
           f \in bg'.edit.drop \cup DOMAIN bg'.edit.add <=> f \in bg.comp.in0 \cup bg.comp.in1
      /\ \A f \in DOMAIN bg'.edit.add :
           bg'.edit.add[f] = bg.comp.level + 1 /\ tables'[f] \subseteq Entries(tables, bg.comp.in0 \cup bg.comp.in1)
      /\ \A f, g \in DOMAIN bg'.edit.add : f # g => \A d \in tables'[f], e \in tables'[g] : d.key # e.key
  BY <1>1
<1>6. Newer(Edited(version, bg'.edit), tables') /\ Apart(Edited(version, bg'.edit), tables')
  BY <1>2, <1>3, <1>4, <1>5, InputsReplaced
<1> QED
  BY <1>1, <1>6, ThreadNewer

\* The version is what the edit makes of it, and so is the manifest.
LEMMA InstallNewer == ASSUME TypesInv, TypesInv', LevelsInv, NewerInv, Install PROVE NewerInv'
<1>1. /\ up = "open" /\ bg.at = "edit"
      /\ manifest' = {Recorded(m, bg.edit) : m \in manifest} /\ version' = Edited(version, bg.edit)
  BY ThreadIsOpen DEF Install, TypesInv
<1>2. \A f \in DOMAIN tables' : f \in DOMAIN tables /\ tables'[f] = tables[f]
  <2>1. CASE Moving
    BY <2>1 DEF Install
  <2>2. CASE ~Moving
    <3>1. DeleteObsoleteFiles(version', logNumber', IF Flushing THEN bg.comp ELSE None, pending', bgError)
      BY <2>2 DEF Install
    <3> QED
      BY <3>1, Deletes
  <2> QED
    BY <2>1, <2>2
<1>3. DOMAIN version' \subseteq DOMAIN tables'
  BY DEF TypesInv, TablesInv
<1>4. Agree(version', tables, tables')
  BY <1>2, <1>3 DEF Agree
<1>5. \A m \in manifest' : m.version = version'
  BY <1>1 DEF LevelsInv, Recorded
<1>6. Newer(version', tables) /\ Apart(version', tables)
  BY <1>1 DEF NewerInv
<1>7. Newer(version', tables') /\ Apart(version', tables')
  BY <1>4, <1>6, NewerFrame
<1>8. bg' = Idle \/ (bg'.at = "merge" /\ bg'.comp = bg.comp /\ bg.comp # None /\ bg.file # 0)
  <2>1. bg' = Idle \/ (bg'.at = "merge" /\ bg'.comp = bg.comp /\ bg.comp # None)
    BY CallEnds DEF TypesInv
  <2>2. bg' # Idle => bg.file # 0
    BY DEF Install, EndCall, Flushing
  <2> QED
    BY <2>1, <2>2
<1>9. ASSUME bg'.at = "merge" PROVE Fits(bg'.comp, version', tables')
  <2>1. bg'.comp = bg.comp /\ Fits(bg.comp, version', tables)
    BY <1>1, <1>8, <1>9 DEF NewerInv, Idle
  <2> QED
    BY <1>4, <2>1, FitsFrame
<1>10. bg'.at \in {"idle", "merge"}
  BY <1>8 DEF Idle
<1> QED
  BY <1>5, <1>7, <1>9, <1>10, NewerAfter

\* The manifest may say either; the version stays.
LEMMA InstallFailsNewer == ASSUME TypesInv, LevelsInv, NewerInv, InstallFails, ~Retried PROVE NewerInv'
<1>1. /\ up = "open" /\ bg.at = "edit" /\ UNCHANGED version
      /\ manifest' = manifest \cup {Recorded(m, bg.edit) : m \in manifest}
  BY ThreadIsOpen DEF InstallFails, TypesInv, files_
<1>2. bg'.at = "idle"
  <2>1. bg' = Idle
    BY DEF InstallFails, Retried, EndCall
  <2> QED
    BY <2>1 DEF Idle
<1>3. tables' = tables
  <2>1. CASE Flushing \/ Moving
    BY <2>1 DEF InstallFails
  <2>2. CASE ~(Flushing \/ Moving)
    <3>1. DeleteObsoleteFiles(version, logNumber, None, pending', TRUE)
      BY <2>2 DEF InstallFails
    <3> QED
      BY <3>1, Deletes
  <2> QED
    BY <2>1, <2>2
<1>4. \A m \in manifest : Recorded(m, bg.edit).version = Edited(version, bg.edit)
  BY <1>1 DEF LevelsInv, Recorded
<1>5. \A m \in manifest' : Newer(m.version, tables) /\ Apart(m.version, tables)
  BY <1>1, <1>4 DEF NewerInv
<1>6. Newer(version, tables) /\ Apart(version, tables)
  BY DEF NewerInv, SmallerLevelIsNewer, Newer
<1> QED
  BY <1>1, <1>2, <1>3, <1>5, <1>6, NewerAfter

\* What the manifest says after a crash, an edit included or not.
LEMMA CrashNewer == ASSUME TypesInv, LevelsInv, NewerInv, Crash PROVE NewerInv'
<1>1. /\ UNCHANGED tables /\ version' = NoFiles /\ bg'.at = "idle"
      /\ \E m \in manifest \cup (IF bg.at = "edit" THEN {Recorded(d, bg.edit) : d \in manifest} ELSE {}) :
           manifest' = {m}
  BY DEF Crash, Idle
<1>2. ASSUME bg.at = "edit", NEW d \in manifest
      PROVE  Newer(Recorded(d, bg.edit).version, tables) /\ Apart(Recorded(d, bg.edit).version, tables)
  <2>1. up = "open"
    BY <1>2 DEF TypesInv, TablesInv, Idle
  <2>2. Recorded(d, bg.edit).version = Edited(version, bg.edit)
    BY <1>2, <2>1 DEF LevelsInv, Recorded
  <2> QED
    BY <1>2, <2>2 DEF NewerInv
<1>3. \A m \in manifest' : Newer(m.version, tables) /\ Apart(m.version, tables)
  BY <1>1, <1>2 DEF NewerInv
<1>4. Newer(version', tables) /\ Apart(version', tables)
  BY <1>1 DEF NoFiles, Newer, Apart
<1> QED
  BY <1>1, <1>3, <1>4, NewerAfter

\* The logs' tables, of level 0, are newer than those of the manifest.
LEMMA RecoverLogsNewer == ASSUME TypesInv, LevelsInv, AgesInv, NewerInv, RecoverLogs PROVE NewerInv'
<1>1. PICK m \in manifest : \E files :
        /\ up = "closed" /\ up' = "replayed"
        /\ UNCHANGED <<manifest, bg, mem, imm, logs, stage, queue, group>>
        /\ \A d \in manifest : d = m
        /\ files \cap DOMAIN m.version = {} /\ DOMAIN version' = DOMAIN m.version \cup files
        /\ \A f \in files : version'[f] = 0 /\ tables'[f] \subseteq Logged(logs, m.log)
        /\ \A f \in DOMAIN m.version : version'[f] = m.version[f]
        /\ Agree(m.version, tables, tables')
        /\ lastSeq' \in Nat /\ m.seq <= lastSeq' /\ UpTo(Logged(logs, m.log), lastSeq')
  BY RecoverLogsMakes
<1>2. PICK files :
        /\ up = "closed" /\ UNCHANGED <<manifest, bg>>
        /\ \A d \in manifest : d = m
        /\ DOMAIN version' = DOMAIN m.version \cup files
        /\ \A f \in files : version'[f] = 0 /\ tables'[f] \subseteq Logged(logs, m.log)
        /\ \A f \in DOMAIN m.version : version'[f] = m.version[f]
        /\ Agree(m.version, tables, tables')
  BY <1>1
<1>3. Newer(m.version, tables') /\ Apart(m.version, tables')
  <2>1. Newer(m.version, tables) /\ Apart(m.version, tables)
    BY DEF NewerInv
  <2> QED
    BY <1>2, <2>1, NewerFrame
<1>4. /\ Older(Stored(m.version, tables'), Logged(logs, m.log))
      /\ Stored(m.version, tables') \subseteq Entry /\ Logged(logs, m.log) \subseteq Entry
  <2>1. Older(Stored(m.version, tables), Logged(logs, m.log))
    BY DEF AgesInv, Aged
  <2>2. Stored(m.version, tables') = Stored(m.version, tables)
    BY <1>2, NewerFrame
  <2>3. Stored(m.version, tables) \subseteq Entry /\ Logged(logs, m.log) \subseteq Entry
    BY StoredTyped
  <2> QED
    BY <2>1, <2>2, <2>3
<1>5. \A f \in DOMAIN m.version : m.version[f] \in Nat
  BY LevelsAssumption DEF TypesInv, FilesInv, VersionOK
<1>6. Newer(version', tables')
  <2> SUFFICES ASSUME NEW f \in DOMAIN version', NEW g \in DOMAIN version', version'[f] < version'[g],
                      NEW d \in tables'[f], NEW e \in tables'[g], d.key = e.key
               PROVE  d.seq > e.seq
    BY DEF Newer
  <2>1. g \in DOMAIN m.version /\ version'[g] = m.version[g]
    BY <1>2, <1>5
  <2>2. CASE f \in DOMAIN m.version
    BY <1>2, <1>3, <2>1, <2>2 DEF Newer
  <2>3. CASE f \in files
    <3>1. d \in Logged(logs, m.log) /\ e \in Stored(m.version, tables')
      BY <1>2, <2>1, <2>3 DEF Stored, Entries
    <3>2. e.seq < d.seq /\ e.seq \in Nat /\ d.seq \in Nat
      BY <1>4, <3>1, SeqIsNat DEF Older
    <3> QED
      BY <3>2
  <2> QED
    BY <1>2, <2>2, <2>3
<1>7. Apart(version', tables')
  <2> SUFFICES ASSUME NEW f \in DOMAIN version', NEW g \in DOMAIN version', f # g, version'[f] = version'[g],
                      version'[f] > 0, NEW d \in tables'[f], NEW e \in tables'[g]
               PROVE  d.key # e.key
    BY DEF Apart
  <2>1. f \in DOMAIN m.version /\ g \in DOMAIN m.version
    BY <1>2
  <2> QED
    BY <1>2, <1>3, <2>1 DEF Apart
<1>8. bg'.at = "idle"
  BY <1>2 DEF TypesInv, TablesInv, Idle
<1>9. \A d \in manifest' : Newer(d.version, tables') /\ Apart(d.version, tables')
  BY <1>2, <1>3
<1> QED
  BY <1>6, <1>7, <1>8, <1>9, NewerAfter

\* The files of the version are all there is.
LEMMA OpenNewer == ASSUME TypesInv, NewerInv, Open PROVE NewerInv'
<1>1. /\ up = "replayed" /\ up' = "open" /\ UNCHANGED <<version, bg>>
      /\ tables' = Restrict(tables, DOMAIN version)
      /\ \A m \in manifest' : m.version = version
  BY DEF Open
<1>2. Agree(version, tables, tables')
  BY <1>1 DEF Agree, Restrict
<1>3. Newer(version, tables') /\ Apart(version, tables')
  <2>1. Newer(version, tables) /\ Apart(version, tables)
    BY DEF NewerInv, SmallerLevelIsNewer, Newer
  <2> QED
    BY <1>2, <2>1, NewerFrame
<1>4. bg'.at = "idle"
  BY <1>1 DEF TypesInv, TablesInv, Idle
<1> QED
  BY <1>1, <1>3, <1>4, NewerAfter

\* A new database has no tables.
LEMMA NewerInit == ASSUME Init PROVE NewerInv
<1>1. bg.at = "idle" /\ version = NoFiles /\ \A m \in manifest : m.version = NoFiles
  BY DEF Init, Idle
<1>2. \A T : Newer(NoFiles, T) /\ Apart(NoFiles, T)
  BY DEF NoFiles, Newer, Apart
<1> QED
  BY <1>1, <1>2 DEF NewerInv, SmallerLevelIsNewer, Newer

\* Every step but a flush whose record fails within a compaction, and a merge that cuts
\* between two entries of a key.
LEMMA NewerStep ==
  ASSUME TypesInv, TypesInv', LevelsInv, AgesInv, NewerInv, [Next]_vars, ~Retried, ~Cut PROVE NewerInv'
<1>1. CASE \/ \E w \in Writes : Write(w)
           \/ Lead \/ LeadFails \/ AddRecord \/ Sync \/ InsertInto \/ Publish \/ WriteFails
           \/ GetSnapshot \/ ReleaseSnapshot \/ NewIterator \/ CleanupIterator \/ Reschedule \/ UNCHANGED vars
  <2>1. UNCHANGED <<tables, manifest, version, bg>>
    BY <1>1 DEF Write, Lead, LeadFails, AddRecord, Sync, InsertInto, Publish, WriteFails,
                GetSnapshot, ReleaseSnapshot, NewIterator, CleanupIterator, Reschedule, vars,
                disk_, files_, thread_
  <2> QED
    BY <2>1, OthersNewer
<1>2. CASE NothingToDo \/ BuildTableFails \/ MergeFails \/ BeginFlush
  BY <1>2, CallsNewer
<1>3. CASE BuildTable
  BY <1>3, BuildTableNewer
<1>4. CASE BeginCompaction
  BY <1>4, BeginCompactionNewer
<1>5. CASE WriteOutput \/ Merge
  BY <1>5, WriteOutputNewer, MergeNewer
<1>6. CASE Install
  BY <1>6, InstallNewer
<1>7. CASE InstallFails
  BY <1>7, InstallFailsNewer
<1>8. CASE Crash
  BY <1>8, CrashNewer
<1>9. CASE RecoverLogs
  BY <1>9, RecoverLogsNewer
<1>10. CASE Open
  BY <1>10, OpenNewer
<1> QED
  BY <1>1, <1>2, <1>3, <1>4, <1>5, <1>6, <1>7, <1>8, <1>9, <1>10 DEF Next

\* version_set.cc:346: unless the manifest record of a flush within a compaction fails, or
\* a merge cuts an output between two entries of a key, entries never hop across levels.
THEOREM NewerEntriesAbove == Spec /\ [][~Retried /\ ~Cut]_vars => []SmallerLevelIsNewer
<1>1. Init => TypesInv /\ LevelsInv /\ AgesInv /\ NewerInv
  BY TypesInit, LevelsInit, AgesInit, NewerInit
<1>2. TypesInv /\ LevelsInv /\ AgesInv /\ NewerInv /\ [Next]_vars /\ [~Retried /\ ~Cut]_vars
        => TypesInv' /\ LevelsInv' /\ AgesInv' /\ NewerInv'
  <2> SUFFICES ASSUME TypesInv, LevelsInv, AgesInv, NewerInv, [Next]_vars, [~Retried /\ ~Cut]_vars
               PROVE  TypesInv' /\ LevelsInv' /\ AgesInv' /\ NewerInv'
    OBVIOUS
  <2>1. TypesInv' /\ AgesInv'
    BY TypesStep, AgesStep
  <2>2. CASE ~Retried /\ ~Cut
    BY <2>1, <2>2, LevelsStep, NewerStep
  <2>3. CASE UNCHANGED vars
    <3>1. UNCHANGED <<tables, manifest, up, version, bg, bgError>>
      BY <2>3 DEF vars, disk_, files_, thread_
    <3>2. LevelsInv'
      BY <3>1, OthersLevels
    <3>3. NewerInv'
      BY <3>1, OthersNewer
    <3> QED
      BY <2>1, <3>2, <3>3
  <2> QED
    BY <2>1, <2>2, <2>3
<1>3. NewerInv => SmallerLevelIsNewer
  BY DEF NewerInv
<1> QED
  BY <1>1, <1>2, <1>3, PTL DEF Spec

-----------------------------------------------------------------------------
(* Without snapshots.                                                      *)

\* A merge sees every entry of its inputs, so that it keeps one entry of a key.
SeenInv ==
  /\ snapshot = None
  /\ \/ bg.at = "merge"
     \/ bg.at = "build" /\ bg.comp # None
     \/ bg.at = "edit" /\ bg.file # 0 /\ bg.comp # None
     => UpTo(Entries(tables, bg.comp.in0 \cup bg.comp.in1), bg.comp.oldest)

\* Of two entries of a key that the oldest snapshot sees, one is dropped.
LEMMA OneOfAKey ==
  ASSUME NEW c, NEW T, NEW oldest, UpTo(Entries(T, c.in0 \cup c.in1), oldest),
         NEW i \in DOMAIN Outputs(c, T, oldest), NEW j \in DOMAIN Outputs(c, T, oldest), i # j,
         NEW d \in Outputs(c, T, oldest)[i], NEW e \in Outputs(c, T, oldest)[j]
  PROVE  d.key # e.key
<1> DEFINE all == Entries(T, c.in0 \cup c.in1)
           kept == {x \in Entry : x \in all /\ ~Dropped(c, T, x, oldest)}
           place(x) == Cardinality({y \in kept : Order(y) < Order(x)}) \div OutputSize
<1>1. Outputs(c, T, oldest) = [k \in {place(x) : x \in kept} |-> {x \in kept : place(x) = k}]
  BY DEF Outputs
<1>2. d \in kept /\ e \in kept
  <2> HIDE DEF kept, place
  <2> QED
    BY <1>1
<1>3. d \in Entry /\ e \in Entry /\ d \in all /\ e \in all
  BY <1>2
<1>4. d.seq <= oldest /\ e.seq <= oldest
  BY <1>3 DEF UpTo
<1>5. d.key = e.key => ~(d.seq > e.seq) /\ ~(e.seq > d.seq)
  <2>1. ~Dropped(c, T, d, oldest) /\ ~Dropped(c, T, e, oldest)
    BY <1>2
  <2> QED
    BY <1>3, <1>4, <2>1 DEF Dropped
<1>6. d.seq \in Nat /\ e.seq \in Nat /\ Order(d) \in Nat /\ Order(e) \in Nat
  BY <1>3, SeqIsNat, OrderIsNat
<1>7. d.key = e.key => Order(d) = Order(e)
  <2>1. d.key = e.key => d.seq = e.seq
    BY <1>5, <1>6
  <2> QED
    BY <2>1 DEF Order, InternalKey
<1>8. Order(d) < Order(e) \/ Order(e) < Order(d)
  <2>1. PICK b \in Nat : DOMAIN Outputs(c, T, oldest) \subseteq 0 .. b
    BY OutputsInOrder
  <2>2. i \in Nat /\ j \in Nat
    BY <2>1
  <2>3. i < j \/ j < i
    BY <2>2
  <2> QED
    BY <2>3, OutputsInOrder
<1> QED
  BY <1>6, <1>7, <1>8

\* So no merge cuts between two entries of a key.
LEMMA NoCut == ASSUME SeenInv PROVE ~Cut
<1> SUFFICES ASSUME Merge,
                    NEW i \in DOMAIN Outputs(bg.comp, tables, bg.comp.oldest),
                    NEW j \in DOMAIN Outputs(bg.comp, tables, bg.comp.oldest), i # j,
                    NEW d \in Outputs(bg.comp, tables, bg.comp.oldest)[i],
                    NEW e \in Outputs(bg.comp, tables, bg.comp.oldest)[j]
             PROVE  d.key # e.key
  BY DEF Cut
<1>1. UpTo(Entries(tables, bg.comp.in0 \cup bg.comp.in1), bg.comp.oldest)
  BY DEF SeenInv, Merge
<1> QED
  BY <1>1, OneOfAKey

\* A merge begins with what its oldest snapshot sees, or all there is.
LEMMA BeginCompactionReads ==
  ASSUME TablesInv, BeginCompaction, snapshot = None, bg'.at = "merge"
  PROVE  bg'.comp.oldest = lastSeq
<1>1. bg \in ThreadRecord /\ bg.at = "idle"
  BY DEF TablesInv, ThreadInv, BeginCompaction
<1>2. PICK f \in Pickable :
        LET l == version[f]
            c == Inputs(version, tables, l, Picked(version, tables, l, f))
            oldest == IF snapshot = None THEN lastSeq ELSE snapshot
        IN bg' = IF TrivialMove(c)
                 THEN [bg EXCEPT !.at = "edit", !.edit = Edit([g \in {f} |-> l + 1], {}, logNumber, nextFile)]
                 ELSE [bg EXCEPT !.at = "merge", !.comp = [c EXCEPT !.oldest = oldest]]
  BY DEF BeginCompaction
<1> DEFINE l == version[f]
           c == Inputs(version, tables, l, Picked(version, tables, l, f))
           edit == Edit([g \in {f} |-> l + 1], {}, logNumber, nextFile)
           d == [c EXCEPT !.oldest = lastSeq]
<1>3. bg' = [bg EXCEPT !.at = "edit", !.edit = edit] \/ bg' = [bg EXCEPT !.at = "merge", !.comp = d]
  BY <1>2
<1>4. d.oldest = lastSeq
  <2>1. c = [level |-> c.level, in0 |-> c.in0, in1 |-> c.in1, base |-> c.base, oldest |-> c.oldest]
    <3>1. Picked(version, tables, l, f) \subseteq DOMAIN version
      BY PickedOfVersion DEF Pickable
    <3> HIDE DEF l
    <3> QED
      BY <3>1, InputsOfVersion
  <2> HIDE DEF c
  <2> QED
    BY <2>1
<1> HIDE DEF d, edit
<1> QED
  BY <1>1, <1>3, <1>4 DEF ThreadRecord

\* What is to be shown after a step.
LEMMA SeenAfter ==
  ASSUME snapshot' = None,
         \/ bg'.at = "merge"
         \/ bg'.at = "build" /\ bg'.comp # None
         \/ bg'.at = "edit" /\ bg'.file # 0 /\ bg'.comp # None
         => UpTo(Entries(tables', bg'.comp.in0 \cup bg'.comp.in1), bg'.comp.oldest)
  PROVE  SeenInv'
BY DEF SeenInv, UpTo, Entries

\* Steps that keep the inputs of the compaction under way.
LEMMA SeenFrame ==
  ASSUME SeenInv, snapshot' = None, bg'.comp = bg.comp,
         \/ bg.at = "merge"
         \/ bg.at = "build" /\ bg.comp # None
         \/ bg.at = "edit" /\ bg.file # 0 /\ bg.comp # None,
         \A f \in bg.comp.in0 \cup bg.comp.in1 : tables'[f] = tables[f]
  PROVE  SeenInv'
<1>1. Entries(tables', bg.comp.in0 \cup bg.comp.in1) = Entries(tables, bg.comp.in0 \cup bg.comp.in1)
  BY DEF Entries
<1>2. UpTo(Entries(tables, bg.comp.in0 \cup bg.comp.in1), bg.comp.oldest)
  BY DEF SeenInv
<1> QED
  BY <1>1, <1>2, SeenAfter

\* A call that ends without an edit, and the start of a flush.
LEMMA CallsSeen ==
  ASSUME TypesInv, SeenInv, NothingToDo \/ BuildTableFails \/ MergeFails \/ BeginFlush PROVE SeenInv'
<1>1. UNCHANGED <<tables, snapshot>>
  BY DEF NothingToDo, BuildTableFails, BeginFlush, MergeFails, DeleteObsoleteFiles, CannotTell, disk_, readers_
<1>2. snapshot' = None
  BY <1>1 DEF SeenInv
<1>3. bg.at = "idle" => bg.comp = None
  BY DEF TypesInv, TablesInv, ThreadInv
<1>4. CASE BeginFlush
  <2>1. /\ bg.at = "idle" \/ bg.at = "merge"
        /\ bg'.at = "build" /\ bg'.comp = bg.comp
    BY <1>4 DEF BeginFlush, TypesInv, TablesInv, ThreadInv, ThreadRecord
  <2> QED
    BY <1>1, <1>2, <1>3, <2>1, SeenAfter, SeenFrame
<1>5. CASE NothingToDo \/ BuildTableFails \/ MergeFails
  <2>1. bg' = Idle \/ (bg'.at = "merge" /\ bg'.comp = bg.comp /\ bg.comp # None)
    BY <1>5, CallEnds DEF TypesInv
  <2>2. bg.at = "idle" \/ bg.at = "build" \/ bg.at = "merge"
    BY <1>5 DEF NothingToDo, BuildTableFails, MergeFails
  <2>3. CASE bg' = Idle
    BY <1>2, <2>3, SeenAfter DEF Idle
  <2>4. CASE bg'.at = "merge" /\ bg'.comp = bg.comp /\ bg.comp # None
    BY <1>1, <1>2, <1>3, <2>2, <2>4, SeenFrame
  <2> QED
    BY <2>1, <2>3, <2>4
<1> QED
  BY <1>4, <1>5

\* A flush within a compaction leaves its inputs alone.
LEMMA BuildTableSeen == ASSUME TypesInv, LevelsInv, SeenInv, BuildTable PROVE SeenInv'
<1>1. bg.at = "build" /\ bg'.at = "edit" /\ bg'.comp = bg.comp /\ Agree(version, tables, tables')
  BY BuildTableMakes
<1>2. snapshot' = None
  BY DEF SeenInv, BuildTable, readers_
<1>3. CASE bg.comp = None
  BY <1>1, <1>2, <1>3, SeenAfter
<1>4. CASE bg.comp # None
  <2>1. bg.comp.in0 \cup bg.comp.in1 \subseteq DOMAIN version
    BY <1>1, <1>4 DEF LevelsInv, Movable, Level
  <2> QED
    BY <1>1, <1>2, <1>4, <2>1, SeenFrame DEF Agree
<1> QED
  BY <1>3, <1>4

\* A compaction that begins sees all of the version's entries.
LEMMA BeginCompactionSeen ==
  ASSUME TypesInv, LevelsInv', AgesInv, SeenInv, BeginCompaction PROVE SeenInv'
<1>1. UNCHANGED <<version, tables, snapshot>> /\ snapshot = None
  BY DEF BeginCompaction, disk_, files_, readers_, SeenInv
<1>2. bg'.at = "merge" \/ (bg'.at = "edit" /\ bg'.comp = None)
  BY BeginCompactionDoes DEF TypesInv
<1>3. ASSUME bg'.at = "merge" PROVE UpTo(Entries(tables', bg'.comp.in0 \cup bg'.comp.in1), bg'.comp.oldest)
  <2>1. bg'.comp.in0 \cup bg'.comp.in1 \subseteq DOMAIN version'
    BY <1>3 DEF LevelsInv, Movable, Level
  <2>2. Entries(tables', bg'.comp.in0 \cup bg'.comp.in1) \subseteq Stored(version, tables)
    BY <1>1, <2>1 DEF Stored, Entries
  <2>3. UpTo(Stored(version, tables), lastSeq)
    BY DEF AgesInv
  <2>4. bg'.comp.oldest = lastSeq
    BY <1>1, <1>3, BeginCompactionReads DEF TypesInv
  <2> QED
    BY <2>2, <2>3, <2>4 DEF UpTo
<1> QED
  BY <1>1, <1>2, <1>3, SeenAfter

\* A compaction goes on after a flush has been installed.
LEMMA InstallSeen == ASSUME TypesInv, TypesInv', LevelsInv', SeenInv, Install PROVE SeenInv'
<1>1. \A f \in DOMAIN tables' : tables'[f] = tables[f]
  <2>1. CASE Moving
    BY <2>1 DEF Install
  <2>2. CASE ~Moving
    <3>1. DeleteObsoleteFiles(version', logNumber', IF Flushing THEN bg.comp ELSE None, pending', bgError)
      BY <2>2 DEF Install
    <3> QED
      BY <3>1, Deletes
  <2> QED
    BY <2>1, <2>2
<1>2. snapshot' = None
  BY DEF SeenInv, Install, readers_
<1>3. bg' = Idle \/ (bg'.at = "merge" /\ bg'.comp = bg.comp /\ bg.comp # None)
  BY CallEnds DEF TypesInv
<1>4. CASE bg' = Idle
  BY <1>2, <1>4, SeenAfter DEF Idle
<1>5. CASE bg' # Idle
  <2>1. bg.at = "edit" /\ bg.file # 0
    BY <1>5 DEF Install, EndCall, Flushing
  <2>2. bg'.comp.in0 \cup bg'.comp.in1 \subseteq DOMAIN version'
    BY <1>3, <1>5 DEF LevelsInv, Movable, Level
  <2>3. DOMAIN version' \subseteq DOMAIN tables'
    BY DEF TypesInv, TablesInv
  <2>4. \A f \in bg.comp.in0 \cup bg.comp.in1 : tables'[f] = tables[f]
    BY <1>1, <1>3, <1>5, <2>2, <2>3
  <2> QED
    BY <1>2, <1>3, <1>5, <2>1, <2>4, SeenFrame
<1> QED
  BY <1>4, <1>5

\* An output more.
LEMMA WriteOutputSeen == ASSUME TypesInv, SeenInv, WriteOutput PROVE SeenInv'
<1>1. /\ bg.at = "merge" /\ bg' = bg
      /\ \A f \in DOMAIN bg.comp.base : f \in DOMAIN tables /\ tables'[f] = tables[f]
  BY WriteOutputAdds
<1>2. bg.comp.in0 \cup bg.comp.in1 \subseteq DOMAIN bg.comp.base
  BY <1>1 DEF TypesInv, TablesInv, ThreadInv
<1>3. snapshot' = None
  BY DEF WriteOutput, readers_, SeenInv
<1> QED
  BY <1>1, <1>2, <1>3, SeenFrame

\* No compaction is under way after the other steps of the thread, and at a start.
LEMMA IdleSeen ==
  ASSUME TypesInv, SeenInv, Merge \/ Crash \/ RecoverLogs \/ Open \/ (InstallFails /\ ~Retried) PROVE SeenInv'
<1>1. snapshot' = None
  BY DEF SeenInv, Merge, Crash, RecoverLogs, Open, InstallFails, readers_
<1>2. CASE Merge
  <2>1. bg'.at = "edit" /\ bg'.file = 0
    BY <1>2, MergeDoes DEF TypesInv
  <2> QED
    BY <1>1, <2>1, SeenAfter
<1>3. CASE Crash \/ RecoverLogs \/ Open \/ (InstallFails /\ ~Retried)
  <2>1. bg' = Idle
    <3>1. CASE Crash
      BY <3>1 DEF Crash
    <3>2. CASE RecoverLogs \/ Open
      <4>1. up # "open" /\ bg' = bg
        BY <3>2 DEF RecoverLogs, Open, thread_
      <4> QED
        BY <4>1 DEF TypesInv, TablesInv
    <3>3. CASE InstallFails /\ ~Retried
      BY <3>3 DEF InstallFails, Retried, EndCall
    <3> QED
      BY <1>3, <3>1, <3>2, <3>3
  <2>2. bg'.at = "idle"
    BY <2>1 DEF Idle
  <2> QED
    BY <1>1, <2>2, SeenAfter
<1> QED
  BY <1>2, <1>3

\* Every step but a flush whose record fails within a compaction, and a new snapshot.
LEMMA SeenStep ==
  ASSUME TypesInv, TypesInv', LevelsInv, LevelsInv', AgesInv, SeenInv, [Next]_vars, ~Retried, ~GetSnapshot
  PROVE  SeenInv'
<1>1. CASE \/ \E w \in Writes : Write(w)
           \/ Lead \/ LeadFails \/ AddRecord \/ Sync \/ InsertInto \/ Publish \/ WriteFails
           \/ ReleaseSnapshot \/ NewIterator \/ CleanupIterator \/ Reschedule \/ UNCHANGED vars
  <2>1. UNCHANGED <<tables, bg>>
    BY <1>1 DEF Write, Lead, LeadFails, AddRecord, Sync, InsertInto, Publish, WriteFails,
                ReleaseSnapshot, NewIterator, CleanupIterator, Reschedule, vars, disk_, thread_
  <2>2. snapshot' = None
    BY <1>1 DEF SeenInv, Write, Lead, LeadFails, AddRecord, Sync, InsertInto, Publish, WriteFails,
                ReleaseSnapshot, NewIterator, CleanupIterator, Reschedule, vars, readers_
  <2> QED
    BY <2>1, <2>2, SeenAfter DEF SeenInv
<1>2. CASE NothingToDo \/ BuildTableFails \/ MergeFails \/ BeginFlush
  BY <1>2, CallsSeen
<1>3. CASE BuildTable
  BY <1>3, BuildTableSeen
<1>4. CASE BeginCompaction
  BY <1>4, BeginCompactionSeen
<1>5. CASE Install
  BY <1>5, InstallSeen
<1>6. CASE WriteOutput
  BY <1>6, WriteOutputSeen
<1>7. CASE Merge \/ Crash \/ RecoverLogs \/ Open \/ InstallFails
  BY <1>7, IdleSeen
<1> QED
  BY <1>1, <1>2, <1>3, <1>4, <1>5, <1>6, <1>7 DEF Next

\* version_set.cc:346 for a database that nobody takes snapshots of, as Firestore does:
\* entries never hop across levels unless the manifest record of a flush within a
\* compaction fails.
THEOREM NewerEntriesAboveWithoutSnapshots ==
  Spec /\ [][~Retried /\ ~GetSnapshot]_vars => []SmallerLevelIsNewer
<1> DEFINE Inv == TypesInv /\ LevelsInv /\ AgesInv /\ NewerInv /\ SeenInv
<1>1. Init => Inv
  <2> SUFFICES ASSUME Init PROVE Inv
    OBVIOUS
  <2>1. snapshot = None /\ bg.at = "idle"
    BY DEF Init, Idle
  <2> QED
    BY <2>1, TypesInit, LevelsInit, AgesInit, NewerInit DEF SeenInv
<1>2. Inv /\ [Next]_vars /\ [~Retried /\ ~GetSnapshot]_vars => Inv'
  <2> SUFFICES ASSUME Inv, [Next]_vars, [~Retried /\ ~GetSnapshot]_vars PROVE Inv'
    OBVIOUS
  <2>1. TypesInv' /\ AgesInv'
    BY TypesStep, AgesStep
  <2>2. CASE ~Retried /\ ~GetSnapshot
    <3>1. LevelsInv' /\ NewerInv'
      BY <2>1, <2>2, LevelsStep, NewerStep, NoCut
    <3> QED
      BY <2>1, <2>2, <3>1, SeenStep
  <2>3. CASE UNCHANGED vars
    <3>1. UNCHANGED <<tables, manifest, up, version, bg, bgError, snapshot>>
      BY <2>3 DEF vars, disk_, files_, thread_, readers_
    <3>2. LevelsInv' /\ NewerInv'
      BY <3>1, OthersLevels, OthersNewer
    <3>3. SeenInv'
      BY <3>1, SeenAfter DEF SeenInv
    <3> QED
      BY <2>1, <3>2, <3>3
  <2> QED
    BY <2>2, <2>3
<1>3. Inv => SmallerLevelIsNewer
  BY DEF NewerInv
<1> QED
  BY <1>1, <1>2, <1>3, PTL DEF Spec

-----------------------------------------------------------------------------
(* What reads rest on.                                                     *)

\* What was written and is not in the logs L from log on.
Before(W, L, log) == W \ Logged(L, log)

\* No two entries have the same number.
Unique(A) == \A d, e \in A : d.seq = e.seq => d = e

\* The entries A are some of B, and give the same answers from number w on.
Kept(A, B, w) ==
  /\ A \subseteq B
  /\ \A k \in Key, s \in 0 .. MaxSequence : w <= s => Value(Newest(A, k, s)) = Value(Newest(B, k, s))

\* The least number anyone may read at.
Least == IF snapshot = None THEN lastSeq ELSE snapshot

\* The newer files of level 0 have newer entries.
Stacked(v, T) == \A f, g \in Level(v, 0) : f < g => Older(T[f], T[g])

\* Later logs have newer entries.
InOrder(L) == \A i, j \in DOMAIN L : i < j => Older(UNION ToSet(L[i]), UNION ToSet(L[j]))

\* The tables two levels below a compaction's, or deeper, are those it began with, or
\* have newer entries than its inputs.
Deep(c, v, T) ==
  \A g \in DOMAIN v : v[g] >= c.level + 2 =>
    \/ g \in DOMAIN c.base /\ c.base[g] = v[g]
    \/ \A d \in T[g], e \in Entries(T, c.in0 \cup c.in1) : d.key = e.key => d.seq > e.seq

\* What a compaction may drop nobody misses who reads at number w or later.
MergeOK(c, v, T, w) ==
  /\ Deep(c, v, T) /\ c.oldest \in Nat /\ c.oldest <= w
  /\ Filled(T, DOMAIN c.base) /\ \A f \in DOMAIN c.base : c.base[f] \in Nat

\* The numbers are all different.  What the logs from some number on say is newer than
\* what was written before, and that is counted by the manifest that begins there.
LogsInv ==
  /\ Unique(truth \cup Logged(logs, 0)) /\ InOrder(logs)
  /\ up = "open" => /\ \A n \in DOMAIN logs : n <= logfile
                    /\ \A log \in Nat : Older(Before(truth, logs, log), Logged(logs, log))
  /\ up # "closed" => UpTo(truth, lastSeq)
  /\ \A m \in manifest : /\ UpTo(Before(truth, logs, m.log), m.seq)
                         /\ up # "open" => /\ Logged(logs, m.log) \subseteq truth
                                           /\ Older(Before(truth, logs, m.log), Logged(logs, m.log))
  /\ bg.at = "edit" => /\ UpTo(Before(truth, logs, bg.edit.log), bg.edit.seq)
                       /\ bg.file # 0 => imm # None /\ bg.edit.log = logfile
                       /\ bg.file = 0 => bg.edit.log = logNumber
  /\ up # "open" => snapshot = None
  /\ Least <= lastSeq

\* All that was written is in the logs before logNumber, in the memory table that waits,
\* or in the one in use, where a group is unseen until it is published.
MemInv ==
  up = "open" =>
  /\ truth = Before(truth, logs, logfile) \cup {e \in mem : e.seq <= lastSeq}
  /\ Before(truth, logs, logfile) = Before(truth, logs, logNumber) \cup IF imm = None THEN {} ELSE imm
  /\ stage = "publish" => GroupEntries \subseteq mem /\ \A e \in mem : e.seq <= lastSeq \/ e \in GroupEntries

\* The memory tables are in the logs that would be replayed: the one in use in the log in
\* use, the one that waits in those from logNumber on.
HeldInv ==
  up = "open" =>
  /\ mem \subseteq Logged(logs, logfile)
  /\ imm # None => imm \subseteq Logged(logs, logNumber)

\* Level 0 is in order in every version: the one in use, the manifest's, the edit's.
StackInv ==
  /\ Stacked(version, tables) /\ \A m \in manifest : Stacked(m.version, tables)
  /\ bg.at = "edit" => Stacked(Edited(version, bg.edit), tables)

\* The compaction under way may drop what it drops, and still after a flush within it.
DeepInv ==
  /\ bg.at = "merge" \/ (bg.at = "build" /\ bg.comp # None) => MergeOK(bg.comp, version, tables, Least)
  /\ bg.at = "edit" /\ bg.file # 0 /\ bg.comp # None => MergeOK(bg.comp, Edited(version, bg.edit), tables, Least)

\* Each version answers for what was written before the logs that go with it.
KeptInv ==
  /\ up = "open" => Kept(Stored(version, tables), Before(truth, logs, logNumber), Least)
  /\ up = "replayed" => Kept(Stored(version, tables), truth, lastSeq)
  /\ \A m \in manifest : Kept(Stored(m.version, tables), Before(truth, logs, m.log), m.seq)
  /\ bg.at = "edit" => /\ Kept(Stored(Edited(version, bg.edit), tables), Before(truth, logs, bg.edit.log), Least)
                       /\ Kept(Stored(Edited(version, bg.edit), tables), Before(truth, logs, bg.edit.log), bg.edit.seq)

-----------------------------------------------------------------------------
(* What a reader sees of a set of entries.                                 *)

\* a is the newest entry of k in A that is seen from number s.
Top(A, k, s, a) ==
  /\ a \in A /\ a.key = k /\ a.seq <= s
  /\ \A d \in A : d.key = k /\ d.seq <= s => d.seq <= a.seq

\* An entry's number and key are numbers.
LEMMA EntryNumbers == ASSUME NEW e \in Entry PROVE e.seq \in Nat /\ e.seq <= MaxSequence /\ e.key \in Nat /\ MaxSequence \in Nat
BY LevelsAssumption DEF Entry, Key, Sequence

\* A reader sees a newest entry of a key, or none.
LEMMA NewestIsTop ==
  ASSUME NEW A, A \subseteq Entry, NEW k, NEW s
  PROVE  \/ Newest(A, k, s) = {} /\ \A e \in A : ~(e.key = k /\ e.seq <= s)
         \/ \E a \in A : Top(A, k, s, a) /\ Newest(A, k, s) = {a}
<1> DEFINE seen == {e \in A : e.key = k /\ e.seq <= s}
           best(e) == \A d \in seen : d.seq <= e.seq
<1>1. CASE seen = {}
  BY <1>1 DEF Newest
<1>2. CASE seen # {}
  <2> DEFINE S == {e.seq : e \in seen}
  <2>1. S # {} /\ S \subseteq 0 .. MaxSequence /\ MaxSequence \in Nat
    BY <1>2, EntryNumbers, LevelsAssumption
  <2>2. Max(S) \in S /\ \A y \in S : y <= Max(S)
    BY <2>1, MaxIsGreatest
  <2>3. PICK x \in seen : x.seq = Max(S)
    BY <2>2
  <2>4. best(x)
    BY <2>2, <2>3
  <2> DEFINE a == CHOOSE e \in seen : best(e)
  <2>5. a \in seen /\ best(a)
    BY <2>4
  <2>6. Newest(A, k, s) = {a}
    BY <1>2 DEF Newest
  <2> HIDE DEF a
  <2>7. Top(A, k, s, a)
    BY <2>5 DEF Top
  <2> QED
    BY <2>5, <2>6, <2>7
<1> QED
  BY <1>1, <1>2

\* If the numbers are all different there is one such entry.
LEMMA TopIsNewest ==
  ASSUME NEW A, A \subseteq Entry, Unique(A), NEW k, NEW s, NEW a, Top(A, k, s, a)
  PROVE  Newest(A, k, s) = {a}
<1>1. a \in A /\ a.key = k /\ a.seq <= s
  BY DEF Top
<1>2. PICK b \in A : Top(A, k, s, b) /\ Newest(A, k, s) = {b}
  BY <1>1, NewestIsTop
<1>3. a.seq <= b.seq /\ b.seq <= a.seq
  BY <1>1, <1>2 DEF Top
<1>4. a.seq = b.seq
  BY <1>1, <1>2, <1>3, EntryNumbers
<1> QED
  BY <1>1, <1>2, <1>4 DEF Unique

\* Newer entries come first.
LEMMA NewerFirst ==
  ASSUME NEW A, NEW N, A \cup N \subseteq Entry, Unique(A \cup N), Older(A, N), NEW k, NEW s
  PROVE  Newest(A \cup N, k, s) = IF Newest(N, k, s) # {} THEN Newest(N, k, s) ELSE Newest(A, k, s)
<1>1. Unique(A) /\ Unique(N)
  BY DEF Unique
<1>2. CASE Newest(N, k, s) # {}
  <2>1. PICK b \in N : Top(N, k, s, b) /\ Newest(N, k, s) = {b}
    BY <1>2, NewestIsTop
  <2>2. ASSUME NEW d \in A PROVE d.seq <= b.seq
    <3>1. d.seq < b.seq /\ d.seq \in Nat /\ b.seq \in Nat
      BY <2>1, EntryNumbers DEF Older
    <3> QED
      BY <3>1
  <2>3. Top(A \cup N, k, s, b)
    BY <2>1, <2>2 DEF Top
  <2> QED
    BY <1>2, <2>1, <2>3, TopIsNewest
<1>3. CASE Newest(N, k, s) = {}
  <2>1. \A e \in N : ~(e.key = k /\ e.seq <= s)
    <3>1. \A a : Newest(N, k, s) # {a}
      BY <1>3
    <3>2. N \subseteq Entry
      OBVIOUS
    <3>3. \/ \A e \in N : ~(e.key = k /\ e.seq <= s)
          \/ \E a \in N : Newest(N, k, s) = {a}
      BY <3>2, NewestIsTop
    <3> QED
      BY <3>1, <3>3
  <2>2. {e \in A \cup N : e.key = k /\ e.seq <= s} = {e \in A : e.key = k /\ e.seq <= s}
    BY <2>1
  <2> QED
    BY <1>3, <2>2 DEF Newest
<1> QED
  BY <1>2, <1>3

\* What nobody reads at s may be left out.
LEMMA SeenOnly ==
  ASSUME NEW A, NEW B, NEW s, {e \in A : e.seq <= s} = {e \in B : e.seq <= s}, NEW k
  PROVE  Newest(A, k, s) = Newest(B, k, s)
<1>1. {e \in A : e.key = k /\ e.seq <= s} = {e \in B : e.key = k /\ e.seq <= s}
  <2>1. \A e : (e \in A /\ e.seq <= s) <=> (e \in B /\ e.seq <= s)
    <3> TAKE e
    <3>1. (e \in A /\ e.seq <= s) <=> e \in {x \in A : x.seq <= s}
      OBVIOUS
    <3>2. (e \in B /\ e.seq <= s) <=> e \in {x \in B : x.seq <= s}
      OBVIOUS
    <3> QED
      BY <3>1, <3>2
  <2> QED
    BY <2>1
<1> QED
  BY <1>1 DEF Newest

\* The same entries are kept.
LEMMA KeptSelf == ASSUME NEW A, NEW w PROVE Kept(A, A, w)
BY DEF Kept

\* What is kept of what is kept.
LEMMA KeptTwice ==
  ASSUME NEW A, NEW B, NEW C, NEW w, Kept(A, B, w), Kept(B, C, w)
  PROVE  Kept(A, C, w)
BY DEF Kept

\* From a greater number on.
LEMMA KeptLater ==
  ASSUME NEW A, NEW B, NEW w \in Nat, NEW x \in Nat, w <= x, Kept(A, B, w)
  PROVE  Kept(A, B, x)
<1>1. ASSUME NEW s \in 0 .. MaxSequence, x <= s PROVE w <= s
  <2>1. s \in Nat
    BY LevelsAssumption
  <2> QED
    BY <1>1, <2>1
<1> QED
  BY <1>1 DEF Kept

\* Newer entries on both sides.
LEMMA KeptWithNewer ==
  ASSUME NEW A, NEW B, NEW N, B \cup N \subseteq Entry, Unique(B \cup N), Older(B, N), NEW w, Kept(A, B, w)
  PROVE  Kept(A \cup N, B \cup N, w)
<1>1. A \subseteq B
  BY DEF Kept
<1>2. A \cup N \subseteq Entry /\ Unique(A \cup N) /\ Older(A, N)
  BY <1>1 DEF Unique, Older
<1>3. ASSUME NEW k \in Key, NEW s \in 0 .. MaxSequence, w <= s
      PROVE  Value(Newest(A \cup N, k, s)) = Value(Newest(B \cup N, k, s))
  <2>1. Value(Newest(A, k, s)) = Value(Newest(B, k, s))
    BY <1>3 DEF Kept
  <2>2. Newest(A \cup N, k, s) = IF Newest(N, k, s) # {} THEN Newest(N, k, s) ELSE Newest(A, k, s)
    BY <1>2, NewerFirst
  <2>3. Newest(B \cup N, k, s) = IF Newest(N, k, s) # {} THEN Newest(N, k, s) ELSE Newest(B, k, s)
    BY NewerFirst
  <2> QED
    BY <2>1, <2>2, <2>3
<1> QED
  BY <1>1, <1>3 DEF Kept

-----------------------------------------------------------------------------
(* Reading a version.                                                      *)

\* An entry's place among the internal keys tells if a reader sees it.
LEMMA OrderSeen ==
  ASSUME NEW e \in Entry, NEW k \in Key, NEW s \in 0 .. MaxSequence
  PROVE  /\ InternalKey(k, s) \in Nat
         /\ e.key < k => Order(e) < InternalKey(k, s)
         /\ e.key = k => (Order(e) >= InternalKey(k, s) <=> e.seq <= s)
<1>1. MaxSequence \in Nat /\ e.key \in Nat /\ k \in Nat /\ e.seq \in 1 .. MaxSequence
  BY LevelsAssumption DEF Entry, Key, Sequence
<1> DEFINE M == MaxSequence + 1
<1>2. M \in Nat
  BY <1>1
<1>3. e.key < k => e.key * M + M <= k * M
  <2>1. \A j, i, n \in Nat : j < i => j * n + n <= i * n
    <3>1. \A j, i, n \in Nat : j < i => (i - j) - 1 \in Nat /\ ((i - j) - 1) * n \in Nat
      OBVIOUS
    <3>2. \A j, i, n \in Nat : j < i => i * n = j * n + n + ((i - j) - 1) * n
      OBVIOUS
    <3> QED
      BY <3>1, <3>2
  <2> HIDE DEF M
  <2> QED
    BY <1>1, <1>2, <2>1
<1>4. e.key * M \in Nat /\ k * M \in Nat
  BY <1>1, <1>2
<1>5. MaxSequence - e.seq < M /\ MaxSequence - s >= 0 /\ MaxSequence - e.seq \in Nat /\ MaxSequence - s \in Nat
  BY <1>1
<1>6. Order(e) = e.key * M + (MaxSequence - e.seq) /\ InternalKey(k, s) = k * M + (MaxSequence - s)
  BY DEF Order, InternalKey
<1>7. MaxSequence - e.seq >= MaxSequence - s <=> e.seq <= s
  BY <1>1
<1>8. e.key = k => e.key * M = k * M
  OBVIOUS
<1> HIDE DEF M
<1> QED
  BY <1>2, <1>3, <1>4, <1>5, <1>6, <1>7, <1>8

\* Of two entries of a key the newer one comes first.
LEMMA OrderOfNumbers ==
  ASSUME NEW d \in Entry, NEW e \in Entry, d.key = e.key, Order(d) < Order(e)
  PROVE  e.seq < d.seq
<1>1. MaxSequence \in Nat /\ e.key \in Nat /\ e.seq \in 1 .. MaxSequence /\ d.seq \in 1 .. MaxSequence
  BY LevelsAssumption DEF Entry, Key, Sequence
<1> DEFINE K == e.key * (MaxSequence + 1)
<1>2. K \in Nat
  BY <1>1
<1>3. Order(d) = K + (MaxSequence - d.seq) /\ Order(e) = K + (MaxSequence - e.seq)
  BY DEF Order, InternalKey
<1> HIDE DEF K
<1> QED
  BY <1>1, <1>2, <1>3

\* Level 0: the newest table that has an entry of the key.
LEMMA LevelZeroReads ==
  ASSUME NEW v, NEW T, Filled(T, DOMAIN v), NEW b \in Nat, DOMAIN v \subseteq 0 .. b,
         Stacked(v, T), Unique(Stored(v, T)), NEW k \in Key, NEW s \in 0 .. MaxSequence
  PROVE  InLevel(v, T, 0, k, s) = Newest(Entries(T, Level(v, 0)), k, s)
<1> DEFINE E == Entries(T, Level(v, 0))
           holding == {f \in Meeting(v, T, 0, k, k) : Newest(T[f], k, s) # {}}
<1>1. E \subseteq Entry /\ Unique(E) /\ \A f \in Level(v, 0) : T[f] \subseteq Entry /\ T[f] # {} /\ T[f] \subseteq E
  BY DEF Filled, Level, Entries, Stored, Unique
<1>2. ASSUME NEW f \in Level(v, 0), NEW e \in T[f], e.key = k, e.seq <= s
      PROVE  f \in holding
  <2>1. Smallest(T, f) <= k /\ Largest(T, f) >= k
    BY <1>1, <1>2, Ends DEF Keys
  <2>2. f \in Meeting(v, T, 0, k, k)
    BY <2>1 DEF Meeting
  <2>3. Newest(T[f], k, s) # {}
    BY <1>1, <1>2, NewestIsTop
  <2> QED
    BY <2>2, <2>3
<1>3. holding \subseteq Level(v, 0) /\ holding \subseteq 0 .. b
  BY DEF Meeting, Level
<1>4. CASE holding = {}
  <2>1. \A e \in E : ~(e.key = k /\ e.seq <= s)
    BY <1>2, <1>4 DEF Entries
  <2>2. Newest(E, k, s) = {}
    BY <2>1, <1>1, NewestIsTop DEF Top
  <2>3. InLevel(v, T, 0, k, s) = {}
    BY <1>4 DEF InLevel
  <2> QED
    BY <2>2, <2>3
<1>5. CASE holding # {}
  <2> DEFINE h == Max(holding)
  <2>1. h \in holding /\ \A f \in holding : f <= h
    BY <1>3, <1>5, MaxIsGreatest
  <2>2. InLevel(v, T, 0, k, s) = Newest(T[h], k, s)
    BY <1>5 DEF InLevel
  <2> HIDE DEF h, holding
  <2>3. h \in Level(v, 0) /\ T[h] \subseteq Entry
    BY <1>1, <1>3, <2>1
  <2>4. Newest(T[h], k, s) # {}
    BY <2>1 DEF holding
  <2>5. PICK a \in T[h] : Top(T[h], k, s, a) /\ Newest(T[h], k, s) = {a}
    BY <2>3, <2>4, NewestIsTop
  <2>6. ASSUME NEW d \in E, d.key = k, d.seq <= s PROVE d.seq <= a.seq
    <3>1. PICK f \in Level(v, 0) : d \in T[f]
      BY DEF Entries
    <3>2. f \in holding /\ f <= h
      BY <1>2, <2>1, <2>6, <3>1
    <3>3. CASE f = h
      BY <2>5, <2>6, <3>1, <3>3 DEF Top
    <3>4. CASE f # h
      <4>1. f \in Nat /\ h \in Nat
        <5>1. f \in 0 .. b /\ h \in 0 .. b
          BY <1>3, <2>1, <3>2
        <5> QED
          BY <5>1
      <4>2. f < h
        BY <3>2, <3>4, <4>1
      <4>3. d.seq < a.seq
        BY <2>3, <2>5, <3>1, <4>2 DEF Stacked, Older
      <4>4. d.seq \in Nat /\ a.seq \in Nat
        BY <1>1, <2>3, <2>5, EntryNumbers
      <4> QED
        BY <4>3, <4>4
    <3> QED
      BY <3>3, <3>4
  <2>7. Top(E, k, s, a)
    <3>1. a \in E /\ a.key = k /\ a.seq <= s
      BY <1>1, <2>3, <2>5 DEF Top
    <3> QED
      BY <2>6, <3>1 DEF Top
  <2> QED
    BY <1>1, <2>2, <2>5, <2>7, TopIsNewest
<1> QED
  BY <1>4, <1>5

\* Other levels: the one table that FindFile finds.
LEMMA LevelReads ==
  ASSUME NEW v, NEW T, Filled(T, DOMAIN v), Disjoint(v, T), Unique(Stored(v, T)),
         NEW l \in Nat \ {0}, NEW k \in Key, NEW s \in 0 .. MaxSequence
  PROVE  InLevel(v, T, l, k, s) = Newest(Entries(T, Level(v, l)), k, s)
<1> DEFINE E == Entries(T, Level(v, l))
           last(f) == Max({Order(e) : e \in T[f]})
           after == {f \in Level(v, l) : last(f) >= InternalKey(k, s)}
           found == CHOOSE f \in after : \A g \in after : last(f) <= last(g)
<1>1. E \subseteq Entry /\ Unique(E) /\ \A f \in Level(v, l) : T[f] \subseteq Entry /\ T[f] # {} /\ T[f] \subseteq E
  BY DEF Filled, Level, Entries, Stored, Unique
<1>2. ASSUME NEW f \in Level(v, l)
      PROVE  /\ last(f) \in Nat /\ \E x \in T[f] : last(f) = Order(x)
             /\ \A e \in T[f] : Order(e) <= last(f)
  <2> DEFINE S == {Order(e) : e \in T[f]}
  <2>1. S # {}
    BY <1>1
  <2>2. \E c \in Nat : S \subseteq 0 .. c
    <3>1. \A e \in Entry : Order(e) \in Nat /\ Order(e) <= InternalKey(NumKeys, 0)
      <4> TAKE e \in Entry
      <4>1. MaxSequence \in Nat /\ NumKeys \in Nat /\ e.key \in Nat /\ e.key <= NumKeys /\ e.seq \in 1 .. MaxSequence
        BY LevelsAssumption DEF Entry, Key, Sequence
      <4>2. e.key * (MaxSequence + 1) <= NumKeys * (MaxSequence + 1)
        <5>1. \A i, j, n \in Nat : i <= j => i * n <= j * n
          <6>1. \A i, j, n \in Nat : i <= j => (j - i) \in Nat /\ (j - i) * n \in Nat
            OBVIOUS
          <6>2. \A i, j, n \in Nat : i <= j => j * n = i * n + (j - i) * n
            OBVIOUS
          <6> QED
            BY <6>1, <6>2
        <5> QED
          BY <4>1, <5>1
      <4>3. MaxSequence - e.seq \in Nat /\ MaxSequence - e.seq <= MaxSequence - 0
        BY <4>1
      <4>4. e.key * (MaxSequence + 1) \in Nat /\ NumKeys * (MaxSequence + 1) \in Nat
        BY <4>1
      <4> QED
        BY <4>1, <4>2, <4>3, <4>4 DEF Order, InternalKey
    <3>2. InternalKey(NumKeys, 0) \in Nat
      BY LevelsAssumption DEF InternalKey
    <3>3. S \subseteq 0 .. InternalKey(NumKeys, 0)
      BY <1>1, <3>1, <3>2
    <3> QED
      BY <3>2, <3>3
  <2>3. Max(S) \in S /\ \A y \in S : y <= Max(S)
    BY <2>1, <2>2, MaxIsGreatest
  <2>4. last(f) = Max(S)
    OBVIOUS
  <2>5. \A e \in T[f] : Order(e) \in Nat
    BY <1>1, OrderIsNat
  <2> QED
    BY <2>3, <2>4, <2>5
<1>3. after # {} => found \in after /\ \A g \in after : last(found) <= last(g)
  <2> DEFINE S == {last(f) : f \in after}
  <2>1. S \subseteq Nat
    BY <1>2
  <2>2. ASSUME after # {} PROVE \E f \in after : \A g \in after : last(f) <= last(g)
    <3>0. S # {}
      BY <2>2
    <3>1. Min(S) \in S /\ \A y \in S : Min(S) <= y
      BY <2>1, <3>0, MinIsLeast
    <3> HIDE DEF last, after
    <3> QED
      BY <3>1
  <2> HIDE DEF last, after
  <2> QED
    BY <2>2
<1>4. InLevel(v, T, l, k, s) = IF after = {} THEN {} ELSE Newest(T[found], k, s)
  BY DEF InLevel
<1> HIDE DEF last, found
<1>5. CASE \A e \in E : ~(e.key = k /\ e.seq <= s)
  <2>1. Newest(E, k, s) = {}
    BY <1>1, <1>5, NewestIsTop DEF Top
  <2>2. ASSUME after # {} PROVE Newest(T[found], k, s) = {}
    <3>1. found \in Level(v, l)
      BY <1>3, <2>2
    <3>2. T[found] \subseteq Entry /\ \A e \in T[found] : ~(e.key = k /\ e.seq <= s)
      BY <1>1, <1>5, <3>1
    <3> QED
      BY <3>2, NewestIsTop DEF Top
  <2> QED
    BY <1>4, <2>1, <2>2
<1>6. ASSUME NEW e \in E, e.key = k, e.seq <= s
      PROVE  InLevel(v, T, l, k, s) = Newest(E, k, s)
  <2>1. PICK a \in E : Top(E, k, s, a) /\ Newest(E, k, s) = {a}
    BY <1>1, <1>6, NewestIsTop
  <2>2. a.key = k /\ a.seq <= s /\ a \in Entry
    BY <1>1, <2>1 DEF Top
  <2>3. PICK fa \in Level(v, l) : a \in T[fa]
    BY DEF Entries
  <2>4. Order(a) >= InternalKey(k, s) /\ Order(a) <= last(fa)
    BY <1>2, <2>2, <2>3, OrderSeen
  <2>5. InternalKey(k, s) \in Nat /\ Order(a) \in Nat /\ last(fa) \in Nat
    BY <1>2, <2>2, <2>3, OrderSeen, OrderIsNat
  <2>6. fa \in after
    BY <2>4, <2>5
  <2>7. found \in Level(v, l) /\ last(found) <= last(fa) /\ last(found) >= InternalKey(k, s) /\ after # {}
    BY <1>3, <2>6
  <2> HIDE DEF after
  <2>8. ASSUME found # fa PROVE FALSE
    <3>1. PICK x \in T[found] : last(found) = Order(x)
      BY <1>2, <2>7
    <3>2. PICK y \in T[fa] : last(fa) = Order(y)
      BY <1>2, <2>3
    <3>3. x \in Entry /\ y \in Entry /\ Order(x) \in Nat /\ Order(y) \in Nat
      BY <1>1, <2>3, <2>7, <3>1, <3>2, OrderIsNat
    <3>4. found \in DOMAIN v /\ fa \in DOMAIN v /\ v[found] = l /\ v[fa] = l /\ l > 0
      BY <2>3, <2>7 DEF Level
    <3>5. \/ \A d \in T[found], f \in T[fa] : Order(d) < Order(f)
          \/ \A d \in T[found], f \in T[fa] : Order(d) > Order(f)
      BY <2>8, <3>4 DEF Disjoint
    <3>6. Order(x) < Order(a)
      <4>1. ~(Order(x) > Order(y))
        BY <2>7, <3>1, <3>2, <3>3
      <4> QED
        BY <2>3, <3>1, <3>2, <3>5, <4>1
    <3>7. Order(x) >= InternalKey(k, s)
      BY <2>7, <3>1
    <3>8. x.key = k
      <4>1. ~(x.key < k)
        BY <2>5, <3>3, <3>7, OrderSeen
      <4>2. ~(x.key > k)
        <5>1. x.key > k => Order(a) < Order(x)
          <6>1. x.key \in Nat /\ a.key \in Nat
            BY <2>2, <3>3, EntryNumbers
          <6> QED
            BY <2>2, <3>3, <6>1, OrderOfKeys
        <5> QED
          BY <2>5, <3>3, <3>6, <5>1
      <4>3. x.key \in Nat /\ k \in Nat
        BY <3>3, EntryNumbers DEF Key
      <4> QED
        BY <4>1, <4>2, <4>3
    <3>9. x.seq <= s /\ a.seq < x.seq
      BY <2>2, <3>3, <3>6, <3>7, <3>8, OrderSeen, OrderOfNumbers
    <3>10. x \in E
      BY <1>1, <2>7, <3>1
    <3>11. x.seq <= a.seq
      BY <2>1, <3>8, <3>9, <3>10 DEF Top
    <3>12. x.seq \in Nat /\ a.seq \in Nat
      BY <2>2, <3>3, EntryNumbers
    <3> QED
      BY <3>9, <3>11, <3>12
  <2>9. Top(T[fa], k, s, a) /\ T[fa] \subseteq Entry /\ Unique(T[fa])
    BY <1>1, <2>1, <2>3 DEF Top, Unique
  <2>10. Newest(T[fa], k, s) = {a}
    BY <2>9, TopIsNewest
  <2> QED
    BY <1>4, <2>1, <2>7, <2>8, <2>10
<1> QED
  BY <1>5, <1>6

\* Version::Get: the first level that has an entry has the newest.
LEMMA VersionReads ==
  ASSUME NEW v, NEW T, Filled(T, DOMAIN v), NEW b \in Nat, DOMAIN v \subseteq 0 .. b,
         \A f \in DOMAIN v : v[f] \in 0 .. NumLevels - 1,
         Disjoint(v, T), Newer(v, T), Stacked(v, T), Unique(Stored(v, T)),
         NEW k \in Key, NEW s \in 0 .. MaxSequence
  PROVE  InVersion(v, T, k, s) = Newest(Stored(v, T), k, s)
<1> DEFINE At(l) == Entries(T, Level(v, l))
           levels == {l \in 0 .. NumLevels - 1 : InLevel(v, T, l, k, s) # {}}
<1>1. ASSUME NEW l \in 0 .. NumLevels - 1 PROVE InLevel(v, T, l, k, s) = Newest(At(l), k, s)
  <2>1. l = 0 \/ l \in Nat \ {0}
    BY LevelsAssumption
  <2>2. CASE l = 0
    BY <2>2, LevelZeroReads
  <2>3. CASE l \in Nat \ {0}
    BY <2>3, LevelReads
  <2> QED
    BY <2>1, <2>2, <2>3
<1>2. Stored(v, T) \subseteq Entry /\ \A l : At(l) \subseteq Stored(v, T) /\ At(l) \subseteq Entry
  BY DEF Stored, Entries, Level, Filled
<1>3. ASSUME NEW f \in DOMAIN v, NEW e \in T[f], e.key = k, e.seq <= s PROVE v[f] \in levels /\ e \in At(v[f])
  <2>1. v[f] \in 0 .. NumLevels - 1 /\ e \in At(v[f])
    BY DEF Entries, Level
  <2>2. Newest(At(v[f]), k, s) # {}
    <3> DEFINE A == At(v[f])
    <3>1. A \subseteq Entry /\ e \in A
      BY <1>2, <2>1
    <3> HIDE DEF A
    <3>2. Newest(A, k, s) # {}
      BY <1>3, <3>1, NewestIsTop
    <3> QED
      BY <3>2 DEF A
  <2> QED
    BY <1>1, <2>1, <2>2
<1>4. CASE levels = {}
  <2>1. \A e \in Stored(v, T) : ~(e.key = k /\ e.seq <= s)
    BY <1>3, <1>4 DEF Stored, Entries
  <2>2. Newest(Stored(v, T), k, s) = {}
    BY <1>2, <2>1, NewestIsTop DEF Top
  <2>3. InVersion(v, T, k, s) = {}
    BY <1>4 DEF InVersion
  <2> QED
    BY <2>2, <2>3
<1>5. CASE levels # {}
  <2> DEFINE m == Min(levels)
  <2>1. levels \subseteq Nat
    BY LevelsAssumption
  <2>2. m \in levels /\ \A l \in levels : m <= l
    BY <1>5, <2>1, MinIsLeast
  <2>3. InVersion(v, T, k, s) = InLevel(v, T, m, k, s)
    BY <1>5 DEF InVersion
  <2> HIDE DEF m
  <2>4. InLevel(v, T, m, k, s) = Newest(At(m), k, s) /\ InLevel(v, T, m, k, s) # {}
    BY <1>1, <2>2
  <2>5. PICK a \in At(m) : Top(At(m), k, s, a) /\ Newest(At(m), k, s) = {a}
    BY <1>2, <2>4, NewestIsTop
  <2>6. PICK fa \in Level(v, m) : a \in T[fa]
    BY DEF Entries
  <2>7. a.key = k /\ a.seq <= s /\ fa \in DOMAIN v /\ v[fa] = m /\ a \in Entry
    BY <1>2, <2>5, <2>6 DEF Top, Level
  <2>8. ASSUME NEW d \in Stored(v, T), d.key = k, d.seq <= s PROVE d.seq <= a.seq
    <3>1. PICK g \in DOMAIN v : d \in T[g]
      BY DEF Stored, Entries
    <3>2. v[g] \in levels /\ d \in At(v[g]) /\ m <= v[g]
      BY <1>3, <2>2, <2>8, <3>1
    <3>3. CASE v[g] = m
      BY <2>5, <2>8, <3>2, <3>3 DEF Top
    <3>4. CASE m < v[g]
      <4>1. a.seq > d.seq
        BY <2>6, <2>7, <2>8, <3>1, <3>4 DEF Newer
      <4>2. a.seq \in Nat /\ d.seq \in Nat
        BY <1>2, <2>7, EntryNumbers
      <4> QED
        BY <4>1, <4>2
    <3>5. m \in Nat /\ v[g] \in Nat
      BY <2>1, <2>2, <3>2
    <3> QED
      BY <3>2, <3>3, <3>4, <3>5
  <2>9. Top(Stored(v, T), k, s, a)
    <3>1. a \in Stored(v, T)
      BY <1>2
    <3> QED
      BY <2>7, <2>8, <3>1 DEF Top
  <2> QED
    BY <1>2, <2>3, <2>4, <2>5, <2>9, TopIsNewest
<1> QED
  BY <1>4, <1>5

-----------------------------------------------------------------------------
(* What a merge keeps.                                                     *)

\* The entries of a compaction's inputs that are not dropped.
Undropped(c, T) == {x \in Entries(T, c.in0 \cup c.in1) : ~Dropped(c, T, x, c.oldest)}

\* The outputs are made of them.
LEMMA OutputsAreKept ==
  ASSUME NEW c, NEW T, Entries(T, c.in0 \cup c.in1) \subseteq Entry
  PROVE  \A x : x \in Undropped(c, T) <=> \E i \in DOMAIN Outputs(c, T, c.oldest) : x \in Outputs(c, T, c.oldest)[i]
<1> DEFINE kept == {e \in Entry : e \in Entries(T, c.in0 \cup c.in1) /\ ~Dropped(c, T, e, c.oldest)}
           place(e) == Cardinality({d \in kept : Order(d) < Order(e)}) \div OutputSize
<1>1. Outputs(c, T, c.oldest) = [i \in {place(e) : e \in kept} |-> {e \in kept : place(e) = i}]
  BY DEF Outputs
<1>2. kept = Undropped(c, T)
  BY DEF Undropped
<1> HIDE DEF kept, place
<1> DEFINE outs == [i \in {place(e) : e \in kept} |-> {e \in kept : place(e) = i}]
<1>3. DOMAIN outs = {place(e) : e \in kept} /\ \A i \in DOMAIN outs : outs[i] = {e \in kept : place(e) = i}
  OBVIOUS
<1>4. \A x : x \in kept <=> \E i \in DOMAIN outs : x \in outs[i]
  <2> HIDE DEF outs
  <2> QED
    BY <1>3
<1> HIDE DEF outs
<1>5. Outputs(c, T, c.oldest) = outs
  BY <1>1 DEF outs
<1> QED
  BY <1>2, <1>4, <1>5

\* Merge's tables have them.
LEMMA MergeWrites ==
  ASSUME TypesInv, LevelsInv, Merge
  PROVE  Entries(tables', DOMAIN bg'.edit.add) = Undropped(bg.comp, tables)
<1> DEFINE outs == Outputs(bg.comp, tables, bg.comp.oldest)
<1>1. /\ UNCHANGED tables /\ bg.at = "merge" /\ \A i \in DOMAIN Wanting : IsMade(Wanting[i])
      /\ bg'.edit.add = [f \in outputs |-> bg.comp.level + 1]
  BY MergeDoes DEF TypesInv
<1>2. Entries(tables, bg.comp.in0 \cup bg.comp.in1) \subseteq Entry
  <2>1. bg.comp.in0 \cup bg.comp.in1 \subseteq DOMAIN tables
    BY <1>1 DEF TypesInv, TablesInv, ThreadInv
  <2> QED
    BY <2>1 DEF TypesInv, EntriesInv, Entries
<1>3. \A x : x \in Undropped(bg.comp, tables) <=> \E i \in DOMAIN outs : x \in outs[i]
  BY <1>2, OutputsAreKept
<1>4. /\ \A f \in outputs : \E i \in DOMAIN outs : tables[f] = outs[i]
      /\ \A i \in DOMAIN outs : \E f \in outputs : tables[f] = outs[i]
  BY <1>1 DEF TypesInv, OutputsInv, OutputsOK, Wanting, IsMade
<1> HIDE DEF outs
<1>5. DOMAIN bg'.edit.add = outputs
  BY <1>1
<1>6. \A x : x \in Entries(tables', outputs) <=> \E f \in outputs : x \in tables'[f]
  BY DEF Entries
<1>7. \A x : (\E f \in outputs : x \in tables'[f]) <=> \E i \in DOMAIN outs : x \in outs[i]
  BY <1>1, <1>4
<1> QED
  BY <1>3, <1>5, <1>6, <1>7

\* DoCompactionWork: what the outputs leave out of the inputs nobody misses who reads
\* at the compaction's oldest number or later.
LEMMA MergeKeeps ==
  ASSUME NEW v, NEW T, NEW U, NEW c, NEW e, NEW w \in Nat, c.oldest \in Nat, c.oldest <= w,
         Filled(T, DOMAIN v), Filled(T, DOMAIN c.base), \A f \in DOMAIN v : v[f] \in Nat, c.level \in Nat,
         \A f \in DOMAIN c.base : c.base[f] \in Nat,
         Newer(v, T), Fits(c, v, T), Deep(c, v, T), Unique(Stored(v, T)), Agree(v, T, U),
         e.drop = c.in0 \cup c.in1, DOMAIN e.add \cap DOMAIN v = {},
         Entries(U, DOMAIN e.add) = Undropped(c, T)
  PROVE  Kept(Stored(Edited(v, e), U), Stored(v, T), w)
<1> DEFINE A == Stored(v, T)
           B == Stored(Edited(v, e), U)
           in == c.in0 \cup c.in1
           I == Entries(T, in)
           rest == DOMAIN v \ in
<1>1. in \subseteq DOMAIN v /\ I \subseteq A /\ A \subseteq Entry
  BY DEF Fits, Level, Entries, Stored, Filled
<1>2. B = Entries(T, rest) \cup Undropped(c, T)
  <2>1. DOMAIN Edited(v, e) = rest \cup DOMAIN e.add
    BY EditedFiles
  <2>2. B = Entries(U, rest) \cup Entries(U, DOMAIN e.add)
    BY <2>1 DEF Stored, Entries
  <2>3. Entries(U, rest) = Entries(T, rest)
    BY DEF Entries, Agree
  <2> QED
    BY <2>2, <2>3
<1>3. B \subseteq A /\ B \subseteq Entry /\ Unique(B)
  BY <1>1, <1>2 DEF Undropped, Stored, Entries, Unique
<1>4. ASSUME NEW k \in Key, NEW s \in 0 .. MaxSequence, w <= s
      PROVE  Value(Newest(B, k, s)) = Value(Newest(A, k, s))
  <2>1. CASE Newest(A, k, s) = {}
    <3>1. \A x \in A : ~(x.key = k /\ x.seq <= s)
      BY <1>1, <2>1, NewestIsTop
    <3>2. {x \in B : x.key = k /\ x.seq <= s} = {}
      BY <1>3, <3>1
    <3> QED
      BY <2>1, <3>2 DEF Newest
  <2>2. ASSUME NEW a \in A, Top(A, k, s, a), Newest(A, k, s) = {a}, a \in B
        PROVE  Newest(B, k, s) = {a}
    <3>1. Top(B, k, s, a)
      BY <1>3, <2>2 DEF Top
    <3> QED
      BY <1>3, <3>1, TopIsNewest
  <2>3. ASSUME NEW a \in A, Top(A, k, s, a), Newest(A, k, s) = {a}, a \notin B
        PROVE  Value(Newest(B, k, s)) = Value(Newest(A, k, s))
    <3>1. a.key = k /\ a.seq <= s /\ a \in Entry /\ a.seq \in Nat
      BY <1>1, <2>3, EntryNumbers DEF Top
    <3>2. PICK fa \in in : a \in T[fa]
      BY <1>2, <2>3 DEF Stored, Entries
    <3>3. a \in I /\ Dropped(c, T, a, c.oldest)
      <4>1. a \in I
        BY <3>2 DEF Entries
      <4> QED
        BY <1>2, <2>3, <4>1 DEF Undropped
    <3>4. \A d \in I : ~(d.key = a.key /\ d.seq > a.seq /\ d.seq <= c.oldest)
      <4>1. ASSUME NEW d \in I, d.key = a.key, d.seq > a.seq, d.seq <= c.oldest PROVE FALSE
        <5>0. d \in A /\ d \in Entry
          BY <1>1
        <5>1. d \in A /\ d.seq \in Nat /\ s \in Nat
          BY <5>0, EntryNumbers, LevelsAssumption
        <5>2. d.seq <= s
          BY <1>4, <4>1, <5>1
        <5>3. d.seq <= a.seq
          BY <2>3, <3>1, <4>1, <5>1, <5>2 DEF Top
        <5> QED
          BY <3>1, <4>1, <5>1, <5>3
      <4> QED
        BY <4>1
    <3>5. a.del /\ a.seq <= c.oldest /\ BaseLevel(c, T, a.key)
      BY <3>3, <3>4 DEF Dropped
    <3>6. ASSUME NEW b \in B, b.key = k, b.seq <= s PROVE FALSE
      <4>1. b \in A /\ b.seq \in Nat /\ b.seq <= a.seq
        BY <1>3, <2>3, <3>6, EntryNumbers DEF Top
      <4>2. b.seq < a.seq
        <5>1. b.seq # a.seq
          BY <2>3, <4>1 DEF Unique
        <5> QED
          BY <3>1, <4>1, <5>1
      <4>4. PICK g \in rest : b \in T[g]
        <5>1. b \notin Undropped(c, T)
          <6>1. b \in I => Dropped(c, T, b, c.oldest)
            BY <3>1, <3>3, <3>5, <3>6, <4>2 DEF Dropped
          <6> QED
            BY <6>1 DEF Undropped
        <5> QED
          BY <1>2, <5>1 DEF Entries
      <4>5. g \in DOMAIN v /\ g \notin c.in0 /\ g \notin c.in1 /\ v[g] \in Nat
        OBVIOUS
      <4>6. fa \in DOMAIN v /\ (fa \in c.in0 => v[fa] = c.level) /\ (fa \in c.in1 => v[fa] = c.level + 1)
            /\ (fa \in c.in0 \/ fa \in c.in1) /\ v[fa] \in Nat
        BY <1>1, <3>2 DEF Fits, Level
      <4> HIDE DEF A, B, I, in, rest
      <4>7. ~(v[g] < v[fa])
        <5>1. v[g] < v[fa] => b.seq > a.seq
          BY <3>1, <3>2, <3>6, <4>4, <4>5, <4>6 DEF Newer
        <5> QED
          BY <3>1, <4>1, <4>2, <5>1
      <4>8. ~(v[g] = c.level)
        <5>1. ASSUME v[g] = c.level PROVE FALSE
          <6>1. fa \in c.in0
            BY <4>5, <4>6, <4>7, <5>1
          <6>2. a \in Entries(T, c.in0) /\ g \in Level(v, c.level) \ c.in0
            BY <3>2, <4>5, <5>1, <6>1 DEF Entries, Level
          <6>3. b.seq > a.seq
            BY <3>1, <3>6, <4>4, <6>2 DEF Fits
          <6> QED
            BY <3>1, <4>1, <4>2, <6>3
        <5> QED
          BY <5>1
      <4>9. ~(v[g] = c.level + 1)
        <5>1. ASSUME v[g] = c.level + 1 PROVE FALSE
          <6>1. g \in Level(v, c.level + 1) \ c.in1
            BY <4>5, <5>1 DEF Level
          <6>2. a \in Entries(T, c.in0 \cup c.in1)
            BY <3>3 DEF I, in
          <6> QED
            BY <3>1, <3>6, <4>4, <6>1, <6>2 DEF Fits
        <5> QED
          BY <5>1
      <4>10. ~(v[g] >= c.level + 2)
        <5>1. ASSUME v[g] >= c.level + 2 PROVE FALSE
          <6>1. \/ g \in DOMAIN c.base /\ c.base[g] = v[g]
                \/ \A d \in T[g], x \in Entries(T, c.in0 \cup c.in1) : d.key = x.key => d.seq > x.seq
            BY <4>5, <5>1 DEF Deep
          <6>2. CASE \A d \in T[g], x \in Entries(T, c.in0 \cup c.in1) : d.key = x.key => d.seq > x.seq
            <7>1. a \in Entries(T, c.in0 \cup c.in1)
              BY <3>3 DEF I, in
            <7>2. b.seq > a.seq
              BY <3>1, <3>6, <4>4, <6>2, <7>1
            <7> QED
              BY <3>1, <4>1, <4>2, <7>2
          <6>3. CASE g \in DOMAIN c.base /\ c.base[g] = v[g]
            <7>1. Meeting(c.base, T, c.base[g], k, k) = {}
              BY <3>1, <3>5, <5>1, <6>3 DEF BaseLevel
            <7>2. g \in Level(c.base, c.base[g]) /\ T[g] \subseteq Entry /\ T[g] # {} /\ k \in Nat
              BY <6>3 DEF Level, Filled, Key
            <7>3. Above(T[g], k) \/ Below(T[g], k)
              BY <7>1, <7>2, MeetingSides
            <7>4. b.key > k \/ b.key < k
              BY <4>4, <7>3 DEF Above, Below
            <7> QED
              BY <3>6, <7>2, <7>4
          <6> QED
            BY <6>1, <6>2, <6>3
        <5> QED
          BY <5>1
      <4> QED
        BY <4>5, <4>6, <4>7, <4>8, <4>9, <4>10
    <3>7. {x \in B : x.key = k /\ x.seq <= s} = {}
      BY <3>6
    <3>8. Newest(B, k, s) = {}
      BY <3>7 DEF Newest
    <3>9. Value({}) = {} /\ Value({a}) = {}
      BY <3>5 DEF Value
    <3> QED
      BY <2>3, <3>8, <3>9
  <2>4. Newest(A, k, s) = {} \/ \E a \in A : Top(A, k, s, a) /\ Newest(A, k, s) = {a}
    BY <1>1, NewestIsTop
  <2> QED
    BY <2>1, <2>2, <2>3, <2>4
<1> QED
  BY <1>3, <1>4 DEF Kept

-----------------------------------------------------------------------------
(* The logs and the numbers.                                               *)

\* The operations of the group have different places.
LEMMA PlacesDiffer ==
  ASSUME group \in Nat, NEW o \in Joined(group), NEW p \in Joined(group), Place(o) = Place(p)
  PROVE  o = p
<1> DEFINE upto(q) == {r \in Joined(group) : r[1] < q[1] \/ (r[1] = q[1] /\ r[2] <= q[2])}
<1>1. IsFiniteSet(Joined(group))
  <2>1. IsFiniteSet(1 .. group) /\ IsFiniteSet(Sequence)
    BY LevelsAssumption, FS_Interval DEF Sequence
  <2>2. IsFiniteSet((1 .. group) \X Sequence)
    BY <2>1, FS_Product, Zenon
  <2> QED
    BY <2>2, FS_Subset DEF Joined
<1>2. \A q \in Joined(group) : q[1] \in Nat /\ q[2] \in Nat /\ q = <<q[1], q[2]>>
  BY DEF Joined, Sequence
<1>3. ASSUME NEW q \in Joined(group), NEW r \in Joined(group), q[1] < r[1] \/ (q[1] = r[1] /\ q[2] < r[2])
      PROVE  Place(q) # Place(r)
  <2>1. upto(q) \subseteq upto(r)
    BY <1>2, <1>3
  <2>2. r \in upto(r) /\ r \notin upto(q)
    BY <1>2, <1>3
  <2>3. IsFiniteSet(upto(r))
    BY <1>1, FS_Subset
  <2>4. Place(q) = Cardinality(upto(q)) /\ Place(r) = Cardinality(upto(r))
    BY DEF Place
  <2> HIDE DEF upto
  <2>5. upto(q) # upto(r)
    BY <2>2
  <2> QED
    BY <2>1, <2>3, <2>4, <2>5, FS_Subset
<1>4. \/ o = p
      \/ o[1] < p[1] \/ (o[1] = p[1] /\ o[2] < p[2])
      \/ p[1] < o[1] \/ (p[1] = o[1] /\ p[2] < o[2])
  <2>1. o[1] \in Nat /\ o[2] \in Nat /\ p[1] \in Nat /\ p[2] \in Nat
    BY <1>2
  <2>2. o[1] = p[1] /\ o[2] = p[2] => o = p
    BY <1>2
  <2> QED
    BY <2>1, <2>2
<1> QED
  BY <1>3, <1>4

\* So its entries have different numbers.
LEMMA GroupUnique ==
  ASSUME group \in Nat, lastSeq \in Nat
  PROVE  Unique(GroupEntries)
<1>1. ASSUME NEW o \in Joined(group), NEW p \in Joined(group), Numbered(o).seq = Numbered(p).seq
      PROVE  Numbered(o) = Numbered(p)
  <2>1. Place(o) \in Nat /\ Place(p) \in Nat
    <3>1. Place(o) \in 1 .. Cardinality(Joined(group)) /\ Place(p) \in 1 .. Cardinality(Joined(group))
      BY Places
    <3>2. Cardinality(Joined(group)) \in Nat
      BY Places
    <3> QED
      BY <3>1, <3>2
  <2>2. lastSeq + Place(o) = lastSeq + Place(p)
    BY <1>1 DEF Numbered
  <2>3. Place(o) = Place(p)
    BY <2>1, <2>2
  <2> QED
    BY <2>3, PlacesDiffer
<1> QED
  BY <1>1 DEF Unique, GroupEntries

\* Newer entries with different numbers.
LEMMA UniqueWithNewer ==
  ASSUME NEW A, NEW N, A \cup N \subseteq Entry, Unique(A), Unique(N), Older(A, N)
  PROVE  Unique(A \cup N)
<1>1. ASSUME NEW d \in A, NEW e \in N PROVE d.seq # e.seq
  <2>1. d.seq < e.seq /\ d.seq \in Nat /\ e.seq \in Nat
    BY EntryNumbers DEF Older
  <2> QED
    BY <2>1
<1> QED
  BY <1>1 DEF Unique

\* What is of up to a number is older than what has greater ones.
LEMMA UpToIsOlder ==
  ASSUME NEW A, NEW N, A \cup N \subseteq Entry, NEW s \in Nat, UpTo(A, s), \A e \in N : s < e.seq
  PROVE  Older(A, N)
<1>1. ASSUME NEW d \in A, NEW e \in N PROVE d.seq < e.seq
  <2>1. d.seq <= s /\ s < e.seq /\ d.seq \in Nat /\ e.seq \in Nat
    BY EntryNumbers DEF UpTo
  <2> QED
    BY <2>1
<1> QED
  BY <1>1 DEF Older

\* Logs have numbers, and earlier ones say more.
LEMMA LoggedFrom ==
  ASSUME SyncInv, NEW log \in Nat
  PROVE  /\ DOMAIN logs \subseteq Nat
         /\ Logged(logs, log) \subseteq Logged(logs, 0)
         /\ \A n \in DOMAIN logs : UNION ToSet(logs[n]) \subseteq Logged(logs, 0)
         /\ \A n \in DOMAIN logs : n >= log => UNION ToSet(logs[n]) \subseteq Logged(logs, log)
         /\ \A e \in Logged(logs, log) : \E n \in DOMAIN logs : n >= log /\ e \in UNION ToSet(logs[n])
<1>1. DOMAIN logs \subseteq Nat
  BY DEF SyncInv, Bounded
<1>2. \A n \in DOMAIN logs : n >= 0
  BY <1>1
<1> QED
  BY <1>1, <1>2 DEF Logged

\* Before the leader's record is in the log, all that is logged is of up to the last number.
LEMMA LoggedUpTo ==
  ASSUME SyncInv, up = "open", ~HasRecord
  PROVE  /\ \A log : UpTo(Logged(logs, log), lastSeq)
         /\ \A n \in DOMAIN logs : UpTo(UNION ToSet(logs[n]), lastSeq)
<1>1. \A n \in DOMAIN logs : \A r \in ToSet(logs[n]) : \E i \in 1 .. Len(logs[n]) : r = logs[n][i]
  <2> TAKE n \in DOMAIN logs
  <2>1. logs[n] \in Seq(SUBSET Written)
    BY DEF SyncInv, LogsTyped
  <2> QED
    BY <2>1 DEF ToSet
<1>2. \A n \in DOMAIN logs : \A i \in 1 .. Len(logs[n]) : \A e \in logs[n][i] : e.seq <= lastSeq
  BY DEF SyncInv, Latest
<1>3. \A n \in DOMAIN logs : UpTo(UNION ToSet(logs[n]), lastSeq)
  BY <1>1, <1>2 DEF UpTo
<1> QED
  BY <1>3 DEF UpTo, Logged

\* From AddRecord on the group is in every log up to the one in use.
LEMMA GroupLogged ==
  ASSUME SyncInv, HasRecord, NEW log \in Nat, log <= logfile
  PROVE  GroupEntries \subseteq Logged(logs, log)
<1>1. PICK i \in 1 .. Len(logs[logfile]) : logs[logfile][i] = GroupEntries
  BY DEF SyncInv, Leading
<1>2. stage # "idle"
  BY DEF HasRecord
<1>3. logfile \in DOMAIN logs /\ logfile \in Nat
  BY <1>2, LeaderAtWork, LogfileIsNat
<1>4. logs[logfile] \in Seq(SUBSET Written)
  BY <1>3 DEF SyncInv, LogsTyped
<1>5. GroupEntries \in ToSet(logs[logfile])
  BY <1>1, <1>4 DEF ToSet
<1>6. logfile >= log
  BY <1>3
<1> QED
  BY <1>3, <1>5, <1>6 DEF Logged

\* AddRecord adds the group to the log in use.
LEMMA RecordedLogs ==
  ASSUME SyncInv, AddRecord
  PROVE  /\ DOMAIN logs' = DOMAIN logs
         /\ \A log : Logged(logs, log) \subseteq Logged(logs', log) /\ Logged(logs', log) \subseteq Logged(logs, log) \cup GroupEntries
         /\ \A n \in DOMAIN logs : n # logfile => logs'[n] = logs[n]
         /\ UNION ToSet(logs'[logfile]) = (UNION ToSet(logs[logfile])) \cup GroupEntries
<1>1. stage = "append" /\ logs' = [logs EXCEPT ![logfile] = Append(@, GroupEntries)]
  BY DEF AddRecord
<1>2. logfile \in DOMAIN logs /\ logs[logfile] \in Seq(SUBSET Written)
  BY <1>1, LeaderAtWork DEF SyncInv, LogsTyped
<1>3. DOMAIN logs' = DOMAIN logs /\ \A n \in DOMAIN logs : n # logfile => logs'[n] = logs[n]
  BY <1>1
<1>4. logs'[logfile] = Append(logs[logfile], GroupEntries)
  BY <1>1, <1>2
<1>5. ToSet(logs'[logfile]) = ToSet(logs[logfile]) \cup {GroupEntries}
  BY <1>2, <1>4 DEF ToSet
<1>6. UNION ToSet(logs'[logfile]) = (UNION ToSet(logs[logfile])) \cup GroupEntries
  BY <1>5
<1>7. \A n \in DOMAIN logs : UNION ToSet(logs[n]) \subseteq UNION ToSet(logs'[n])
  BY <1>3, <1>6
<1>8. \A log : Logged(logs, log) \subseteq Logged(logs', log)
  BY <1>3, <1>7 DEF Logged
<1> QED
  BY <1>3, <1>6, <1>8, RecordLogged

-----------------------------------------------------------------------------
(* The invariant of the logs, one step per action.                         *)

\* What is to be shown after a step.
LEMMA LogsAfter ==
  ASSUME Unique(truth' \cup Logged(logs', 0)), InOrder(logs'),
         up' = "open" => /\ \A n \in DOMAIN logs' : n <= logfile'
                         /\ \A log \in Nat : Older(Before(truth', logs', log), Logged(logs', log)),
         up' # "closed" => UpTo(truth', lastSeq'),
         \A m \in manifest' : UpTo(Before(truth', logs', m.log), m.seq),
         up' # "open" => \A m \in manifest' : /\ Logged(logs', m.log) \subseteq truth'
                                              /\ Older(Before(truth', logs', m.log), Logged(logs', m.log)),
         bg'.at = "edit" => /\ UpTo(Before(truth', logs', bg'.edit.log), bg'.edit.seq)
                            /\ bg'.file # 0 => imm' # None /\ bg'.edit.log = logfile'
                            /\ bg'.file = 0 => bg'.edit.log = logNumber',
         up' # "open" => snapshot' = None,
         snapshot' = None \/ snapshot' <= lastSeq', lastSeq' \in Nat
  PROVE  LogsInv'
<1>1. Least' <= lastSeq'
  BY DEF Least
<1> QED
  BY <1>1 DEF LogsInv

\* The snapshot is of no later number than the last.
LEMMA SnapshotIsEarlier == ASSUME LogsInv PROVE snapshot = None \/ snapshot <= lastSeq
BY DEF LogsInv, Least

\* Steps that leave the logs and the files alone.
LEMMA LogsFrame ==
  ASSUME TypesInv, LogsInv, UNCHANGED <<truth, logs, lastSeq, up, manifest, logfile, logNumber>>,
         snapshot' \in {snapshot, None} \/ (snapshot' = lastSeq /\ up = "open"),
         bg'.at = "edit" =>
           \/ UNCHANGED <<bg, imm>>
           \/ /\ up = "open" /\ bg'.edit.seq = lastSeq
              /\ bg'.file # 0 => imm' # None /\ bg'.edit.log = logfile
              /\ bg'.file = 0 => bg'.edit.log = logNumber
  PROVE  LogsInv'
<1>1. lastSeq \in Nat
  BY StoredTyped
<1>2. snapshot' = None \/ snapshot' <= lastSeq
  BY <1>1, SnapshotIsEarlier
<1>3. up # "open" => snapshot' = None
  BY DEF LogsInv
<1>4. bg'.at = "edit" => /\ UpTo(Before(truth, logs, bg'.edit.log), bg'.edit.seq)
                         /\ bg'.file # 0 => imm' # None /\ bg'.edit.log = logfile
                         /\ bg'.file = 0 => bg'.edit.log = logNumber
  <2>1. CASE UNCHANGED <<bg, imm>>
    BY <2>1 DEF LogsInv
  <2>2. CASE up = "open" /\ bg'.edit.seq = lastSeq
    <3>1. UpTo(truth, lastSeq)
      BY <2>2 DEF LogsInv
    <3>2. UpTo(Before(truth, logs, bg'.edit.log), lastSeq)
      BY <3>1 DEF Before, UpTo
    <3>3. CASE UNCHANGED <<bg, imm>>
      BY <2>1, <3>3
    <3>4. CASE ~UNCHANGED <<bg, imm>>
      BY <2>2, <3>2, <3>4
    <3> QED
      BY <3>3, <3>4
  <2> QED
    BY <2>1, <2>2
<1> QED
  <2>1. /\ Unique(truth \cup Logged(logs, 0)) /\ InOrder(logs)
        /\ up = "open" => /\ \A n \in DOMAIN logs : n <= logfile
                          /\ \A log \in Nat : Older(Before(truth, logs, log), Logged(logs, log))
        /\ up # "closed" => UpTo(truth, lastSeq)
        /\ \A m \in manifest : UpTo(Before(truth, logs, m.log), m.seq)
        /\ up # "open" => \A m \in manifest : /\ Logged(logs, m.log) \subseteq truth
                                              /\ Older(Before(truth, logs, m.log), Logged(logs, m.log))
    BY DEF LogsInv
  <2> QED
    BY <1>1, <1>2, <1>3, <1>4, <2>1, LogsAfter

\* Writers, readers, and steps of the thread that come to no edit.
LEMMA OthersLogs ==
  ASSUME TypesInv, LogsInv,
         \/ \E w \in Writes : Write(w)
         \/ LeadFails \/ Sync \/ InsertInto
         \/ GetSnapshot \/ ReleaseSnapshot \/ NewIterator \/ CleanupIterator \/ Reschedule
         \/ NothingToDo \/ BeginFlush \/ BuildTableFails \/ MergeFails
         \/ UNCHANGED vars
  PROVE  LogsInv'
<1>1. CASE (\E w \in Writes : Write(w)) \/ LeadFails \/ Sync \/ InsertInto
  <2>1. UNCHANGED <<truth, logs, lastSeq, up, manifest, logfile, logNumber, snapshot, bg, imm>>
    BY <1>1 DEF Write, LeadFails, Sync, InsertInto, disk_, memory_, files_, thread_, readers_, written_
  <2> QED
    BY <2>1, LogsFrame
<1>2. CASE GetSnapshot \/ ReleaseSnapshot \/ NewIterator \/ CleanupIterator \/ Reschedule \/ UNCHANGED vars
  <2>1. UNCHANGED <<truth, logs, lastSeq, up, manifest, logfile, logNumber, bg, imm>>
    BY <1>2 DEF GetSnapshot, ReleaseSnapshot, NewIterator, CleanupIterator, Reschedule, vars, disk_, memory_, files_,
       thread_, written_
  <2>2. snapshot' \in {snapshot, None} \/ (snapshot' = lastSeq /\ up = "open")
    BY <1>2 DEF GetSnapshot, ReleaseSnapshot, NewIterator, CleanupIterator, Reschedule, vars, readers_
  <2> QED
    BY <2>1, <2>2, LogsFrame
<1>3. CASE NothingToDo \/ BeginFlush \/ BuildTableFails \/ MergeFails
  <2>1. UNCHANGED <<truth, logs, lastSeq, up, manifest, logfile, logNumber, snapshot>>
    BY <1>3 DEF NothingToDo, BeginFlush, BuildTableFails, MergeFails, DeleteObsoleteFiles, CannotTell,
       disk_, memory_, files_, readers_, written_
  <2>2. bg'.at # "edit"
    <3>1. CASE BeginFlush
      BY <3>1 DEF BeginFlush, TypesInv, TablesInv, ThreadInv, ThreadRecord
    <3>2. CASE NothingToDo \/ BuildTableFails \/ MergeFails
      BY <3>2, CallEnds DEF TypesInv, Idle
    <3> QED
      BY <1>3, <3>1, <3>2
  <2> QED
    BY <2>1, <2>2, LogsFrame
<1> QED
  BY <1>1, <1>2, <1>3

\* The thread begins an edit, or a merge.
LEMMA EditsLogs == ASSUME TypesInv, LevelsInv, LogsInv, BuildTable \/ BeginCompaction \/ WriteOutput \/ Merge PROVE LogsInv'
<1>1. UNCHANGED <<truth, logs, lastSeq, up, manifest, logfile, logNumber, snapshot, imm>>
  BY DEF BuildTable, BeginCompaction, WriteOutput, Merge, disk_, memory_, files_, readers_, written_
<1>2. up = "open"
  BY ThreadIsOpen DEF TypesInv
<1>3. CASE BuildTable
  <2>1. bg'.edit.seq = lastSeq /\ bg'.edit.log = logfile /\ bg'.file = bg.file /\ bg.at = "build"
    BY <1>3, BuildTableDoes DEF TypesInv
  <2>2. imm # None /\ bg.file # 0
    BY <2>1 DEF TypesInv, EntriesInv, FilesInv
  <2> QED
    BY <1>1, <1>2, <2>1, <2>2, LogsFrame
<1>4. CASE BeginCompaction
  <2>1. bg'.at = "edit" => bg'.edit.seq = lastSeq /\ bg'.edit.log = logNumber /\ bg'.file = 0
    BY <1>4, BeginCompactionDoes DEF TypesInv
  <2> QED
    BY <1>1, <1>2, <2>1, LogsFrame
<1>5. CASE WriteOutput
  <2>1. bg'.at # "edit"
    BY <1>5, WriteOutputAdds
  <2> QED
    BY <1>1, <1>2, <2>1, LogsFrame
<1>6. CASE Merge
  <2>1. bg'.edit.seq = lastSeq /\ bg'.edit.log = logNumber /\ bg'.file = 0
    BY <1>6, MergeDoes DEF TypesInv
  <2> QED
    BY <1>1, <1>2, <2>1, LogsFrame
<1> QED
  BY <1>3, <1>4, <1>5, <1>6

\* The record in the log is the newest.
LEMMA AddRecordLogs == ASSUME TypesInv, LogsInv, AddRecord PROVE LogsInv'
<1>1. /\ up = "open" /\ stage = "append"
      /\ UNCHANGED <<truth, lastSeq, up, manifest, logfile, logNumber, snapshot, bg, imm>>
  <2>1. stage = "append"
    BY DEF AddRecord
  <2>2. up = "open"
    BY <2>1, LeaderAtWork DEF TypesInv
  <2> QED
    BY <2>1, <2>2 DEF AddRecord, disk_, memory_, files_, thread_, readers_, written_
<1>2. /\ GroupEntries \subseteq Entry /\ Unique(GroupEntries) /\ \A e \in GroupEntries : lastSeq < e.seq
      /\ lastSeq \in Nat /\ truth \subseteq Entry /\ \A log : Logged(logs, log) \subseteq Entry
  <2>1. GroupEntries \subseteq Entry
    BY <1>1, GroupTyped DEF TypesInv
  <2>2. group \in 1 .. Len(queue) /\ queue \in Seq(Writes) /\ lastSeq \in Nat
        /\ \A e \in GroupEntries : lastSeq < e.seq
    BY <1>1, LeaderAtWork DEF TypesInv
  <2>3. Unique(GroupEntries)
    BY <2>2, GroupUnique
  <2>4. \A log : Logged(logs, log) \subseteq Entry
    BY StoredTyped
  <2>5. truth \subseteq Entry
    BY DEF TypesInv, EntriesInv
  <2> QED
    BY <2>1, <2>2, <2>3, <2>4, <2>5
<1>3. UpTo(truth, lastSeq)
  BY <1>1 DEF LogsInv
<1>4. (\A log : UpTo(Logged(logs, log), lastSeq)) /\ \A n \in DOMAIN logs : UpTo(UNION ToSet(logs[n]), lastSeq)
  BY <1>1, LoggedUpTo DEF TypesInv, HasRecord
<1>5. /\ DOMAIN logs' = DOMAIN logs
      /\ \A log : Logged(logs, log) \subseteq Logged(logs', log) /\ Logged(logs', log) \subseteq Logged(logs, log) \cup GroupEntries
      /\ \A n \in DOMAIN logs : n # logfile => logs'[n] = logs[n]
      /\ UNION ToSet(logs'[logfile]) = (UNION ToSet(logs[logfile])) \cup GroupEntries
  BY RecordedLogs DEF TypesInv
<1>6. \A A \in SUBSET Entry : UpTo(A, lastSeq) => Older(A, GroupEntries)
  <2> TAKE A \in SUBSET Entry
  <2> HAVE UpTo(A, lastSeq)
  <2>1. A \cup GroupEntries \subseteq Entry
    BY <1>2
  <2> QED
    BY <1>2, <2>1, UpToIsOlder
<1>7. Unique(truth' \cup Logged(logs', 0))
  <2> DEFINE A == truth \cup Logged(logs, 0)
  <2>1. A \subseteq Entry /\ UpTo(A, lastSeq) /\ Unique(A)
    BY <1>2, <1>3, <1>4 DEF UpTo, LogsInv
  <2> HIDE DEF A
  <2>2. Older(A, GroupEntries) /\ A \cup GroupEntries \subseteq Entry
    BY <1>2, <1>6, <2>1
  <2>3. Unique(A \cup GroupEntries)
    BY <1>2, <2>1, <2>2, UniqueWithNewer
  <2>4. truth' \cup Logged(logs', 0) \subseteq A \cup GroupEntries
    BY <1>1, <1>5 DEF A
  <2> QED
    BY <2>3, <2>4 DEF Unique
<1>8. InOrder(logs')
  <2>1. ASSUME NEW i \in DOMAIN logs, NEW j \in DOMAIN logs, i < j
        PROVE  Older(UNION ToSet(logs'[i]), UNION ToSet(logs'[j]))
    <3>1. i \in Nat /\ j \in Nat /\ logfile \in Nat /\ j <= logfile
      BY <1>1, LogfileIsNat DEF TypesInv, LogsInv
    <3>2. logs'[i] = logs[i]
      BY <1>5, <2>1, <3>1
    <3>3. Older(UNION ToSet(logs[i]), UNION ToSet(logs[j]))
      BY <2>1 DEF LogsInv, InOrder
    <3>4. CASE j # logfile
      BY <1>5, <3>2, <3>3, <3>4
    <3>5. CASE j = logfile
      <4>1. UNION ToSet(logs[i]) \subseteq Entry
        BY LoggedTyped DEF TypesInv
      <4>2. Older(UNION ToSet(logs[i]), GroupEntries)
        BY <1>4, <1>6, <4>1
      <4> QED
        BY <1>5, <3>2, <3>3, <3>5, <4>2 DEF Older
    <3> QED
      BY <3>4, <3>5
  <2> QED
    BY <1>5, <2>1 DEF InOrder
<1>9. \A log : Before(truth', logs', log) \subseteq Before(truth, logs, log)
  BY <1>1, <1>5 DEF Before
<1>10. \A log \in Nat : Older(Before(truth', logs', log), Logged(logs', log))
  <2> TAKE log \in Nat
  <2>1. Older(Before(truth, logs, log), Logged(logs, log))
    BY <1>1 DEF LogsInv
  <2>2. Older(truth, GroupEntries)
    BY <1>2, <1>3, <1>6
  <2>3. Before(truth, logs, log) \subseteq truth
    BY DEF Before
  <2>4. Older(Before(truth, logs, log), Logged(logs, log) \cup GroupEntries)
    BY <2>1, <2>2, <2>3 DEF Older
  <2> QED
    BY <1>5, <1>9, <2>4 DEF Older
<1>11. /\ \A m \in manifest' : UpTo(Before(truth', logs', m.log), m.seq)
       /\ bg'.at = "edit" => /\ UpTo(Before(truth', logs', bg'.edit.log), bg'.edit.seq)
                             /\ bg'.file # 0 => imm' # None /\ bg'.edit.log = logfile'
                             /\ bg'.file = 0 => bg'.edit.log = logNumber'
  <2>1. /\ \A m \in manifest : UpTo(Before(truth, logs, m.log), m.seq)
        /\ bg.at = "edit" => /\ UpTo(Before(truth, logs, bg.edit.log), bg.edit.seq)
                             /\ bg.file # 0 => imm # None /\ bg.edit.log = logfile
                             /\ bg.file = 0 => bg.edit.log = logNumber
    BY DEF LogsInv
  <2> QED
    BY <1>1, <1>9, <2>1 DEF UpTo
<1>12. (\A n \in DOMAIN logs' : n <= logfile') /\ UpTo(truth', lastSeq') /\ (snapshot' = None \/ snapshot' <= lastSeq')
  BY <1>1, <1>3, <1>5, SnapshotIsEarlier DEF LogsInv
<1> QED
  BY <1>1, <1>2, <1>7, <1>8, <1>10, <1>11, <1>12, LogsAfter

\* A group that returns is in the logs, if it was written.
LEMMA ReturnLogs == ASSUME TypesInv, LogsInv, Publish \/ WriteFails PROVE LogsInv'
<1>1. /\ stage # "idle" /\ Return /\ (Publish => stage = "publish")
      /\ UNCHANGED <<logs, up, manifest, logfile, logNumber, snapshot, bg, imm>>
      /\ truth' = IF Publish THEN truth \cup GroupEntries ELSE truth
  BY DEF Publish, WriteFails, disk_, memory_, files_, thread_, readers_, written_
<1>2. /\ up = "open" /\ lastSeq \in Nat /\ Cardinality(Joined(group)) \in Nat
      /\ \A e \in GroupEntries : e.seq <= lastSeq + Cardinality(Joined(group))
  BY <1>1, LeaderAtWork DEF TypesInv
<1>3. lastSeq' = lastSeq + Cardinality(Joined(group)) /\ lastSeq' \in Nat /\ lastSeq <= lastSeq'
  BY <1>1, <1>2 DEF Return
<1>4. logfile \in Nat /\ \A n \in DOMAIN logs : n <= logfile
  BY <1>2, LogfileIsNat DEF TypesInv, LogsInv
<1>5. truth \subseteq Entry /\ UpTo(truth, lastSeq) /\ (snapshot = None \/ snapshot <= lastSeq)
  BY <1>2, SnapshotIsEarlier DEF TypesInv, EntriesInv, LogsInv
<1>6. UpTo(truth', lastSeq')
  <2>1. UpTo(truth, lastSeq')
    BY <1>2, <1>3, <1>5, AgedMore
  <2> QED
    BY <1>1, <1>2, <1>3, <2>1 DEF UpTo
<1>7. \A log \in Nat : log <= logfile => Before(truth', logs, log) = Before(truth, logs, log)
  <2> TAKE log \in Nat
  <2>1. Publish /\ log <= logfile => GroupEntries \subseteq Logged(logs, log)
    BY <1>1, GroupLogged DEF TypesInv, HasRecord
  <2> QED
    BY <1>1, <2>1 DEF Before
<1>8. \A log \in Nat : Older(Before(truth', logs, log), Logged(logs, log))
  <2> TAKE log \in Nat
  <2>1. CASE log <= logfile
    BY <1>2, <1>7, <2>1 DEF LogsInv
  <2>2. CASE ~(log <= logfile)
    <3>1. \A n \in DOMAIN logs : ~(n >= log)
      <4>1. \A n \in DOMAIN logs : n \in Nat /\ n <= logfile
        BY <1>4, LoggedFrom DEF TypesInv
      <4> QED
        BY <1>4, <2>2, <4>1
    <3>2. Logged(logs, log) = {}
      BY <3>1 DEF Logged
    <3> QED
      BY <3>2 DEF Older
  <2> QED
    BY <2>1, <2>2
<1>9. Unique(truth' \cup Logged(logs', 0))
  <2>1. truth' \cup Logged(logs', 0) = truth \cup Logged(logs, 0)
    <3>1. Publish => GroupEntries \subseteq Logged(logs, 0)
      BY <1>1, <1>4, GroupLogged DEF TypesInv, HasRecord
    <3> QED
      BY <1>1, <3>1
  <2> QED
    BY <2>1 DEF LogsInv
<1>10. (\A m \in manifest : m.log \in Nat /\ m.log <= logfile) /\ (bg.at = "edit" => bg.edit.log \in Nat /\ bg.edit.log <= logfile)
  BY <1>2 DEF TypesInv, SyncInv, Numbers, Latest
<1>11. /\ \A m \in manifest' : UpTo(Before(truth', logs', m.log), m.seq)
       /\ bg'.at = "edit" => /\ UpTo(Before(truth', logs', bg'.edit.log), bg'.edit.seq)
                             /\ bg'.file # 0 => imm' # None /\ bg'.edit.log = logfile'
                             /\ bg'.file = 0 => bg'.edit.log = logNumber'
  <2>1. /\ \A m \in manifest : UpTo(Before(truth, logs, m.log), m.seq)
        /\ bg.at = "edit" => /\ UpTo(Before(truth, logs, bg.edit.log), bg.edit.seq)
                             /\ bg.file # 0 => imm # None /\ bg.edit.log = logfile
                             /\ bg.file = 0 => bg.edit.log = logNumber
    BY DEF LogsInv
  <2> QED
    BY <1>1, <1>7, <1>10, <2>1
<1>12. snapshot' = None \/ snapshot' <= lastSeq'
  <2>1. snapshot = None \/ snapshot \in Nat
    <3>1. snapshot = None \/ snapshot \in 0 .. MaxSequence
      BY DEF TypesInv, RoomInv
    <3> QED
      BY <3>1, LevelsAssumption
  <2> QED
    BY <1>1, <1>2, <1>3, <1>5, <2>1
<1>13. InOrder(logs')
  BY <1>1 DEF LogsInv
<1> QED
  BY <1>1, <1>2, <1>3, <1>4, <1>6, <1>8, <1>9, <1>11, <1>12, <1>13, LogsAfter

\* A leader that makes room begins an empty log.
LEMMA LeadLogs == ASSUME TypesInv, LogsInv, Lead PROVE LogsInv'
<1>1. /\ up = "open" /\ (HasRoom \/ SwitchMemTable)
      /\ UNCHANGED <<truth, manifest, version, bg, up, lastSeq, logNumber, snapshot>>
  BY DEF Lead, files_, readers_, written_
<1>2. CASE HasRoom
  <2>1. UNCHANGED <<imm, logfile, logs>>
    BY <1>2 DEF HasRoom, memory_
  <2> QED
    BY <1>1, <2>1, LogsFrame
<1>3. CASE SwitchMemTable
  <2>1. /\ imm = None /\ logfile' = nextFile
        /\ logs' = Over([n \in {nextFile} |-> <<>>], logs)
    BY <1>3 DEF SwitchMemTable, MaySwitch
  <2>2. \A n \in DOMAIN logs : n \in Nat /\ n < nextFile
    BY <1>1, LogfileIsNat DEF TypesInv, SyncInv, Latest
  <2>3. nextFile \in Nat
    BY NumbersTyped DEF TypesInv
  <2>4. /\ DOMAIN logs' = DOMAIN logs \cup {nextFile} /\ logs'[nextFile] = <<>>
        /\ \A n \in DOMAIN logs : logs'[n] = logs[n]
    BY <2>1, <2>2, <2>3 DEF Over
  <2>5. UNION ToSet(logs'[nextFile]) = {}
    BY <2>4 DEF ToSet
  <2>6. \A log : Logged(logs', log) = Logged(logs, log)
    BY <2>4, <2>5 DEF Logged
  <2>7. \A log : Before(truth', logs', log) = Before(truth, logs, log)
    BY <1>1, <2>6 DEF Before
  <2>8. \A n \in DOMAIN logs' : n <= logfile'
    BY <2>1, <2>2, <2>3, <2>4
  <2>9. InOrder(logs')
    <3>1. ASSUME NEW i \in DOMAIN logs', NEW j \in DOMAIN logs', i < j
          PROVE  Older(UNION ToSet(logs'[i]), UNION ToSet(logs'[j]))
      <4>1. CASE i = nextFile \/ j = nextFile
        BY <2>5, <4>1 DEF Older
      <4>2. CASE i \in DOMAIN logs /\ j \in DOMAIN logs
        BY <2>4, <3>1, <4>2 DEF LogsInv, InOrder
      <4> QED
        BY <2>4, <3>1, <4>1, <4>2
    <3> QED
      BY <3>1 DEF InOrder
  <2>10. bg.at = "edit" => /\ UpTo(Before(truth, logs, bg.edit.log), bg.edit.seq)
                           /\ bg.file = 0 /\ bg.edit.log = logNumber
    BY <2>1 DEF LogsInv
  <2>11. /\ Unique(truth \cup Logged(logs, 0)) /\ \A log \in Nat : Older(Before(truth, logs, log), Logged(logs, log))
         /\ UpTo(truth, lastSeq) /\ \A m \in manifest : UpTo(Before(truth, logs, m.log), m.seq)
    BY <1>1 DEF LogsInv
  <2>12. snapshot = None \/ snapshot <= lastSeq
    BY SnapshotIsEarlier
  <2>13. lastSeq \in Nat
    BY StoredTyped
  <2>14. \A log \in Nat : Older(Before(truth', logs', log), Logged(logs', log))
    BY <2>6, <2>7, <2>11
  <2>15. Unique(truth' \cup Logged(logs', 0))
    BY <1>1, <2>6, <2>11
  <2>16. \A m \in manifest' : UpTo(Before(truth', logs', m.log), m.seq)
    BY <1>1, <2>7, <2>11
  <2>17. bg'.at = "edit" => /\ UpTo(Before(truth', logs', bg'.edit.log), bg'.edit.seq)
                            /\ bg'.file = 0 /\ bg'.edit.log = logNumber'
    BY <1>1, <2>7, <2>10
  <2> QED
    BY <1>1, <2>8, <2>9, <2>11, <2>12, <2>13, <2>14, <2>15, <2>16, <2>17, LogsAfter
<1> QED
  BY <1>1, <1>2, <1>3

\* Some of the logs from log on, or all of them.
LEMMA LoggedLess ==
  ASSUME NEW L, NEW K, NEW log \in Nat, DOMAIN L \subseteq Nat, NEW from \in Nat,
         K = Restrict(L, {n \in DOMAIN L : n >= log})
  PROVE  Logged(K, from) = IF from >= log THEN Logged(L, from) ELSE Logged(L, log)
<1>1. DOMAIN K = {n \in DOMAIN L : n >= log} /\ \A n \in DOMAIN K : K[n] = L[n]
  BY DEF Restrict
<1>2. CASE from >= log
  <2>1. {i \in DOMAIN K : i >= from} = {i \in DOMAIN L : i >= from}
    BY <1>1, <1>2
  <2> QED
    BY <1>1, <1>2, <2>1 DEF Logged
<1>3. CASE ~(from >= log)
  <2>1. {i \in DOMAIN K : i >= from} = {i \in DOMAIN L : i >= log}
    BY <1>1, <1>3
  <2> QED
    BY <1>1, <1>3, <2>1 DEF Logged
<1> QED
  BY <1>2, <1>3

\* Install deletes logs that are no longer needed, or none.
LEMMA InstallLeaves ==
  ASSUME TypesInv, Install
  PROVE  /\ \A n \in DOMAIN logs' : n \in DOMAIN logs /\ logs'[n] = logs[n]
         /\ bg.edit.log \in Nat
         /\ \A from \in Nat : \/ Logged(logs', from) = Logged(logs, from)
                              \/ ~(from >= bg.edit.log) /\ Logged(logs', from) = Logged(logs, bg.edit.log)
<1>1. bg.at = "edit" /\ logNumber' = bg.edit.log /\ bg.edit.log \in Nat /\ DOMAIN logs \subseteq Nat
  <2>1. DOMAIN logs \subseteq Nat
    BY LoggedFrom DEF TypesInv
  <2> QED
    BY <2>1 DEF Install, TypesInv, SyncInv, Numbers
<1>2. logs' = logs \/ logs' = Restrict(logs, {n \in DOMAIN logs : n >= bg.edit.log})
  <2>1. CASE Moving
    BY <2>1 DEF Install
  <2>2. CASE ~Moving
    <3>1. DeleteObsoleteFiles(version', logNumber', IF Flushing THEN bg.comp ELSE None, pending', bgError)
      BY <2>2 DEF Install
    <3> QED
      BY <1>1, <3>1 DEF DeleteObsoleteFiles
  <2> QED
    BY <2>1, <2>2
<1>3. CASE logs' = logs
  BY <1>1, <1>3
<1>4. CASE logs' = Restrict(logs, {n \in DOMAIN logs : n >= bg.edit.log})
  <2>1. \A n \in DOMAIN logs' : n \in DOMAIN logs /\ logs'[n] = logs[n]
    BY <1>4 DEF Restrict
  <2>2. \A from \in Nat : Logged(logs', from) = IF from >= bg.edit.log THEN Logged(logs, from) ELSE Logged(logs, bg.edit.log)
    BY <1>1, <1>4, LoggedLess
  <2> QED
    BY <1>1, <2>1, <2>2
<1> QED
  BY <1>2, <1>3, <1>4

\* The manifest's states after an edit say what it says.
LEMMA InstallLogs == ASSUME TypesInv, LevelsInv, LogsInv, Install PROVE LogsInv'
<1>1. /\ up = "open" /\ bg.at = "edit"
      /\ UNCHANGED <<up, lastSeq, logfile, truth, snapshot>>
      /\ manifest' = {Recorded(m, bg.edit) : m \in manifest} /\ logNumber' = bg.edit.log
  BY ThreadIsOpen DEF Install, TypesInv, readers_, written_
<1>2. \A m \in manifest' : m.seq = bg.edit.seq /\ m.log = bg.edit.log
  BY <1>1 DEF Recorded
<1>3. bg'.at # "edit"
  BY CallEnds DEF TypesInv, Idle
<1>4. /\ \A n \in DOMAIN logs' : n \in DOMAIN logs /\ logs'[n] = logs[n]
      /\ bg.edit.log \in Nat
      /\ \A from \in Nat : \/ Logged(logs', from) = Logged(logs, from)
                           \/ ~(from >= bg.edit.log) /\ Logged(logs', from) = Logged(logs, bg.edit.log)
  BY InstallLeaves
<1>5. /\ Unique(truth \cup Logged(logs, 0)) /\ InOrder(logs)
      /\ \A n \in DOMAIN logs : n <= logfile
      /\ \A log \in Nat : Older(Before(truth, logs, log), Logged(logs, log))
      /\ UpTo(truth, lastSeq) /\ UpTo(Before(truth, logs, bg.edit.log), bg.edit.seq)
  BY <1>1 DEF LogsInv
<1>6. Unique(truth' \cup Logged(logs', 0))
  <2>1. Logged(logs', 0) \subseteq Logged(logs, 0)
    BY <1>4 DEF Logged
  <2> QED
    BY <1>1, <1>5, <2>1 DEF Unique
<1>7. InOrder(logs')
  BY <1>4, <1>5 DEF InOrder
<1>8. \A log \in Nat : Older(Before(truth', logs', log), Logged(logs', log))
  <2> TAKE log \in Nat
  <2>1. PICK from \in Nat : Logged(logs', log) = Logged(logs, from)
    BY <1>4
  <2> QED
    BY <1>1, <1>5, <2>1 DEF Before
<1>9. Logged(logs', bg.edit.log) = Logged(logs, bg.edit.log)
  BY <1>4
<1>10. \A m \in manifest' : UpTo(Before(truth', logs', m.log), m.seq)
  BY <1>1, <1>2, <1>5, <1>9 DEF Before
<1>11. snapshot = None \/ snapshot <= lastSeq
  BY SnapshotIsEarlier
<1>12. lastSeq \in Nat
  BY StoredTyped
<1> QED
  BY <1>1, <1>3, <1>4, <1>5, <1>6, <1>7, <1>8, <1>10, <1>11, <1>12, LogsAfter

\* The manifest may say either.
LEMMA InstallFailsLogs == ASSUME TypesInv, LevelsInv, LogsInv, InstallFails PROVE LogsInv'
<1>1. /\ up = "open" /\ bg.at = "edit"
      /\ UNCHANGED <<up, lastSeq, logfile, truth, snapshot, logs>>
      /\ manifest' = manifest \cup {Recorded(m, bg.edit) : m \in manifest}
  <2>1. /\ up = "open" /\ bg.at = "edit"
        /\ UNCHANGED <<up, lastSeq, logfile, truth, snapshot>>
        /\ manifest' = manifest \cup {Recorded(m, bg.edit) : m \in manifest}
    BY ThreadIsOpen DEF InstallFails, TypesInv, memory_, readers_, written_
  <2>2. UNCHANGED logs
    BY DEF InstallFails, DeleteObsoleteFiles, CannotTell
  <2> QED
    BY <2>1, <2>2
<1>2. bg'.at # "edit"
  BY CallEnds DEF TypesInv, Idle
<1>3. /\ Unique(truth \cup Logged(logs, 0)) /\ InOrder(logs)
      /\ \A n \in DOMAIN logs : n <= logfile
      /\ \A log \in Nat : Older(Before(truth, logs, log), Logged(logs, log))
      /\ UpTo(truth, lastSeq) /\ UpTo(Before(truth, logs, bg.edit.log), bg.edit.seq)
      /\ \A m \in manifest : UpTo(Before(truth, logs, m.log), m.seq)
  BY <1>1 DEF LogsInv
<1>4. \A m \in manifest' : m \in manifest \/ (m.seq = bg.edit.seq /\ m.log = bg.edit.log)
  BY <1>1 DEF Recorded
<1>5. \A m \in manifest' : UpTo(Before(truth', logs', m.log), m.seq)
  BY <1>1, <1>3, <1>4
<1>11. snapshot = None \/ snapshot <= lastSeq
  BY SnapshotIsEarlier
<1>12. lastSeq \in Nat
  BY StoredTyped
<1> QED
  BY <1>1, <1>2, <1>3, <1>5, <1>11, <1>12, LogsAfter

\* What a crash leaves: a state of the manifest, or what the edit under way makes of it,
\* and some of the logs.  All that is lost was in the logs that state needs.
LEMMA CrashLeaves ==
  ASSUME TypesInv, LevelsInv, AgesInv, Crash
  PROVE  \E m :
           /\ manifest' = {m} /\ m.log \in Nat /\ m.seq \in Nat
           /\ \/ m \in manifest
              \/ /\ up = "open" /\ bg.at = "edit"
                 /\ m.version = Edited(version, bg.edit) /\ m.seq = bg.edit.seq /\ m.log = bg.edit.log
           /\ up # "closed" /\ up' = "closed" /\ version' = NoFiles /\ bg' = Idle /\ snapshot' = None
           /\ UNCHANGED <<lastSeq, tables>>
           /\ DOMAIN logs' = DOMAIN logs
           /\ \A n \in DOMAIN logs : UNION ToSet(logs'[n]) \subseteq UNION ToSet(logs[n])
           /\ Logged(logs', m.log) \subseteq truth' /\ truth' \subseteq truth \cup Logged(logs', m.log)
           /\ Before(truth', logs', m.log) = Before(truth, logs, m.log)
<1>1. /\ UNCHANGED <<tables, lastSeq>> /\ up # "closed" /\ up' = "closed" /\ version' = NoFiles /\ bg' = Idle
      /\ snapshot' = None
  BY DEF Crash
<1>2. PICK m \in manifest \cup (IF bg.at = "edit" THEN {Recorded(d, bg.edit) : d \in manifest} ELSE {}) :
        \E kept \in [DOMAIN logs -> 0 .. Max({Len(logs[n]) : n \in DOMAIN logs})] :
          /\ \/ \A n \in DOMAIN logs : kept[n] = Len(logs[n])
             \/ \A n \in DOMAIN logs : kept[n] \in synced[n] .. Len(logs[n])
          /\ manifest' = {m}
          /\ logs' = [n \in DOMAIN logs |-> SubSeq(logs[n], 1, kept[n])]
          /\ LET there == Logged(logs', m.log) \cup Entries(tables, DOMAIN m.version)
             IN truth' = (truth \ (Logged(logs, m.log) \ there)) \cup Logged(logs', m.log)
  BY DEF Crash
<1>3. PICK kept : /\ \/ \A n \in DOMAIN logs : kept[n] = Len(logs[n])
                     \/ \A n \in DOMAIN logs : kept[n] \in synced[n] .. Len(logs[n])
                  /\ logs' = [n \in DOMAIN logs |-> SubSeq(logs[n], 1, kept[n])]
  BY <1>2
<1>4. ASSUME NEW n \in DOMAIN logs PROVE UNION ToSet(logs'[n]) \subseteq UNION ToSet(logs[n])
  <2>1. /\ logs[n] \in Seq(SUBSET Written) /\ synced[n] \in Nat /\ kept[n] \in Nat
        /\ kept[n] <= Len(logs[n])
    BY <1>3 DEF TypesInv, SyncInv, LogsTyped
  <2>2. logs'[n] = SubSeq(logs[n], 1, kept[n])
    BY <1>3
  <2>3. \A i \in 1 .. kept[n] : logs[n][i] \in SUBSET Written
    BY <2>1
  <2>4. Len(logs'[n]) = kept[n] /\ \A i \in 1 .. kept[n] : logs'[n][i] = logs[n][i] /\ i \in 1 .. Len(logs[n])
    BY <2>1, <2>2, <2>3, SubSeqProperties
  <2>5. DOMAIN logs'[n] = 1 .. kept[n]
    BY <2>1, <2>2, <2>3, SubSeqProperties
  <2>6. ToSet(logs'[n]) \subseteq ToSet(logs[n])
    BY <2>1, <2>4, <2>5 DEF ToSet
  <2> QED
    BY <2>6
<1>5. DOMAIN logs' = DOMAIN logs
  BY <1>3
<1>6. \/ m \in manifest
      \/ /\ up = "open" /\ bg.at = "edit"
         /\ m.version = Edited(version, bg.edit) /\ m.seq = bg.edit.seq /\ m.log = bg.edit.log
  <2>1. CASE m \in manifest
    BY <2>1
  <2>2. CASE m \notin manifest
    <3>1. PICK d \in manifest : bg.at = "edit" /\ m = Recorded(d, bg.edit)
      BY <1>2, <2>2
    <3>2. up = "open"
      BY <3>1 DEF TypesInv, TablesInv, Idle
    <3> QED
      BY <3>1, <3>2 DEF LevelsInv, Recorded
  <2> QED
    BY <2>1, <2>2
<1>7. Older(Stored(m.version, tables), Logged(logs, m.log)) /\ Stored(m.version, tables) \subseteq Entry
  <2>1. CASE m \in manifest
    <3>1. Stored(m.version, tables) \subseteq Entry
      BY <2>1, StoredTyped
    <3> QED
      BY <2>1, <3>1 DEF AgesInv, Aged
  <2>2. CASE bg.at = "edit" /\ m.version = Edited(version, bg.edit) /\ m.log = bg.edit.log
    <3>1. Stored(m.version, tables) \subseteq Entry
      BY <2>2, StoredTyped
    <3> QED
      BY <2>2, <3>1 DEF AgesInv, Aged
  <2> QED
    BY <1>6, <2>1, <2>2
<1>8. m.log \in Nat /\ m.seq \in Nat
  BY <1>6 DEF TypesInv, SyncInv, Numbers
<1> DEFINE S == Stored(m.version, tables)
           L == Logged(logs, m.log)
           K == Logged(logs', m.log)
<1>9. truth' = (truth \ (L \ (K \cup S))) \cup K
  BY <1>2 DEF Stored
<1>10. K \subseteq L
  BY <1>4, <1>5 DEF Logged
<1>11. S \cap L = {}
  <2>1. \A e \in S : e.seq \in Nat
    BY <1>7, SeqIsNat
  <2>2. \A e \in S \cap L : e.seq < e.seq
    BY <1>7 DEF Older
  <2>3. \A e \in S \cap L : FALSE
    BY <2>1, <2>2
  <2> QED
    BY <2>3
<1>12. Before(truth', logs', m.log) = Before(truth, logs, m.log)
  BY <1>9, <1>10, <1>11 DEF Before
<1>13. manifest' = {m}
  BY <1>2
<1>14. K \subseteq truth' /\ truth' \subseteq truth \cup K
  BY <1>9
<1> QED
  BY <1>1, <1>4, <1>5, <1>6, <1>8, <1>12, <1>13, <1>14

\* A crash loses no number that the manifest has.
LEMMA CrashLogs == ASSUME TypesInv, LevelsInv, AgesInv, LogsInv, Crash PROVE LogsInv'
<1>1. PICK m :
        /\ manifest' = {m} /\ m.log \in Nat /\ m.seq \in Nat
        /\ \/ m \in manifest
           \/ /\ up = "open" /\ bg.at = "edit"
              /\ m.version = Edited(version, bg.edit) /\ m.seq = bg.edit.seq /\ m.log = bg.edit.log
        /\ up # "closed" /\ up' = "closed" /\ version' = NoFiles /\ bg' = Idle /\ snapshot' = None
        /\ UNCHANGED <<lastSeq, tables>>
        /\ DOMAIN logs' = DOMAIN logs
        /\ \A n \in DOMAIN logs : UNION ToSet(logs'[n]) \subseteq UNION ToSet(logs[n])
        /\ Logged(logs', m.log) \subseteq truth' /\ truth' \subseteq truth \cup Logged(logs', m.log)
        /\ Before(truth', logs', m.log) = Before(truth, logs, m.log)
  BY CrashLeaves
<1>2. \A log : Logged(logs', log) \subseteq Logged(logs, log)
  BY <1>1 DEF Logged
<1>3. Unique(truth' \cup Logged(logs', 0))
  <2>1. Logged(logs, m.log) \subseteq Logged(logs, 0)
    BY <1>1, LoggedFrom DEF TypesInv
  <2>2. truth' \cup Logged(logs', 0) \subseteq truth \cup Logged(logs, 0)
    BY <1>1, <1>2, <2>1
  <2>3. Unique(truth \cup Logged(logs, 0))
    BY DEF LogsInv
  <2> QED
    BY <2>2, <2>3 DEF Unique
<1>4. InOrder(logs')
  <2>1. InOrder(logs)
    BY DEF LogsInv
  <2> QED
    BY <1>1, <2>1 DEF InOrder, Older
<1>5. UpTo(Before(truth', logs', m.log), m.seq)
  BY <1>1 DEF LogsInv
<1>6. Older(Before(truth', logs', m.log), Logged(logs', m.log))
  <2>1. Older(Before(truth, logs, m.log), Logged(logs, m.log))
    <3>1. CASE up = "open"
      BY <1>1, <3>1 DEF LogsInv
    <3>2. CASE up # "open"
      BY <1>1, <3>2 DEF LogsInv
    <3> QED
      BY <3>1, <3>2
  <2> QED
    BY <1>1, <1>2, <2>1 DEF Older
<1>7. lastSeq' \in Nat /\ bg'.at # "edit"
  BY <1>1, StoredTyped DEF Idle
<1> QED
  BY <1>1, <1>3, <1>4, <1>5, <1>6, <1>7, LogsAfter

\* Recovery finds the last number.
LEMMA RecoverLogsLogs == ASSUME TypesInv, LevelsInv, LogsInv, RecoverLogs PROVE LogsInv'
<1>1. PICK m \in manifest : \E files :
        /\ up = "closed" /\ up' = "replayed"
        /\ UNCHANGED <<manifest, bg, mem, imm, logs, stage, queue, group>>
        /\ \A d \in manifest : d = m
        /\ files \cap DOMAIN m.version = {} /\ DOMAIN version' = DOMAIN m.version \cup files
        /\ \A f \in files : version'[f] = 0 /\ tables'[f] \subseteq Logged(logs, m.log)
        /\ \A f \in DOMAIN m.version : version'[f] = m.version[f]
        /\ Agree(m.version, tables, tables')
        /\ lastSeq' \in Nat /\ m.seq <= lastSeq' /\ UpTo(Logged(logs, m.log), lastSeq')
  BY RecoverLogsMakes
<1>2. /\ up = "closed" /\ up' = "replayed" /\ UNCHANGED <<manifest, bg, logs>>
      /\ lastSeq' \in Nat /\ m.seq <= lastSeq' /\ UpTo(Logged(logs, m.log), lastSeq')
  BY <1>1
<1>3. UNCHANGED <<truth, snapshot>>
  BY DEF RecoverLogs, readers_, written_
<1>4. /\ Unique(truth \cup Logged(logs, 0)) /\ InOrder(logs) /\ snapshot = None
      /\ \A d \in manifest : /\ UpTo(Before(truth, logs, d.log), d.seq)
                             /\ Logged(logs, d.log) \subseteq truth
                             /\ Older(Before(truth, logs, d.log), Logged(logs, d.log))
  BY <1>2 DEF LogsInv
<1>5. UpTo(truth, lastSeq')
  <2> DEFINE B == Before(truth, logs, m.log)
  <2>1. B \subseteq Entry /\ m.seq \in Nat /\ UpTo(B, m.seq)
    <3>1. truth \subseteq Entry
      BY DEF TypesInv, EntriesInv
    <3>2. m.seq \in Nat
      BY StoredTyped
    <3> QED
      BY <1>4, <3>1, <3>2 DEF Before
  <2> HIDE DEF B
  <2>2. UpTo(B, lastSeq')
    BY <1>2, <2>1, AgedMore
  <2> QED
    BY <1>2, <2>2 DEF B, Before, UpTo
<1>6. bg'.at # "edit"
  BY <1>2 DEF TypesInv, TablesInv, Idle
<1> QED
  BY <1>2, <1>3, <1>4, <1>5, <1>6, LogsAfter

\* The logs begin anew.
LEMMA OpenLogs == ASSUME TypesInv, LogsInv, Open PROVE LogsInv'
<1>1. /\ up = "replayed" /\ up' = "open" /\ UNCHANGED <<bg, lastSeq, truth, snapshot>>
      /\ \A m \in manifest' : m.seq = lastSeq
      /\ logfile' = nextFile /\ logs' = [n \in {nextFile} |-> <<>>]
  BY DEF Open, readers_, written_
<1>2. \A log : Logged(logs', log) = {}
  BY <1>1 DEF Logged, ToSet
<1>3. /\ Unique(truth \cup Logged(logs, 0)) /\ UpTo(truth, lastSeq) /\ snapshot = None /\ lastSeq \in Nat
  <2>1. lastSeq \in Nat
    BY StoredTyped
  <2> QED
    BY <1>1, <2>1 DEF LogsInv
<1>4. Unique(truth' \cup Logged(logs', 0))
  BY <1>1, <1>2, <1>3 DEF Unique
<1>5. nextFile \in Nat
  BY NumbersTyped DEF TypesInv
<1>6. InOrder(logs') /\ \A n \in DOMAIN logs' : n <= logfile'
  <2>1. DOMAIN logs' = {nextFile}
    BY <1>1
  <2> QED
    BY <1>1, <1>5, <2>1 DEF InOrder
<1>7. \A log \in Nat : Older(Before(truth', logs', log), Logged(logs', log))
  BY <1>2 DEF Older
<1>8. \A m \in manifest' : UpTo(Before(truth', logs', m.log), m.seq)
  BY <1>1, <1>3 DEF Before, UpTo
<1>9. bg'.at # "edit"
  BY <1>1 DEF TypesInv, TablesInv, Idle
<1> QED
  BY <1>1, <1>3, <1>4, <1>6, <1>7, <1>8, <1>9, LogsAfter

\* A new database has an empty log.
LEMMA LogsInit == ASSUME Init PROVE LogsInv
<1>1. /\ up = "open" /\ bg.at = "idle" /\ snapshot = None /\ truth = {} /\ lastSeq = 0 /\ logfile = 1
      /\ logs = [n \in {1} |-> <<>>]
  BY DEF Init, Idle
<1>2. \A log : Logged(logs, log) = {}
  BY <1>1 DEF Logged, ToSet
<1>3. \A log : Before(truth, logs, log) = {}
  BY <1>1 DEF Before
<1>4. InOrder(logs) /\ \A n \in DOMAIN logs : n <= logfile
  <2>1. DOMAIN logs = {1}
    BY <1>1
  <2> QED
    BY <1>1, <2>1 DEF InOrder
<1>5. Least <= lastSeq
  BY <1>1 DEF Least
<1> QED
  BY <1>1, <1>2, <1>3, <1>4, <1>5 DEF LogsInv, Unique, Older, UpTo

\* Every step.
LEMMA LogsStep == ASSUME TypesInv, LevelsInv, AgesInv, LogsInv, [Next]_vars PROVE LogsInv'
<1>1. CASE \/ \E w \in Writes : Write(w)
           \/ LeadFails \/ Sync \/ InsertInto
           \/ GetSnapshot \/ ReleaseSnapshot \/ NewIterator \/ CleanupIterator \/ Reschedule
           \/ NothingToDo \/ BeginFlush \/ BuildTableFails \/ MergeFails
           \/ UNCHANGED vars
  BY <1>1, OthersLogs
<1>2. CASE BuildTable \/ BeginCompaction \/ WriteOutput \/ Merge
  BY <1>2, EditsLogs
<1>3. CASE Lead
  BY <1>3, LeadLogs
<1>4. CASE AddRecord
  BY <1>4, AddRecordLogs
<1>5. CASE Publish \/ WriteFails
  BY <1>5, ReturnLogs
<1>6. CASE Install
  BY <1>6, InstallLogs
<1>7. CASE InstallFails
  BY <1>7, InstallFailsLogs
<1>8. CASE Crash
  BY <1>8, CrashLogs
<1>9. CASE RecoverLogs
  BY <1>9, RecoverLogsLogs
<1>10. CASE Open
  BY <1>10, OpenLogs
<1> QED
  BY <1>1, <1>2, <1>3, <1>4, <1>5, <1>6, <1>7, <1>8, <1>9, <1>10 DEF Next

-----------------------------------------------------------------------------
(* What the memory tables hold, one step per action.                       *)

\* What is to be shown after a step.
LEMMA MemAfter ==
  ASSUME up' = "open" =>
           /\ truth' = Before(truth', logs', logfile') \cup {e \in mem' : e.seq <= lastSeq'}
           /\ Before(truth', logs', logfile') = Before(truth', logs', logNumber') \cup IF imm' = None THEN {} ELSE imm'
           /\ stage' = "publish" => GroupEntries' \subseteq mem' /\ \A e \in mem' : e.seq <= lastSeq' \/ e \in GroupEntries'
  PROVE  MemInv'
BY DEF MemInv

\* Steps that leave the memory tables alone, and the logs as far as they matter.
LEMMA MemFrame ==
  ASSUME MemInv, UNCHANGED <<truth, lastSeq, up, mem, imm, logfile, logNumber>>,
         stage' = "publish" => stage = "publish" /\ UNCHANGED <<group, lastSeq>> /\ \A i \in 1 .. group : queue'[i] = queue[i],
         up = "open" => /\ Before(truth, logs', logfile) = Before(truth, logs, logfile)
                        /\ Before(truth, logs', logNumber) = Before(truth, logs, logNumber)
  PROVE  MemInv'
<1>1. stage' = "publish" => GroupEntries' = GroupEntries
  BY SameGroup
<1>2. up = "open" =>
        /\ truth = Before(truth, logs, logfile) \cup {e \in mem : e.seq <= lastSeq}
        /\ Before(truth, logs, logfile) = Before(truth, logs, logNumber) \cup IF imm = None THEN {} ELSE imm
        /\ stage = "publish" => GroupEntries \subseteq mem /\ \A e \in mem : e.seq <= lastSeq \/ e \in GroupEntries
  BY DEF MemInv
<1> QED
  BY <1>1, <1>2, MemAfter

\* Readers, the thread but for Install, and those who wait in the queue.
LEMMA OthersMem ==
  ASSUME TypesInv, MemInv,
         \/ \E w \in Writes : Write(w)
         \/ LeadFails \/ Sync
         \/ GetSnapshot \/ ReleaseSnapshot \/ NewIterator \/ CleanupIterator \/ Reschedule
         \/ NothingToDo \/ BeginFlush \/ BuildTable \/ BuildTableFails \/ BeginCompaction \/ WriteOutput \/ Merge \/ MergeFails \/ InstallFails
         \/ UNCHANGED vars
  PROVE  MemInv'
<1>1. CASE \E w \in Writes : Write(w)
  <2>1. PICK w \in Writes : Write(w)
    BY <1>1
  <2>2. UNCHANGED <<truth, lastSeq, up, mem, imm, logfile, logNumber, logs, stage, group>> /\ queue' = Append(queue, w)
    BY <2>1 DEF Write, disk_, memory_, files_, written_
  <2>3. queue \in Seq(Writes) /\ (stage = "publish" => group \in 1 .. Len(queue))
    BY DEF TypesInv, SyncInv, Leading
  <2>4. stage = "publish" => \A i \in 1 .. group : queue'[i] = queue[i]
    BY <2>2, <2>3
  <2> QED
    BY <2>2, <2>4, MemFrame
<1>2. CASE LeadFails \/ Sync
  <2>1. UNCHANGED <<truth, lastSeq, up, mem, imm, logfile, logNumber, logs>> /\ stage' # "publish"
    BY <1>2 DEF LeadFails, Sync, disk_, memory_, files_, written_
  <2> QED
    BY <2>1, MemFrame
<1>3. CASE GetSnapshot \/ ReleaseSnapshot \/ NewIterator \/ CleanupIterator \/ Reschedule \/ UNCHANGED vars
  <2>1. UNCHANGED <<truth, lastSeq, up, mem, imm, logfile, logNumber, logs, stage, group, queue>>
    BY <1>3 DEF GetSnapshot, ReleaseSnapshot, NewIterator, CleanupIterator, Reschedule, vars, disk_, memory_, files_,
       writers_, written_
  <2> QED
    BY <2>1, MemFrame
<1>4. CASE NothingToDo \/ BeginFlush \/ BuildTable \/ BuildTableFails \/ BeginCompaction \/ WriteOutput \/ Merge
  <2>1. UNCHANGED <<truth, lastSeq, up, mem, imm, logfile, logNumber, logs, stage, group, queue>>
    BY <1>4 DEF NothingToDo, BeginFlush, BuildTable, BuildTableFails, BeginCompaction, WriteOutput, Merge, disk_, memory_, files_,
       writers_, written_
  <2> QED
    BY <2>1, MemFrame
<1>5. CASE MergeFails \/ InstallFails
  <2>1. UNCHANGED <<truth, lastSeq, up, mem, imm, logfile, logNumber, stage, group, queue>>
    BY <1>5 DEF MergeFails, InstallFails, disk_, memory_, files_, writers_, written_
  <2>2. UNCHANGED logs
    BY <1>5 DEF MergeFails, InstallFails, DeleteObsoleteFiles, CannotTell
  <2> QED
    BY <2>1, <2>2, MemFrame
<1> QED
  BY <1>1, <1>2, <1>3, <1>4, <1>5

\* The leader's record has numbers that nobody has.
LEMMA AddRecordMem == ASSUME TypesInv, LogsInv, MemInv, AddRecord PROVE MemInv'
<1>1. /\ up = "open" /\ stage = "append" /\ stage' # "publish"
      /\ UNCHANGED <<truth, lastSeq, up, mem, imm, logfile, logNumber>>
  <2>1. stage = "append"
    BY DEF AddRecord
  <2>2. up = "open"
    BY <2>1, LeaderAtWork DEF TypesInv
  <2> QED
    BY <2>1, <2>2 DEF AddRecord, memory_, files_, written_
<1>2. /\ \A log : Logged(logs, log) \subseteq Logged(logs', log) /\ Logged(logs', log) \subseteq Logged(logs, log) \cup GroupEntries
  BY RecordedLogs DEF TypesInv
<1>3. \A e \in truth : e \notin GroupEntries
  <2> TAKE e \in truth
  <2>1. e.seq \in Nat /\ lastSeq \in Nat /\ e.seq <= lastSeq
    <3>1. truth \subseteq Entry /\ UpTo(truth, lastSeq)
      BY <1>1 DEF TypesInv, EntriesInv, LogsInv
    <3> QED
      BY <3>1, EntryNumbers, StoredTyped DEF UpTo
  <2>2. e \in GroupEntries => lastSeq < e.seq
    BY <1>1, LeaderAtWork DEF TypesInv
  <2> QED
    BY <2>1, <2>2
<1>4. \A log : Before(truth, logs', log) = Before(truth, logs, log)
  BY <1>2, <1>3 DEF Before
<1> QED
  BY <1>1, <1>4, MemFrame

\* The group goes into the memory table, unseen as yet.
LEMMA InsertIntoMem == ASSUME TypesInv, AgesInv, MemInv, InsertInto PROVE MemInv'
<1>1. /\ stage = "insert" /\ stage' = "publish" /\ mem' = mem \cup GroupEntries
      /\ UNCHANGED <<truth, lastSeq, up, imm, logfile, logNumber, logs, group, queue>>
  BY DEF InsertInto, disk_, files_, written_
<1>2. GroupEntries' = GroupEntries
  BY <1>1, SameGroup
<1>3. /\ up = "open" /\ lastSeq \in Nat /\ \A e \in GroupEntries : lastSeq < e.seq /\ e.seq \in Nat
  <2>1. up = "open" /\ lastSeq \in Nat /\ \A e \in GroupEntries : lastSeq < e.seq
    BY <1>1, LeaderAtWork DEF TypesInv
  <2>2. GroupEntries \subseteq Entry
    BY <1>1, GroupTyped DEF TypesInv
  <2> QED
    BY <2>1, <2>2, EntryNumbers
<1>4. UpTo(mem, lastSeq)
  BY <1>1 DEF AgesInv
<1>5. {e \in mem' : e.seq <= lastSeq} = {e \in mem : e.seq <= lastSeq}
  BY <1>1, <1>3
<1>6. /\ truth = Before(truth, logs, logfile) \cup {e \in mem : e.seq <= lastSeq}
      /\ Before(truth, logs, logfile) = Before(truth, logs, logNumber) \cup IF imm = None THEN {} ELSE imm
  BY <1>3 DEF MemInv
<1>7. GroupEntries' \subseteq mem' /\ \A e \in mem' : e.seq <= lastSeq' \/ e \in GroupEntries'
  BY <1>1, <1>2, <1>4 DEF UpTo
<1> QED
  BY <1>1, <1>5, <1>6, <1>7, MemAfter

\* A group that returns can be seen, if it was written.
LEMMA ReturnMem == ASSUME TypesInv, AgesInv, LogsInv, MemInv, Publish \/ WriteFails PROVE MemInv'
<1>1. /\ stage # "idle" /\ Return /\ stage' = "idle" /\ (Publish => stage = "publish") /\ (~Publish => stage # "publish")
      /\ UNCHANGED <<logs, up, logfile, logNumber, mem, imm>>
      /\ truth' = IF Publish THEN truth \cup GroupEntries ELSE truth
  BY DEF Publish, WriteFails, Return, disk_, memory_, files_, written_
<1>2. /\ up = "open" /\ lastSeq \in Nat /\ Cardinality(Joined(group)) \in Nat
      /\ \A e \in GroupEntries : e.seq <= lastSeq + Cardinality(Joined(group))
  BY <1>1, LeaderAtWork DEF TypesInv
<1>3. lastSeq' = lastSeq + Cardinality(Joined(group)) /\ lastSeq' \in Nat /\ lastSeq <= lastSeq'
  BY <1>1, <1>2 DEF Return
<1>4. /\ truth = Before(truth, logs, logfile) \cup {e \in mem : e.seq <= lastSeq}
      /\ Before(truth, logs, logfile) = Before(truth, logs, logNumber) \cup IF imm = None THEN {} ELSE imm
      /\ stage = "publish" => GroupEntries \subseteq mem /\ \A e \in mem : e.seq <= lastSeq \/ e \in GroupEntries
  BY <1>2 DEF MemInv
<1>5. mem \subseteq Entry /\ UpTo(mem, lastSeq')
  <2>1. mem \subseteq Entry
    BY DEF TypesInv, EntriesInv
  <2>2. CASE Publish
    BY <1>1, <1>3, <2>1, <2>2 DEF AgesInv
  <2>3. CASE ~Publish
    <3>1. UpTo(mem, lastSeq)
      BY <1>1, <2>3 DEF AgesInv
    <3> QED
      BY <1>2, <1>3, <2>1, <3>1, AgedMore
  <2> QED
    BY <2>1, <2>2, <2>3
<1>6. {e \in mem : e.seq <= lastSeq'} = mem
  BY <1>5 DEF UpTo
<1>7. logfile \in Nat /\ logNumber \in Nat /\ logNumber <= logfile
  BY <1>2, LogfileIsNat DEF TypesInv, SyncInv, Latest, Numbers
<1>8. \A log \in Nat : log <= logfile => Before(truth', logs, log) = Before(truth, logs, log)
  <2> TAKE log \in Nat
  <2>1. Publish /\ log <= logfile => GroupEntries \subseteq Logged(logs, log)
    BY <1>1, GroupLogged DEF TypesInv, HasRecord
  <2> QED
    BY <1>1, <2>1 DEF Before
<1>9. Before(truth', logs, logfile) = Before(truth, logs, logfile) /\ Before(truth', logs, logNumber) = Before(truth, logs, logNumber)
  BY <1>7, <1>8
<1>10. truth' = Before(truth, logs, logfile) \cup mem
  <2>1. CASE Publish
    BY <1>1, <1>4, <2>1
  <2>2. CASE ~Publish
    <3>1. UpTo(mem, lastSeq)
      BY <1>1, <2>2 DEF AgesInv
    <3>2. {e \in mem : e.seq <= lastSeq} = mem
      BY <3>1 DEF UpTo
    <3> QED
      BY <1>1, <1>4, <2>2, <3>2
  <2> QED
    BY <2>1, <2>2
<1> QED
  BY <1>1, <1>4, <1>6, <1>9, <1>10, MemAfter

\* The full memory table waits, and its log is not the one in use.
LEMMA LeadMem == ASSUME TypesInv, AgesInv, MemInv, Lead PROVE MemInv'
<1>1. /\ up = "open" /\ stage = "idle" /\ stage' = "append" /\ (HasRoom \/ SwitchMemTable)
      /\ UNCHANGED <<truth, up, lastSeq, logNumber>>
  BY DEF Lead, files_, written_
<1>2. CASE HasRoom
  <2>1. UNCHANGED <<mem, imm, logfile, logs>>
    BY <1>2 DEF HasRoom, memory_
  <2> QED
    BY <1>1, <2>1, MemFrame
<1>3. CASE SwitchMemTable
  <2>1. /\ imm = None /\ logfile' = nextFile /\ imm' = mem /\ mem' = {}
        /\ logs' = Over([n \in {nextFile} |-> <<>>], logs)
    BY <1>3 DEF SwitchMemTable, MaySwitch
  <2>2. \A n \in DOMAIN logs : n \in Nat /\ n < nextFile
    BY <1>1, LogfileIsNat DEF TypesInv, SyncInv, Latest
  <2>3. nextFile \in Nat
    BY NumbersTyped DEF TypesInv
  <2>4. /\ DOMAIN logs' = DOMAIN logs \cup {nextFile} /\ logs'[nextFile] = <<>>
        /\ \A n \in DOMAIN logs : logs'[n] = logs[n]
    BY <2>1, <2>2, <2>3 DEF Over
  <2>5. UNION ToSet(logs'[nextFile]) = {}
    BY <2>4 DEF ToSet
  <2>6. \A log : Logged(logs', log) = Logged(logs, log)
    BY <2>4, <2>5 DEF Logged
  <2>7. Logged(logs', nextFile) = {}
    <3>1. \A n \in DOMAIN logs' : n >= nextFile => n = nextFile
      BY <2>2, <2>3, <2>4
    <3> QED
      BY <2>5, <3>1 DEF Logged
  <2>8. truth = Before(truth, logs, logNumber) \cup mem
    <3>1. UpTo(mem, lastSeq)
      BY <1>1 DEF AgesInv
    <3>2. {e \in mem : e.seq <= lastSeq} = mem
      BY <3>1 DEF UpTo
    <3> QED
      BY <1>1, <2>1, <3>2 DEF MemInv
  <2>9. mem # None
    BY NoneAssumption DEF TypesInv, EntriesInv
  <2>10. Before(truth', logs', logfile') = truth /\ Before(truth', logs', logNumber') = Before(truth, logs, logNumber)
    BY <1>1, <2>1, <2>6, <2>7 DEF Before
  <2>11. {e \in mem' : e.seq <= lastSeq'} = {}
    BY <2>1
  <2> QED
    BY <1>1, <2>1, <2>8, <2>9, <2>10, <2>11, MemAfter
<1> QED
  BY <1>1, <1>2, <1>3

\* A memory table that has been written is no longer needed, nor is its log.
LEMMA InstallMem == ASSUME TypesInv, LogsInv, MemInv, Install PROVE MemInv'
<1>1. /\ up = "open" /\ bg.at = "edit" /\ UNCHANGED <<up, mem, lastSeq, logfile, stage, queue, group, truth>>
      /\ logNumber' = bg.edit.log /\ imm' = IF Flushing THEN None ELSE imm
  BY ThreadIsOpen DEF Install, TypesInv, writers_, written_
<1>2. /\ bg.edit.log \in Nat
      /\ \A from \in Nat : \/ Logged(logs', from) = Logged(logs, from)
                           \/ ~(from >= bg.edit.log) /\ Logged(logs', from) = Logged(logs, bg.edit.log)
  BY InstallLeaves
<1>3. logfile \in Nat /\ bg.edit.log <= logfile
  BY <1>1, LogfileIsNat DEF TypesInv, SyncInv, Latest
<1>4. Logged(logs', logfile) = Logged(logs, logfile) /\ Logged(logs', bg.edit.log) = Logged(logs, bg.edit.log)
  BY <1>2, <1>3
<1>5. /\ Before(truth', logs', logfile) = Before(truth, logs, logfile)
      /\ Before(truth', logs', bg.edit.log) = Before(truth, logs, bg.edit.log)
  BY <1>1, <1>4 DEF Before
<1>6. /\ truth = Before(truth, logs, logfile) \cup {e \in mem : e.seq <= lastSeq}
      /\ Before(truth, logs, logfile) = Before(truth, logs, logNumber) \cup IF imm = None THEN {} ELSE imm
      /\ stage = "publish" => GroupEntries \subseteq mem /\ \A e \in mem : e.seq <= lastSeq \/ e \in GroupEntries
  BY <1>1 DEF MemInv
<1>7. IF Flushing THEN bg.edit.log = logfile ELSE bg.edit.log = logNumber
  BY <1>1 DEF LogsInv, Flushing
<1>8. Before(truth', logs', logfile') = Before(truth', logs', logNumber') \cup IF imm' = None THEN {} ELSE imm'
  <2>1. CASE Flushing
    BY <1>1, <1>5, <1>7, <2>1
  <2>2. CASE ~Flushing
    BY <1>1, <1>5, <1>6, <1>7, <2>2
  <2> QED
    BY <2>1, <2>2
<1>9. GroupEntries' = GroupEntries
  BY <1>1, SameGroup
<1> QED
  BY <1>1, <1>5, <1>6, <1>8, <1>9, MemAfter

\* A database that was recovered begins with an empty memory table.
LEMMA OpenMem == ASSUME TypesInv, AgesInv, Open PROVE MemInv'
<1>1. /\ up = "replayed" /\ UNCHANGED <<truth, mem, imm, stage>>
      /\ logfile' = nextFile /\ logNumber' = nextFile /\ logs' = [n \in {nextFile} |-> <<>>]
  BY DEF Open, writers_, written_
<1>2. mem = {} /\ imm = None /\ stage = "idle"
  BY <1>1 DEF AgesInv, TypesInv, RoomInv
<1>3. \A log : Logged(logs', log) = {}
  BY <1>1 DEF Logged, ToSet
<1>4. Before(truth', logs', logfile') = truth /\ Before(truth', logs', logNumber') = truth
  BY <1>1, <1>3 DEF Before
<1>5. {e \in mem' : e.seq <= lastSeq'} = {}
  BY <1>1, <1>2
<1> QED
  BY <1>1, <1>2, <1>4, <1>5, MemAfter

\* A new database has empty ones.
LEMMA MemInit == ASSUME Init PROVE MemInv
<1>1. truth = {} /\ mem = {} /\ imm = None /\ stage = "idle"
  BY DEF Init
<1> QED
  BY <1>1 DEF MemInv, Before

\* Every step.
LEMMA MemStep == ASSUME TypesInv, AgesInv, LogsInv, MemInv, [Next]_vars PROVE MemInv'
<1>1. CASE \/ \E w \in Writes : Write(w)
           \/ LeadFails \/ Sync
           \/ GetSnapshot \/ ReleaseSnapshot \/ NewIterator \/ CleanupIterator \/ Reschedule
           \/ NothingToDo \/ BeginFlush \/ BuildTable \/ BuildTableFails \/ BeginCompaction \/ WriteOutput \/ Merge \/ MergeFails \/ InstallFails
           \/ UNCHANGED vars
  BY <1>1, OthersMem
<1>2. CASE Lead
  BY <1>2, LeadMem
<1>3. CASE AddRecord
  BY <1>3, AddRecordMem
<1>4. CASE InsertInto
  BY <1>4, InsertIntoMem
<1>5. CASE Publish \/ WriteFails
  BY <1>5, ReturnMem
<1>6. CASE Install
  BY <1>6, InstallMem
<1>7. CASE Crash \/ RecoverLogs
  <2>1. up' # "open"
    BY <1>7 DEF Crash, RecoverLogs
  <2> QED
    BY <2>1, MemAfter
<1>8. CASE Open
  BY <1>8, OpenMem
<1> QED
  BY <1>1, <1>2, <1>3, <1>4, <1>5, <1>6, <1>7, <1>8 DEF Next

-----------------------------------------------------------------------------
(* What the steps make of versions.                                        *)

\* Install: the version and the manifest are what the edit makes of them.
LEMMA InstallDoes ==
  ASSUME TypesInv, TypesInv', LevelsInv, Install
  PROVE  /\ up = "open" /\ up' = "open" /\ bg.at = "edit" /\ UNCHANGED <<lastSeq, truth, snapshot>>
         /\ version' = Edited(version, bg.edit) /\ logNumber' = bg.edit.log
         /\ \A m \in manifest' : m.version = version' /\ m.seq = bg.edit.seq /\ m.log = bg.edit.log
         /\ Agree(version', tables, tables') /\ Stored(version', tables') = Stored(version', tables)
         /\ \A f \in DOMAIN tables' : f \in DOMAIN tables /\ tables'[f] = tables[f]
         /\ \/ bg' = Idle
            \/ bg'.at = "merge" /\ bg'.comp = bg.comp /\ bg.comp # None /\ bg.file # 0
<1>1. /\ up = "open" /\ up' = "open" /\ bg.at = "edit" /\ UNCHANGED <<lastSeq, truth, snapshot>>
      /\ manifest' = {Recorded(m, bg.edit) : m \in manifest} /\ version' = Edited(version, bg.edit)
      /\ logNumber' = bg.edit.log
  BY ThreadIsOpen DEF Install, TypesInv, readers_, written_
<1>2. \A f \in DOMAIN tables' : f \in DOMAIN tables /\ tables'[f] = tables[f]
  <2>1. CASE Moving
    BY <2>1 DEF Install
  <2>2. CASE ~Moving
    <3>1. DeleteObsoleteFiles(version', logNumber', IF Flushing THEN bg.comp ELSE None, pending', bgError)
      BY <2>2 DEF Install
    <3> QED
      BY <3>1, Deletes
  <2> QED
    BY <2>1, <2>2
<1>3. DOMAIN version' \subseteq DOMAIN tables'
  BY DEF TypesInv, TablesInv
<1>4. Agree(version', tables, tables')
  BY <1>2, <1>3 DEF Agree
<1>5. Stored(version', tables') = Stored(version', tables)
  BY <1>4, NewerFrame
<1>6. \A m \in manifest' : m.version = version' /\ m.seq = bg.edit.seq /\ m.log = bg.edit.log
  BY <1>1 DEF LevelsInv, Recorded
<1>7. bg' = Idle \/ (bg'.at = "merge" /\ bg'.comp = bg.comp /\ bg.comp # None /\ bg.file # 0)
  <2>1. bg' = Idle \/ (bg'.at = "merge" /\ bg'.comp = bg.comp /\ bg.comp # None)
    BY CallEnds DEF TypesInv
  <2>2. bg' # Idle => bg.file # 0
    BY DEF Install, EndCall, Flushing
  <2> QED
    BY <2>1, <2>2
<1> QED
  BY <1>1, <1>2, <1>4, <1>5, <1>6, <1>7

\* InstallFails: the manifest may say either.
LEMMA InstallFailsDoes ==
  ASSUME TypesInv, LevelsInv, InstallFails
  PROVE  /\ up = "open" /\ up' = "open" /\ bg.at = "edit"
         /\ UNCHANGED <<version, tables, logs, lastSeq, logNumber, truth, snapshot>>
         /\ \A m \in manifest' : \/ m \in manifest
                                 \/ m.version = Edited(version, bg.edit) /\ m.seq = bg.edit.seq /\ m.log = bg.edit.log
         /\ ~Retried => bg'.at = "idle"
         /\ bg'.at # "edit"
<1>1. /\ up = "open" /\ up' = "open" /\ bg.at = "edit" /\ UNCHANGED <<version, lastSeq, logNumber, truth, snapshot>>
      /\ manifest' = manifest \cup {Recorded(m, bg.edit) : m \in manifest}
  BY ThreadIsOpen DEF InstallFails, TypesInv, files_, readers_, written_
<1>2. ~Retried => bg'.at = "idle"
  <2>1. ~Retried => bg' = Idle
    BY DEF InstallFails, Retried, EndCall
  <2> QED
    BY <2>1 DEF Idle
<1>3. UNCHANGED <<tables, logs>>
  BY DEF InstallFails, DeleteObsoleteFiles, CannotTell
<1>4. \A m \in manifest' : \/ m \in manifest
                           \/ m.version = Edited(version, bg.edit) /\ m.seq = bg.edit.seq /\ m.log = bg.edit.log
  BY <1>1 DEF LevelsInv, Recorded
<1>5. bg'.at # "edit"
  BY CallEnds DEF TypesInv, Idle
<1> QED
  BY <1>1, <1>2, <1>3, <1>4, <1>5

\* BeginCompaction: a table goes down a level, or a merge begins with the version as it is.
LEMMA BeginCompactionBegins ==
  ASSUME TypesInv, BeginCompaction
  PROVE  /\ up = "open" /\ imm = None
         /\ UNCHANGED <<version, tables, manifest, logs, lastSeq, logNumber, truth, snapshot, up>>
         /\ \/ \E f \in DOMAIN version :
                 /\ bg'.at = "edit" /\ bg'.file = 0 /\ bg'.comp = None
                 /\ bg'.edit.add = [g \in {f} |-> version[f] + 1] /\ bg'.edit.drop = {}
                 /\ bg'.edit.log = logNumber /\ bg'.edit.seq = lastSeq
            \/ bg'.at = "merge" /\ bg'.file = 0 /\ bg'.comp.base = version /\ bg'.comp.oldest = Least
<1>1. up = "open" /\ imm = None /\ UNCHANGED <<version, tables, manifest, logs, lastSeq, logNumber, truth, snapshot, up>>
  BY ThreadIsOpen DEF BeginCompaction, TypesInv, disk_, files_, readers_, written_
<1>2. PICK f \in Pickable :
        LET l == version[f]
            c == Inputs(version, tables, l, Picked(version, tables, l, f))
            oldest == IF snapshot = None THEN lastSeq ELSE snapshot
        IN bg' = IF TrivialMove(c)
                 THEN [bg EXCEPT !.at = "edit", !.edit = Edit([g \in {f} |-> l + 1], {}, logNumber, nextFile)]
                 ELSE [bg EXCEPT !.at = "merge", !.comp = [c EXCEPT !.oldest = oldest]]
  BY DEF BeginCompaction
<1> DEFINE l == version[f]
           c == Inputs(version, tables, l, Picked(version, tables, l, f))
<1>3. f \in DOMAIN version /\ bg \in ThreadRecord /\ bg.file = 0 /\ bg.comp = None
  BY DEF Pickable, TypesInv, TablesInv, ThreadInv, BeginCompaction
<1>4. /\ bg' = IF TrivialMove(c)
               THEN [bg EXCEPT !.at = "edit", !.edit = Edit([g \in {f} |-> l + 1], {}, logNumber, nextFile)]
               ELSE [bg EXCEPT !.at = "merge", !.comp = [c EXCEPT !.oldest = Least]]
  BY <1>2 DEF Least
<1>5. c.base = version /\ [c EXCEPT !.oldest = Least].base = version /\ [c EXCEPT !.oldest = Least].oldest = Least
  BY DEF Inputs
<1> HIDE DEF c
<1>6. CASE TrivialMove(c)
  <2>1. bg' = [bg EXCEPT !.at = "edit", !.edit = Edit([g \in {f} |-> l + 1], {}, logNumber, nextFile)]
    BY <1>4, <1>6
  <2>2. /\ bg'.at = "edit" /\ bg'.file = 0 /\ bg'.comp = None
        /\ bg'.edit = Edit([g \in {f} |-> l + 1], {}, logNumber, nextFile)
    BY <1>3, <2>1 DEF ThreadRecord
  <2> QED
    BY <1>1, <1>3, <2>2 DEF Edit
<1>7. CASE ~TrivialMove(c)
  <2>1. bg' = [bg EXCEPT !.at = "merge", !.comp = [c EXCEPT !.oldest = Least]]
    BY <1>4, <1>7
  <2>2. bg'.at = "merge" /\ bg'.file = 0 /\ bg'.comp = [c EXCEPT !.oldest = Least]
    BY <1>3, <2>1 DEF ThreadRecord
  <2> QED
    BY <1>1, <1>5, <2>2
<1> QED
  BY <1>6, <1>7

\* RecoverLogs: a table of each log that says something, numbered as the logs are.
LEMMA RecoverLogsReplays ==
  ASSUME TypesInv, LevelsInv, LogsInv, RecoverLogs
  PROVE  \E m \in manifest : \E files :
           /\ up = "closed" /\ up' = "replayed" /\ UNCHANGED <<manifest, bg, logs, truth, snapshot>>
           /\ \A d \in manifest : d = m
           /\ DOMAIN version' = DOMAIN m.version \cup files
           /\ \A f \in DOMAIN m.version : version'[f] = m.version[f]
           /\ Agree(m.version, tables, tables')
           /\ m.seq <= lastSeq'
           /\ \A f \in DOMAIN m.version, g \in files : f < g
           /\ Entries(tables', files) = Logged(logs, m.log)
           /\ \A f, g \in files : f < g => Older(tables'[f], tables'[g])
<1>1. /\ up = "closed" /\ up' = "replayed"
      /\ UNCHANGED <<manifest, bg, logs, truth, snapshot>>
  BY DEF RecoverLogs, thread_, readers_, written_
<1>2. PICK m \in manifest :
        LET old == {n \in DOMAIN logs : n >= m.log /\ UNION ToSet(logs[n]) # {}}
            number(n) == m.next + Cardinality({k \in old : k <= n})
            new == [f \in {number(n) : n \in old} |-> UNION ToSet(logs[CHOOSE n \in old : number(n) = f])]
        IN /\ tables' = Over(new, tables)
           /\ version' = Edited(m.version, [drop |-> {}, add |-> [f \in DOMAIN new |-> 0]])
           /\ lastSeq' = RecoveredSequence(m)
  BY DEF RecoverLogs
<1> DEFINE old == {n \in DOMAIN logs : n >= m.log /\ UNION ToSet(logs[n]) # {}}
           number(n) == m.next + Cardinality({k \in old : k <= n})
           files == {number(n) : n \in old}
           new == [f \in files |-> UNION ToSet(logs[CHOOSE n \in old : number(n) = f])]
           edit == [drop |-> {}, add |-> [f \in files |-> 0]]
<1>3. tables' = Over(new, tables) /\ version' = Edited(m.version, edit) /\ DOMAIN new = files
  BY <1>2
<1>4. IsFiniteSet(old) /\ old \subseteq Nat /\ old \subseteq DOMAIN logs
  <2>1. PICK b \in Nat : DOMAIN logs \subseteq 0 .. b
    BY DEF TypesInv, SyncInv, Bounded
  <2>2. IsFiniteSet(0 .. b)
    BY FS_Interval
  <2>3. old \subseteq 0 .. b
    BY <2>1
  <2> QED
    BY <2>2, <2>3, FS_Subset
<1>5. m.next \in Nat
  BY NumbersTyped DEF TypesInv
<1>6. Logged(logs, m.log) = UNION {UNION ToSet(logs[n]) : n \in old}
  <2>1. \A n \in DOMAIN logs : n >= m.log /\ n \notin old => UNION ToSet(logs[n]) = {}
    OBVIOUS
  <2> QED
    BY <2>1 DEF Logged
<1> HIDE DEF old
<1>7. \A n : number(n) \in Nat /\ number(n) >= m.next
  <2>1. \A n : Cardinality({k \in old : k <= n}) \in Nat
    BY <1>4, Counted
  <2> QED
    BY <1>5, <2>1
<1>8. \A i, j \in old : i < j => number(i) < number(j)
  <2> SUFFICES ASSUME NEW i \in old, NEW j \in old, i < j PROVE number(i) < number(j)
    OBVIOUS
  <2> DEFINE P == {k \in old : k <= i}
             Q == {k \in old : k <= j}
  <2>1. i \in Nat /\ j \in Nat
    BY <1>4
  <2>2. P \subseteq Q /\ j \in Q /\ j \notin P
    <3>1. \A k \in old : k \in Nat
      BY <1>4
    <3>2. \A k \in old : k <= i => k <= j
      BY <2>1, <3>1
    <3>3. j <= j /\ ~(j <= i)
      BY <2>1
    <3> QED
      BY <3>2, <3>3
  <2>3. IsFiniteSet(Q) /\ P # Q
    BY <1>4, <2>2, FS_Subset
  <2> HIDE DEF P, Q
  <2>4. Cardinality(P) < Cardinality(Q) /\ Cardinality(P) \in Nat /\ Cardinality(Q) \in Nat
    BY <2>2, <2>3, FS_Subset, FS_CardinalityType
  <2> QED
    BY <1>5, <2>4 DEF P, Q
<1> HIDE DEF number
<1>9. \A i, j \in old : number(i) = number(j) => i = j
  <2> SUFFICES ASSUME NEW i \in old, NEW j \in old, number(i) = number(j) PROVE i = j
    OBVIOUS
  <2>1. i \in Nat /\ j \in Nat /\ number(i) \in Nat /\ number(j) \in Nat
    BY <1>4, <1>7
  <2> QED
    BY <1>8, <2>1
<1>10. \A n \in old : number(n) \in files /\ new[number(n)] = UNION ToSet(logs[n])
  <2> TAKE n \in old
  <2>1. number(n) \in files
    OBVIOUS
  <2>2. (CHOOSE k \in old : number(k) = number(n)) = n
    BY <1>9
  <2> QED
    BY <2>1, <2>2
<1>11. \A f \in files : \E n \in old : f = number(n)
  OBVIOUS
<1> HIDE DEF files, new
<1>12. \A f \in DOMAIN m.version, g \in files : f < g
  <2> SUFFICES ASSUME NEW f \in DOMAIN m.version, NEW g \in files PROVE f < g
    OBVIOUS
  <2>1. f \in Nat /\ f < m.next
    BY DEF TypesInv, FilesInv, VersionOK
  <2>2. g \in Nat /\ g >= m.next
    BY <1>7, <1>11
  <2> QED
    BY <1>5, <2>1, <2>2
<1>13. files \cap DOMAIN m.version = {} /\ DOMAIN m.version \subseteq DOMAIN tables
  <2>1. \A f \in DOMAIN m.version : f \in Nat
    BY DEF TypesInv, FilesInv, VersionOK
  <2>2. \A f \in DOMAIN m.version : ~(f < f)
    BY <2>1
  <2> QED
    BY <1>12, <2>2, TablesFilled
<1>14. Agree(m.version, tables, tables') /\ \A f \in files : tables'[f] = new[f]
  BY <1>3, <1>13 DEF Over, Agree
<1>15. /\ DOMAIN version' = DOMAIN m.version \cup files
       /\ \A f \in DOMAIN m.version : version'[f] = m.version[f]
  BY <1>3, <1>13 DEF Edited
<1>16. \A f, g \in files : f < g => Older(tables'[f], tables'[g])
  <2> SUFFICES ASSUME NEW f \in files, NEW g \in files, f < g PROVE Older(tables'[f], tables'[g])
    OBVIOUS
  <2>1. PICK i \in old : f = number(i)
    BY <1>11
  <2>2. PICK j \in old : g = number(j)
    BY <1>11
  <2>3. i < j
    <3>1. i \in Nat /\ j \in Nat /\ f \in Nat /\ g \in Nat
      BY <1>4, <1>7, <2>1, <2>2
    <3>2. ~(j < i) /\ i # j
      BY <1>8, <2>1, <2>2, <3>1
    <3> QED
      BY <3>1, <3>2
  <2>4. Older(UNION ToSet(logs[i]), UNION ToSet(logs[j]))
    BY <1>4, <2>3 DEF LogsInv, InOrder
  <2> QED
    BY <1>10, <1>14, <2>1, <2>2, <2>4
<1>17. Entries(tables', files) = Logged(logs, m.log)
  <2>1. \A f \in files : \E n \in old : tables'[f] = UNION ToSet(logs[n])
    BY <1>10, <1>11, <1>14
  <2>2. \A n \in old : \E f \in files : tables'[f] = UNION ToSet(logs[n])
    BY <1>10, <1>14
  <2>3. \A e : (\E f \in files : e \in tables'[f]) <=> \E n \in old : e \in UNION ToSet(logs[n])
    BY <2>1, <2>2
  <2>4. \A e : e \in Logged(logs, m.log) <=> \E n \in old : e \in UNION ToSet(logs[n])
    BY <1>6
  <2> QED
    BY <2>3, <2>4 DEF Entries
<1>18. \A d \in manifest : d = m
  BY <1>1 DEF LevelsInv
<1>19. m.seq <= lastSeq'
  <2>1. PICK d \in manifest : m.seq <= lastSeq' /\ \A x \in manifest : x = d
    <3>1. \E d \in manifest : d.seq <= lastSeq' /\ \A x \in manifest : x = d
      BY RecoverLogsMakes
    <3> QED
      BY <1>18, <3>1
  <2> QED
    BY <2>1
<1> WITNESS m \in manifest
<1> WITNESS files
<1> QED
  BY <1>1, <1>12, <1>14, <1>15, <1>16, <1>17, <1>18, <1>19

-----------------------------------------------------------------------------
(* The order of level 0, one step per action.                              *)

\* Only the tables of the version count.
LEMMA StackedFrame == ASSUME NEW v, NEW T, NEW U, Agree(v, T, U), Stacked(v, T) PROVE Stacked(v, U)
BY DEF Agree, Stacked, Level

\* An edit that adds no table to level 0.
LEMMA StackedBelow ==
  ASSUME NEW v, NEW T, NEW U, Agree(v, T, U), Stacked(v, T), NEW e, \A f \in DOMAIN e.add : e.add[f] # 0
  PROVE  Stacked(Edited(v, e), U)
<1>1. \A f \in Level(Edited(v, e), 0) : f \in Level(v, 0)
  BY DEF Edited, Level
<1> QED
  BY <1>1, StackedFrame DEF Stacked

\* An edit that adds a newer table.
LEMMA StackedOn ==
  ASSUME NEW v, NEW T, Stacked(v, T), NEW file \in Nat, \A f \in DOMAIN v : f \in Nat /\ f < file,
         NEW p, NEW e, e.drop = {}, e.add = [f \in {file} |-> p], Older(Stored(v, T), T[file])
  PROVE  Stacked(Edited(v, e), T)
<1>1. \A f \in Level(Edited(v, e), 0) : f = file \/ f \in Level(v, 0)
  BY DEF Edited, Level
<1>2. ASSUME NEW f \in Level(Edited(v, e), 0), NEW g \in Level(Edited(v, e), 0), f < g PROVE Older(T[f], T[g])
  <2>1. CASE f \in Level(v, 0) /\ g \in Level(v, 0)
    BY <1>2, <2>1 DEF Stacked
  <2>2. CASE f = file
    <3>1. g # file => g \in DOMAIN v
      BY <1>1 DEF Level
    <3>2. g \in Nat /\ g <= file
      BY <3>1
    <3> QED
      BY <1>2, <2>2, <3>2
  <2>3. CASE f \in Level(v, 0) /\ g = file
    <3>1. T[f] \subseteq Stored(v, T)
      BY <2>3 DEF Stored, Entries, Level
    <3> QED
      BY <2>3, <3>1 DEF Older
  <2> QED
    BY <1>1, <2>1, <2>2, <2>3
<1> QED
  BY <1>2 DEF Stacked

\* Steps that leave the version and the manifest alone.
LEMMA StackFrame ==
  ASSUME StackInv, UNCHANGED <<manifest, version>>,
         Agree(version, tables, tables'), \A m \in manifest : Agree(m.version, tables, tables'),
         bg'.at = "edit" => Stacked(Edited(version, bg'.edit), tables')
  PROVE  StackInv'
<1>1. Stacked(version, tables') /\ \A m \in manifest : Stacked(m.version, tables')
  BY StackedFrame DEF StackInv
<1> QED
  BY <1>1 DEF StackInv

\* Writers, readers, and steps of the thread that come to no edit.
LEMMA OthersStack ==
  ASSUME TypesInv, StackInv,
         \/ \E w \in Writes : Write(w)
         \/ Lead \/ LeadFails \/ AddRecord \/ Sync \/ InsertInto \/ Publish \/ WriteFails
         \/ GetSnapshot \/ ReleaseSnapshot \/ NewIterator \/ CleanupIterator \/ Reschedule
         \/ NothingToDo \/ BeginFlush \/ BuildTableFails \/ MergeFails
         \/ UNCHANGED vars
  PROVE  StackInv'
<1>1. CASE \/ \E w \in Writes : Write(w)
           \/ Lead \/ LeadFails \/ AddRecord \/ Sync \/ InsertInto \/ Publish \/ WriteFails
  <2>1. UNCHANGED <<tables, manifest, version, bg>>
    BY <1>1 DEF Write, Lead, LeadFails, AddRecord, Sync, InsertInto, Publish, WriteFails, disk_, files_, thread_
  <2> QED
    BY <2>1 DEF StackInv
<1>2. CASE GetSnapshot \/ ReleaseSnapshot \/ NewIterator \/ CleanupIterator \/ Reschedule \/ UNCHANGED vars
  <2>1. UNCHANGED <<tables, manifest, version, bg>>
    BY <1>2 DEF GetSnapshot, ReleaseSnapshot, NewIterator, CleanupIterator, Reschedule, vars, disk_, files_, thread_
  <2> QED
    BY <2>1 DEF StackInv
<1>3. CASE NothingToDo \/ BeginFlush \/ BuildTableFails \/ MergeFails
  <2>1. UNCHANGED <<tables, manifest, version>>
    BY <1>3 DEF NothingToDo, BeginFlush, BuildTableFails, MergeFails, DeleteObsoleteFiles, CannotTell, disk_, files_
  <2>2. bg'.at # "edit"
    <3>1. CASE BeginFlush
      BY <3>1 DEF BeginFlush, TypesInv, TablesInv, ThreadInv, ThreadRecord
    <3>2. CASE NothingToDo \/ BuildTableFails \/ MergeFails
      BY <3>2, CallEnds DEF TypesInv, Idle
    <3> QED
      BY <1>3, <3>1, <3>2
  <2> QED
    BY <2>1, <2>2 DEF StackInv
<1> QED
  BY <1>1, <1>2, <1>3

\* A flush's table has the greatest number and the newest entries.
LEMMA BuildTableStack == ASSUME TypesInv, AgesInv, StackInv, BuildTable PROVE StackInv'
<1>1. PICK p \in Nat, lo \in Key, hi \in Key :
           /\ up = "open" /\ bg.at = "build" /\ bg'.at = "edit" /\ bg'.file = bg.file /\ bg'.comp = bg.comp
           /\ bg'.edit.add = [f \in {bg.file} |-> p] /\ bg'.edit.drop = {}
           /\ bg'.edit.log = logfile /\ bg'.edit.seq = lastSeq
           /\ UNCHANGED <<manifest, up, version, bgError>>
           /\ bg.file # 0 /\ bg.file \notin DOMAIN version
           /\ imm # None /\ tables'[bg.file] = imm
           /\ Agree(version, tables, tables') /\ \A m \in manifest : Agree(m.version, tables, tables')
           /\ Filled(tables', DOMAIN version \cup {bg.file})
           /\ lo <= hi /\ \A d \in imm : lo <= d.key /\ d.key <= hi
           /\ p > 0 => \A f \in DOMAIN version : version[f] <= p => Above(tables'[f], hi) \/ Below(tables'[f], lo)
  BY BuildTableMakes
<1>2. Older(Stored(version, tables'), tables'[bg.file])
  <2>1. Older(Stored(version, tables), imm)
    BY <1>1 DEF AgesInv
  <2>2. Stored(version, tables') = Stored(version, tables)
    BY <1>1, NewerFrame
  <2> QED
    BY <1>1, <2>1, <2>2
<1>3. bg.file \in Nat /\ \A f \in DOMAIN version : f \in Nat /\ f < bg.file
  BY <1>1 DEF TypesInv, FilesInv, VersionOK
<1>4. Stacked(version, tables')
  BY <1>1, StackedFrame DEF StackInv
<1>5. bg'.edit.drop = {} /\ bg'.edit.add = [f \in {bg.file} |-> p]
  BY <1>1
<1>6. Stacked(Edited(version, bg'.edit), tables')
  BY <1>2, <1>3, <1>4, <1>5, StackedOn
<1> QED
  BY <1>1, <1>6, StackFrame

\* A table that moves, and the outputs of a merge, go to levels above 0.
LEMMA CompactionsStack == ASSUME TypesInv, LevelsInv, StackInv, BeginCompaction \/ WriteOutput \/ Merge PROVE StackInv'
<1>1. CASE BeginCompaction
  <2>1. /\ UNCHANGED <<version, tables, manifest>>
        /\ \/ \E f \in DOMAIN version : bg'.edit.add = [g \in {f} |-> version[f] + 1]
           \/ bg'.at = "merge"
    BY <1>1, BeginCompactionBegins
  <2>2. Agree(version, tables, tables') /\ \A m \in manifest : Agree(m.version, tables, tables')
    BY <2>1 DEF Agree
  <2>3. ASSUME bg'.at = "edit" PROVE \A g \in DOMAIN bg'.edit.add : bg'.edit.add[g] # 0
    <3>1. PICK f \in DOMAIN version : bg'.edit.add = [g \in {f} |-> version[f] + 1]
      BY <2>1, <2>3
    <3>2. version[f] \in Nat
      BY TablesFilled
    <3> QED
      BY <3>1, <3>2
  <2>4. bg'.at = "edit" => Stacked(Edited(version, bg'.edit), tables')
    BY <2>2, <2>3, StackedBelow DEF StackInv
  <2> QED
    BY <2>1, <2>2, <2>4, StackFrame
<1>2. CASE WriteOutput
  <2>1. /\ UNCHANGED <<manifest, version>> /\ bg'.at # "edit"
        /\ Agree(version, tables, tables') /\ \A m \in manifest : Agree(m.version, tables, tables')
    BY <1>2, WriteOutputAdds
  <2> QED
    BY <2>1, StackFrame
<1>3. CASE Merge
  <2>1. PICK new :
          /\ bg.at = "merge" /\ bg'.edit.add = [f \in new |-> bg.comp.level + 1]
          /\ UNCHANGED <<manifest, version>>
          /\ Agree(version, tables, tables') /\ \A m \in manifest : Agree(m.version, tables, tables')
    BY <1>3, MergeMakes
  <2>2. bg.comp.level \in Nat
    BY <2>1 DEF TypesInv, FilesInv
  <2>3. \A g \in DOMAIN bg'.edit.add : bg'.edit.add[g] # 0
    BY <2>1, <2>2
  <2>4. Stacked(Edited(version, bg'.edit), tables')
    BY <2>1, <2>3, StackedBelow DEF StackInv
  <2> QED
    BY <2>1, <2>4, StackFrame
<1> QED
  BY <1>1, <1>2, <1>3

\* The version and the manifest are what the edit makes of them, or the manifest may say either.
LEMMA InstallsStack ==
  ASSUME TypesInv, TypesInv', LevelsInv, StackInv, Install \/ InstallFails PROVE StackInv'
<1>1. CASE Install
  <2>1. /\ version' = Edited(version, bg.edit) /\ bg.at = "edit" /\ \A m \in manifest' : m.version = version'
        /\ Agree(version', tables, tables') /\ (bg' = Idle \/ bg'.at = "merge")
    BY <1>1, InstallDoes
  <2>2. Stacked(version', tables)
    BY <2>1 DEF StackInv
  <2>3. Stacked(version', tables')
    BY <2>1, <2>2, StackedFrame
  <2>4. bg'.at # "edit"
    BY <2>1 DEF Idle
  <2> QED
    BY <2>1, <2>3, <2>4 DEF StackInv
<1>2. CASE InstallFails
  <2>1. /\ bg.at = "edit" /\ UNCHANGED <<version, tables>> /\ bg'.at # "edit"
        /\ \A m \in manifest' : m \in manifest \/ m.version = Edited(version, bg.edit)
    BY <1>2, InstallFailsDoes
  <2> QED
    BY <2>1 DEF StackInv
<1> QED
  BY <1>1, <1>2

\* A crash leaves a state of the manifest, or what the edit makes of it.
LEMMA CrashStack == ASSUME TypesInv, LevelsInv, AgesInv, StackInv, Crash PROVE StackInv'
<1>1. PICK m :
        /\ manifest' = {m}
        /\ m \in manifest \/ (bg.at = "edit" /\ m.version = Edited(version, bg.edit))
        /\ version' = NoFiles /\ bg' = Idle /\ UNCHANGED tables
  BY CrashLeaves
<1>2. Stacked(m.version, tables)
  BY <1>1 DEF StackInv
<1>3. Stacked(NoFiles, tables)
  BY DEF Stacked, Level, NoFiles
<1> QED
  BY <1>1, <1>2, <1>3 DEF StackInv, Idle

\* The logs' tables come after those of the manifest, in the order of the logs.
LEMMA RecoverLogsStack ==
  ASSUME TypesInv, TypesInv', LevelsInv, AgesInv, LogsInv, StackInv, RecoverLogs PROVE StackInv'
<1>1. PICK m \in manifest : \E files :
        /\ up = "closed" /\ up' = "replayed" /\ UNCHANGED <<manifest, bg, logs, truth, snapshot>>
        /\ \A d \in manifest : d = m
        /\ DOMAIN version' = DOMAIN m.version \cup files
        /\ \A f \in DOMAIN m.version : version'[f] = m.version[f]
        /\ Agree(m.version, tables, tables')
        /\ m.seq <= lastSeq'
        /\ \A f \in DOMAIN m.version, g \in files : f < g
        /\ Entries(tables', files) = Logged(logs, m.log)
        /\ \A f, g \in files : f < g => Older(tables'[f], tables'[g])
  BY RecoverLogsReplays
<1>2. PICK files :
        /\ up = "closed" /\ up' = "replayed" /\ UNCHANGED <<manifest, bg, logs, truth, snapshot>>
        /\ \A d \in manifest : d = m
        /\ DOMAIN version' = DOMAIN m.version \cup files
        /\ \A f \in DOMAIN m.version : version'[f] = m.version[f]
        /\ Agree(m.version, tables, tables')
        /\ m.seq <= lastSeq'
        /\ \A f \in DOMAIN m.version, g \in files : f < g
        /\ Entries(tables', files) = Logged(logs, m.log)
        /\ \A f, g \in files : f < g => Older(tables'[f], tables'[g])
  BY <1>1
<1>3. Stacked(m.version, tables')
  BY <1>2, StackedFrame DEF StackInv
<1>4. Older(Stored(m.version, tables'), Logged(logs, m.log))
  <2>1. Stored(m.version, tables') = Stored(m.version, tables)
    BY <1>2, NewerFrame
  <2> QED
    BY <2>1 DEF AgesInv, Aged
<1>5. Stacked(version', tables')
  <2> SUFFICES ASSUME NEW f \in Level(version', 0), NEW g \in Level(version', 0), f < g
               PROVE  Older(tables'[f], tables'[g])
    BY DEF Stacked
  <2>1. f \in DOMAIN m.version \cup files /\ g \in DOMAIN m.version \cup files
    BY <1>2 DEF Level
  <2>2. \A n \in DOMAIN version' : n \in Nat
    BY DEF TypesInv, FilesInv, VersionOK
  <2>3. CASE f \in DOMAIN m.version /\ g \in DOMAIN m.version
    BY <1>2, <1>3, <2>3 DEF Stacked, Level
  <2>4. CASE f \in files /\ g \in files
    BY <1>2, <2>4
  <2>5. CASE f \in DOMAIN m.version /\ g \in files
    <3>1. tables'[f] \subseteq Stored(m.version, tables') /\ tables'[g] \subseteq Logged(logs, m.log)
      BY <1>2, <2>5 DEF Stored, Entries
    <3> QED
      BY <1>4, <3>1 DEF Older
  <2>6. CASE f \in files /\ g \in DOMAIN m.version
    <3>1. g < f /\ f \in Nat /\ g \in Nat
      BY <1>2, <2>2, <2>6 DEF Level
    <3> QED
      BY <3>1
  <2> QED
    BY <2>1, <2>3, <2>4, <2>5, <2>6
<1>6. bg'.at # "edit"
  BY <1>2 DEF TypesInv, TablesInv, Idle
<1> QED
  BY <1>2, <1>3, <1>5, <1>6 DEF StackInv

\* The version stays, and is the manifest's.
LEMMA OpenStack == ASSUME TypesInv, StackInv, Open PROVE StackInv'
<1>1. /\ up = "replayed" /\ UNCHANGED <<version, bg>>
      /\ \A m \in manifest' : m.version = version
      /\ tables' = Restrict(tables, DOMAIN version)
  BY DEF Open
<1>2. Agree(version, tables, tables')
  BY <1>1 DEF Agree, Restrict
<1>3. Stacked(version, tables')
  BY <1>2, StackedFrame DEF StackInv
<1>4. bg.at = "idle"
  BY <1>1 DEF TypesInv, TablesInv, Idle
<1> QED
  BY <1>1, <1>3, <1>4 DEF StackInv

\* A new database has no tables.
LEMMA StackInit == ASSUME Init PROVE StackInv
BY DEF Init, StackInv, Stacked, Level, NoFiles, Idle

\* Every step.
LEMMA StackStep ==
  ASSUME TypesInv, TypesInv', LevelsInv, AgesInv, LogsInv, StackInv, [Next]_vars PROVE StackInv'
<1>1. CASE \/ \E w \in Writes : Write(w)
           \/ Lead \/ LeadFails \/ AddRecord \/ Sync \/ InsertInto \/ Publish \/ WriteFails
           \/ GetSnapshot \/ ReleaseSnapshot \/ NewIterator \/ CleanupIterator \/ Reschedule
           \/ NothingToDo \/ BeginFlush \/ BuildTableFails \/ MergeFails
           \/ UNCHANGED vars
  BY <1>1, OthersStack
<1>2. CASE BuildTable
  BY <1>2, BuildTableStack
<1>3. CASE BeginCompaction \/ WriteOutput \/ Merge
  BY <1>3, CompactionsStack
<1>4. CASE Install \/ InstallFails
  BY <1>4, InstallsStack
<1>5. CASE Crash
  BY <1>5, CrashStack
<1>6. CASE RecoverLogs
  BY <1>6, RecoverLogsStack
<1>7. CASE Open
  BY <1>7, OpenStack
<1> QED
  BY <1>1, <1>2, <1>3, <1>4, <1>5, <1>6, <1>7 DEF Next

-----------------------------------------------------------------------------
(* What a compaction may drop, one step per action.                        *)

\* The least number anyone may read at does not decrease.
LEMMA LeastGrows ==
  ASSUME TypesInv, LogsInv, lastSeq' \in Nat, lastSeq <= lastSeq',
         snapshot' \in {snapshot, None} \/ (snapshot = None /\ snapshot' = lastSeq)
  PROVE  Least \in Nat /\ Least' \in Nat /\ Least <= Least'
<1>1. lastSeq \in Nat /\ (snapshot = None \/ (snapshot \in Nat /\ snapshot <= lastSeq))
  <2>1. snapshot = None \/ snapshot \in 0 .. MaxSequence
    BY DEF TypesInv, RoomInv
  <2>2. snapshot = None \/ snapshot \in Nat
    BY <2>1, LevelsAssumption
  <2> QED
    BY <2>2, SnapshotIsEarlier, StoredTyped
<1>2. CASE snapshot = None
  <2>1. Least = lastSeq /\ (Least' = lastSeq' \/ Least' = lastSeq)
    BY <1>2 DEF Least
  <2> HIDE DEF Least
  <2> QED
    BY <1>1, <2>1
<1>3. CASE snapshot # None
  <2>1. Least = snapshot /\ (snapshot' = snapshot \/ snapshot' = None)
    BY <1>3 DEF Least
  <2> QED
    BY <1>1, <1>3, <2>1 DEF Least
<1> QED
  BY <1>2, <1>3

\* Nor does it in any step of an open database.
LEMMA LeastStep ==
  ASSUME TypesInv, LogsInv, [Next]_vars, up = "open", up' = "open"
  PROVE  Least \in Nat /\ Least' \in Nat /\ Least <= Least'
<1>1. lastSeq \in Nat
  BY StoredTyped
<1>2. CASE Publish \/ WriteFails
  <2>1. stage # "idle" /\ lastSeq' = lastSeq + Cardinality(Joined(group)) /\ snapshot' = snapshot
    BY <1>2 DEF Publish, WriteFails, Return, readers_
  <2>2. Cardinality(Joined(group)) \in Nat
    BY <2>1, LeaderAtWork DEF TypesInv
  <2> QED
    BY <1>1, <2>1, <2>2, LeastGrows
<1>3. CASE \/ \E w \in Writes : Write(w)
           \/ Lead \/ LeadFails \/ AddRecord \/ Sync \/ InsertInto \/ Reschedule \/ NewIterator \/ CleanupIterator
  <2>1. UNCHANGED <<lastSeq, snapshot>>
    BY <1>3 DEF Write, Lead, LeadFails, AddRecord, Sync, InsertInto, Reschedule, NewIterator, CleanupIterator, readers_
  <2> QED
    BY <1>1, <2>1, LeastGrows
<1>4. CASE GetSnapshot \/ ReleaseSnapshot
  <2>1. UNCHANGED lastSeq /\ (snapshot' = None \/ (snapshot = None /\ snapshot' = lastSeq))
    BY <1>4 DEF GetSnapshot, ReleaseSnapshot
  <2> QED
    BY <1>1, <2>1, LeastGrows
<1>5. CASE \/ NothingToDo \/ BeginFlush \/ BuildTable \/ BuildTableFails \/ BeginCompaction \/ WriteOutput \/ Merge \/ MergeFails
           \/ Install \/ InstallFails \/ UNCHANGED vars
  <2>1. UNCHANGED <<lastSeq, snapshot>>
    BY <1>5 DEF NothingToDo, BeginFlush, BuildTable, BuildTableFails, BeginCompaction, WriteOutput, Merge, MergeFails,
       Install, InstallFails, vars, readers_
  <2> QED
    BY <1>1, <2>1, LeastGrows
<1>6. ~Crash /\ ~RecoverLogs /\ ~Open
  BY DEF Crash, RecoverLogs, Open
<1> QED
  BY <1>2, <1>3, <1>4, <1>5, <1>6 DEF Next

\* A merge may be made later too, and with the same tables elsewhere.
LEMMA MergeLater ==
  ASSUME NEW c, NEW v, NEW T, NEW U, NEW w \in Nat, NEW x \in Nat, w <= x, MergeOK(c, v, T, w),
         Agree(v, T, U), c.in0 \cup c.in1 \subseteq DOMAIN v, Filled(U, DOMAIN c.base)
  PROVE  MergeOK(c, v, U, x)
<1>1. Entries(U, c.in0 \cup c.in1) = Entries(T, c.in0 \cup c.in1)
  BY DEF Entries, Agree
<1>2. Deep(c, v, U)
  BY <1>1 DEF MergeOK, Deep, Agree
<1> QED
  BY <1>2 DEF MergeOK

\* Steps that leave the version and the tables alone, and perhaps end or go on with a compaction.
LEMMA DeepFrame ==
  ASSUME TypesInv, LogsInv, DeepInv, [Next]_vars, up = "open", up' = "open", UNCHANGED <<version, tables>>,
         bg'.at = "merge" \/ (bg'.at = "build" /\ bg'.comp # None) =>
           bg'.comp = bg.comp /\ (bg.at = "merge" \/ (bg.at = "build" /\ bg.comp # None)),
         bg'.at = "edit" => bg'.comp = None \/ bg'.file = 0 \/ UNCHANGED bg
  PROVE  DeepInv'
<1>1. Least \in Nat /\ Least' \in Nat /\ Least <= Least'
  BY LeastStep
<1>2. \A c, v : MergeOK(c, v, tables, Least) => MergeOK(c, v, tables, Least')
  BY <1>1 DEF MergeOK
<1>3. bg'.at = "merge" \/ (bg'.at = "build" /\ bg'.comp # None) => MergeOK(bg'.comp, version', tables', Least')
  BY <1>2 DEF DeepInv
<1>4. bg'.at = "edit" /\ bg'.file # 0 /\ bg'.comp # None => MergeOK(bg'.comp, Edited(version', bg'.edit), tables', Least')
  BY <1>2 DEF DeepInv
<1> QED
  BY <1>3, <1>4 DEF DeepInv

\* No compaction, no claim.
LEMMA DeepIdle == ASSUME bg' = Idle PROVE DeepInv'
BY DEF Idle, DeepInv

\* Writers and readers.
LEMMA OthersDeep ==
  ASSUME TypesInv, LogsInv, DeepInv,
         \/ \E w \in Writes : Write(w)
         \/ Lead \/ LeadFails \/ AddRecord \/ Sync \/ InsertInto \/ Publish \/ WriteFails
         \/ GetSnapshot \/ ReleaseSnapshot \/ NewIterator \/ CleanupIterator \/ Reschedule \/ UNCHANGED vars
  PROVE  DeepInv'
<1>1. CASE \/ \E w \in Writes : Write(w)
           \/ Lead \/ LeadFails \/ AddRecord \/ Sync \/ InsertInto \/ Publish \/ WriteFails
  <2>1. UNCHANGED <<tables, version, bg, up>>
    BY <1>1 DEF Write, Lead, LeadFails, AddRecord, Sync, InsertInto, Publish, WriteFails, disk_, files_, thread_
  <2>2. [Next]_vars
    BY <1>1 DEF Next
  <2>3. CASE up = "open"
    BY <2>1, <2>2, <2>3, DeepFrame
  <2>4. CASE up # "open"
    BY <2>1, <2>4, DeepIdle DEF TypesInv, TablesInv
  <2> QED
    BY <2>3, <2>4
<1>2. CASE GetSnapshot \/ ReleaseSnapshot \/ NewIterator \/ CleanupIterator \/ Reschedule \/ UNCHANGED vars
  <2>1. UNCHANGED <<tables, version, bg, up>>
    BY <1>2 DEF GetSnapshot, ReleaseSnapshot, NewIterator, CleanupIterator, Reschedule, vars, disk_, files_, thread_
  <2>2. [Next]_vars
    BY <1>2 DEF Next
  <2>3. CASE up = "open"
    BY <2>1, <2>2, <2>3, DeepFrame
  <2>4. CASE up # "open"
    BY <2>1, <2>4, DeepIdle DEF TypesInv, TablesInv
  <2> QED
    BY <2>3, <2>4
<1> QED
  BY <1>1, <1>2

\* A call that ends without an edit, and the start of a flush.
LEMMA CallsDeep ==
  ASSUME TypesInv, LogsInv, DeepInv, NothingToDo \/ BuildTableFails \/ MergeFails \/ BeginFlush PROVE DeepInv'
<1>1. UNCHANGED <<version, tables>>
  BY DEF NothingToDo, BuildTableFails, BeginFlush, MergeFails, DeleteObsoleteFiles, CannotTell, disk_, files_
<1>2. up = "open" /\ up' = "open"
  BY ThreadIsOpen DEF TypesInv
<1>3. /\ bg'.at # "edit"
      /\ bg'.at = "merge" \/ (bg'.at = "build" /\ bg'.comp # None) =>
           bg'.comp = bg.comp /\ (bg.at = "merge" \/ (bg.at = "build" /\ bg.comp # None))
  <2>1. CASE BeginFlush
    <3>1. /\ bg.at = "idle" \/ bg.at = "merge"
          /\ bg' = [bg EXCEPT !.at = "build", !.file = nextFile]
      BY <2>1 DEF BeginFlush
    <3> QED
      BY <3>1 DEF TypesInv, TablesInv, ThreadInv, ThreadRecord
  <2>2. CASE NothingToDo \/ BuildTableFails \/ MergeFails
    <3>1. \/ bg' = Idle
          \/ bg'.at = "merge" /\ bg'.comp = bg.comp /\ bg.comp # None
      BY <2>2, CallEnds DEF TypesInv
    <3>2. bg.at = "idle" \/ bg.at = "build" \/ bg.at = "merge"
      BY <2>2 DEF NothingToDo, BuildTableFails, MergeFails
    <3>3. bg.at = "idle" => bg.comp = None
      BY DEF TypesInv, TablesInv, ThreadInv
    <3> QED
      BY <3>1, <3>2, <3>3 DEF Idle
  <2> QED
    BY <2>1, <2>2
<1>4. [Next]_vars
  BY DEF Next
<1> QED
  BY <1>1, <1>2, <1>3, <1>4, DeepFrame

\* A compaction begins with the version as it is.
LEMMA BeginCompactionDeep == ASSUME TypesInv, LogsInv, BeginCompaction PROVE DeepInv'
<1>1. /\ UNCHANGED <<version, tables, lastSeq, snapshot>>
      /\ \/ bg'.at = "edit" /\ bg'.comp = None
         \/ bg'.at = "merge" /\ bg'.comp.base = version /\ bg'.comp.oldest = Least
  BY BeginCompactionBegins
<1>2. Least' = Least
  BY <1>1 DEF Least
<1>3. Least \in Nat
  BY <1>1, LeastGrows, StoredTyped
<1>4. ASSUME bg'.at = "merge" PROVE MergeOK(bg'.comp, version', tables', Least')
  <2>1. bg'.comp.base = version /\ bg'.comp.oldest = Least /\ UNCHANGED <<version, tables>>
    BY <1>1, <1>4
  <2>2. Filled(tables, DOMAIN version) /\ \A f \in DOMAIN version : version[f] \in Nat
    BY TablesFilled
  <2> QED
    BY <1>2, <1>3, <2>1, <2>2 DEF MergeOK, Deep
<1> QED
  BY <1>1, <1>4 DEF DeepInv

\* An output more is no table of the version.
LEMMA WriteOutputDeep == ASSUME TypesInv, LevelsInv, LogsInv, DeepInv, WriteOutput PROVE DeepInv'
<1> DEFINE c == bg.comp
<1>1. /\ up = "open" /\ bg.at = "merge" /\ UNCHANGED <<bg, up, version>>
      /\ Agree(version, tables, tables')
      /\ \A f \in DOMAIN c.base : f \in DOMAIN tables /\ tables'[f] = tables[f]
  BY WriteOutputAdds
<1>2. Least \in Nat /\ Least' \in Nat /\ Least <= Least'
  BY <1>1, LeastStep DEF Next
<1>3. MergeOK(c, version, tables, Least) /\ c.in0 \cup c.in1 \subseteq DOMAIN version
  BY <1>1 DEF DeepInv, LevelsInv, Movable, Level
<1>4. Filled(tables', DOMAIN c.base)
  BY <1>1, <1>3 DEF MergeOK, Filled
<1>5. MergeOK(c, version, tables', Least')
  BY <1>1, <1>2, <1>3, <1>4, MergeLater
<1> QED
  BY <1>1, <1>5 DEF DeepInv

\* A flush within a compaction puts its table where the compaction knows of none, and its
\* entries are newer.
LEMMA BuildTableDeep == ASSUME TypesInv, TypesInv', AgesInv, NewerInv, LogsInv, DeepInv, BuildTable PROVE DeepInv'
<1>1. PICK p \in Nat, lo \in Key, hi \in Key :
           /\ up = "open" /\ bg.at = "build" /\ bg'.at = "edit" /\ bg'.file = bg.file /\ bg'.comp = bg.comp
           /\ bg'.edit.add = [f \in {bg.file} |-> p] /\ bg'.edit.drop = {}
           /\ bg'.edit.log = logfile /\ bg'.edit.seq = lastSeq
           /\ UNCHANGED <<manifest, up, version, bgError>>
           /\ bg.file # 0 /\ bg.file \notin DOMAIN version
           /\ imm # None /\ tables'[bg.file] = imm
           /\ Agree(version, tables, tables') /\ \A m \in manifest : Agree(m.version, tables, tables')
           /\ Filled(tables', DOMAIN version \cup {bg.file})
           /\ lo <= hi /\ \A d \in imm : lo <= d.key /\ d.key <= hi
           /\ p > 0 => \A f \in DOMAIN version : version[f] <= p => Above(tables'[f], hi) \/ Below(tables'[f], lo)
  BY BuildTableMakes
<1>2. ASSUME bg.comp # None PROVE MergeOK(bg.comp, Edited(version, bg'.edit), tables', Least')
  <2> DEFINE c == bg.comp
             E == Entries(tables, c.in0 \cup c.in1)
  <2>1. MergeOK(c, version, tables, Least) /\ Fits(c, version, tables)
    BY <1>1, <1>2 DEF DeepInv, NewerInv
  <2>2. c.in0 \cup c.in1 \subseteq DOMAIN version
    BY <2>1 DEF Fits, Level
  <2>3. Filled(tables', DOMAIN c.base)
    <3>1. DOMAIN bg'.comp.base \subseteq DOMAIN tables'
      BY <1>1, <1>2 DEF TypesInv, TablesInv, ThreadInv
    <3> QED
      BY <1>1, <3>1 DEF TypesInv, EntriesInv, Filled
  <2>4. Least \in Nat /\ Least' \in Nat /\ Least <= Least'
    BY <1>1, LeastStep DEF Next
  <2>5. MergeOK(c, version, tables', Least')
    BY <1>1, <2>1, <2>2, <2>3, <2>4, MergeLater
  <2>6. Entries(tables', c.in0 \cup c.in1) = E
    BY <1>1, <2>2 DEF Entries, Agree
  <2>7. \A d \in tables'[bg.file], e \in E : d.seq > e.seq
    <3> SUFFICES ASSUME NEW d \in imm, NEW e \in E PROVE d.seq > e.seq
      BY <1>1
    <3>1. Older(Stored(version, tables), imm) /\ e \in Stored(version, tables)
      BY <1>1, <2>2 DEF AgesInv, Stored, Entries
    <3>2. d \in Entry /\ e \in Entry
      BY <1>1, <3>1, StoredTyped
    <3>3. e.seq < d.seq
      BY <3>1 DEF Older
    <3> QED
      BY <3>2, <3>3, EntryNumbers
  <2> HIDE DEF c, E
  <2>8. Deep(c, Edited(version, bg'.edit), tables')
    <3> SUFFICES ASSUME NEW g \in DOMAIN Edited(version, bg'.edit), Edited(version, bg'.edit)[g] >= c.level + 2
                 PROVE  \/ g \in DOMAIN c.base /\ c.base[g] = Edited(version, bg'.edit)[g]
                        \/ \A d \in tables'[g], e \in Entries(tables', c.in0 \cup c.in1) : d.key = e.key => d.seq > e.seq
      BY DEF Deep
    <3>1. CASE g = bg.file
      BY <2>6, <2>7, <3>1
    <3>2. CASE g # bg.file
      <4>1. g \in DOMAIN version /\ Edited(version, bg'.edit)[g] = version[g]
        BY <1>1, <3>2 DEF Edited
      <4> QED
        BY <2>5, <4>1 DEF MergeOK, Deep
    <3> QED
      BY <3>1, <3>2
  <2> QED
    BY <2>5, <2>8 DEF MergeOK, c
<1>3. bg'.at = "edit" /\ version' = version /\ bg'.comp = bg.comp
  BY <1>1
<1> QED
  BY <1>2, <1>3 DEF DeepInv

\* The compaction goes on after the flush.
LEMMA InstallDeep ==
  ASSUME TypesInv, TypesInv', LevelsInv, NewerInv, LogsInv, DeepInv, Install PROVE DeepInv'
<1>1. /\ up = "open" /\ up' = "open" /\ bg.at = "edit"
      /\ version' = Edited(version, bg.edit)
      /\ Agree(version', tables, tables')
      /\ \/ bg' = Idle
         \/ bg'.at = "merge" /\ bg'.comp = bg.comp /\ bg.comp # None /\ bg.file # 0
  BY InstallDoes
<1>2. CASE bg' = Idle
  BY <1>2, DeepIdle
<1>3. CASE bg'.at = "merge" /\ bg'.comp = bg.comp /\ bg.comp # None /\ bg.file # 0
  <2>1. MergeOK(bg.comp, version', tables, Least) /\ Fits(bg.comp, version', tables)
    BY <1>1, <1>3 DEF DeepInv, NewerInv
  <2>2. bg.comp.in0 \cup bg.comp.in1 \subseteq DOMAIN version'
    BY <2>1 DEF Fits, Level
  <2>3. Filled(tables', DOMAIN bg.comp.base)
    <3>1. DOMAIN bg'.comp.base \subseteq DOMAIN tables'
      BY <1>3 DEF TypesInv, TablesInv, ThreadInv
    <3> QED
      BY <1>3, <3>1 DEF TypesInv, EntriesInv, Filled
  <2>4. Least \in Nat /\ Least' \in Nat /\ Least <= Least'
    BY <1>1, LeastStep DEF Next
  <2>5. MergeOK(bg.comp, version', tables', Least')
    BY <1>1, <2>1, <2>2, <2>3, <2>4, MergeLater
  <2> QED
    BY <1>3, <2>5 DEF DeepInv
<1> QED
  BY <1>1, <1>2, <1>3

\* A new database has no compaction.
LEMMA DeepInit == ASSUME Init PROVE DeepInv
BY DEF Init, DeepInv, Idle

\* Every step but that of a flush within a compaction whose record fails.
LEMMA DeepStep ==
  ASSUME TypesInv, TypesInv', LevelsInv, AgesInv, NewerInv, LogsInv, DeepInv, [Next]_vars, ~Retried PROVE DeepInv'
<1>1. CASE \/ \E w \in Writes : Write(w)
           \/ Lead \/ LeadFails \/ AddRecord \/ Sync \/ InsertInto \/ Publish \/ WriteFails
           \/ GetSnapshot \/ ReleaseSnapshot \/ NewIterator \/ CleanupIterator \/ Reschedule \/ UNCHANGED vars
  BY <1>1, OthersDeep
<1>2. CASE NothingToDo \/ BuildTableFails \/ MergeFails \/ BeginFlush
  BY <1>2, CallsDeep
<1>3. CASE BeginCompaction
  BY <1>3, BeginCompactionDeep
<1>4. CASE BuildTable
  BY <1>4, BuildTableDeep
<1>5. CASE WriteOutput
  BY <1>5, WriteOutputDeep
<1>6. CASE Merge
  <2>1. bg'.at = "edit" /\ bg'.file = 0
    BY <1>6, MergeDoes DEF TypesInv
  <2> QED
    BY <2>1 DEF DeepInv
<1>7. CASE Install
  BY <1>7, InstallDeep
<1>8. CASE InstallFails
  <2>1. bg'.at = "idle"
    BY <1>8, InstallFailsDoes
  <2> QED
    BY <2>1 DEF DeepInv
<1>9. CASE Crash
  <2>1. bg' = Idle
    BY <1>9 DEF Crash
  <2> QED
    BY <2>1, DeepIdle
<1>10. CASE RecoverLogs \/ Open
  <2>1. bg' = bg /\ bg = Idle
    BY <1>10 DEF RecoverLogs, Open, thread_, TypesInv, TablesInv
  <2> QED
    BY <2>1, DeepIdle
<1> QED
  BY <1>1, <1>2, <1>3, <1>4, <1>5, <1>6, <1>7, <1>8, <1>9, <1>10 DEF Next

-----------------------------------------------------------------------------
(* The memory tables can be replayed, one step per action.                 *)

\* Steps that leave the memory tables alone, and the logs that hold them.
LEMMA HeldFrame ==
  ASSUME HeldInv, up = "open", UNCHANGED <<mem, imm>>,
         Logged(logs, logfile) \subseteq Logged(logs', logfile'),
         Logged(logs, logNumber) \subseteq Logged(logs', logNumber')
  PROVE  HeldInv'
BY DEF HeldInv

\* Readers, the thread but for Install, and the writers that write no memory table.
LEMMA OthersHeld ==
  ASSUME TypesInv, HeldInv, up' = "open",
         \/ \E w \in Writes : Write(w)
         \/ LeadFails \/ AddRecord \/ Sync \/ Publish \/ WriteFails
         \/ GetSnapshot \/ ReleaseSnapshot \/ NewIterator \/ CleanupIterator \/ Reschedule
         \/ NothingToDo \/ BeginFlush \/ BuildTable \/ BuildTableFails \/ BeginCompaction \/ WriteOutput \/ Merge \/ MergeFails \/ InstallFails
         \/ UNCHANGED vars
  PROVE  HeldInv'
<1>1. CASE AddRecord
  <2>1. UNCHANGED <<mem, imm, logfile, logNumber, up>>
    BY <1>1 DEF AddRecord, memory_, files_
  <2>2. \A log : Logged(logs, log) \subseteq Logged(logs', log)
    BY <1>1, RecordedLogs DEF TypesInv
  <2> QED
    BY <2>1, <2>2, HeldFrame
<1>2. CASE \/ \E w \in Writes : Write(w)
           \/ LeadFails \/ Sync \/ Publish \/ WriteFails
           \/ GetSnapshot \/ ReleaseSnapshot \/ NewIterator \/ CleanupIterator \/ Reschedule
  <2>1. UNCHANGED <<mem, imm, logfile, logNumber, logs, up>>
    BY <1>2 DEF Write, LeadFails, Sync, Publish, WriteFails, GetSnapshot, ReleaseSnapshot, NewIterator,
       CleanupIterator, Reschedule, Return, disk_, memory_, files_
  <2> QED
    BY <2>1, HeldFrame
<1>3. CASE \/ NothingToDo \/ BeginFlush \/ BuildTable \/ BuildTableFails \/ BeginCompaction \/ WriteOutput \/ Merge \/ MergeFails
           \/ UNCHANGED vars
  <2>1. UNCHANGED <<mem, imm, logfile, logNumber, logs, up>>
    BY <1>3 DEF NothingToDo, BeginFlush, BuildTable, BuildTableFails, BeginCompaction, WriteOutput, Merge, MergeFails,
       DeleteObsoleteFiles, CannotTell, vars, disk_, memory_, files_
  <2> QED
    BY <2>1, HeldFrame
<1>4. CASE InstallFails
  <2>1. UNCHANGED <<mem, imm, logfile, logNumber, logs, up>>
    BY <1>4 DEF InstallFails, DeleteObsoleteFiles, CannotTell, memory_, files_
  <2> QED
    BY <2>1, HeldFrame
<1> QED
  BY <1>1, <1>2, <1>3, <1>4

\* A memory table that waits keeps its log, and the new one is empty.
LEMMA LeadHeld == ASSUME TypesInv, HeldInv, Lead PROVE HeldInv'
<1>1. up = "open" /\ (HasRoom \/ SwitchMemTable) /\ UNCHANGED <<up, logNumber>>
  BY DEF Lead, files_
<1>2. CASE HasRoom
  <2>1. UNCHANGED <<mem, imm, logfile, logs>>
    BY <1>2 DEF HasRoom, memory_
  <2> QED
    BY <1>1, <2>1, HeldFrame
<1>3. CASE SwitchMemTable
  <2>1. imm' = mem /\ mem' = {} /\ logs' = Over([n \in {nextFile} |-> <<>>], logs)
    BY <1>3 DEF SwitchMemTable
  <2>2. \A n \in DOMAIN logs : n \in Nat /\ n < nextFile
    BY <1>1, LogfileIsNat DEF TypesInv, SyncInv, Latest
  <2>3. \A n \in DOMAIN logs : n \in DOMAIN logs' /\ logs'[n] = logs[n]
    BY <2>1, <2>2 DEF Over
  <2>4. \A log : Logged(logs, log) \subseteq Logged(logs', log)
    BY <2>3 DEF Logged
  <2>5. Logged(logs, logfile) \subseteq Logged(logs, logNumber)
    <3>1. logfile \in Nat /\ logNumber \in Nat /\ logNumber <= logfile
      BY <1>1, LogfileIsNat DEF TypesInv, SyncInv, Latest, Numbers
    <3>2. \A n \in DOMAIN logs : n >= logfile => n >= logNumber
      BY <2>2, <3>1
    <3> QED
      BY <3>2 DEF Logged
  <2> QED
    BY <1>1, <2>1, <2>4, <2>5 DEF HeldInv
<1> QED
  BY <1>1, <1>2, <1>3

\* The group that is inserted was logged.
LEMMA InsertIntoHeld == ASSUME TypesInv, HeldInv, InsertInto PROVE HeldInv'
<1>1. stage = "insert" /\ mem' = mem \cup GroupEntries /\ UNCHANGED <<logs, imm, logfile, logNumber, up>>
  BY DEF InsertInto, disk_, files_
<1>2. up = "open"
  BY <1>1, LeaderAtWork DEF TypesInv
<1>3. GroupEntries \subseteq Logged(logs, logfile)
  <2>1. logfile \in Nat
    BY <1>2, LogfileIsNat DEF TypesInv
  <2> QED
    BY <1>1, <2>1, GroupLogged DEF TypesInv, HasRecord
<1> QED
  BY <1>1, <1>2, <1>3 DEF HeldInv

\* Install deletes no log that is still needed.
LEMMA InstallHeld == ASSUME TypesInv, LogsInv, HeldInv, Install PROVE HeldInv'
<1>1. /\ up = "open" /\ bg.at = "edit" /\ UNCHANGED <<up, mem, logfile>>
      /\ logNumber' = bg.edit.log /\ imm' = IF Flushing THEN None ELSE imm
  BY ThreadIsOpen DEF Install, TypesInv
<1>2. /\ bg.edit.log \in Nat
      /\ \A from \in Nat : \/ Logged(logs', from) = Logged(logs, from)
                           \/ ~(from >= bg.edit.log) /\ Logged(logs', from) = Logged(logs, bg.edit.log)
  BY InstallLeaves
<1>3. logfile \in Nat /\ bg.edit.log <= logfile
  BY <1>1, LogfileIsNat DEF TypesInv, SyncInv, Latest
<1>4. Logged(logs', logfile) = Logged(logs, logfile) /\ Logged(logs', bg.edit.log) = Logged(logs, bg.edit.log)
  BY <1>2, <1>3
<1>5. ~Flushing => bg.edit.log = logNumber
  BY <1>1 DEF LogsInv, Flushing
<1> QED
  BY <1>1, <1>4, <1>5 DEF HeldInv

\* Every step.
LEMMA HeldStep == ASSUME TypesInv, AgesInv, LogsInv, HeldInv, [Next]_vars PROVE HeldInv'
<1>1. CASE up' # "open"
  BY <1>1 DEF HeldInv
<1>2. CASE /\ up' = "open"
           /\ \/ \E w \in Writes : Write(w)
              \/ LeadFails \/ AddRecord \/ Sync \/ Publish \/ WriteFails
              \/ GetSnapshot \/ ReleaseSnapshot \/ NewIterator \/ CleanupIterator \/ Reschedule
              \/ NothingToDo \/ BeginFlush \/ BuildTable \/ BuildTableFails \/ BeginCompaction \/ WriteOutput \/ Merge \/ MergeFails \/ InstallFails
              \/ UNCHANGED vars
  BY <1>2, OthersHeld
<1>3. CASE Lead
  BY <1>3, LeadHeld
<1>4. CASE InsertInto
  BY <1>4, InsertIntoHeld
<1>5. CASE Install
  BY <1>5, InstallHeld
<1>6. CASE Open
  <2>1. UNCHANGED <<mem, imm>> /\ up = "replayed"
    BY <1>6 DEF Open
  <2>2. mem' = {} /\ imm' = None
    BY <2>1 DEF AgesInv
  <2> QED
    BY <2>2 DEF HeldInv
<1>7. CASE Crash \/ RecoverLogs
  BY <1>7 DEF Crash, RecoverLogs, HeldInv
<1> QED
  BY <1>1, <1>2, <1>3, <1>4, <1>5, <1>6, <1>7 DEF Next

\* The memory tables come after what the tables before them were made of.
LEMMA MemoryIsNewer ==
  ASSUME TypesInv, LogsInv, HeldInv, up = "open"
  PROVE  /\ Older(Before(truth, logs, logfile), mem)
         /\ imm # None => Older(Before(truth, logs, logNumber), imm)
<1>1. logfile \in Nat /\ logNumber \in Nat
  BY LogfileIsNat DEF TypesInv, SyncInv, Latest, Numbers
<1>2. \A log \in Nat : Older(Before(truth, logs, log), Logged(logs, log))
  BY DEF LogsInv
<1>3. mem \subseteq Logged(logs, logfile) /\ (imm # None => imm \subseteq Logged(logs, logNumber))
  BY DEF HeldInv
<1>4. Older(Before(truth, logs, logfile), Logged(logs, logfile)) /\ Older(Before(truth, logs, logNumber), Logged(logs, logNumber))
  BY <1>1, <1>2
<1> QED
  BY <1>3, <1>4 DEF Older

\* A new database has empty ones.
LEMMA HeldInit == ASSUME Init PROVE HeldInv
BY DEF Init, HeldInv

-----------------------------------------------------------------------------
(* What the tables have kept, one step per action.                         *)

\* What was written has numbers of its own.
LEMMA WrittenUnique ==
  ASSUME TypesInv, LogsInv
  PROVE  /\ truth \subseteq Entry /\ Unique(truth)
         /\ \A log : Before(truth, logs, log) \subseteq truth
<1>1. truth \subseteq Entry
  BY DEF TypesInv, EntriesInv
<1>2. Unique(truth)
  BY DEF LogsInv, Unique
<1> QED
  BY <1>1, <1>2 DEF Before

\* The writers change only what the log in use says, and what was written with it.
LEMMA WritersBefore ==
  ASSUME TypesInv, LogsInv, up = "open", Lead \/ AddRecord \/ Publish \/ WriteFails
  PROVE  \A log \in Nat : log <= logfile => Before(truth', logs', log) = Before(truth, logs, log)
<1>1. logfile \in Nat /\ \A n \in DOMAIN logs : n \in Nat /\ n < nextFile
  BY LogfileIsNat DEF TypesInv, SyncInv, Latest
<1>2. CASE Lead
  <2>1. UNCHANGED truth /\ (HasRoom \/ SwitchMemTable)
    BY <1>2 DEF Lead, written_
  <2>2. CASE HasRoom
    BY <2>1, <2>2 DEF HasRoom
  <2>3. CASE SwitchMemTable
    <3>1. logs' = Over([n \in {nextFile} |-> <<>>], logs)
      BY <2>3 DEF SwitchMemTable
    <3>2. nextFile \in Nat
      BY NumbersTyped DEF TypesInv
    <3>3. /\ DOMAIN logs' = DOMAIN logs \cup {nextFile} /\ logs'[nextFile] = <<>>
          /\ \A n \in DOMAIN logs : logs'[n] = logs[n]
      BY <1>1, <3>1, <3>2 DEF Over
    <3>4. UNION ToSet(logs'[nextFile]) = {}
      BY <3>3 DEF ToSet
    <3>5. \A log : Logged(logs', log) = Logged(logs, log)
      BY <3>3, <3>4 DEF Logged
    <3> QED
      BY <2>1, <3>5 DEF Before
  <2> QED
    BY <2>1, <2>2, <2>3
<1>3. CASE AddRecord
  <2>1. stage = "append" /\ UNCHANGED truth
    BY <1>3 DEF AddRecord, written_
  <2>2. \A log : Logged(logs, log) \subseteq Logged(logs', log) /\ Logged(logs', log) \subseteq Logged(logs, log) \cup GroupEntries
    BY <1>3, RecordedLogs DEF TypesInv
  <2>3. \A e \in truth : e \notin GroupEntries
    <3> TAKE e \in truth
    <3>1. e.seq \in Nat /\ lastSeq \in Nat /\ e.seq <= lastSeq
      <4>1. truth \subseteq Entry /\ UpTo(truth, lastSeq)
        BY DEF TypesInv, EntriesInv, LogsInv
      <4> QED
        BY <4>1, EntryNumbers, StoredTyped DEF UpTo
    <3>2. e \in GroupEntries => lastSeq < e.seq
      BY <2>1, LeaderAtWork DEF TypesInv
    <3> QED
      BY <3>1, <3>2
  <2> QED
    BY <2>1, <2>2, <2>3 DEF Before
<1>4. CASE Publish \/ WriteFails
  <2>1. logs' = logs /\ (truth' = truth \/ (stage = "publish" /\ truth' = truth \cup GroupEntries))
    BY <1>4 DEF Publish, WriteFails, disk_, written_
  <2> TAKE log \in Nat
  <2> HAVE log <= logfile
  <2>2. stage = "publish" => GroupEntries \subseteq Logged(logs, log)
    BY GroupLogged DEF TypesInv, HasRecord
  <2> QED
    BY <2>1, <2>2 DEF Before
<1> QED
  BY <1>2, <1>3, <1>4

\* Steps of an open database that leave the version and the manifest alone.
LEMMA KeptFrame ==
  ASSUME TypesInv, LogsInv, KeptInv, [Next]_vars, up = "open", up' = "open",
         UNCHANGED <<version, manifest, logNumber>>,
         Agree(version, tables, tables'), \A m \in manifest : Agree(m.version, tables, tables'),
         \A log \in Nat : log <= logfile => Before(truth', logs', log) = Before(truth, logs, log),
         bg'.at = "edit" =>
           \/ UNCHANGED <<bg, tables>>
           \/ /\ Kept(Stored(Edited(version, bg'.edit), tables'), Before(truth', logs', bg'.edit.log), Least')
              /\ Kept(Stored(Edited(version, bg'.edit), tables'), Before(truth', logs', bg'.edit.log), bg'.edit.seq)
  PROVE  KeptInv'
<1>1. Least \in Nat /\ Least' \in Nat /\ Least <= Least'
  BY LeastStep
<1>2. /\ logNumber \in Nat /\ logNumber <= logfile
      /\ \A m \in manifest : m.log \in Nat /\ m.log <= logfile
      /\ bg.at = "edit" => bg.edit.log \in Nat /\ bg.edit.log <= logfile
  BY DEF TypesInv, SyncInv, Numbers, Latest
<1>3. /\ Stored(version, tables') = Stored(version, tables)
      /\ \A m \in manifest : Stored(m.version, tables') = Stored(m.version, tables)
  BY NewerFrame
<1>4. \A A, B : Kept(A, B, Least) => Kept(A, B, Least')
  BY <1>1, KeptLater
<1>5. Kept(Stored(version', tables'), Before(truth', logs', logNumber'), Least')
  BY <1>2, <1>3, <1>4 DEF KeptInv
<1>6. \A m \in manifest' : Kept(Stored(m.version, tables'), Before(truth', logs', m.log), m.seq)
  BY <1>2, <1>3 DEF KeptInv
<1>7. bg'.at = "edit" =>
        /\ Kept(Stored(Edited(version', bg'.edit), tables'), Before(truth', logs', bg'.edit.log), Least')
        /\ Kept(Stored(Edited(version', bg'.edit), tables'), Before(truth', logs', bg'.edit.log), bg'.edit.seq)
  <2>1. CASE UNCHANGED <<bg, tables>>
    BY <1>2, <1>4, <2>1 DEF KeptInv
  <2>2. CASE ~UNCHANGED <<bg, tables>>
    BY <2>2
  <2> QED
    BY <2>1, <2>2
<1> QED
  BY <1>5, <1>6, <1>7 DEF KeptInv

\* Writers.
LEMMA WritersKept ==
  ASSUME TypesInv, LogsInv, KeptInv,
         \/ \E w \in Writes : Write(w)
         \/ Lead \/ LeadFails \/ AddRecord \/ Sync \/ InsertInto \/ Publish \/ WriteFails
  PROVE  KeptInv'
<1>1. UNCHANGED <<tables, version, bg, up, manifest, logNumber>>
  BY DEF Write, Lead, LeadFails, AddRecord, Sync, InsertInto, Publish, WriteFails, disk_, files_, thread_
<1>2. [Next]_vars
  BY DEF Next
<1>3. up = "open"
  <2>1. AddRecord \/ Sync \/ InsertInto \/ Publish \/ WriteFails => stage # "idle"
    BY DEF AddRecord, Sync, InsertInto, Publish, WriteFails
  <2>2. stage # "idle" => up = "open"
    BY LeaderAtWork DEF TypesInv
  <2> QED
    BY <2>1, <2>2 DEF Write, Lead, LeadFails
<1>4. Agree(version, tables, tables') /\ \A m \in manifest : Agree(m.version, tables, tables')
  BY <1>1 DEF Agree
<1>5. \A log \in Nat : log <= logfile => Before(truth', logs', log) = Before(truth, logs, log)
  <2>1. CASE Lead \/ AddRecord \/ Publish \/ WriteFails
    BY <1>3, <2>1, WritersBefore
  <2>2. CASE (\E w \in Writes : Write(w)) \/ LeadFails \/ Sync \/ InsertInto
    <3>1. UNCHANGED <<truth, logs>>
      BY <2>2 DEF Write, LeadFails, Sync, InsertInto, disk_, written_
    <3> QED
      BY <3>1
  <2> QED
    BY <2>1, <2>2
<1> QED
  BY <1>1, <1>2, <1>3, <1>4, <1>5, KeptFrame

\* Readers, and steps of the thread that come to no edit.
LEMMA OthersKept ==
  ASSUME TypesInv, LogsInv, KeptInv,
         \/ GetSnapshot \/ ReleaseSnapshot \/ NewIterator \/ CleanupIterator \/ Reschedule
         \/ NothingToDo \/ BeginFlush \/ BuildTableFails \/ MergeFails
         \/ UNCHANGED vars
  PROVE  KeptInv'
<1>1. UNCHANGED <<tables, version, up, manifest, logNumber, logs, truth, lastSeq>>
  <2>1. CASE GetSnapshot \/ ReleaseSnapshot \/ NewIterator \/ CleanupIterator \/ Reschedule \/ UNCHANGED vars
    BY <2>1 DEF GetSnapshot, ReleaseSnapshot, NewIterator, CleanupIterator, Reschedule, vars, disk_, files_, written_
  <2>2. CASE NothingToDo \/ BeginFlush \/ BuildTableFails \/ MergeFails
    BY <2>2 DEF NothingToDo, BeginFlush, BuildTableFails, MergeFails, DeleteObsoleteFiles, CannotTell, disk_, files_, written_
  <2> QED
    BY <2>1, <2>2
<1>2. bg'.at = "edit" => UNCHANGED bg
  <2>1. CASE GetSnapshot \/ ReleaseSnapshot \/ NewIterator \/ CleanupIterator \/ Reschedule \/ UNCHANGED vars
    BY <2>1 DEF GetSnapshot, ReleaseSnapshot, NewIterator, CleanupIterator, Reschedule, vars, thread_
  <2>2. CASE BeginFlush
    <3>1. bg' = [bg EXCEPT !.at = "build", !.file = nextFile] /\ bg \in ThreadRecord
      BY <2>2 DEF BeginFlush, TypesInv, TablesInv, ThreadInv
    <3> QED
      BY <3>1 DEF ThreadRecord
  <2>3. CASE NothingToDo \/ BuildTableFails \/ MergeFails
    BY <2>3, CallEnds DEF TypesInv, Idle
  <2> QED
    BY <2>1, <2>2, <2>3
<1>3. CASE up = "open"
  <2>1. [Next]_vars
    BY DEF Next
  <2>2. Agree(version, tables, tables') /\ \A m \in manifest : Agree(m.version, tables, tables')
    BY <1>1 DEF Agree
  <2> QED
    BY <1>1, <1>2, <1>3, <2>1, <2>2, KeptFrame
<1>4. CASE up # "open"
  <2>1. bg'.at # "edit"
    BY <1>2, <1>4 DEF TypesInv, TablesInv, Idle
  <2> QED
    BY <1>1, <1>4, <2>1 DEF KeptInv
<1> QED
  BY <1>3, <1>4

\* A flush's table has the newest entries, and they are no longer in the logs that count.
LEMMA BuildTableKept == ASSUME TypesInv, LogsInv, MemInv, HeldInv, KeptInv, BuildTable PROVE KeptInv'
<1>1. PICK p \in Nat, lo \in Key, hi \in Key :
           /\ up = "open" /\ bg.at = "build" /\ bg'.at = "edit" /\ bg'.file = bg.file /\ bg'.comp = bg.comp
           /\ bg'.edit.add = [f \in {bg.file} |-> p] /\ bg'.edit.drop = {}
           /\ bg'.edit.log = logfile /\ bg'.edit.seq = lastSeq
           /\ UNCHANGED <<manifest, up, version, bgError>>
           /\ bg.file # 0 /\ bg.file \notin DOMAIN version
           /\ imm # None /\ tables'[bg.file] = imm
           /\ Agree(version, tables, tables') /\ \A m \in manifest : Agree(m.version, tables, tables')
           /\ Filled(tables', DOMAIN version \cup {bg.file})
           /\ lo <= hi /\ \A d \in imm : lo <= d.key /\ d.key <= hi
           /\ p > 0 => \A f \in DOMAIN version : version[f] <= p => Above(tables'[f], hi) \/ Below(tables'[f], lo)
  BY BuildTableMakes
<1>2. UNCHANGED <<truth, logs, logNumber, logfile>>
  BY DEF BuildTable, memory_, files_, written_
<1>3. Stored(Edited(version, bg'.edit), tables') = Stored(version, tables) \cup imm
  <2>1. DOMAIN Edited(version, bg'.edit) = DOMAIN version \cup {bg.file}
    BY <1>1 DEF Edited
  <2>2. Stored(version, tables') = Stored(version, tables)
    BY <1>1, NewerFrame
  <2> QED
    BY <1>1, <2>1, <2>2 DEF Stored, Entries
<1>4. Before(truth, logs, logfile) = Before(truth, logs, logNumber) \cup imm
  BY <1>1 DEF MemInv
<1>5. Kept(Stored(version, tables), Before(truth, logs, logNumber), Least)
  BY <1>1 DEF KeptInv
<1>6. Older(Before(truth, logs, logNumber), imm)
  BY <1>1, MemoryIsNewer
<1>7. Before(truth, logs, logfile) \subseteq Entry /\ Unique(Before(truth, logs, logfile))
  BY WrittenUnique DEF Unique
<1>8. Kept(Stored(version, tables) \cup imm, Before(truth, logs, logNumber) \cup imm, Least)
  BY <1>4, <1>5, <1>6, <1>7, KeptWithNewer
<1>9. [Next]_vars
  BY DEF Next
<1>10. Least \in Nat /\ Least' \in Nat /\ Least <= Least' /\ lastSeq \in Nat /\ Least <= lastSeq
  BY <1>1, <1>9, LeastStep, StoredTyped DEF LogsInv
<1>11. \A A, B : Kept(A, B, Least) => Kept(A, B, Least') /\ Kept(A, B, lastSeq)
  BY <1>10, KeptLater
<1>12. /\ Kept(Stored(Edited(version, bg'.edit), tables'), Before(truth', logs', bg'.edit.log), Least')
       /\ Kept(Stored(Edited(version, bg'.edit), tables'), Before(truth', logs', bg'.edit.log), bg'.edit.seq)
  BY <1>1, <1>2, <1>3, <1>4, <1>8, <1>11
<1> QED
  BY <1>1, <1>2, <1>9, <1>12, KeptFrame

\* A table that moves is still there.
LEMMA BeginCompactionKept == ASSUME TypesInv, LogsInv, KeptInv, BeginCompaction PROVE KeptInv'
<1>1. /\ up = "open" /\ UNCHANGED <<version, tables, manifest, logs, lastSeq, logNumber, truth, snapshot, up>>
      /\ \/ \E f \in DOMAIN version :
              /\ bg'.edit.add = [g \in {f} |-> version[f] + 1] /\ bg'.edit.drop = {}
              /\ bg'.edit.log = logNumber /\ bg'.edit.seq = lastSeq
         \/ bg'.at = "merge"
  BY BeginCompactionBegins
<1>2. Least' = Least
  BY <1>1 DEF Least
<1>3. Least \in Nat /\ lastSeq \in Nat /\ Least <= lastSeq
  <2>1. [Next]_vars
    BY DEF Next
  <2> QED
    BY <1>1, <2>1, LeastStep, StoredTyped DEF LogsInv
<1>4. Kept(Stored(version, tables), Before(truth, logs, logNumber), Least)
  BY <1>1 DEF KeptInv
<1>5. Kept(Stored(version, tables), Before(truth, logs, logNumber), lastSeq)
  BY <1>3, <1>4, KeptLater
<1>6. ASSUME bg'.at = "edit"
      PROVE  /\ Kept(Stored(Edited(version, bg'.edit), tables'), Before(truth', logs', bg'.edit.log), Least')
             /\ Kept(Stored(Edited(version, bg'.edit), tables'), Before(truth', logs', bg'.edit.log), bg'.edit.seq)
  <2>1. PICK f \in DOMAIN version :
          /\ bg'.edit.add = [g \in {f} |-> version[f] + 1] /\ bg'.edit.drop = {}
          /\ bg'.edit.log = logNumber /\ bg'.edit.seq = lastSeq
    BY <1>1, <1>6
  <2>2. DOMAIN Edited(version, bg'.edit) = DOMAIN version
    BY <2>1 DEF Edited
  <2>3. Stored(Edited(version, bg'.edit), tables) = Stored(version, tables)
    BY <2>2 DEF Stored
  <2> QED
    BY <1>1, <1>2, <1>4, <1>5, <2>1, <2>3
<1>7. Agree(version, tables, tables') /\ \A m \in manifest : Agree(m.version, tables, tables')
  BY <1>1 DEF Agree
<1> QED
  BY <1>1, <1>6, <1>7, KeptFrame DEF Next

\* An output more is no table of the version.
LEMMA WriteOutputKept == ASSUME TypesInv, LogsInv, KeptInv, WriteOutput PROVE KeptInv'
<1>1. /\ up = "open" /\ UNCHANGED <<up, version, manifest>> /\ bg'.at # "edit"
      /\ Agree(version, tables, tables') /\ \A m \in manifest : Agree(m.version, tables, tables')
  BY WriteOutputAdds
<1>2. UNCHANGED <<truth, logs, logNumber>>
  BY DEF WriteOutput, files_, written_
<1> QED
  BY <1>1, <1>2, KeptFrame DEF Next

\* A merge drops what nobody reads any more.
LEMMA MergeKept ==
  ASSUME TypesInv, LevelsInv, NewerInv, LogsInv, DeepInv, KeptInv, Merge PROVE KeptInv'
<1>1. PICK new :
           /\ up = "open" /\ bg.at = "merge" /\ bg'.at = "edit" /\ bg'.file = 0
           /\ bg'.edit.add = [f \in new |-> bg.comp.level + 1]
           /\ bg'.edit.drop = bg.comp.in0 \cup bg.comp.in1
           /\ bg'.edit.log = logNumber /\ bg'.edit.seq = lastSeq
           /\ UNCHANGED <<manifest, up, version, bgError>>
           /\ new \cap DOMAIN version = {}
           /\ Agree(version, tables, tables') /\ \A m \in manifest : Agree(m.version, tables, tables')
           /\ \A f \in new : /\ f \in Nat /\ tables'[f] \subseteq Entry
                             /\ tables'[f] \subseteq Entries(tables, bg.comp.in0 \cup bg.comp.in1)
           /\ \A f, g \in new : f # g => OneSide(tables'[f], tables'[g])
           /\ ~Cut => \A f, g \in new : f # g => \A d \in tables'[f], e \in tables'[g] : d.key # e.key
  BY MergeMakes
<1>2. UNCHANGED <<truth, logs, logNumber, logfile, snapshot, lastSeq>>
  BY DEF Merge, disk_, memory_, files_, readers_, written_
<1>3. [Next]_vars
  BY DEF Next
<1>4. Least \in Nat /\ lastSeq \in Nat /\ Least <= lastSeq
  BY <1>1, <1>3, LeastStep, StoredTyped DEF LogsInv
<1>5. Kept(Stored(version, tables), Before(truth, logs, logNumber), Least)
  BY <1>1 DEF KeptInv
<1>6. Unique(Stored(version, tables))
  BY <1>5, WrittenUnique DEF Kept, Unique
<1>7. Filled(tables, DOMAIN version) /\ \A f \in DOMAIN version : version[f] \in Nat
  BY TablesFilled
<1>8. MergeOK(bg.comp, version, tables, Least) /\ Fits(bg.comp, version, tables) /\ bg.comp.level \in Nat
  BY <1>1 DEF DeepInv, NewerInv, TypesInv, FilesInv
<1>9. Newer(version, tables)
  BY DEF NewerInv, SmallerLevelIsNewer, Newer
<1>10. Entries(tables', DOMAIN bg'.edit.add) = Undropped(bg.comp, tables)
  BY MergeWrites
<1>11. DOMAIN bg'.edit.add \cap DOMAIN version = {}
  BY <1>1
<1>12. Kept(Stored(Edited(version, bg'.edit), tables'), Stored(version, tables), Least)
  <2>1. bg.comp.oldest \in Nat /\ bg.comp.oldest <= Least /\ Filled(tables, DOMAIN bg.comp.base)
        /\ (\A f \in DOMAIN bg.comp.base : bg.comp.base[f] \in Nat) /\ Deep(bg.comp, version, tables)
    BY <1>8 DEF MergeOK
  <2>2. bg'.edit.drop = bg.comp.in0 \cup bg.comp.in1 /\ Agree(version, tables, tables')
    BY <1>1
  <2> QED
    BY <1>4, <1>6, <1>7, <1>8, <1>9, <1>10, <1>11, <2>1, <2>2, MergeKeeps
<1>13. Kept(Stored(Edited(version, bg'.edit), tables'), Before(truth, logs, logNumber), Least)
  BY <1>5, <1>12, KeptTwice
<1>14. Kept(Stored(Edited(version, bg'.edit), tables'), Before(truth, logs, logNumber), lastSeq)
  BY <1>4, <1>13, KeptLater
<1>15. Least' = Least
  BY <1>2 DEF Least
<1> QED
  BY <1>1, <1>2, <1>3, <1>13, <1>14, <1>15, KeptFrame

\* The version and the manifest are what the edit made of them.
LEMMA InstallKept == ASSUME TypesInv, TypesInv', LevelsInv, LogsInv, KeptInv, Install PROVE KeptInv'
<1>1. /\ up = "open" /\ up' = "open" /\ bg.at = "edit" /\ UNCHANGED <<lastSeq, truth, snapshot>>
      /\ version' = Edited(version, bg.edit) /\ logNumber' = bg.edit.log
      /\ \A m \in manifest' : m.version = version' /\ m.seq = bg.edit.seq /\ m.log = bg.edit.log
      /\ Stored(version', tables') = Stored(version', tables)
      /\ bg' = Idle \/ bg'.at = "merge"
  BY InstallDoes
<1>2. Logged(logs', bg.edit.log) = Logged(logs, bg.edit.log)
  BY InstallLeaves
<1>3. Before(truth', logs', bg.edit.log) = Before(truth, logs, bg.edit.log)
  BY <1>1, <1>2 DEF Before
<1>4. /\ Kept(Stored(version', tables'), Before(truth, logs, bg.edit.log), Least)
      /\ Kept(Stored(version', tables'), Before(truth, logs, bg.edit.log), bg.edit.seq)
  BY <1>1 DEF KeptInv
<1>5. Least' = Least /\ bg'.at # "edit"
  BY <1>1 DEF Least, Idle
<1> QED
  BY <1>1, <1>3, <1>4, <1>5 DEF KeptInv

\* The manifest may say either.
LEMMA InstallFailsKept == ASSUME TypesInv, LevelsInv, KeptInv, InstallFails PROVE KeptInv'
<1>1. /\ up = "open" /\ up' = "open" /\ bg.at = "edit"
      /\ UNCHANGED <<version, tables, logs, lastSeq, logNumber, truth, snapshot>>
      /\ \A m \in manifest' : \/ m \in manifest
                              \/ m.version = Edited(version, bg.edit) /\ m.seq = bg.edit.seq /\ m.log = bg.edit.log
      /\ bg'.at # "edit"
  BY InstallFailsDoes
<1>2. Kept(Stored(version', tables'), Before(truth', logs', logNumber'), Least')
  BY <1>1 DEF KeptInv, Least
<1>3. \A m \in manifest' : Kept(Stored(m.version, tables'), Before(truth', logs', m.log), m.seq)
  BY <1>1 DEF KeptInv
<1> QED
  BY <1>1, <1>2, <1>3 DEF KeptInv

\* A crash leaves a state of the manifest, or what the edit makes of it.
LEMMA CrashKept == ASSUME TypesInv, LevelsInv, AgesInv, KeptInv, Crash PROVE KeptInv'
<1>1. PICK m :
        /\ manifest' = {m}
        /\ \/ m \in manifest
           \/ /\ up = "open" /\ bg.at = "edit"
              /\ m.version = Edited(version, bg.edit) /\ m.seq = bg.edit.seq /\ m.log = bg.edit.log
        /\ up' = "closed" /\ bg' = Idle /\ UNCHANGED tables
        /\ Before(truth', logs', m.log) = Before(truth, logs, m.log)
  BY CrashLeaves
<1>2. Kept(Stored(m.version, tables), Before(truth, logs, m.log), m.seq)
  BY <1>1 DEF KeptInv
<1> QED
  BY <1>1, <1>2 DEF KeptInv, Idle

\* The logs' tables hold all that was not in the manifest's.
LEMMA RecoverLogsKept == ASSUME TypesInv, LevelsInv, LogsInv, KeptInv, RecoverLogs PROVE KeptInv'
<1>1. PICK m \in manifest : \E files :
        /\ up = "closed" /\ up' = "replayed" /\ UNCHANGED <<manifest, bg, logs, truth, snapshot>>
        /\ \A d \in manifest : d = m
        /\ DOMAIN version' = DOMAIN m.version \cup files
        /\ \A f \in DOMAIN m.version : version'[f] = m.version[f]
        /\ Agree(m.version, tables, tables')
        /\ m.seq <= lastSeq'
        /\ \A f \in DOMAIN m.version, g \in files : f < g
        /\ Entries(tables', files) = Logged(logs, m.log)
        /\ \A f, g \in files : f < g => Older(tables'[f], tables'[g])
  BY RecoverLogsReplays
<1>2. PICK files :
        /\ up = "closed" /\ up' = "replayed" /\ UNCHANGED <<manifest, bg, logs, truth, snapshot>>
        /\ \A d \in manifest : d = m
        /\ DOMAIN version' = DOMAIN m.version \cup files
        /\ Agree(m.version, tables, tables')
        /\ m.seq <= lastSeq'
        /\ Entries(tables', files) = Logged(logs, m.log)
  BY <1>1
<1>3. Stored(m.version, tables') = Stored(m.version, tables)
  BY <1>2, NewerFrame
<1>4. Stored(version', tables') = Stored(m.version, tables) \cup Logged(logs, m.log)
  BY <1>2, <1>3 DEF Stored, Entries
<1>5. /\ Logged(logs, m.log) \subseteq truth
      /\ Older(Before(truth, logs, m.log), Logged(logs, m.log))
  BY <1>2 DEF LogsInv
<1>6. truth = Before(truth, logs, m.log) \cup Logged(logs, m.log)
  BY <1>5 DEF Before
<1>7. Kept(Stored(m.version, tables), Before(truth, logs, m.log), m.seq)
  BY DEF KeptInv
<1>8. truth \subseteq Entry /\ Unique(truth)
  BY WrittenUnique
<1>9. Kept(Stored(version', tables'), truth, m.seq)
  <2> DEFINE B == Before(truth, logs, m.log)
             N == Logged(logs, m.log)
  <2>1. B \cup N \subseteq Entry /\ Unique(B \cup N) /\ Older(B, N) /\ Kept(Stored(m.version, tables), B, m.seq)
    BY <1>5, <1>6, <1>7, <1>8
  <2> HIDE DEF B, N
  <2>2. Kept(Stored(m.version, tables) \cup N, B \cup N, m.seq)
    BY <2>1, KeptWithNewer
  <2> QED
    BY <1>4, <1>6, <2>2 DEF B, N
<1>10. m.seq \in Nat /\ lastSeq' \in Nat
  <2>1. lastSeq' \in Nat
    BY RecoverLogsMakes
  <2> QED
    BY <2>1, StoredTyped
<1>11. Kept(Stored(version', tables'), truth, lastSeq')
  BY <1>2, <1>9, <1>10, KeptLater
<1>12. \A d \in manifest' : Kept(Stored(d.version, tables'), Before(truth', logs', d.log), d.seq)
  BY <1>2, <1>3, <1>7
<1>13. bg'.at # "edit"
  BY <1>2 DEF TypesInv, TablesInv, Idle
<1> QED
  BY <1>2, <1>11, <1>12, <1>13 DEF KeptInv

\* The new log is empty, and the tables have it all.
LEMMA OpenKept == ASSUME TypesInv, LogsInv, KeptInv, Open PROVE KeptInv'
<1>1. /\ up = "replayed" /\ up' = "open" /\ UNCHANGED <<bg, version, lastSeq, truth, snapshot>>
      /\ \A m \in manifest' : m.version = version /\ m.seq = lastSeq
      /\ logs' = [n \in {nextFile} |-> <<>>] /\ tables' = Restrict(tables, DOMAIN version)
  BY DEF Open, readers_, written_
<1>2. \A log : Logged(logs', log) = {}
  BY <1>1 DEF Logged, ToSet
<1>3. \A log : Before(truth', logs', log) = truth
  BY <1>1, <1>2 DEF Before
<1>4. Agree(version, tables, tables')
  BY <1>1 DEF Agree, Restrict
<1>5. Stored(version, tables') = Stored(version, tables)
  BY <1>4, NewerFrame
<1>6. Kept(Stored(version, tables), truth, lastSeq)
  BY <1>1 DEF KeptInv
<1>7. Least' = lastSeq
  BY <1>1 DEF LogsInv, Least
<1>8. bg'.at # "edit"
  BY <1>1 DEF TypesInv, TablesInv, Idle
<1> QED
  BY <1>1, <1>3, <1>5, <1>6, <1>7, <1>8 DEF KeptInv

\* A new database has nothing.
LEMMA KeptInit == ASSUME Init PROVE KeptInv
<1>1. /\ up = "open" /\ bg.at = "idle" /\ truth = {} /\ version = NoFiles
      /\ \A m \in manifest : m.version = NoFiles
  BY DEF Init, Idle
<1>2. Stored(NoFiles, tables) = {}
  BY DEF Stored, Entries, NoFiles
<1>3. \A log : Before(truth, logs, log) = {}
  BY <1>1 DEF Before
<1>4. \A w : Kept({}, {}, w)
  BY KeptSelf
<1> QED
  BY <1>1, <1>2, <1>3, <1>4 DEF KeptInv

\* Every step.
LEMMA KeptStep ==
  ASSUME TypesInv, TypesInv', LevelsInv, AgesInv, NewerInv, LogsInv, MemInv, HeldInv, DeepInv, KeptInv, [Next]_vars
  PROVE  KeptInv'
<1>1. CASE \/ \E w \in Writes : Write(w)
           \/ Lead \/ LeadFails \/ AddRecord \/ Sync \/ InsertInto \/ Publish \/ WriteFails
  BY <1>1, WritersKept
<1>2. CASE \/ GetSnapshot \/ ReleaseSnapshot \/ NewIterator \/ CleanupIterator \/ Reschedule
           \/ NothingToDo \/ BeginFlush \/ BuildTableFails \/ MergeFails
           \/ UNCHANGED vars
  BY <1>2, OthersKept
<1>3. CASE BuildTable
  BY <1>3, BuildTableKept
<1>4. CASE BeginCompaction
  BY <1>4, BeginCompactionKept
<1>5. CASE WriteOutput \/ Merge
  BY <1>5, WriteOutputKept, MergeKept
<1>6. CASE Install
  BY <1>6, InstallKept
<1>7. CASE InstallFails
  BY <1>7, InstallFailsKept
<1>8. CASE Crash
  BY <1>8, CrashKept
<1>9. CASE RecoverLogs
  BY <1>9, RecoverLogsKept
<1>10. CASE Open
  BY <1>10, OpenKept
<1> QED
  BY <1>1, <1>2, <1>3, <1>4, <1>5, <1>6, <1>7, <1>8, <1>9, <1>10 DEF Next

-----------------------------------------------------------------------------
(* A reader finds the newest entry.                                        *)

\* Version::Get finds the newest of what the version stores.
LEMMA VersionFindsNewest ==
  ASSUME TypesInv, LevelsInv, NewerInv, LogsInv, StackInv, KeptInv, up = "open",
         NEW k \in Key, NEW s \in 0 .. MaxSequence
  PROVE  InVersion(version, tables, k, s) = Newest(Stored(version, tables), k, s)
<1>1. Filled(tables, DOMAIN version) /\ nextFile \in Nat /\ DOMAIN version \subseteq 0 .. nextFile
  <2>1. nextFile \in Nat
    BY NumbersTyped DEF TypesInv
  <2>2. \A f \in DOMAIN version : f \in Nat /\ f < nextFile
    BY TablesFilled
  <2> QED
    BY <2>1, <2>2, TablesFilled
<1>2. \A f \in DOMAIN version : version[f] \in 0 .. NumLevels - 1
  BY DEF TypesInv, FilesInv, VersionOK
<1>3. Disjoint(version, tables) /\ Newer(version, tables) /\ Stacked(version, tables)
  BY DEF LevelsInv, LevelsDisjoint, NewerInv, SmallerLevelIsNewer, Newer, StackInv
<1>4. Unique(Stored(version, tables))
  BY WrittenUnique DEF KeptInv, Kept, Unique
<1> QED
  BY <1>1, <1>2, <1>3, <1>4, VersionReads

\* DBImpl::Get finds the newest of what was written, up to the number it reads at.
LEMMA GetFindsNewest ==
  ASSUME TypesInv, LevelsInv, NewerInv, LogsInv, MemInv, HeldInv, StackInv, KeptInv, up = "open",
         NEW k \in Key, NEW s \in 0 .. MaxSequence, Least <= s, s <= lastSeq
  PROVE  Value(Get(k, s)) = Value(Newest(truth, k, s))
<1> DEFINE A  == Stored(version, tables)
           B0 == Before(truth, logs, logNumber)
           B1 == Before(truth, logs, logfile)
           I  == IF imm = None THEN {} ELSE imm
           M  == {e \in mem : e.seq <= lastSeq}
<1>1. /\ truth = B1 \cup M /\ B1 = B0 \cup I
      /\ Kept(A, B0, Least) /\ A \subseteq B0
  BY DEF MemInv, KeptInv, Kept
<1>2. truth \subseteq Entry /\ Unique(truth)
  BY WrittenUnique
<1>3. Older(B1, M) /\ Older(B0, I)
  BY MemoryIsNewer DEF Older
<1>4. Newest(mem, k, s) = Newest(M, k, s)
  <2>1. \A e \in mem : e.seq \in Nat /\ e \in Entry
    BY StoredTyped, EntryNumbers
  <2>2. s \in Nat /\ lastSeq \in Nat
    BY StoredTyped, LevelsAssumption
  <2>3. {e \in mem : e.seq <= s} = {e \in M : e.seq <= s}
    BY <2>1, <2>2
  <2> HIDE DEF M
  <2> QED
    BY <2>3, SeenOnly
<1>5. InVersion(version, tables, k, s) = Newest(A, k, s)
  BY VersionFindsNewest
<1>6. Get(k, s) = IF Newest(M, k, s) # {} THEN Newest(M, k, s)
                  ELSE IF Newest(I, k, s) # {} THEN Newest(I, k, s) ELSE Newest(A, k, s)
  <2>1. imm = None => Newest(I, k, s) = {}
    BY DEF Newest
  <2> HIDE DEF A, M
  <2> QED
    BY <1>4, <1>5, <2>1 DEF Get
<1> HIDE DEF A, B0, B1, I, M
<1>7. /\ B0 \cup I \subseteq Entry /\ Unique(B0 \cup I) /\ Older(B0, I)
      /\ (B0 \cup I) \cup M \subseteq Entry /\ Unique((B0 \cup I) \cup M) /\ Older(B0 \cup I, M)
  BY <1>1, <1>2, <1>3 DEF Unique
<1>8. /\ A \cup I \subseteq Entry /\ Unique(A \cup I) /\ Older(A, I)
      /\ (A \cup I) \cup M \subseteq Entry /\ Unique((A \cup I) \cup M) /\ Older(A \cup I, M)
  BY <1>1, <1>7 DEF Unique, Older
<1>9. Newest(A \cup I, k, s) = IF Newest(I, k, s) # {} THEN Newest(I, k, s) ELSE Newest(A, k, s)
  <2>1. A \cup I \subseteq Entry /\ Unique(A \cup I) /\ Older(A, I)
    BY <1>8
  <2> QED
    BY <2>1, NewerFirst
<1>10. Newest((A \cup I) \cup M, k, s) = IF Newest(M, k, s) # {} THEN Newest(M, k, s) ELSE Newest(A \cup I, k, s)
  <2> DEFINE C == A \cup I
  <2>1. C \cup M \subseteq Entry /\ Unique(C \cup M) /\ Older(C, M)
    BY <1>8
  <2> HIDE DEF C
  <2>2. Newest(C \cup M, k, s) = IF Newest(M, k, s) # {} THEN Newest(M, k, s) ELSE Newest(C, k, s)
    BY <2>1, NewerFirst
  <2> QED
    BY <2>2 DEF C
<1>11. Get(k, s) = Newest((A \cup I) \cup M, k, s)
  BY <1>6, <1>9, <1>10
<1>12. Kept(A \cup I, B0 \cup I, Least)
  BY <1>1, <1>7, KeptWithNewer
<1>13. Kept((A \cup I) \cup M, (B0 \cup I) \cup M, Least)
  <2> DEFINE C == A \cup I
             D == B0 \cup I
  <2>1. D \cup M \subseteq Entry /\ Unique(D \cup M) /\ Older(D, M) /\ Kept(C, D, Least)
    BY <1>7, <1>12
  <2> HIDE DEF C, D
  <2>2. Kept(C \cup M, D \cup M, Least)
    BY <2>1, KeptWithNewer
  <2> QED
    BY <2>2 DEF C, D
<1>14. truth = (B0 \cup I) \cup M
  BY <1>1
<1>15. Value(Newest((A \cup I) \cup M, k, s)) = Value(Newest((B0 \cup I) \cup M, k, s))
  BY <1>13 DEF Kept
<1> QED
  BY <1>11, <1>14, <1>15

\* So do readers at the last number, or at a snapshot's.
LEMMA InvariantsRead ==
  ASSUME TypesInv, LevelsInv, NewerInv, LogsInv, MemInv, HeldInv, StackInv, KeptInv
  PROVE  ReadsNewest
<1> SUFFICES ASSUME up = "open", NEW s \in {lastSeq} \cup ({snapshot} \ {None}), NEW k \in Key
             PROVE  Value(Get(k, s)) = Value(Newest(truth, k, s))
  BY DEF ReadsNewest
<1>1. lastSeq \in 0 .. MaxSequence /\ (snapshot = None \/ snapshot \in 0 .. MaxSequence)
  BY LastFits DEF TypesInv, RoomInv
<1>2. Least <= lastSeq /\ (snapshot = None \/ (Least = snapshot /\ snapshot <= lastSeq))
  BY SnapshotIsEarlier DEF LogsInv, Least
<1>3. lastSeq \in Nat /\ (snapshot = None \/ snapshot \in Nat)
  BY <1>1, LevelsAssumption
<1>4. s \in 0 .. MaxSequence /\ Least <= s /\ s <= lastSeq
  <2>1. CASE s = lastSeq
    BY <1>1, <1>2, <1>3, <2>1
  <2>2. CASE s = snapshot /\ snapshot # None
    BY <1>1, <1>2, <1>3, <2>2
  <2> QED
    BY <2>1, <2>2
<1> QED
  BY <1>4, GetFindsNewest

-----------------------------------------------------------------------------
\* What reads rest on, besides the levels and the order of their entries.
ReadInv == LogsInv /\ MemInv /\ HeldInv /\ StackInv /\ DeepInv /\ KeptInv

\* A new database has it.
LEMMA ReadInit == ASSUME Init PROVE ReadInv
BY LogsInit, MemInit, HeldInit, StackInit, DeepInit, KeptInit DEF ReadInv

\* Every step but that of a flush within a compaction whose record fails keeps it.
LEMMA ReadStep ==
  ASSUME TypesInv, TypesInv', LevelsInv, AgesInv, NewerInv, ReadInv, [Next]_vars, [~Retried]_vars
  PROVE  ReadInv'
<1>1. LogsInv /\ MemInv /\ HeldInv /\ StackInv /\ DeepInv /\ KeptInv
  BY DEF ReadInv
<1>2. LogsInv' /\ MemInv' /\ HeldInv' /\ StackInv' /\ KeptInv'
  BY <1>1, LogsStep, MemStep, HeldStep, StackStep, KeptStep
<1>3. DeepInv'
  <2>1. CASE ~Retried
    BY <1>1, <2>1, DeepStep
  <2>2. CASE UNCHANGED vars
    BY <1>1, <2>2, OthersDeep
  <2> QED
    BY <2>1, <2>2
<1> QED
  BY <1>2, <1>3 DEF ReadInv

\* DBImpl::Get: unless the manifest record of a flush within a compaction fails, or a
\* merge cuts an output between two entries of a key, a read finds the newest entry of
\* its key, through flushes, moves, merges, failures, crashes and recoveries.
THEOREM ReadsFindNewest == Spec /\ [][~Retried /\ ~Cut]_vars => []ReadsNewest
<1> DEFINE Inv == TypesInv /\ LevelsInv /\ AgesInv /\ NewerInv /\ ReadInv
<1>1. Init => Inv
  BY TypesInit, LevelsInit, AgesInit, NewerInit, ReadInit
<1>2. Inv /\ [Next]_vars /\ [~Retried /\ ~Cut]_vars => Inv'
  <2> SUFFICES ASSUME Inv, [Next]_vars, [~Retried /\ ~Cut]_vars PROVE Inv'
    OBVIOUS
  <2>1. TypesInv' /\ AgesInv'
    BY TypesStep, AgesStep
  <2>2. ReadInv'
    BY <2>1, ReadStep
  <2>3. CASE ~Retried /\ ~Cut
    BY <2>1, <2>2, <2>3, LevelsStep, NewerStep
  <2>4. CASE UNCHANGED vars
    <3>1. UNCHANGED <<tables, manifest, up, version, bg, bgError>>
      BY <2>4 DEF vars, disk_, files_, thread_
    <3>2. LevelsInv' /\ NewerInv'
      BY <3>1, OthersLevels, OthersNewer
    <3> QED
      BY <2>1, <2>2, <3>2
  <2> QED
    BY <2>3, <2>4
<1>3. Inv => ReadsNewest
  BY InvariantsRead DEF ReadInv
<1> QED
  BY <1>1, <1>2, <1>3, PTL DEF Spec

\* DBImpl::Get for a database that nobody takes snapshots of, as Firestore does: a read
\* finds the newest entry of its key unless the manifest record of a flush within a
\* compaction fails.
THEOREM ReadsFindNewestWithoutSnapshots ==
  Spec /\ [][~Retried /\ ~GetSnapshot]_vars => []ReadsNewest
<1> DEFINE Inv == TypesInv /\ LevelsInv /\ AgesInv /\ NewerInv /\ SeenInv /\ ReadInv
<1>1. Init => Inv
  <2> SUFFICES ASSUME Init PROVE Inv
    OBVIOUS
  <2>1. snapshot = None /\ bg.at = "idle"
    BY DEF Init, Idle
  <2>2. SeenInv
    BY <2>1 DEF SeenInv
  <2> QED
    BY <2>2, TypesInit, LevelsInit, AgesInit, NewerInit, ReadInit
<1>2. Inv /\ [Next]_vars /\ [~Retried /\ ~GetSnapshot]_vars => Inv'
  <2> SUFFICES ASSUME Inv, [Next]_vars, [~Retried /\ ~GetSnapshot]_vars PROVE Inv'
    OBVIOUS
  <2>1. TypesInv' /\ AgesInv'
    BY TypesStep, AgesStep
  <2>2. ReadInv'
    BY <2>1, ReadStep
  <2>3. CASE ~Retried /\ ~GetSnapshot
    <3>1. LevelsInv' /\ NewerInv'
      BY <2>1, <2>3, LevelsStep, NewerStep, NoCut
    <3> QED
      BY <2>1, <2>2, <2>3, <3>1, SeenStep
  <2>4. CASE UNCHANGED vars
    <3>1. UNCHANGED <<tables, manifest, up, version, bg, bgError, snapshot>>
      BY <2>4 DEF vars, disk_, files_, thread_, readers_
    <3>2. LevelsInv' /\ NewerInv'
      BY <3>1, OthersLevels, OthersNewer
    <3>3. SeenInv'
      BY <3>1, SeenAfter DEF SeenInv
    <3> QED
      BY <2>1, <2>2, <3>2, <3>3
  <2> QED
    BY <2>3, <2>4
<1>3. Inv => ReadsNewest
  BY InvariantsRead DEF ReadInv
<1> QED
  BY <1>1, <1>2, <1>3, PTL DEF Spec
=============================================================================
