---------------------- MODULE LevelDbTransactionProofs ----------------------
(***************************************************************************)
(* Proofs about LevelDbTransaction, for any number of keys, any values and *)
(* any number of changes.                                                  *)
(*                                                                         *)
(* For what a transaction reads and commits, the argument is that each key *)
(* is in step with its last call (InStep).  For the iterator, it is that   *)
(* its two positions stand at the first rows that are not before its key,  *)
(* as long as it has seen the last change (IterInv): both are then moved   *)
(* behind that key, whichever of the two it came from.                     *)
(***************************************************************************)
EXTENDS LevelDbTransaction, WellFoundedInduction, TLAPS

\* What is read, and what would be written, is what was put last.
InStep ==
  /\ \A k \in Key \ (kept \cup masked) : Get(k) = latest[k]
  /\ \A k \in Key \ kept : Batch[k] = latest[k]

\* Both iterators are at the first row that is not before k.
StandsAt(it, k) ==
  /\ it.dbAt = SkipDeleted(k)
  /\ it.mutationAt = LowerBound(Has(mutations), k)

IterInv ==
  iter.valid => /\ iter.key \in Key
                /\ iter.seen = version =>
                     /\ StandsAt(iter, iter.key)
                     /\ iter = UpdateCurrent(iter)

TransactionInv == TypeOK /\ InStep /\ IterInv

-----------------------------------------------------------------------------
(* Bounds of sets of keys.                                                 *)

\* A set of natural numbers that is not empty has a least element.
LEMMA MinIsLeast ==
  ASSUME NEW S, S \subseteq Nat, S # {}
  PROVE  Min(S) \in S /\ \A y \in S : Min(S) <= y
<1> DEFINE Less == {ss \in Nat \X Nat : ss[1] < ss[2]}
<1>1. Less = OpToRel(<, Nat)
  BY DEF OpToRel
<1>2. IsWellFoundedOn(Less, Nat)
  BY <1>1, NatLessThanWellFounded, Zenon
<1>3. PICK x \in S : \A y \in S : ~(<<y, x>> \in Less)
  BY <1>2, WFMin, Zenon
<1>4. ASSUME NEW y \in S PROVE x <= y
  <2>1. x \in Nat /\ y \in Nat
    OBVIOUS
  <2>2. y < x => <<y, x>> \in Less
    BY <2>1
  <2> HIDE DEF Less
  <2> QED
    BY <2>1, <2>2, <1>3
<1> QED
  BY <1>3, <1>4 DEF Min

\* LowerBound is the first key that is not before k, or the end.
LEMMA LowerBoundIsFirst ==
  ASSUME NEW keys, keys \subseteq Key, NEW k \in Nat
  PROVE  /\ LowerBound(keys, k) \in 1 .. End
         /\ LowerBound(keys, k) # End => LowerBound(keys, k) \in keys /\ LowerBound(keys, k) >= k
         /\ \A j \in keys : j >= k => LowerBound(keys, k) <= j
<1> DEFINE S == {End} \cup {j \in keys : j >= k}
<1>0. NumKeys \in Nat
  BY BoundsAssumption
<1>1. S \subseteq 1 .. End /\ S # {}
  <2>1. End \in 1 .. End /\ \A j \in Key : j \in 1 .. End
    BY <1>0 DEF Key, End
  <2> QED
    BY <2>1
<1>2. Min(S) \in S /\ \A y \in S : Min(S) <= y
  <2> S \subseteq Nat
    BY <1>0, <1>1 DEF End
  <2> HIDE DEF S
  <2> QED
    BY <1>1, MinIsLeast
<1> QED
  BY <1>0, <1>1, <1>2 DEF LowerBound, Key, End

\* It is the only such key.
LEMMA LowerBoundUnique ==
  ASSUME NEW keys, keys \subseteq Key, NEW k \in Nat, NEW n \in 1 .. End,
         n # End => n \in keys /\ n >= k,
         \A j \in keys : j >= k => n <= j
  PROVE  n = LowerBound(keys, k)
<1> DEFINE m == LowerBound(keys, k)
<1>1. /\ m \in 1 .. End
      /\ m # End => m \in keys /\ m >= k
      /\ \A j \in keys : j >= k => m <= j
  BY LowerBoundIsFirst
<1>2. End \in Nat
  BY BoundsAssumption DEF End
<1> HIDE DEF m
<1>3. n <= m
  BY <1>1, <1>2
<1>4. m <= n
  BY <1>1, <1>2
<1>5. n = m
  BY <1>1, <1>2, <1>3, <1>4
<1> QED
  BY <1>5 DEF m

\* The sets whose first rows the two iterators are at.
Remaining == Has(db) \ deletions

\* The keys of the merged view are those of the puts and of the rows left.
LEMMA ViewKeys ==
  ASSUME TypeOK
  PROVE  /\ Has(View) = Has(mutations) \cup Remaining
         /\ \A k \in Has(mutations) : View[k] = mutations[k]
         /\ \A k \in Remaining \ Has(mutations) : View[k] = db[k]
BY DEF TypeOK, Map, Has, View, Remaining

\* Where the two iterators stand, the merged one shows the first row of the view.
LEMMA FirstOfView ==
  ASSUME TypeOK, NEW it \in Iterator, NEW k \in Nat, StandsAt(it, k)
  PROVE  LET shown == UpdateCurrent(it)
             from  == {j \in Has(View) : j >= k}
         IN IF from = {} THEN ~shown.valid
            ELSE /\ shown.valid /\ shown.key \in from
                 /\ \A j \in from : shown.key <= j
                 /\ shown.value = View[shown.key]
                 /\ shown.mutation = (shown.key \in Has(mutations))
                 /\ shown.key = Min({it.dbAt, it.mutationAt})
<1> DEFINE d == it.dbAt
           m == it.mutationAt
           first == Min({d, m})
           from  == {j \in Has(View) : j >= k}
           is_mut == m # End /\ d >= m
<1>0. End \in Nat
  BY BoundsAssumption DEF End
<1>1. /\ d \in 1 .. End
      /\ d # End => d \in Remaining /\ d >= k
      /\ \A j \in Remaining : j >= k => d <= j
  <2>1. Remaining \subseteq Key
    BY DEF Remaining, Has
  <2> QED
    BY <2>1, LowerBoundIsFirst DEF StandsAt, SkipDeleted, Remaining
<1>2. /\ m \in 1 .. End
      /\ m # End => m \in Has(mutations) /\ m >= k
      /\ \A j \in Has(mutations) : j >= k => m <= j
  <2>1. Has(mutations) \subseteq Key
    BY DEF Has
  <2> QED
    BY <2>1, LowerBoundIsFirst DEF StandsAt
<1>3. first \in {d, m} /\ first <= d /\ first <= m
  <2>1. {d, m} \subseteq Nat /\ {d, m} # {}
    BY <1>0, <1>1, <1>2
  <2> QED
    BY <2>1, MinIsLeast
<1>4. /\ Has(View) = Has(mutations) \cup Remaining /\ Has(View) \subseteq Key
      /\ \A j \in Has(mutations) : View[j] = mutations[j]
      /\ \A j \in Remaining \ Has(mutations) : View[j] = db[j]
  BY ViewKeys DEF Has
<1>5. \A j \in Key : j \in Nat /\ j < End
  BY BoundsAssumption DEF Key, End
<1>6. ASSUME NEW j \in from PROVE first <= j /\ first # End
  BY <1>0, <1>1, <1>2, <1>3, <1>4, <1>5
<1>7. ASSUME first # End PROVE first \in from /\ is_mut = (first \in Has(mutations))
  BY <1>0, <1>1, <1>2, <1>3, <1>4, <1>5, <1>7
<1>8. CASE first = End
  <2>1. from = {}
    BY <1>6, <1>8
  <2>2. UpdateCurrent(it).valid = FALSE
    BY <1>8 DEF UpdateCurrent, Iterator
  <2> QED
    BY <2>1, <2>2
<1>9. CASE first # End
  <2> DEFINE shown == UpdateCurrent(it)
  <2>1. /\ shown.valid /\ shown.key = first /\ shown.mutation = is_mut
        /\ shown.value = IF is_mut THEN mutations[first] ELSE db[first]
    BY <1>9 DEF UpdateCurrent, Iterator
  <2>2. shown.value = View[first]
    BY <2>1, <1>0, <1>1, <1>2, <1>3, <1>4, <1>5, <1>7, <1>9
  <2> QED
    BY <2>1, <2>2, <1>6, <1>7, <1>9
<1> QED
  BY <1>8, <1>9

\* What it shows then is an iterator that stands at its own key.
LEMMA ShownStands ==
  ASSUME TypeOK, NEW it \in Iterator, NEW k \in Nat, StandsAt(it, k)
  PROVE  /\ UpdateCurrent(it) \in Iterator
         /\ UpdateCurrent(it).seen = it.seen
         /\ UpdateCurrent(it).valid =>
              /\ UpdateCurrent(it).key \in Key
              /\ StandsAt(UpdateCurrent(it), UpdateCurrent(it).key)
              /\ UpdateCurrent(it) = UpdateCurrent(UpdateCurrent(it))
<1> DEFINE shown == UpdateCurrent(it)
           from  == {j \in Has(View) : j >= k}
           first == Min({it.dbAt, it.mutationAt})
<1>1. /\ from = {} => ~shown.valid
      /\ from # {} => /\ shown.valid /\ shown.key \in from
                      /\ \A j \in from : shown.key <= j
                      /\ shown.key = first
  BY FirstOfView
<1>2. /\ shown.dbAt = it.dbAt /\ shown.mutationAt = it.mutationAt /\ shown.seen = it.seen
  BY DEF UpdateCurrent, Iterator
<1>3. Has(View) \subseteq Key /\ Key \subseteq Nat
  BY BoundsAssumption DEF Has, Key
<1>4. shown \in Iterator
  <2>1. CASE first = End
    BY <2>1 DEF UpdateCurrent, Iterator
  <2>2. CASE first # End
    <3>1. shown.valid
      BY <2>2 DEF UpdateCurrent, Iterator
    <3>2. first \in Key
      BY <1>1, <1>3, <3>1
    <3>3. mutations[first] \in Row /\ db[first] \in Row
      BY <3>2 DEF TypeOK, Map
    <3> QED
      BY <2>2, <3>2, <3>3 DEF UpdateCurrent, Iterator
  <2> QED
    BY <2>1, <2>2
<1>5. ASSUME shown.valid PROVE shown.key \in Key /\ StandsAt(shown, shown.key)
  <2>1. shown.key \in Key /\ shown.key \in Nat /\ shown.key >= k
    BY <1>1, <1>3, <1>5
  <2>2. /\ Remaining \subseteq Key /\ Has(mutations) \subseteq Key
        /\ Remaining \subseteq Has(View) /\ Has(mutations) \subseteq Has(View)
    BY ViewKeys DEF Has, Remaining
  <2>3. it.dbAt = LowerBound(Remaining, k) /\ it.mutationAt = LowerBound(Has(mutations), k)
    BY DEF StandsAt, SkipDeleted, Remaining
  <2>4. ASSUME NEW keys, keys \subseteq Key, keys \subseteq Has(View)
        PROVE  LowerBound(keys, k) = LowerBound(keys, shown.key)
    <3> DEFINE n == LowerBound(keys, k)
    <3>1. /\ n \in 1 .. End
          /\ n # End => n \in keys /\ n >= k
          /\ \A j \in keys : j >= k => n <= j
      BY <2>4, LowerBoundIsFirst
    <3> HIDE DEF n
    <3>2. n # End => n >= shown.key
      BY <1>1, <1>3, <1>5, <2>4, <3>1
    <3>3. \A j \in keys : j >= shown.key => j >= k
      BY <1>3, <2>1, <2>4
    <3>4. n = LowerBound(keys, shown.key)
      BY <2>1, <2>4, <3>1, <3>2, <3>3, LowerBoundUnique
    <3> QED
      BY <3>4 DEF n
  <2> HIDE DEF shown
  <2>5. shown.dbAt = LowerBound(Remaining, shown.key)
    BY <1>2, <2>2, <2>3, <2>4
  <2>6. shown.mutationAt = LowerBound(Has(mutations), shown.key)
    BY <1>2, <2>2, <2>3, <2>4
  <2> QED
    BY <2>1, <2>5, <2>6 DEF StandsAt, SkipDeleted, Remaining
<1>6. ASSUME shown.valid PROVE shown = UpdateCurrent(shown)
  <2>1. first # End
    BY <1>6 DEF UpdateCurrent, Iterator
  <2> QED
    BY <2>1, <1>2 DEF UpdateCurrent, Iterator
<1> QED
  BY <1>2, <1>4, <1>5, <1>6

\* Next, when the transaction has not changed, goes to the first row after its key.
LEMMA AdvancedIsNext ==
  ASSUME TypeOK, NEW it \in Iterator, it.valid, it.key \in Key,
         StandsAt(it, it.key), it = UpdateCurrent(it)
  PROVE  \E moved \in Iterator : /\ StandsAt(moved, it.key + 1) /\ moved.seen = it.seen
                               /\ Advanced(it) = UpdateCurrent(moved)
<1> DEFINE k == it.key
           d == it.dbAt
           m == it.mutationAt
           d2 == IF ~it.mutation \/ d = m THEN SkipDeleted(d + 1) ELSE d
           m2 == IF it.mutation THEN LowerBound(Has(mutations), m + 1) ELSE m
           moved == [it EXCEPT !.dbAt = d2, !.mutationAt = m2]
<1>1. /\ k \in Nat /\ k >= 1 /\ k < End /\ End \in Nat
  BY BoundsAssumption DEF Key, End
<1>2. k = Min({d, m}) /\ it.mutation = (k \in Has(mutations))
  <2> DEFINE shown == UpdateCurrent(it)
             from  == {j \in Has(View) : j >= k}
  <2>1. /\ from = {} => ~shown.valid
        /\ from # {} => /\ shown.mutation = (shown.key \in Has(mutations))
                        /\ shown.key = Min({d, m})
    BY <1>1, FirstOfView
  <2>2. shown = it
    OBVIOUS
  <2> HIDE DEF shown, from
  <2> QED
    BY <2>1, <2>2
<1>3. /\ d \in 1 .. End
      /\ d # End => d \in Remaining /\ d >= k
      /\ \A j \in Remaining : j >= k => d <= j
  <2>1. Remaining \subseteq Key
    BY DEF Remaining, Has
  <2> QED
    BY <1>1, <2>1, LowerBoundIsFirst DEF StandsAt, SkipDeleted, Remaining
<1>4. /\ m \in 1 .. End
      /\ m # End => m \in Has(mutations) /\ m >= k
      /\ \A j \in Has(mutations) : j >= k => m <= j
  <2>1. Has(mutations) \subseteq Key
    BY DEF Has
  <2> QED
    BY <1>1, <2>1, LowerBoundIsFirst DEF StandsAt
<1>5. k \in {d, m} /\ k <= d /\ k <= m
  <2>1. {d, m} \subseteq Nat /\ {d, m} # {}
    BY <1>1, <1>3, <1>4
  <2>2. Min({d, m}) \in {d, m} /\ \A y \in {d, m} : Min({d, m}) <= y
    BY <2>1, MinIsLeast
  <2> QED
    BY <1>2, <2>2
<1>6. m2 = LowerBound(Has(mutations), k + 1)
  <2>1. Has(mutations) \subseteq Key /\ k + 1 \in Nat
    BY <1>1 DEF Has
  <2>2. CASE k \in Has(mutations)
    <3>1. m = k
      BY <1>1, <1>4, <1>5, <2>2
    <3> QED
      BY <1>2, <2>2, <3>1
  <2>3. CASE k \notin Has(mutations)
    <3>1. m # k
      BY <1>1, <1>4, <2>3
    <3> HIDE DEF m, k
    <3>2. m # End => m \in Has(mutations) /\ m >= k + 1
      BY <1>1, <1>4, <1>5, <3>1
    <3>3. \A j \in Has(mutations) : j >= k + 1 => m <= j
      <4> \A j \in Has(mutations) : j \in Nat
        BY <2>1, BoundsAssumption DEF Key
      <4> QED
        BY <1>1, <1>4
    <3>4. m = LowerBound(Has(mutations), k + 1)
      BY <1>4, <2>1, <3>2, <3>3, LowerBoundUnique
    <3> QED
      BY <1>2, <2>3, <3>4 DEF k
  <2> QED
    BY <2>2, <2>3
<1>7. d2 = LowerBound(Remaining, k + 1)
  <2>1. Remaining \subseteq Key /\ k + 1 \in Nat
    BY <1>1 DEF Has, Remaining
  <2>2. CASE d = k
    <3>1. k \in Has(mutations) => m = k
      BY <1>1, <1>4, <1>5
    <3> QED
      BY <1>2, <2>2, <3>1 DEF SkipDeleted, Remaining
  <2>3. CASE d # k
    <3>1. m = k /\ k \in Has(mutations)
      BY <1>1, <1>4, <1>5, <2>3
    <3>2. d2 = d
      BY <1>2, <2>3, <3>1
    <3> HIDE DEF d, m, k, d2
    <3>3. d # End => d \in Remaining /\ d >= k + 1
      BY <1>1, <1>3, <1>5, <2>3
    <3>4. \A j \in Remaining : j >= k + 1 => d <= j
      <4> \A j \in Remaining : j \in Nat
        BY <2>1, BoundsAssumption DEF Key
      <4> QED
        BY <1>1, <1>3
    <3>5. d = LowerBound(Remaining, k + 1)
      BY <1>3, <2>1, <3>3, <3>4, LowerBoundUnique
    <3> QED
      BY <3>2, <3>5
  <2> QED
    BY <2>2, <2>3
<1>8. moved \in Iterator /\ StandsAt(moved, k + 1) /\ moved.seen = it.seen
  <2>1. d2 \in 1 .. End /\ m2 \in 1 .. End
    <3>1. Remaining \subseteq Key /\ Has(mutations) \subseteq Key /\ k + 1 \in Nat
      BY <1>1 DEF Has, Remaining
    <3> QED
      BY <1>6, <1>7, <3>1, LowerBoundIsFirst
  <2> HIDE DEF d2, m2
  <2>2. /\ moved \in Iterator /\ moved.seen = it.seen
        /\ moved.dbAt = d2 /\ moved.mutationAt = m2
    BY <2>1 DEF Iterator
  <2> QED
    BY <2>2, <1>6, <1>7 DEF StandsAt, SkipDeleted, Remaining
<1>9. Advanced(it) = UpdateCurrent(moved)
  BY DEF Advanced
<1> QED
  BY <1>8, <1>9

\* Where there is no key, the first one after it is the first one from it on.
LEMMA LowerBoundSkips ==
  ASSUME NEW keys, keys \subseteq Key, NEW k \in Nat, k \notin keys
  PROVE  LowerBound(keys, k) = LowerBound(keys, k + 1)
<1> DEFINE n == LowerBound(keys, k)
<1>1. /\ n \in 1 .. End
      /\ n # End => n \in keys /\ n >= k
      /\ \A j \in keys : j >= k => n <= j
  BY LowerBoundIsFirst
<1>2. End \in Nat /\ \A j \in keys : j \in Nat
  BY BoundsAssumption DEF Key, End
<1> HIDE DEF n
<1>3. n # End => n \in keys /\ n >= k + 1
  BY <1>1, <1>2
<1>4. \A j \in keys : j >= k + 1 => n <= j
  BY <1>1, <1>2
<1>5. n = LowerBound(keys, k + 1)
  BY <1>1, <1>3, <1>4, LowerBoundUnique
<1> QED
  BY <1>5 DEF n

\* Seek puts both iterators at the first rows from its key on.
LEMMA SeekStands ==
  ASSUME TypeOK, NEW it \in Iterator, NEW k \in Nat
  PROVE  \E sought \in Iterator : /\ StandsAt(sought, k) /\ sought.seen = version
                                  /\ Sought(it, k) = UpdateCurrent(sought)
<1> DEFINE d == SkipDeleted(k)
           m == LowerBound(Has(mutations), k)
           sought == [it EXCEPT !.dbAt = d, !.mutationAt = m, !.seen = version]
<1>1. d \in 1 .. End /\ m \in 1 .. End
  <2> Remaining \subseteq Key /\ Has(mutations) \subseteq Key
    BY DEF Has, Remaining
  <2> QED
    BY LowerBoundIsFirst DEF SkipDeleted, Remaining
<1>2. Sought(it, k) = UpdateCurrent(sought)
  BY DEF Sought
<1>3. sought \in Iterator /\ StandsAt(sought, k) /\ sought.seen = version
  <2> HIDE DEF d, m
  <2>1. version \in 0 .. MaxChanges
    BY DEF TypeOK
  <2>2. /\ sought \in Iterator /\ sought.seen = version
        /\ sought.dbAt = d /\ sought.mutationAt = m
    BY <1>1, <2>1 DEF Iterator
  <2> QED
    BY <2>2 DEF StandsAt, d, m
<1> QED
  BY <1>2, <1>3

\* Next goes to the first row after its key, whether or not the transaction has changed.
LEMMA MovedIsNext ==
  ASSUME TypeOK, IterInv, iter.valid
  PROVE  \E moved \in Iterator : /\ StandsAt(moved, iter.key + 1) /\ moved.seen = version
                               /\ Moved(iter) = UpdateCurrent(moved)
<1>1. iter \in Iterator /\ iter.key \in Key /\ iter.key \in Nat
  BY BoundsAssumption DEF TypeOK, IterInv, Key
<1>2. CASE iter.seen = version
  <2>1. StandsAt(iter, iter.key) /\ iter = UpdateCurrent(iter)
    BY <1>2 DEF IterInv
  <2>2. Moved(iter) = Advanced(iter)
    BY <1>2 DEF Moved
  <2> QED
    BY <1>1, <1>2, <2>1, <2>2, AdvancedIsNext
<1>3. CASE iter.seen # version
  <2> DEFINE k == iter.key
             again == Sought(iter, k)
  <2>1. PICK sought \in Iterator : /\ StandsAt(sought, k) /\ sought.seen = version
                                   /\ again = UpdateCurrent(sought)
    BY <1>1, SeekStands
  <2>2. Moved(iter) = IF again.valid /\ again.key = k THEN Advanced(again) ELSE again
    BY <1>3 DEF Moved
  <2> HIDE DEF again
  <2>3. CASE again.valid /\ again.key = k
    <3>1. /\ again \in Iterator /\ again.seen = version
          /\ StandsAt(again, again.key) /\ again = UpdateCurrent(again)
      BY <1>1, <2>1, <2>3, ShownStands
    <3>2. \E moved \in Iterator : /\ StandsAt(moved, again.key + 1) /\ moved.seen = again.seen
                                  /\ Advanced(again) = UpdateCurrent(moved)
      BY <1>1, <2>3, <3>1, AdvancedIsNext
    <3> QED
      BY <2>2, <2>3, <3>1, <3>2
  <2>4. CASE ~(again.valid /\ again.key = k)
    <3> DEFINE from == {j \in Has(View) : j >= k}
    <3>1. /\ from = {} => ~again.valid
          /\ from # {} => /\ again.valid /\ again.key \in from
                          /\ \A j \in from : again.key <= j
      BY <1>1, <2>1, FirstOfView
    <3>2. Has(View) \subseteq Nat
      BY BoundsAssumption DEF Has, Key
    <3>3. k \notin Has(View)
      BY <1>1, <2>4, <3>1, <3>2
    <3>4. /\ Remaining \subseteq Key /\ Has(mutations) \subseteq Key
          /\ k \notin Remaining /\ k \notin Has(mutations)
      BY <3>3, ViewKeys DEF Has, Remaining
    <3>5. StandsAt(sought, k + 1)
      BY <1>1, <2>1, <3>4, LowerBoundSkips DEF StandsAt, SkipDeleted, Remaining
    <3> QED
      BY <2>1, <2>2, <2>4, <3>5
  <2> QED
    BY <2>3, <2>4
<1> QED
  BY <1>2, <1>3

-----------------------------------------------------------------------------
(* The invariant, one step per action.                                     *)

\* An iterator that was just moved is one of the invariant.
LEMMA ShownInv ==
  ASSUME TypeOK, NEW it \in Iterator, NEW k \in Nat, StandsAt(it, k), it.seen = version,
         UNCHANGED <<db, changes>>, iter' = UpdateCurrent(it)
  PROVE  IterInv' /\ iter' \in Iterator /\ iter'.seen = version'
<1>1. /\ iter' \in Iterator /\ iter'.seen = version'
      /\ iter'.valid => /\ iter'.key \in Key
                        /\ StandsAt(iter', iter'.key)
                        /\ iter' = UpdateCurrent(iter')
  BY ShownStands DEF changes
<1>2. ASSUME iter'.valid, StandsAt(iter', iter'.key) PROVE StandsAt(iter, iter.key)'
  BY <1>2 DEF StandsAt, SkipDeleted, changes
<1>3. ASSUME iter' = UpdateCurrent(iter') PROVE (iter = UpdateCurrent(iter))'
  BY <1>3 DEF UpdateCurrent, changes
<1> QED
  BY <1>1, <1>2, <1>3 DEF IterInv

\* A change of the transaction leaves the iterator at its key, and behind.
LEMMA ChangedInv ==
  ASSUME TypeOK, IterInv, version < MaxChanges, version' = version + 1, iter' = iter
  PROVE  IterInv' /\ version' \in 0 .. MaxChanges /\ iter' \in Iterator /\ iter'.seen <= version'
<1>1. version \in 0 .. MaxChanges /\ iter \in Iterator /\ iter.seen <= version /\ iter.seen \in Nat
  BY BoundsAssumption DEF TypeOK, Iterator
<1>2. version' \in 0 .. MaxChanges /\ iter'.seen <= version' /\ iter'.seen # version'
  BY <1>1, BoundsAssumption
<1> QED
  BY <1>1, <1>2 DEF IterInv

\* The changes are gone, and the iterator with them.
LEMMA NoChangesInv ==
  ASSUME NoChanges, db' \in Map, latest' = db', open' \in BOOLEAN
  PROVE  TransactionInv'
<1>1. /\ mutations' = [k \in Key |-> None] /\ deletions' = {} /\ version' = 0
      /\ iter' = NoIterator /\ kept' = {} /\ masked' = {}
  BY DEF NoChanges
<1>2. NoIterator \in Iterator /\ NoIterator.seen = 0 /\ ~NoIterator.valid /\ 0 \in 0 .. MaxChanges
  BY BoundsAssumption DEF NoIterator, Iterator, End, Row
<1>3. Has(mutations)' = {}
  BY <1>1 DEF Has
<1>4. mutations' \in Map
  BY <1>1 DEF Map, Row
<1>5. TypeOK'
  BY <1>1, <1>2, <1>3, <1>4 DEF TypeOK
<1>6. InStep'
  BY <1>1 DEF InStep, Get, Batch
<1>7. IterInv'
  BY <1>1, <1>2 DEF IterInv
<1> QED
  BY <1>5, <1>6, <1>7 DEF TransactionInv

\* Init establishes the invariant.
LEMMA InitInv == ASSUME Init PROVE TransactionInv
<1>1. NoIterator \in Iterator /\ NoIterator.seen = 0 /\ ~NoIterator.valid /\ 0 \in 0 .. MaxChanges
  BY BoundsAssumption DEF NoIterator, Iterator, End, Row
<1>2. Has(mutations) = {} /\ mutations \in Map
  BY DEF Init, Has, Map, Row
<1>3. iter \in Iterator /\ iter.seen <= version /\ ~iter.valid /\ version \in 0 .. MaxChanges
  BY <1>1 DEF Init
<1>4. TypeOK
  <2>1. /\ db \in Map /\ latest \in Map /\ open \in BOOLEAN
        /\ deletions = {} /\ kept = {} /\ masked = {}
    BY DEF Init
  <2> QED
    BY <1>2, <1>3, <2>1 DEF TypeOK
<1>5. InStep
  BY DEF InStep, Get, Batch, Init
<1>6. IterInv
  BY <1>3 DEF IterInv
<1> QED
  BY <1>4, <1>5, <1>6 DEF TransactionInv

\* A put keeps the invariant.
LEMMA PutInv == ASSUME TransactionInv, Put PROVE TransactionInv'
<1>1. TypeOK /\ InStep /\ IterInv
  BY DEF TransactionInv
<1>2. /\ open /\ version < MaxChanges /\ version' = version + 1
      /\ db' = db /\ open' = open /\ iter' = iter
  BY DEF Put
<1>3. IterInv' /\ version' \in 0 .. MaxChanges /\ iter' \in Iterator /\ iter'.seen <= version'
  BY <1>1, <1>2, ChangedInv
<1>4. PICK k \in Key, value \in Value :
        /\ latest' = [latest EXCEPT ![k] = value]
        /\ \/ /\ PutString(k, value)
              /\ kept' = IF mutations[k] = None THEN kept ELSE kept \cup {k}
              /\ masked' = masked \ {k}
           \/ /\ PutMessage(k, value)
              /\ kept' = kept \ {k}
              /\ masked' = IF k \in deletions THEN masked \cup {k} ELSE masked
  BY DEF Put
<1>5. /\ db \in Map /\ mutations \in Map /\ latest \in Map /\ deletions \subseteq Key
      /\ kept \subseteq Has(mutations) /\ masked \subseteq deletions
  BY <1>1 DEF TypeOK
<1>6. value # None /\ value \in Row
  BY NoneAssumption DEF Row
<1>7. \A j \in Key \ kept : (mutations[j] # None => mutations[j] = latest[j])
  BY <1>1 DEF InStep, Batch
<1>8. CASE /\ PutString(k, value)
           /\ kept' = IF mutations[k] = None THEN kept ELSE kept \cup {k}
           /\ masked' = masked \ {k}
  <2>1. latest' \in Map /\ mutations' \in Map
    BY <1>4, <1>5, <1>6, <1>8 DEF Map, PutString
  <2>2. deletions' \subseteq Key /\ kept' \subseteq Has(mutations)' /\ masked' \subseteq deletions'
    BY <1>5, <1>6, <1>8 DEF Map, PutString, Has
  <2>3. TypeOK'
    BY <1>2, <1>3, <1>5, <2>1, <2>2 DEF TypeOK
  <2>4. ASSUME NEW j \in Key, j \notin kept' PROVE Batch[j]' = latest'[j]
    <3>1. CASE j = k
      BY <1>4, <1>5, <1>6, <1>8, <2>4, <3>1 DEF Map, PutString, Batch
    <3>2. CASE j # k
      BY <1>1, <1>2, <1>4, <1>5, <1>8, <2>4, <3>2 DEF Map, PutString, Batch, InStep
    <3> QED
      BY <3>1, <3>2
  <2>5. ASSUME NEW j \in Key, j \notin kept', j \notin masked' PROVE Get(j)' = latest'[j]
    <3>1. CASE j = k
      BY <1>4, <1>5, <1>6, <1>8, <2>5, <3>1 DEF Map, PutString, Get
    <3>2. CASE j # k
      BY <1>1, <1>2, <1>4, <1>5, <1>8, <2>5, <3>2 DEF Map, PutString, Get, InStep
    <3> QED
      BY <3>1, <3>2
  <2> QED
    BY <1>3, <2>3, <2>4, <2>5 DEF TransactionInv, InStep
<1>9. CASE /\ PutMessage(k, value)
           /\ kept' = kept \ {k}
           /\ masked' = IF k \in deletions THEN masked \cup {k} ELSE masked
  <2>1. latest' \in Map /\ mutations' \in Map
    BY <1>4, <1>5, <1>6, <1>9 DEF Map, PutMessage
  <2>2. deletions' \subseteq Key /\ kept' \subseteq Has(mutations)' /\ masked' \subseteq deletions'
    BY <1>5, <1>6, <1>9 DEF Map, PutMessage, Has
  <2>3. TypeOK'
    BY <1>2, <1>3, <1>5, <2>1, <2>2 DEF TypeOK
  <2>4. ASSUME NEW j \in Key, j \notin kept' PROVE Batch[j]' = latest'[j]
    <3>1. CASE j = k
      BY <1>4, <1>5, <1>6, <1>9, <3>1 DEF Map, PutMessage, Batch
    <3>2. CASE j # k
      BY <1>1, <1>2, <1>4, <1>5, <1>9, <2>4, <3>2 DEF Map, PutMessage, Batch, InStep
    <3> QED
      BY <3>1, <3>2
  <2>5. ASSUME NEW j \in Key, j \notin kept', j \notin masked' PROVE Get(j)' = latest'[j]
    <3>1. CASE j = k
      BY <1>4, <1>5, <1>6, <1>9, <2>5, <3>1 DEF Map, PutMessage, Get
    <3>2. CASE j # k
      BY <1>1, <1>2, <1>4, <1>5, <1>9, <2>5, <3>2 DEF Map, PutMessage, Get, InStep
    <3> QED
      BY <3>1, <3>2
  <2> QED
    BY <1>3, <2>3, <2>4, <2>5 DEF TransactionInv, InStep
<1> QED
  BY <1>4, <1>8, <1>9

\* A delete keeps the invariant.
LEMMA DeleteInv == ASSUME TransactionInv, Delete PROVE TransactionInv'
<1>1. TypeOK /\ InStep /\ IterInv
  BY DEF TransactionInv
<1>2. /\ open /\ version < MaxChanges /\ version' = version + 1
      /\ db' = db /\ open' = open /\ iter' = iter
  BY DEF Delete
<1>3. IterInv' /\ version' \in 0 .. MaxChanges /\ iter' \in Iterator /\ iter'.seen <= version'
  BY <1>1, <1>2, ChangedInv
<1>4. PICK k \in Key : /\ DeleteRow(k) /\ latest' = [latest EXCEPT ![k] = None]
                       /\ kept' = kept \ {k} /\ masked' = masked \ {k}
  BY DEF Delete
<1>5. /\ db \in Map /\ mutations \in Map /\ latest \in Map /\ deletions \subseteq Key
      /\ kept \subseteq Has(mutations) /\ masked \subseteq deletions
  BY <1>1 DEF TypeOK
<1>6. latest' \in Map /\ mutations' \in Map
  BY <1>4, <1>5 DEF Map, Row, DeleteRow
<1>7. deletions' \subseteq Key /\ kept' \subseteq Has(mutations)' /\ masked' \subseteq deletions'
  BY <1>4, <1>5 DEF Map, DeleteRow, Has
<1>8. TypeOK'
  BY <1>2, <1>3, <1>5, <1>6, <1>7 DEF TypeOK
<1>9. ASSUME NEW j \in Key, j \notin kept' PROVE Batch[j]' = latest'[j]
  <2>1. CASE j = k
    BY <1>4, <1>5, <2>1 DEF Map, DeleteRow, Batch
  <2>2. CASE j # k
    BY <1>1, <1>2, <1>4, <1>5, <1>9, <2>2 DEF Map, DeleteRow, Batch, InStep
  <2> QED
    BY <2>1, <2>2
<1>10. ASSUME NEW j \in Key, j \notin kept', j \notin masked' PROVE Get(j)' = latest'[j]
  <2>1. CASE j = k
    BY <1>4, <1>5, <2>1 DEF Map, DeleteRow, Get
  <2>2. CASE j # k
    BY <1>1, <1>2, <1>4, <1>5, <1>10, <2>2 DEF Map, DeleteRow, Get, InStep
  <2> QED
    BY <2>1, <2>2
<1> QED
  BY <1>3, <1>8, <1>9, <1>10 DEF TransactionInv, InStep

\* Moving the iterator keeps the invariant.
LEMMA ShowInv ==
  ASSUME TransactionInv, open, NEW it \in Iterator, NEW k \in Nat, StandsAt(it, k),
         it.seen = version, UNCHANGED <<db, open, changes, history>>, iter' = UpdateCurrent(it)
  PROVE  TransactionInv'
<1>1. TypeOK /\ InStep
  BY DEF TransactionInv
<1>2. IterInv' /\ iter' \in Iterator /\ iter'.seen = version'
  BY <1>1, ShownInv
<1>3. TypeOK'
  <2>1. /\ db' \in Map /\ mutations' \in Map /\ latest' \in Map
        /\ open' /\ open' \in BOOLEAN /\ deletions' \subseteq Key /\ version' \in 0 .. MaxChanges
        /\ kept' \subseteq Has(mutations') /\ masked' \subseteq deletions'
    BY <1>1 DEF TypeOK, changes, history
  <2>2. iter'.seen <= version'
    BY <1>2, <2>1, BoundsAssumption
  <2> QED
    BY <1>2, <2>1, <2>2 DEF TypeOK
<1>4. InStep'
  BY <1>1 DEF InStep, Get, Batch, changes, history
<1> QED
  BY <1>2, <1>3, <1>4 DEF TransactionInv

\* So every step keeps it.
LEMMA StepInv == ASSUME TransactionInv, [Next]_vars PROVE TransactionInv'
<1>0. TypeOK /\ InStep /\ IterInv
  BY DEF TransactionInv
<1>1. CASE StartTransaction
  <2>1. TypeOK'
    BY <1>0, <1>1 DEF TypeOK, StartTransaction, changes, history
  <2>2. InStep'
    BY <1>0, <1>1 DEF InStep, Get, Batch, StartTransaction, changes, history
  <2>3. IterInv'
    BY <1>0, <1>1 DEF IterInv, StandsAt, SkipDeleted, UpdateCurrent, StartTransaction, changes
  <2> QED
    BY <2>1, <2>2, <2>3 DEF TransactionInv
<1>2. CASE Put
  BY <1>2, PutInv
<1>3. CASE Delete
  BY <1>3, DeleteInv
<1>4. CASE Seek
  <2>1. PICK k \in Key : iter' = Sought(NoIterator, k)
    BY <1>4 DEF Seek
  <2>2. NoIterator \in Iterator /\ k \in Nat
    BY BoundsAssumption DEF NoIterator, Iterator, End, Row, Key
  <2>3. PICK it \in Iterator : /\ StandsAt(it, k) /\ it.seen = version
                               /\ Sought(NoIterator, k) = UpdateCurrent(it)
    BY <1>0, <2>2, SeekStands
  <2> QED
    BY <1>4, <2>1, <2>2, <2>3, ShowInv DEF Seek
<1>5. CASE IteratorNext
  <2>1. iter.valid /\ iter' = Moved(iter) /\ UNCHANGED <<db, open, changes, history>>
    BY <1>5 DEF IteratorNext
  <2>2. iter.key + 1 \in Nat /\ open
    BY <1>0, <2>1, BoundsAssumption DEF IterInv, Key, TypeOK
  <2>3. PICK it \in Iterator : /\ StandsAt(it, iter.key + 1) /\ it.seen = version
                               /\ Moved(iter) = UpdateCurrent(it)
    BY <1>0, <2>1, MovedIsNext
  <2> QED
    BY <2>1, <2>2, <2>3, ShowInv
<1>6. CASE Commit
  <2>1. Batch \in Map
    BY <1>0 DEF TypeOK, Map, Batch, Row
  <2> QED
    BY <1>6, <2>1, NoChangesInv DEF Commit
<1>7. CASE Crash
  BY <1>0, <1>7, NoChangesInv DEF Crash, TypeOK
<1>8. CASE UNCHANGED vars
  <2>1. TypeOK'
    BY <1>0, <1>8 DEF TypeOK, vars, changes, history
  <2>2. InStep'
    BY <1>0, <1>8 DEF InStep, Get, Batch, vars, changes, history
  <2>3. IterInv'
    BY <1>0, <1>8 DEF IterInv, StandsAt, SkipDeleted, UpdateCurrent, vars, changes
  <2> QED
    BY <2>1, <2>2, <2>3 DEF TransactionInv
<1> QED
  BY <1>1, <1>2, <1>3, <1>4, <1>5, <1>6, <1>7, <1>8 DEF Next

-----------------------------------------------------------------------------
(* The theorems.                                                           *)

\* Everything below follows from this invariant of the transaction.
THEOREM TransactionInvariance == Spec => []TransactionInv
<1>1. Init => TransactionInv
  BY InitInv
<1>2. TransactionInv /\ [Next]_vars => TransactionInv'
  BY StepInv
<1> QED
  BY <1>1, <1>2, PTL DEF Spec

\* The types, and that changes and iterators belong to an open transaction.
THEOREM TransactionTypeCorrect == Spec => []TypeOK
<1>1. TransactionInv => TypeOK
  BY DEF TransactionInv
<1> QED
  BY <1>1, TransactionInvariance, PTL

\* Get returns what was last put or deleted, but for the two kinds of keys it names.
THEOREM ReadsLatest == Spec => []GetIsLatest
<1>1. TransactionInv => GetIsLatest
  BY DEF TransactionInv, InStep, GetIsLatest
<1> QED
  BY <1>1, TransactionInvariance, PTL

\* A commit writes what was last put or deleted, but for strings put twice.
THEOREM CommitsLatest == Spec => CommitIsLatest
<1>1. ASSUME TransactionInv, Commit PROVE \A k \in Key \ kept : db'[k] = latest[k]
  BY <1>1 DEF TransactionInv, InStep, Commit
<1>2. TransactionInv /\ [Next]_vars
        => [Commit => \A k \in Key \ kept : db'[k] = latest[k]]_vars
  BY <1>1
<1> QED
  BY <1>2, TransactionInvariance, PTL DEF Spec, CommitIsLatest

\* Next goes to the next row of the merged view, whatever was changed meanwhile.
LEMMA NextGoesOn ==
  ASSUME TransactionInv, IteratorNext
  PROVE  LET after == {k \in Has(View) : k > iter.key}
         IN IF after = {} THEN ~iter'.valid
            ELSE /\ iter'.valid /\ iter'.key = Min(after)
                 /\ iter'.value = View[iter'.key]
<1> DEFINE after == {k \in Has(View) : k > iter.key}
           from  == {k \in Has(View) : k >= iter.key + 1}
<1>1. TypeOK /\ IterInv /\ iter.valid /\ iter' = Moved(iter)
  BY DEF TransactionInv, IteratorNext
<1>2. iter.key \in Nat /\ iter.key + 1 \in Nat /\ Has(View) \subseteq Nat
  BY <1>1, BoundsAssumption DEF IterInv, Key, Has
<1>3. PICK it \in Iterator : StandsAt(it, iter.key + 1) /\ iter' = UpdateCurrent(it)
  BY <1>1, MovedIsNext
<1>4. /\ from = {} => ~iter'.valid
      /\ from # {} => /\ iter'.valid /\ iter'.key \in from
                      /\ \A j \in from : iter'.key <= j
                      /\ iter'.value = View[iter'.key]
  BY <1>1, <1>2, <1>3, FirstOfView
<1>5. after = from
  BY <1>2
<1>6. ASSUME from # {} PROVE iter'.key = Min(from)
  <2>1. from \subseteq Nat
    BY <1>2
  <2> HIDE DEF from
  <2>2. Min(from) \in from /\ \A j \in from : Min(from) <= j
    BY <1>6, <2>1, MinIsLeast
  <2>3. Min(from) \in Nat /\ iter'.key \in Nat /\ Min(from) <= iter'.key /\ iter'.key <= Min(from)
    BY <1>4, <1>6, <2>1, <2>2
  <2> QED
    BY <2>3
<1> QED
  BY <1>4, <1>5, <1>6

\* An iterator of the transaction walks the merged view in order.
THEOREM IteratorOrder == Spec => NextIsSuccessor
<1>1. TransactionInv /\ [Next]_vars
        => [IteratorNext => LET after == {k \in Has(View) : k > iter.key}
              IN IF after = {} THEN ~iter'.valid
                 ELSE /\ iter'.valid /\ iter'.key = Min(after)
                      /\ iter'.value = View[iter'.key]]_vars
  BY NextGoesOn, Zenon
<1> QED
  BY <1>1, TransactionInvariance, PTL DEF Spec, NextIsSuccessor
=============================================================================
