---------------------------- MODULE LevelDBVersion ----------------------------
(***************************************************************************)
(* The sorted tables of leveldb (ios/Pods/leveldb-library), as one version *)
(* of them is read and compacted.  A version is a function from the        *)
(* numbers of its files to their levels; a table is a set of entries.  The *)
(* files of level 0 may overlap, and the newer one counts; those of any    *)
(* other level are to be disjoint, and a lower level is to hold the newer  *)
(* entries.                                                                *)
(***************************************************************************)
EXTENDS Naturals, FiniteSets, FiniteSetsExt, Sequences, SequencesExt, Functions

CONSTANTS
  NumKeys,      \* keys are numbered in their order
  MaxSequence,  \* bound: sequence numbers given out
  NumLevels,    \* config::kNumLevels
  MaxMemLevel,  \* config::kMaxMemCompactLevel
  L0Trigger,    \* config::kL0_CompactionTrigger
  OutputSize    \* entries in a table that make a compaction begin another

ASSUME LevelsAssumption ==
  /\ NumKeys \in Nat /\ MaxSequence \in Nat
  /\ MaxMemLevel \in Nat /\ NumLevels \in Nat /\ MaxMemLevel + 1 < NumLevels
  /\ L0Trigger \in Nat \ {0} /\ OutputSize \in Nat \ {0}

Key      == 1 .. NumKeys
Sequence == 1 .. MaxSequence
Entry    == [key : Key, seq : Sequence, del : BOOLEAN]

\* Newer entries of a key come first.
InternalKey(k, s) == k * (MaxSequence + 1) + (MaxSequence - s)
Order(e)          == InternalKey(e.key, e.seq)

\* Files g are written, over any of the same number.
Over(g, f) == [n \in DOMAIN g \cup DOMAIN f |-> IF n \in DOMAIN g THEN g[n] ELSE f[n]]

\* What a reader at sequence number s sees of a set of entries.
Newest(entries, k, s) ==
  LET seen == {e \in entries : e.key = k /\ e.seq <= s}
  IN IF seen = {} THEN {} ELSE {CHOOSE e \in seen : \A d \in seen : d.seq <= e.seq}

\* What Get answers: the sequence number stands for the value.
Value(found) == {e.seq : e \in {d \in found : ~d.del}}

-----------------------------------------------------------------------------
(* One version v of the tables T. *)

Level(v, l)     == {f \in DOMAIN v : v[f] = l}
Keys(T, f)      == {e.key : e \in T[f]}
Smallest(T, f)  == Min(Keys(T, f))
Largest(T, f)   == Max(Keys(T, f))
Entries(T, fs)  == UNION {T[f] : f \in fs}

\* Version::OverlapInLevel: some key range of the level meets lo .. hi.
Meeting(v, T, l, lo, hi) == {f \in Level(v, l) : Smallest(T, f) <= hi /\ Largest(T, f) >= lo}

\* The range of a set of files: GetRange, GetRange2.
Lo(T, fs) == Min({Smallest(T, f) : f \in fs})
Hi(T, fs) == Max({Largest(T, f) : f \in fs})

\* Version::GetOverlappingInputs.  At level 0 a file that widens the range makes
\* the search start again.
Overlapping(v, T, l, lo, hi) ==
  LET direct == Meeting(v, T, l, lo, hi)
      closed == {fs \in SUBSET Level(v, 0) :
                   /\ direct \subseteq fs
                   /\ fs # {} => Meeting(v, T, 0, Lo(T, fs), Hi(T, fs)) \subseteq fs}
  IN IF l > 0 \/ direct = {} THEN direct
     ELSE {f \in Level(v, 0) : \A fs \in closed : f \in fs}

\* Version::Get in one level: the newest table first at level 0, the one table
\* FindFile finds at the others.
InLevel(v, T, l, k, s) ==
  LET holding == {f \in Meeting(v, T, l, k, k) : Newest(T[f], k, s) # {}}
      last(f) == Max({Order(e) : e \in T[f]})
      after   == {f \in Level(v, l) : last(f) >= InternalKey(k, s)}
      found   == CHOOSE f \in after : \A g \in after : last(f) <= last(g)
  IN IF l = 0 THEN IF holding = {} THEN {} ELSE Newest(T[Max(holding)], k, s)
     ELSE IF after = {} THEN {} ELSE Newest(T[found], k, s)

\* Version::Get: the first level that has an entry decides.
InVersion(v, T, k, s) ==
  LET levels == {l \in 0 .. NumLevels - 1 : InLevel(v, T, l, k, s) # {}}
  IN IF levels = {} THEN {} ELSE InLevel(v, T, Min(levels), k, s)

\* Mutant: the level below is not looked at.
PickLevel_Blind(v, T, lo, hi) == IF Meeting(v, T, 0, lo, hi) # {} THEN 0 ELSE MaxMemLevel

\* Version::PickLevelForMemTableOutput: down to the first level whose next one
\* overlaps.
PickLevel(v, T, lo, hi) ==
  IF Meeting(v, T, 0, lo, hi) # {} THEN 0
  ELSE Max({l \in 0 .. MaxMemLevel : \A m \in 1 .. l : Meeting(v, T, m, lo, hi) = {}})

-----------------------------------------------------------------------------
(* Compactions: of files in0 of a level and the files in1 of the next. *)

\* VersionSet::SetupOtherInputs: more files of the level are taken along if that
\* takes no more of the next.
Inputs(v, T, l, picked) ==
  LET in1  == Overlapping(v, T, l + 1, Lo(T, picked), Hi(T, picked))
      all  == picked \cup in1
      more == Overlapping(v, T, l, Lo(T, all), Hi(T, all))
      more1 == Overlapping(v, T, l + 1, Lo(T, more), Hi(T, more))
      grow == in1 # {} /\ Cardinality(more) > Cardinality(picked)
                       /\ Cardinality(more1) = Cardinality(in1)
  IN [level |-> l, in0 |-> IF grow THEN more ELSE picked, in1 |-> in1, base |-> v,
      oldest |-> 0]

\* VersionSet::PickCompaction: any file a level may begin with.
Picked(v, T, l, f) == IF l = 0 THEN Overlapping(v, T, 0, Smallest(T, f), Largest(T, f)) ELSE {f}

\* Compaction::IsTrivialMove.
TrivialMove(c) == Cardinality(c.in0) = 1 /\ c.in1 = {}

\* Compaction::IsBaseLevelForKey: no deeper level of the version the compaction
\* began with may hold the key.
BaseLevel(c, T, k) == \A f \in DOMAIN c.base : c.base[f] >= c.level + 2 => Meeting(c.base, T, c.base[f], k, k) = {}

\* Mutant: an old entry is dropped although a snapshot reads it.
Dropped_NoSnapshot(c, T, e, oldest) ==
  LET all == Entries(T, c.in0 \cup c.in1)
  IN \/ \E d \in all : d.key = e.key /\ d.seq > e.seq
     \/ e.del /\ BaseLevel(c, T, e.key)

\* DoCompactionWork: hidden by a newer entry that every snapshot sees, or the
\* deletion of what no deeper level has.
Dropped(c, T, e, oldest) ==
  LET all == Entries(T, c.in0 \cup c.in1)
  IN \/ \E d \in all : d.key = e.key /\ d.seq > e.seq /\ d.seq <= oldest
     \/ e.del /\ e.seq <= oldest /\ BaseLevel(c, T, e.key)

\* The outputs: what is kept, in order, cut into tables of OutputSize.
Outputs(c, T, oldest) ==
  LET all  == Entries(T, c.in0 \cup c.in1)
      kept == {e \in Entry : e \in all /\ ~Dropped(c, T, e, oldest)}
      place(e) == Cardinality({d \in kept : Order(d) < Order(e)}) \div OutputSize
  IN [i \in {place(e) : e \in kept} |-> {e \in kept : place(e) = i}]

-----------------------------------------------------------------------------
\* Builder::SaveTo's assertion: the files of a level above 0 do not overlap, in
\* the order of internal keys.
Disjoint(v, T) ==
  \A f, g \in DOMAIN v :
    f # g /\ v[f] = v[g] /\ v[f] > 0 =>
      \/ \A d \in T[f], e \in T[g] : Order(d) < Order(e)
      \/ \A d \in T[f], e \in T[g] : Order(d) > Order(e)
=============================================================================
