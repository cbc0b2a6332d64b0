------------------------- MODULE TextStorageProofs -------------------------
(***************************************************************************)
(* Proofs about TextStorage, for any number of taps and texts.             *)
(*                                                                         *)
(* The argument is about the writes between their truncation and their     *)
(* text: as long as nothing has happened to the file since a write had it  *)
(* for itself, there is at most one of them, and then the file is empty.   *)
(***************************************************************************)
EXTENDS TextStorage, SequenceTheorems, TLAPS

\* Strengthens TextTypeOK by what the chains carry.
TypeInv ==
  /\ file = None \/ (file \in Seq(Char) /\ Len(file) <= MaxLen)
  /\ data = None \/ data \in Seq(Char)
  /\ work \in [Tap -> Work]
  /\ \A t \in Tap : work[t].op = "write" => Len(work[t].text) <= MaxLen
  /\ last = None \/ last \in Seq(Char)
  /\ torn \subseteq {"overlapped", "killed"}

\* A chain that has opened the file finds it there.
ThereInv ==
  \A t \in Tap : work[t].stage \in {"write", "length", "read"} => file # None

\* The writes that are between truncation and text.
HalfInv ==
  torn = {} =>
    /\ \A t, u \in HalfWritten : t = u
    /\ HalfWritten # {} => file = <<>>

\* A read no write has come near has seen no half-written file, and will see
\* the bytes it was told of.
ReadInv ==
  \A t \in Tap :
    /\ work[t].clean /\ work[t].stage \in {"length", "read"} => HalfWritten = {}
    /\ work[t].clean /\ work[t].stage = "read" /\ torn = {} => work[t].length = Len(last)

FileInv == TypeInv /\ ThereInv /\ HalfInv /\ ReadInv /\ LastTextIsInFront

-----------------------------------------------------------------------------

\* The empty text, and a tap with nothing under way.
LEMMA EmptyText == <<>> \in Seq(Char) /\ Len(<<>>) = 0 /\ <<>> # None /\ 0 \in 0 .. MaxLen
<1>1. <<>> \in Seq(Char)
  OBVIOUS
<1>2. Len(<<>>) = 0
  OBVIOUS
<1>3. <<>> # None
  BY <1>1, TextAssumption
<1>4. 0 \in 0 .. MaxLen
  BY TextAssumption
<1> QED BY <1>1, <1>2, <1>3, <1>4

\* What a tap is left as when its chain has ended.
LEMMA IdleIsWork == Idle \in Work /\ Idle.op = "read" /\ Idle.stage = "idle" /\ ~ Idle.clean
BY EmptyText DEF Idle, Work, Stage

\* The texts are short sequences.
LEMMA TextIsSeq == \A text \in Text : text \in Seq(Char) /\ Len(text) <= MaxLen
<1>1. SUFFICES ASSUME NEW n \in 0 .. MaxLen, NEW ch \in Char
               PROVE  LET text == [i \in 1 .. n |-> ch] IN text \in Seq(Char) /\ Len(text) <= MaxLen
  BY DEF Text
<1>2. n \in Nat /\ n <= MaxLen
  BY TextAssumption
<1> QED BY <1>2

\* Writing a text over what is there: the text comes first, the rest is what was
\* behind it, so an empty file then holds the text alone.
LEMMA Overwritten ==
  ASSUME NEW text \in Seq(Char), Len(text) <= MaxLen,
         NEW old \in Seq(Char), Len(old) <= MaxLen
  PROVE  LET new == text \o SubSeq(old, Len(text) + 1, Len(old)) IN
         /\ new \in Seq(Char) /\ Len(new) <= MaxLen
         /\ IsPrefix(text, new)
         /\ old = <<>> => new = text
<1> DEFINE rest == SubSeq(old, Len(text) + 1, Len(old))
           new  == text \o rest
<1>1. /\ Len(text) \in Nat /\ Len(old) \in Nat /\ MaxLen \in Nat
      /\ \A i \in Len(text) + 1 .. Len(old) : old[i] \in Char
  BY TextAssumption
<1>2. /\ rest \in Seq(Char)
      /\ Len(rest) = IF Len(text) + 1 <= Len(old) THEN Len(old) - (Len(text) + 1) + 1 ELSE 0
  BY <1>1, SubSeqProperties
<1>3. /\ new \in Seq(Char) /\ Len(new) = Len(text) + Len(rest)
      /\ \A i \in 1 .. Len(text) : new[i] = text[i]
  <2> HIDE DEF rest
  <2>1. /\ new \in Seq(Char) /\ Len(new) = Len(text) + Len(rest)
        /\ \A i \in 1 .. Len(text) + Len(rest) : new[i] = IF i <= Len(text) THEN text[i] ELSE rest[i - Len(text)]
    BY <1>2, ConcatProperties
  <2>2. Len(rest) \in Nat
    BY <1>2
  <2> QED BY <1>1, <2>1, <2>2
<1>4. Len(new) <= MaxLen
  BY <1>1, <1>2, <1>3
<1>5. IsPrefix(text, new)
  <2> HIDE DEF new
  <2>1. Len(text) <= Len(new)
    BY <1>1, <1>2, <1>3
  <2>2. SubSeq(text, 1, Len(text)) = SubSeq(new, 1, Len(text))
    <3>1. \A i \in 1 .. Len(text) : text[i] \in Char /\ new[i] = text[i]
      BY <1>3
    <3> QED BY <1>1, <1>3, <3>1
  <2> QED BY <2>1, <2>2 DEF IsPrefix
<1>6. ASSUME old = <<>> PROVE new = text
  <2>1. rest = <<>>
    BY <1>1, <1>6, SubSeqEmpty
  <2> QED BY <2>1, ConcatEmptySeq
<1> QED BY <1>3, <1>4, <1>5, <1>6

\* A text is a prefix of itself.
LEMMA PrefixOfItself == \A s : IsPrefix(s, s)
BY DEF IsPrefix

-----------------------------------------------------------------------------
(* The invariant, action by action. *)

\* A read's own steps, and a new tap, leave the file and its writes alone.
LEMMA FileKept ==
  ASSUME FileInv, NEW t \in Tap, UNCHANGED <<file, last, torn>>,
         NEW w \in Work, work' = [work EXCEPT ![t] = w],
         ~ At(t, "write", "write"), w.op # "write" \/ w.stage # "write"
  PROVE  HalfWritten' = HalfWritten /\ HalfInv' /\ LastTextIsInFront'
<1>1. HalfWritten' = HalfWritten
  BY DEF FileInv, TypeInv, HalfWritten, At
<1> QED BY <1>1 DEF FileInv, HalfInv, LastTextIsInFront

\* A tap on the write button.
LEMMA WriteDataInv ==
  ASSUME FileInv, NEW t \in Tap, NEW text \in Text, writeData(t, text)
  PROVE  FileInv'
<1> DEFINE w == [Idle EXCEPT !.op = "write", !.stage = "open", !.text = text]
<1>1. work' = [work EXCEPT ![t] = w] /\ UNCHANGED <<file, data, last, torn>> /\ work[t].stage = "idle"
  BY DEF writeData
<1>2. /\ text \in Seq(Char) /\ Len(text) <= MaxLen
      /\ w \in Work /\ w.op = "write" /\ w.stage = "open" /\ w.text = text
  <2>1. text \in Seq(Char) /\ Len(text) <= MaxLen
    BY TextIsSeq
  <2>2. Idle \in Work
    BY IdleIsWork
  <2>3. w \in Work /\ w.op = "write" /\ w.stage = "open" /\ w.text = text
    BY <2>1, <2>2 DEF Work, Stage
  <2> QED BY <2>1, <2>3
<1>3. HalfWritten' = HalfWritten /\ HalfInv' /\ LastTextIsInFront'
  BY <1>1, <1>2, FileKept DEF At
<1>4. TypeInv'
  BY <1>1, <1>2 DEF FileInv, TypeInv
<1>5. ThereInv' /\ ReadInv'
  BY <1>1, <1>2, <1>3 DEF FileInv, TypeInv, ThereInv, ReadInv
<1> QED BY <1>3, <1>4, <1>5 DEF FileInv

\* A tap on the read button, and the steps of a read that ask for the length or
\* show what was read or fail.
LEMMA ReadStepInv ==
  ASSUME FileInv, NEW t \in Tap, UNCHANGED <<file, last, torn>>,
         data' = data \/ data' \in Seq(Char),
         NEW w \in Work, work' = [work EXCEPT ![t] = w], work[t].op = "read" \/ work[t].stage = "idle",
         w.op = "read", w.stage # "write", w.stage \in {"length", "read"} => file # None,
         w.clean /\ w.stage \in {"length", "read"} => HalfWritten = {},
         w.clean /\ w.stage = "read" /\ torn = {} => w.length = Len(last)
  PROVE  FileInv'
<1>1. HalfWritten' = HalfWritten /\ HalfInv' /\ LastTextIsInFront'
  BY FileKept DEF At
<1>2. TypeInv'
  BY DEF FileInv, TypeInv
<1>3. \A u \in Tap : work'[u] = IF u = t THEN w ELSE work[u]
  BY DEF FileInv, TypeInv
<1>4. ThereInv'
  BY <1>3 DEF FileInv, ThereInv
<1>5. ReadInv'
  BY <1>1, <1>3 DEF FileInv, ReadInv
<1> QED BY <1>1, <1>2, <1>4, <1>5 DEF FileInv

\* A write truncates the file: every read under way is no longer clean.
LEMMA OpenToWriteInv ==
  ASSUME FileInv, NEW t \in Tap, OpenToWrite(t)
  PROVE  FileInv'
<1>1. /\ At(t, "write", "open") /\ file' = <<>> /\ UNCHANGED <<data, last>>
      /\ torn' = IF HalfWritten = {} THEN {} ELSE torn \cup {"overlapped"}
      /\ work' = [u \in Tap |-> [work[u] EXCEPT
                    !.stage = IF u = t THEN "write" ELSE @,
                    !.clean = @ /\ work[u].stage = "shown"]]
  BY DEF OpenToWrite, Opened
<1>2. /\ work' \in [Tap -> Work]
      /\ \A u \in Tap : /\ work'[u].op = work[u].op /\ work'[u].text = work[u].text
                        /\ work'[u].stage = IF u = t THEN "write" ELSE work[u].stage
                        /\ work'[u].clean => work[u].stage = "shown"
  <2> SUFFICES ASSUME NEW u \in Tap
               PROVE  /\ work'[u] \in Work
                      /\ work'[u].op = work[u].op /\ work'[u].text = work[u].text
                      /\ work'[u].stage = IF u = t THEN "write" ELSE work[u].stage
                      /\ work'[u].clean => work[u].stage = "shown"
    <3>1. work' = [u \in Tap |-> work'[u]]
      BY <1>1
    <3> QED BY <3>1
  <2> DEFINE stage == IF u = t THEN "write" ELSE work[u].stage
             clean == work[u].clean /\ work[u].stage = "shown"
  <2>1. work'[u] = [work[u] EXCEPT !.stage = stage, !.clean = clean]
    BY <1>1
  <2>2. work[u] \in Work /\ stage \in Stage /\ clean \in BOOLEAN
    BY DEF FileInv, TypeInv, Work, Stage
  <2> HIDE DEF stage, clean
  <2>3. /\ work'[u] \in Work /\ work'[u].op = work[u].op /\ work'[u].text = work[u].text
        /\ work'[u].stage = stage /\ work'[u].clean = clean
    BY <2>1, <2>2 DEF Work
  <2> QED BY <2>3 DEF stage, clean
<1>3. HalfWritten' = HalfWritten \cup {t}
  <2>1. work[t].op = "write"
    BY <1>1 DEF At
  <2>2. \A u \in Tap : At(u, "write", "write")' <=> u = t \/ At(u, "write", "write")
    BY <1>2, <2>1 DEF At
  <2> QED BY <2>2 DEF HalfWritten
<1>4. TypeInv'
  <2>1. \A u \in Tap : work'[u].op = "write" => Len(work'[u].text) <= MaxLen
    BY <1>2 DEF FileInv, TypeInv
  <2>2. file' \in Seq(Char) /\ Len(file') <= MaxLen
    <3>1. \A m \in Nat : 0 <= m
      OBVIOUS
    <3> QED BY <1>1, <3>1, EmptyText, TextAssumption
  <2> QED BY <1>1, <1>2, <2>1, <2>2 DEF FileInv, TypeInv
<1>5. ThereInv'
  BY <1>1, EmptyText DEF ThereInv
<1>6. HalfInv'
  BY <1>1, <1>3 DEF HalfInv
<1>7. ReadInv'
  <2>1. ASSUME NEW u \in Tap, work'[u].clean PROVE work'[u].stage \in {"shown", "write"}
    BY <1>2, <2>1
  <2> QED BY <2>1 DEF ReadInv
<1>8. LastTextIsInFront'
  BY <1>3 DEF LastTextIsInFront
<1> QED BY <1>4, <1>5, <1>6, <1>7, <1>8 DEF FileInv

\* A write writes its text over what is there.
LEMMA WriteInv ==
  ASSUME FileInv, NEW t \in Tap, Write(t)
  PROVE  FileInv'
<1> DEFINE text == work[t].text
<1>1. /\ At(t, "write", "write") /\ last' = text /\ UNCHANGED <<data, torn>>
      /\ file' = text \o SubSeq(file, Len(text) + 1, Len(file))
      /\ work' = [work EXCEPT ![t] = Idle]
  BY DEF Write
<1>2. /\ file \in Seq(Char) /\ Len(file) <= MaxLen
      /\ text \in Seq(Char) /\ Len(text) <= MaxLen
  BY <1>1 DEF FileInv, TypeInv, ThereInv, At, Work
<1>3. /\ file' \in Seq(Char) /\ Len(file') <= MaxLen /\ IsPrefix(text, file')
      /\ file = <<>> => file' = text
  BY <1>1, <1>2, Overwritten
<1>4. Idle \in Work /\ Idle.op = "read" /\ Idle.stage = "idle" /\ ~ Idle.clean
  BY IdleIsWork
<1>5. HalfWritten' = HalfWritten \ {t} /\ t \in HalfWritten
  BY <1>1, <1>4 DEF FileInv, TypeInv, HalfWritten, At
<1>6. TypeInv'
  BY <1>1, <1>2, <1>3, <1>4 DEF FileInv, TypeInv
<1>7. ThereInv'
  BY <1>3, TextAssumption DEF ThereInv
<1>8. HalfInv'
  BY <1>1, <1>5 DEF FileInv, HalfInv
<1>9. ReadInv'
  <2> SUFFICES ASSUME NEW u \in Tap, work'[u].clean, work'[u].stage \in {"length", "read"}
               PROVE  FALSE
    BY DEF ReadInv
  <2>1. u # t /\ work'[u] = work[u]
    BY <1>1, <1>4 DEF FileInv, TypeInv
  <2> QED BY <1>5, <2>1 DEF FileInv, ReadInv
<1>10. LastTextIsInFront'
  BY <1>1, <1>3, <1>5 DEF FileInv, HalfInv, LastTextIsInFront
<1> QED BY <1>6, <1>7, <1>8, <1>9, <1>10 DEF FileInv

\* A read asks for the file, its length and its bytes, and shows them.
LEMMA ReadingInv ==
  ASSUME FileInv, NEW t \in Tap, readData(t) \/ OpenToRead(t) \/ Length(t) \/ Read(t) \/ Show(t)
  PROVE  FileInv'
<1>1. Idle \in Work /\ Idle.op = "read" /\ Idle.stage = "idle"
  BY IdleIsWork
<1>2. work[t] \in Work /\ (file = None \/ (file \in Seq(Char) /\ Len(file) \in 0 .. MaxLen))
  BY TextAssumption DEF FileInv, TypeInv
<1>3. CASE OpenToRead(t)
  <2> DEFINE w == IF file = None THEN Idle
                  ELSE [work[t] EXCEPT !.stage = "length", !.clean = HalfWritten = {}]
  <2>1. /\ work[t].op = "read" /\ UNCHANGED <<file, data, last, torn>>
        /\ work' = [work EXCEPT ![t] = w]
    BY <1>2, <1>3 DEF OpenToRead, At, FileInv, TypeInv
  <2>2. /\ w \in Work /\ w.op = "read" /\ w.stage \in {"idle", "length"}
        /\ w.stage = "length" => file # None
        /\ w.clean /\ w.stage = "length" => HalfWritten = {}
    BY <1>1, <1>2, <2>1 DEF Work, Stage
  <2> HIDE DEF w
  <2> QED BY <2>1, <2>2, ReadStepInv
<1>4. CASE readData(t)
  <2> DEFINE w == [Idle EXCEPT !.stage = "open"]
  <2>1. /\ work[t].stage = "idle" /\ UNCHANGED <<file, data, last, torn>>
        /\ work' = [work EXCEPT ![t] = w]
    BY <1>4 DEF readData
  <2>2. w \in Work /\ w.op = "read" /\ w.stage = "open"
    BY EmptyText DEF Idle, Work, Stage
  <2> HIDE DEF w
  <2> QED BY <2>1, <2>2, ReadStepInv
<1>5. CASE Length(t)
  <2> DEFINE w == [work[t] EXCEPT !.stage = "read", !.length = Len(file)]
  <2>1. /\ At(t, "read", "length") /\ UNCHANGED <<file, data, last, torn>>
        /\ work' = [work EXCEPT ![t] = w]
    BY <1>2, <1>5 DEF Length, FileInv, TypeInv
  <2>2. file # None
    BY <2>1 DEF FileInv, ThereInv, At
  <2>3. w \in Work /\ w.op = "read" /\ w.stage = "read" /\ w.length = Len(file) /\ w.clean = work[t].clean
    BY <1>2, <2>1, <2>2 DEF Work, Stage, At
  <2>4. w.clean => HalfWritten = {}
    BY <2>1, <2>3 DEF FileInv, ReadInv, At
  <2>5. w.clean /\ torn = {} => file = last
    BY <2>2, <2>4 DEF FileInv, LastTextIsInFront
  <2> HIDE DEF w
  <2> QED BY <2>1, <2>2, <2>3, <2>4, <2>5, ReadStepInv DEF At
<1>6. CASE Read(t)
  <2> DEFINE n    == work[t].length
             text == IF n = 0 \/ n > Len(file) THEN file ELSE SubSeq(file, 1, n)
             w    == [work[t] EXCEPT !.stage = "shown", !.text = text]
  <2>1. /\ At(t, "read", "read") /\ UNCHANGED <<file, data, last, torn>>
        /\ work' = [work EXCEPT ![t] = w]
    BY <1>2, <1>6 DEF Read, FileInv, TypeInv
  <2>2. file \in Seq(Char) /\ Len(file) \in Nat /\ n \in Nat
    BY <1>2, <2>1, TextAssumption DEF FileInv, ThereInv, At, Work
  <2>3. text \in Seq(Char)
    <3>1. ASSUME n <= Len(file) PROVE \A i \in 1 .. n : file[i] \in Char
      BY <2>2, <3>1
    <3> QED BY <2>2, <3>1, SubSeqProperties
  <2>4. w \in Work /\ w.op = "read" /\ w.stage = "shown"
    <3> HIDE DEF text
    <3> QED BY <1>2, <2>1, <2>3 DEF Work, Stage, At
  <2> HIDE DEF w
  <2> QED BY <2>1, <2>4, ReadStepInv DEF At
<1>7. CASE Show(t)
  <2>1. /\ At(t, "read", "shown") /\ UNCHANGED <<file, last, torn>> /\ data' \in Seq(Char)
        /\ work' = [work EXCEPT ![t] = Idle]
    BY <1>2, <1>7 DEF Show, Work
  <2> QED BY <1>1, <2>1, ReadStepInv DEF At
<1> QED BY <1>3, <1>4, <1>5, <1>6, <1>7

\* A restart forgets the chains; the file stays as they left it.
LEMMA RestartInv ==
  ASSUME FileInv, Restart
  PROVE  FileInv'
<1>1. Idle \in Work /\ Idle.op = "read" /\ Idle.stage = "idle" /\ ~ Idle.clean
  BY IdleIsWork
<1>2. /\ \A t \in Tap : work'[t] = Idle
      /\ work' \in [Tap -> Work] /\ data' = None /\ UNCHANGED <<file, last>>
      /\ torn' = IF HalfWritten = {} THEN torn ELSE torn \cup {"killed"}
  BY <1>1 DEF Restart
<1>3. HalfWritten' = {}
  BY <1>1, <1>2 DEF HalfWritten, At
<1>4. TypeInv'
  BY <1>1, <1>2 DEF FileInv, TypeInv
<1>5. ThereInv' /\ ReadInv'
  BY <1>1, <1>2 DEF ThereInv, ReadInv
<1>6. HalfInv'
  BY <1>3 DEF HalfInv
<1>7. LastTextIsInFront'
  BY <1>2 DEF FileInv, LastTextIsInFront
<1> QED BY <1>4, <1>5, <1>6, <1>7 DEF FileInv

\* The file a start of the app finds holds one text.
LEMMA InitInv == Init => FileInv
<1> SUFFICES ASSUME Init PROVE FileInv
  OBVIOUS
<1>1. Idle \in Work /\ Idle.op = "read" /\ Idle.stage = "idle" /\ ~ Idle.clean
  BY IdleIsWork
<1>2. /\ file = None \/ (file \in Seq(Char) /\ Len(file) <= MaxLen)
      /\ last = file /\ data = None /\ torn = {}
      /\ \A t \in Tap : work[t] = Idle
      /\ work \in [Tap -> Work]
  BY <1>1, TextIsSeq DEF Init
<1>3. HalfWritten = {}
  BY <1>1, <1>2 DEF HalfWritten, At
<1>4. TypeInv
  BY <1>1, <1>2 DEF TypeInv
<1>5. ThereInv /\ HalfInv /\ ReadInv
  BY <1>1, <1>2, <1>3 DEF ThereInv, HalfInv, ReadInv
<1>6. LastTextIsInFront
  BY <1>2, PrefixOfItself DEF LastTextIsInFront
<1> QED BY <1>4, <1>5, <1>6 DEF FileInv

\* Every step, one action at a time, keeps the invariant.
LEMMA StepInv == FileInv /\ [Next]_vars => FileInv'
<1> SUFFICES ASSUME FileInv, [Next]_vars PROVE FileInv'
  OBVIOUS
<1>1. ASSUME NEW t \in Tap, NEW text \in Text, writeData(t, text) PROVE FileInv'
  BY <1>1, WriteDataInv
<1>2. ASSUME NEW t \in Tap, readData(t) \/ OpenToRead(t) \/ Length(t) \/ Read(t) \/ Show(t)
      PROVE  FileInv'
  BY <1>2, ReadingInv
<1>3. ASSUME NEW t \in Tap, OpenToWrite(t) PROVE FileInv'
  BY <1>3, OpenToWriteInv
<1>4. ASSUME NEW t \in Tap, Write(t) PROVE FileInv'
  BY <1>4, WriteInv
<1>5. CASE Restart
  BY <1>5, RestartInv
<1>6. CASE UNCHANGED vars
  BY <1>6 DEF vars, FileInv, TypeInv, ThereInv, HalfInv, ReadInv, LastTextIsInFront, HalfWritten, At
<1> QED BY <1>1, <1>2, <1>3, <1>4, <1>5, <1>6 DEF Next

-----------------------------------------------------------------------------
(* The theorems. *)

\* However many taps write and read, in whatever order their requests are served:
\* all that FileInv says of the file and of the chains.
THEOREM FileInvariance == Spec => []FileInv
BY InitInv, StepInv, PTL DEF Spec

\* What is left of any writes starts with the whole text of the one that wrote
\* last, and is that text alone if no other came between.
THEOREM LastTextFirst == Spec => []LastTextIsInFront
<1>1. FileInv => LastTextIsInFront
  BY DEF FileInv
<1> QED BY <1>1, FileInvariance, PTL

\* A read that meets no write, at its opening or after, shows the file's whole text.
THEOREM CleanReadWhole == Spec => []CleanReadIsWhole
<1>1. FileInv => CleanReadIsWhole
  <2>1. SUFFICES ASSUME FileInv, NEW t \in Tap,
                        work[t].clean, work[t].stage = "read", torn = {}
                 PROVE  work[t].length = Len(last) /\ file = last
    BY DEF CleanReadIsWhole
  <2>2. HalfWritten = {} /\ file # None /\ work[t].length = Len(last)
    BY <2>1 DEF FileInv, ThereInv, ReadInv
  <2> QED BY <2>1, <2>2 DEF FileInv, LastTextIsInFront
<1> QED BY <1>1, FileInvariance, PTL

\* Types, and the bound on what overlapping writes leave in the file.
THEOREM TextTypeCorrect == Spec => []TextTypeOK
<1>1. FileInv => TextTypeOK
  BY DEF FileInv, TypeInv, TextTypeOK
<1> QED BY <1>1, FileInvariance, PTL
=============================================================================
