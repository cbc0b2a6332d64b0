----------------------------- MODULE TextStorage -----------------------------
(***************************************************************************)
(* The screen of persistantStorage/asText.dart: one button writes a text   *)
(* to data.txt, another reads the file and shows what it read.             *)
(*                                                                         *)
(* Nothing keeps two taps apart.  Each fetches the directory and then runs *)
(* dart:io's writeAsString or readAsString, a chain of requests that any   *)
(* thread of the io service may serve, so that the chains of different     *)
(* taps interleave freely.                                                 *)
(***************************************************************************)
EXTENDS Naturals, Sequences, FiniteSets, SequencesExt

CONSTANTS
  Tap,      \* identities for taps whose work is under way
  Char,     \* characters
  MaxLen,   \* bound: the length of a text
  None      \* Dart's null, and the absence of the file

ASSUME TextAssumption == MaxLen \in Nat /\ None \notin Seq(Char)

\* One character written over and over: what tells two texts apart, and a
\* mixture of them from either.
Text == {[i \in 1 .. n |-> ch] : n \in 0 .. MaxLen, ch \in Char}

VARIABLES
  file,   \* data.txt
  data,   \* the text shown
  work,   \* what each tap has under way
  last,   \* history: the text of the write that reached the file last
  torn    \* history: what happened to the file since a write had it for itself

vars == <<file, data, work, last, torn>>

\* The next request of a chain; "shown" is the continuation of a read.  text is
\* what is written or was read; clean: no write has come near this read.
Stage == {"idle", "open", "length", "read", "shown", "write"}
Work  == [op : {"write", "read"}, stage : Stage, text : Seq(Char),
          length : 0 .. MaxLen, clean : BOOLEAN]
Idle  == [op |-> "read", stage |-> "idle", text |-> <<>>, length |-> 0, clean |-> FALSE]

At(t, op, stage) == work[t].op = op /\ work[t].stage = stage

\* The writes that have emptied the file and not yet filled it.
HalfWritten == {t \in Tap : At(t, "write", "write")}

-----------------------------------------------------------------------------
(* The two buttons.  fetchFile comes to "open" sooner or later; no path      *)
(* taken before that touches the file.                                       *)

writeData(t, text) ==
  /\ work[t].stage = "idle"
  /\ work' = [work EXCEPT ![t] = [Idle EXCEPT !.op = "write", !.stage = "open", !.text = text]]
  /\ UNCHANGED <<file, data, last, torn>>

readData(t) ==
  /\ work[t].stage = "idle"
  /\ work' = [work EXCEPT ![t] = [Idle EXCEPT !.stage = "open"]]
  /\ UNCHANGED <<file, data, last, torn>>

-----------------------------------------------------------------------------
(* dart:io's writeAsString. *)

\* Mutant: the file is opened to be overwritten and keeps its text.
Opened_Kept == IF file = None THEN <<>> ELSE file

\* FileMode.write creates the file or truncates it.
Opened == <<>>

OpenToWrite(t) ==
  /\ At(t, "write", "open")
  /\ file' = Opened
  /\ torn' = IF HalfWritten = {} THEN {} ELSE torn \cup {"overlapped"}
  /\ work' = [u \in Tap |-> [work[u] EXCEPT
                !.stage = IF u = t THEN "write" ELSE @,
                !.clean = @ /\ work[u].stage = "shown"]]
  /\ UNCHANGED <<data, last>>

\* Mutant: the text is written behind what is there.
Write_Appends(t) ==
  /\ At(t, "write", "write")
  /\ file' = file \o work[t].text
  /\ last' = work[t].text
  /\ work' = [work EXCEPT ![t] = Idle]
  /\ UNCHANGED <<data, torn>>

\* Each write has a position of its own, which starts at 0.
Write(t) ==
  /\ At(t, "write", "write")
  /\ file' = work[t].text \o SubSeq(file, Len(work[t].text) + 1, Len(file))
  /\ last' = work[t].text
  /\ work' = [work EXCEPT ![t] = Idle]
  /\ UNCHANGED <<data, torn>>

-----------------------------------------------------------------------------
(* dart:io's readAsString: open, length, then a read of that many bytes. *)

\* A missing file is an error, which the try of readData does not catch.
OpenToRead(t) ==
  /\ At(t, "read", "open")
  /\ work' = IF file = None THEN [work EXCEPT ![t] = Idle]
             ELSE [work EXCEPT ![t].stage = "length", ![t].clean = HalfWritten = {}]
  /\ UNCHANGED <<file, data, last, torn>>

Length(t) ==
  /\ At(t, "read", "length")
  /\ work' = [work EXCEPT ![t].stage = "read", ![t].length = Len(file)]
  /\ UNCHANGED <<file, data, last, torn>>

\* A length of 0 may be that of a file that does not know it: read to the end.
Read(t) ==
  /\ At(t, "read", "read")
  /\ LET n == work[t].length
         text == IF n = 0 \/ n > Len(file) THEN file ELSE SubSeq(file, 1, n)
     IN  work' = [work EXCEPT ![t].stage = "shown", ![t].text = text]
  /\ UNCHANGED <<file, data, last, torn>>

\* then((result) { setState(() { data = result.toString(); }) })
Show(t) ==
  /\ At(t, "read", "shown")
  /\ data' = work[t].text
  /\ work' = [work EXCEPT ![t] = Idle]
  /\ UNCHANGED <<file, last, torn>>

-----------------------------------------------------------------------------

Init ==
  /\ file \in Text \cup {None}
  /\ last = file /\ data = None
  /\ work = [t \in Tap |-> Idle] /\ torn = {}

\* The app is killed and started again.
Restart ==
  /\ work' = [t \in Tap |-> Idle] /\ data' = None
  /\ torn' = IF HalfWritten = {} THEN torn ELSE torn \cup {"killed"}
  /\ UNCHANGED <<file, last>>

Next ==
  \/ \E t \in Tap :
       \/ \E text \in Text : writeData(t, text)
       \/ readData(t) \/ OpenToWrite(t) \/ Write(t)
       \/ OpenToRead(t) \/ Length(t) \/ Read(t) \/ Show(t)
  \/ Restart

Spec == Init /\ [][Next]_vars

-----------------------------------------------------------------------------
(* Properties. *)

\* Types; what chains of any taps leave in the file is never longer than the
\* longest text, as each of them writes from the start (writeData, asText.dart:61).
TextTypeOK ==
  /\ file = None \/ (file \in Seq(Char) /\ Len(file) <= MaxLen)
  /\ data = None \/ data \in Seq(Char)
  /\ work \in [Tap -> Work]
  /\ torn \subseteq {"overlapped", "killed"}

\* With no write under way the file starts with the whole text that was written
\* last, and holds nothing else unless writes overlapped; only a write that is
\* killed between the truncation and the text leaves neither (asText.dart:61).
LastTextIsInFront ==
  HalfWritten = {} /\ "killed" \notin torn /\ file # None =>
    /\ IsPrefix(last, file)
    /\ torn = {} => file = last

\* A read that no write has come near shows all of a text, the one written last
\* before it, although the file's length and its bytes are asked for one after
\* the other (readData, asText.dart:46).
CleanReadIsWhole ==
  \A t \in Tap :
    work[t].clean /\ work[t].stage = "read" /\ torn = {} => work[t].length = Len(last) /\ file = last
=============================================================================
