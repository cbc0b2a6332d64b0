-------------------------- MODULE SharedPreferences --------------------------
(***************************************************************************)
(* The screen of persistantStorage/sharedPreferences.dart: one value,      *)
(* "data", written and read with two buttons over the shared_preferences   *)
(* plugin.  The plugin loads the whole file once, into a cache; until it   *)
(* has, each call of getInstance sends a getAll of its own, and the last   *)
(* to be answered leaves its cache to all later calls.  A write goes to    *)
(* the cache at once and to the file through a channel nobody waits for.   *)
(***************************************************************************)
EXTENDS Naturals, Sequences, SequencesExt, FiniteSets

CONSTANTS
  Text,      \* what can be typed
  MaxCalls,  \* bound: calls on their way to or from the plugin
  None       \* Dart's null

VARIABLES
  data,      \* what the screen shows
  instance,  \* the value in the plugin's cache; "absent" before there is one
  file,      \* the value in the preferences file
  toNative,  \* calls on their way to the plugin's native side
  toDart,    \* answers of getAll on their way back
  written,   \* history: the value saved last in this run, or that it found
  raced      \* history: that write was followed by the answer to an older getAll

vars == <<data, instance, file, toNative, toDart, written, raced>>

Value == Text \cup {None}

\* then: what the caller of getInstance goes on to do; text: what it saves;
\* all: what getAll found.
Call        == [op : {"getAll", "setString"}, then : {"load", "save"}, text : Value, all : Value]
GetAll(then, text) == [op |-> "getAll", then |-> then, text |-> text, all |-> None]
SetString(text)    == [op |-> "setString", then |-> "save", text |-> text, all |-> None]

Loading == toDart # <<>> \/ \E i \in 1 .. Len(toNative) : toNative[i].op = "getAll"
Quiet   == toDart = <<>> /\ toNative = <<>>
Room    == Len(toNative) + Len(toDart) < MaxCalls

-----------------------------------------------------------------------------
\* initState calls _loadSharedPreferencesData, before there is an instance.
initState == <<GetAll("load", None)>>

Init ==
  /\ data = None /\ instance = "absent" /\ file = None
  /\ toNative = initState /\ toDart = <<>>
  /\ written = None /\ raced = FALSE

\* Mutant: the arguments of setString are swapped.
Save_Swapped(text, others) ==
  /\ UNCHANGED instance
  /\ toNative' = Append(toNative, SetString(None))
  /\ written' = text /\ raced' = others

\* preferences.setString("data", text): the cache first, then the channel.
Save(text, others) ==
  /\ instance' = text
  /\ toNative' = Append(toNative, SetString(text))
  /\ written' = text /\ raced' = others

\* "Write Data".
SaveData ==
  /\ Room
  /\ \E text \in Text :
       \/ /\ instance = "absent"
          /\ toNative' = Append(toNative, GetAll("save", text))
          /\ UNCHANGED <<instance, written, raced>>
       \/ /\ instance # "absent"
          /\ Save(text, Loading)
  /\ UNCHANGED <<data, file, toDart>>

\* "Read Data".
LoadSharedPreferencesData ==
  /\ Room
  /\ \/ /\ instance = "absent"
        /\ toNative' = Append(toNative, GetAll("load", None))
        /\ UNCHANGED data
     \/ /\ instance # "absent"
        /\ data' = instance
        /\ UNCHANGED toNative
  /\ UNCHANGED <<instance, file, toDart, written, raced>>

\* The native side serves calls in the order they were made.
Native ==
  /\ toNative # <<>>
  /\ toNative' = Tail(toNative)
  /\ LET call == Head(toNative) IN
       \/ /\ call.op = "getAll"
          /\ toDart' = Append(toDart, [call EXCEPT !.all = file])
          /\ UNCHANGED file
       \/ /\ call.op = "setString"
          /\ file' = call.text
          /\ UNCHANGED toDart
  /\ UNCHANGED <<data, instance, written, raced>>

\* An answer of getAll: a new instance, whatever there was before, and then the
\* rest of the handler that asked.
Instance ==
  /\ toDart # <<>>
  /\ toDart' = Tail(toDart)
  /\ LET call == Head(toDart) IN
       \/ /\ call.then = "load"
          /\ instance' = call.all
          /\ data' = call.all
          /\ UNCHANGED <<toNative, written, raced>>
       \/ /\ call.then = "save"
          /\ Save(call.text, Loading')
          /\ UNCHANGED data
  /\ UNCHANGED file

\* The process dies: calls that have not reached the native side are lost.
Restart ==
  /\ data' = None /\ instance' = "absent"
  /\ toNative' = initState /\ toDart' = <<>>
  /\ written' = file /\ raced' = FALSE
  /\ UNCHANGED file

Next == SaveData \/ LoadSharedPreferencesData \/ Native \/ Instance \/ Restart

Spec == Init /\ [][Next]_vars

-----------------------------------------------------------------------------
\* Types.
TypeOK ==
  /\ data \in Value /\ file \in Value /\ written \in Value
  /\ instance \in Value \cup {"absent"}
  /\ toNative \in Seq(Call) /\ toDart \in Seq(Call)
  /\ raced \in BOOLEAN

\* When everything has arrived the file holds the text that was saved last and
\* the cache, which every later read shows, the same: unless that write
\* overlapped the loading of the plugin.
SettledIsWritten ==
  Quiet => /\ file = written
           /\ instance \in {file, "absent"} \/ raced
=============================================================================
