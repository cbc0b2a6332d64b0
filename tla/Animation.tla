------------------------------ MODULE Animation ------------------------------
(***************************************************************************)
(* The screen of animationExamples/animationExample.dart: one animation    *)
(* controller, run forward at the start and by "Animate Again", and two    *)
(* status listeners, of the curve and of the tween, that both reverse it   *)
(* when it has completed.                                                  *)
(*                                                                         *)
(* Flutter tells listeners of a status from inside the call that changes   *)
(* it, one after the other, and catches what they throw.  reverse(from:    *)
(* 1.0) first sets the value, which makes the status completed again: the  *)
(* second listener, called after the first one's reverse, thereby causes   *)
(* a notification inside the one it is called by, and so on until the call *)
(* stack is full.                                                          *)
(***************************************************************************)
EXTENDS Naturals, Sequences, SequencesExt

CONSTANT MaxDepth   \* the room of the call stack

VARIABLES
  status,     \* the controller's status
  animating,  \* its ticker is running
  reported,   \* the status its listeners were told last
  calls       \* the calls under way: the next listener to notify of completion, or Rest

vars == <<status, animating, reported, calls>>

Listeners == 2
Rest      == 0   \* of a call of reverse(), once it has set the value
Status == {"dismissed", "forward", "reverse", "completed"}

-----------------------------------------------------------------------------
\* initState: forward(from: 0.1).  Nothing listens for "forward" but a print.
Init == status = "forward" /\ animating = TRUE /\ reported = "forward" /\ calls = <<>>

\* "Animate Again": forward(from: 0.1), whatever is going on.
AnimateAgain ==
  /\ calls = <<>>
  /\ status' = "forward" /\ animating' = TRUE /\ reported' = "forward"
  /\ UNCHANGED calls

\* The tick that ends the animation.
TickToEnd ==
  /\ animating /\ calls = <<>>
  /\ animating' = FALSE
  /\ status' = IF status = "forward" THEN "completed" ELSE "dismissed"
  /\ reported' = status'
  /\ calls' = IF status = "forward" THEN <<1>> ELSE <<>>

Top == Last(calls)
Notifying == calls # <<>> /\ Top # Rest

\* Mutant: the listener only prints, as it does for every other status.
reverse_Not == /\ calls' = [calls EXCEPT ![Len(calls)] = @ + 1]
               /\ UNCHANGED <<status, animating, reported>>

\* The status listener's case completed: reverse(from: 1.0) sets the value, and
\* tells the listeners if they were told something else since.
reverse ==
  /\ status' = "completed" /\ animating' = FALSE /\ reported' = "completed"
  /\ calls' = [calls EXCEPT ![Len(calls)] = @ + 1] \o
                (IF reported = "completed" THEN <<Rest>> ELSE <<Rest, 1>>)

Listen ==
  /\ Notifying /\ Top <= Listeners /\ Len(calls) + 2 <= MaxDepth
  /\ reverse

\* The stack is full: the call is given up before or after it has set the
\* value, and the next listener is called.
Overflow ==
  /\ Notifying /\ Top <= Listeners /\ Len(calls) + 2 > MaxDepth
  /\ calls' = [calls EXCEPT ![Len(calls)] = @ + 1]
  /\ \/ status' = "completed" /\ animating' = FALSE
     \/ UNCHANGED <<status, animating>>
  /\ UNCHANGED reported

Notified ==
  /\ Notifying /\ Top > Listeners
  /\ calls' = Front(calls)
  /\ UNCHANGED <<status, animating, reported>>

\* The rest of reverse(): the simulation starts, and that is told to listeners
\* that only print it.
StartReverse ==
  /\ calls # <<>> /\ Top = Rest
  /\ calls' = Front(calls)
  /\ status' = "reverse" /\ animating' = TRUE /\ reported' = "reverse"

Run  == TickToEnd \/ Listen \/ Overflow \/ Notified \/ StartReverse
Next == AnimateAgain \/ Run

Spec == Init /\ [][Next]_vars /\ WF_vars(Run)

-----------------------------------------------------------------------------
\* Types; outside of a call, listeners have been told the status there is, and
\* the ticker runs unless the animation is over.
TypeOK ==
  /\ status \in Status /\ reported \in Status /\ animating \in BOOLEAN
  /\ Len(calls) <= MaxDepth
  /\ calls = <<>> => reported = status /\ animating = (status \in {"forward", "reverse"})

\* However the nested notifications unwind, the animation plays to its end,
\* reverses and comes to rest, unless it is started again and again: it is
\* never left standing at the end.
ComesToRest == []<>(status # "dismissed") => []<><<AnimateAgain>>_vars
=============================================================================
