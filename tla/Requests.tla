------------------------------ MODULE Requests ------------------------------
(***************************************************************************)
(* The screen of requests/requestsExample.dart: a button that asks a       *)
(* server for a list of posts, and a dialog for the post that is tapped.   *)
(*                                                                         *)
(* Nothing keeps the user from asking again before the answer is there.    *)
(* Each request is a connection of its own, so the answers arrive in any   *)
(* order, and each one that arrives replaces the list.                     *)
(***************************************************************************)
EXTENDS Naturals, Sequences, SequencesExt

CONSTANTS
  Lists,        \* the lists the server has, one after the other
  MaxRequests,  \* bound: requests under way
  MaxRoutes,    \* bound: the page and the dialogs on it
  Error,        \* a request that failed
  None          \* Dart's null

Version == 1 .. Len(Lists)

VARIABLES
  version,   \* the list the server has now
  requests,  \* what the server has said to each request: None, a version, or Error
  data,      \* the version of the list on the screen
  routes,    \* screens on the navigator: the page, then dialogs
  framed,    \* data and routes as they were built last
  busySince, \* history: the server's version when the requests under way began
  floor      \* history: busySince, when data arrived

vars == <<version, requests, data, routes, framed, busySince, floor>>

Answer     == Version \cup {None, Error}
Posts(v)   == IF v = None THEN <<>> ELSE Lists[v]
Quiet      == requests = <<>>

-----------------------------------------------------------------------------
Init ==
  /\ version = 1
  /\ requests = <<>>
  /\ data = None
  /\ routes = <<"page">>
  /\ framed = [data |-> None, routes |-> <<"page">>]
  /\ busySince = 1
  /\ floor = 1

\* The floating button: listData calls getData, which calls http.get.
getData ==
  /\ Last(framed.routes) = "page" /\ Len(requests) < MaxRequests
  /\ requests' = Append(requests, None)
  /\ busySince' = IF Quiet THEN version ELSE busySince
  /\ UNCHANGED <<version, data, routes, framed, floor>>

\* The server answers with what it has, or the request fails.
Serve ==
  \E i \in 1 .. Len(requests), answer \in {version, Error} :
    /\ requests[i] = None
    /\ requests' = [requests EXCEPT ![i] = answer]
    /\ UNCHANGED <<version, data, routes, framed, busySince, floor>>

Publish ==
  /\ version < Len(Lists)
  /\ version' = version + 1
  /\ UNCHANGED <<requests, data, routes, framed, busySince, floor>>

\* Mutant: a list that is there already is kept.
SetData_Once(v) == data' = IF data = None THEN v ELSE data

\* setState(() { data = json.decode(body); })
SetData(v) == data' = v

\* What getData's futures run.  An error, or a page that is gone, ends in an
\* exception nothing handles.
Arrive ==
  \E i \in 1 .. Len(requests) :
    /\ requests[i] # None
    /\ requests' = RemoveAt(requests, i)
    /\ IF requests[i] # Error /\ routes # <<>>
         THEN SetData(requests[i]) /\ floor' = busySince
         ELSE UNCHANGED <<data, floor>>
    /\ UNCHANGED <<version, routes, framed, busySince>>

\* The tile was built from framed.data and reads data when it is tapped; beyond
\* its end that throws and no dialog is shown.
handleListTap ==
  /\ Last(framed.routes) = "page" /\ Len(routes) < MaxRoutes
  /\ \E position \in 1 .. Len(Posts(framed.data)) :
       routes' = IF position <= Len(Posts(data))
                   THEN Append(routes, Posts(data)[position]) ELSE routes
  /\ UNCHANGED <<version, requests, data, framed, busySince, floor>>

\* OK: Navigator.pop takes what is on top by then, be it the page.
OK ==
  /\ Last(framed.routes) # "page" /\ routes # <<>>
  /\ routes' = Front(routes)
  /\ UNCHANGED <<version, requests, data, framed, busySince, floor>>

Frame ==
  /\ routes # <<>> /\ framed # [data |-> data, routes |-> routes]
  /\ framed' = [data |-> data, routes |-> routes]
  /\ UNCHANGED <<version, requests, data, routes, busySince, floor>>

Next == getData \/ Serve \/ Publish \/ Arrive \/ handleListTap \/ OK \/ Frame

Spec == Init /\ [][Next]_vars

-----------------------------------------------------------------------------
\* Types: what is under way and on the navigator is bounded as the guards say.
TypeOK ==
  /\ version \in Version /\ busySince \in Version /\ floor \in Version
  /\ Len(requests) <= MaxRequests /\ Range(requests) \subseteq Answer
  /\ data \in Version \cup {None}
  /\ Len(routes) \in 0 .. MaxRoutes /\ Len(framed.routes) \in 1 .. MaxRoutes

\* In whatever order overlapping answers arrive (getData's `then`), the list is
\* no older than what the server had when the first of them was asked for; with
\* one request at a time, than what it had at the tap.
ListIsFresh == data # None => data >= floor
=============================================================================
