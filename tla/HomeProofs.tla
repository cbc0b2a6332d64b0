------------------------------ MODULE HomeProofs ------------------------------
(***************************************************************************)
(* Proofs about the screens of Home, one part each: the requests, the      *)
(* weather, the shared preferences, the login and the animation screen.    *)
(* The Firestore screen has a module of its own, FirestoreDBProofs.        *)
(***************************************************************************)
EXTENDS Home, SequenceTheorems, TLAPS

-----------------------------------------------------------------------------
(***************************************************************************)
(* Sequences without one of their elements.                                *)
(***************************************************************************)

\* Removing an element leaves a sequence of the others.
LEMMA RemoveAtProperties ==
  ASSUME NEW S, NEW s \in Seq(S), NEW i \in 1 .. Len(s)
  PROVE  LET r == SubSeq(s, 1, i - 1) \o SubSeq(s, i + 1, Len(s)) IN
           \E n \in Nat : /\ Len(s) = n + 1 /\ Len(r) = n /\ r \in Seq(S)
                          /\ \A j \in 1 .. n : r[j] = IF j < i THEN s[j] ELSE s[j + 1]
<1> DEFINE a == SubSeq(s, 1, i - 1)
           c == SubSeq(s, i + 1, Len(s))
           r == a \o c
<1>1. PICK n \in Nat : Len(s) = n + 1
  <2>1. Len(s) \in Nat /\ Len(s) # 0
    BY LenProperties
  <2>2. Len(s) - 1 \in Nat /\ Len(s) = Len(s) - 1 + 1
    BY <2>1
  <2> QED
    BY <2>2
<1>2. i \in 1 .. n + 1 /\ \A j \in 1 .. n + 1 : s[j] \in S
  BY <1>1, ElementOfSeq
<1>3. /\ a \in Seq(S) /\ Len(a) = i - 1
      /\ \A j \in 1 .. i - 1 : a[j] = s[j]
  <2>1. \A j \in 1 .. i - 1 : s[j] \in S
    BY <1>2
  <2>2. /\ a \in Seq(S) /\ Len(a) = IF 1 <= i - 1 THEN i - 1 - 1 + 1 ELSE 0
        /\ \A j \in 1 .. i - 1 - 1 + 1 : a[j] = s[1 + j - 1]
    BY <1>2, <2>1, SubSeqProperties
  <2> HIDE DEF a
  <2> QED
    BY <1>2, <2>2
<1>4. /\ c \in Seq(S) /\ Len(c) = n + 1 - i
      /\ \A j \in 1 .. n + 1 - i : c[j] = s[j + i]
  <2>1. \A j \in i + 1 .. n + 1 : s[j] \in S
    BY <1>2
  <2>2. /\ c \in Seq(S) /\ Len(c) = IF i + 1 <= n + 1 THEN n + 1 - (i + 1) + 1 ELSE 0
        /\ \A j \in 1 .. n + 1 - (i + 1) + 1 : c[j] = s[i + 1 + j - 1]
    BY <1>1, <1>2, <2>1, SubSeqProperties
  <2> HIDE DEF c
  <2>3. /\ n + 1 - (i + 1) + 1 = n + 1 - i
        /\ (IF i + 1 <= n + 1 THEN n + 1 - (i + 1) + 1 ELSE 0) = n + 1 - i
    BY <1>2
  <2>4. ASSUME NEW j \in 1 .. n + 1 - i PROVE c[j] = s[j + i]
    <3>1. i + 1 + j - 1 = j + i
      BY <1>2
    <3>2. c[j] = s[i + 1 + j - 1]
      BY <2>2, <2>3
    <3> QED
      BY <3>1, <3>2
  <2> QED
    BY <2>2, <2>3, <2>4
<1> HIDE DEF a, c
<1>5. /\ r \in Seq(S) /\ Len(r) = Len(a) + Len(c)
      /\ \A j \in 1 .. Len(a) + Len(c) : r[j] = IF j <= Len(a) THEN a[j] ELSE c[j - Len(a)]
  BY <1>3, <1>4, ConcatProperties
<1> HIDE DEF r
<1>6. Len(a) + Len(c) = n
  <2>1. i - 1 + (n + 1 - i) = n
    BY <1>2
  <2> QED
    BY <1>3, <1>4, <2>1
<1>7. ASSUME NEW j \in 1 .. n PROVE r[j] = IF j < i THEN s[j] ELSE s[j + 1]
  <2>1. r[j] = IF j <= i - 1 THEN a[j] ELSE c[j - (i - 1)]
    BY <1>3, <1>5, <1>6
  <2>2. CASE j < i
    BY <1>2, <1>3, <2>1, <2>2
  <2>3. CASE ~(j < i)
    <3>1. j - (i - 1) \in 1 .. n + 1 - i /\ j - (i - 1) + i = j + 1 /\ ~(j <= i - 1)
      BY <1>2, <2>3
    <3> QED
      BY <1>4, <2>1, <2>3, <3>1
  <2> QED
    BY <2>2, <2>3
<1> QED
  BY <1>1, <1>5, <1>6, <1>7 DEF r, a, c

\* Its first elements are those of the sequence without the last.
LEMMA FrontProperties ==
  ASSUME NEW S, NEW q \in Seq(S), q # <<>>
  PROVE  LET r == SubSeq(q, 1, Len(q) - 1) IN
           \E n \in Nat : /\ Len(q) = n + 1 /\ r \in Seq(S) /\ Len(r) = n
                          /\ \A i \in 1 .. n : r[i] = q[i]
<1> DEFINE r == SubSeq(q, 1, Len(q) - 1)
<1>1. PICK n \in Nat : Len(q) = n + 1
  <2>1. Len(q) \in Nat /\ Len(q) # 0
    BY EmptySeq
  <2>2. Len(q) - 1 \in Nat /\ Len(q) = Len(q) - 1 + 1
    BY <2>1
  <2> QED
    BY <2>2
<1>2. \A i \in 1 .. n : q[i] \in S
  <2>1. \A i \in 1 .. n : i \in 1 .. Len(q)
    BY <1>1
  <2> QED
    BY <2>1, ElementOfSeq
<1>3. r = SubSeq(q, 1, n)
  BY <1>1
<1>4. /\ r \in Seq(S) /\ Len(r) = (IF 1 <= n THEN n - 1 + 1 ELSE 0)
      /\ \A i \in 1 .. n - 1 + 1 : r[i] = q[1 + i - 1]
  BY <1>2, <1>3, SubSeqProperties
<1> HIDE DEF r
<1>5. Len(r) = n /\ \A i \in 1 .. n : r[i] = q[i]
  BY <1>4
<1> QED
  BY <1>1, <1>4, <1>5 DEF r

\* The other messages follow the first.
LEMMA TailMessages ==
  ASSUME NEW S, NEW q \in Seq(S), q # <<>>
  PROVE  /\ Head(q) \in S /\ Tail(q) \in Seq(S) /\ Head(q) = q[1]
         /\ \E n \in Nat : /\ DOMAIN q = 1 .. n + 1 /\ DOMAIN Tail(q) = 1 .. n
                           /\ \A i \in 1 .. n : Tail(q)[i] = q[i + 1]
<1>1. Head(q) \in S /\ Tail(q) \in Seq(S) /\ Head(q) = q[1]
  BY HeadTailProperties
<1>2. PICK n \in Nat : Len(q) = n + 1
  <2>1. Len(q) \in Nat /\ Len(q) # 0
    BY EmptySeq
  <2>2. Len(q) - 1 \in Nat /\ Len(q) = Len(q) - 1 + 1
    BY <2>1
  <2> QED
    BY <2>2
<1>3. Len(Tail(q)) = n /\ \A i \in 1 .. n : Tail(q)[i] = q[i + 1]
  <2>1. Len(Tail(q)) = n + 1 - 1 /\ \A i \in 1 .. Len(Tail(q)) : Tail(q)[i] = q[i + 1]
    BY <1>2, HeadTailProperties
  <2> QED
    BY <2>1
<1>4. DOMAIN q = 1 .. n + 1 /\ DOMAIN Tail(q) = 1 .. n
  BY <1>1, <1>2, <1>3, LenProperties
<1> QED
  BY <1>1, <1>3, <1>4

-----------------------------------------------------------------------------
(***************************************************************************)
(* The requests screen, for any lists the server may have, any number of   *)
(* requests under way and any order of their answers.                      *)
(*                                                                         *)
(* No answer under way is older than what the server had when the requests *)
(* under way began, and the list on the screen came with such an answer.   *)
(***************************************************************************)

\* What may be said to a request under way.
Fresh == {None, Error} \cup {v \in Nat : v >= busySince}

RequestsInv ==
  /\ version \in Nat /\ busySince \in Nat /\ busySince <= version
  /\ requests \in Seq(Fresh)
  /\ ListIsFresh

\* The home screen is the only one that takes steps.
LEMMA RequestsOrOther == ASSUME [Next]_vars PROVE Requests!Next \/ UNCHANGED requests_
BY DEF Next, Step, OthersKept, vars

\* The screen starts without a list.
LEMMA RequestsInit == ASSUME Init PROVE RequestsInv
<1>1. version = 1 /\ busySince = 1 /\ requests = <<>> /\ data = None
  BY DEF Init, Requests!Init
<1> QED
  BY <1>1, EmptySeq DEF RequestsInv, ListIsFresh, Requests!ListIsFresh

\* Each of its steps keeps the invariant.
LEMMA RequestsStep == ASSUME RequestsInv, [Next]_vars PROVE RequestsInv'
<1>1. /\ version \in Nat /\ busySince \in Nat /\ busySince <= version
      /\ requests \in Seq(Fresh) /\ (data # None => data >= floor)
  BY DEF RequestsInv, ListIsFresh, Requests!ListIsFresh
<1>2. ASSUME UNCHANGED <<version, requests, data, busySince, floor>> PROVE RequestsInv'
  BY <1>1, <1>2 DEF RequestsInv, Fresh, ListIsFresh, Requests!ListIsFresh
<1>3. ASSUME UNCHANGED <<data, floor>>, UNCHANGED <<version, busySince>>,
             requests' \in Seq(Fresh)
      PROVE  RequestsInv'
  BY <1>1, <1>3 DEF RequestsInv, Fresh, ListIsFresh, Requests!ListIsFresh
<1>4. CASE Requests!getData
  <2>1. /\ requests' = Append(requests, None) /\ UNCHANGED <<version, data, floor>>
        /\ busySince' = IF requests = <<>> THEN version ELSE busySince
    BY <1>4 DEF Requests!getData, Requests!Quiet
  <2>2. CASE requests = <<>>
    <3>1. requests' \in Seq(Fresh')
      BY <2>1, <2>2, EmptySeq DEF Fresh
    <3> QED
      BY <1>1, <2>1, <2>2, <3>1 DEF RequestsInv, ListIsFresh, Requests!ListIsFresh
  <2>3. CASE requests # <<>>
    <3>1. requests' \in Seq(Fresh)
      BY <1>1, <2>1 DEF Fresh
    <3> QED
      BY <1>3, <2>1, <2>3, <3>1
  <2> QED
    BY <2>2, <2>3
<1>5. CASE Requests!Serve
  <2>1. PICK i \in 1 .. Len(requests), answer \in {version, Error} :
          requests' = [requests EXCEPT ![i] = answer]
    BY <1>5 DEF Requests!Serve
  <2>2. answer \in Fresh
    BY <1>1 DEF Fresh
  <2>3. requests' \in Seq(Fresh)
    BY <1>1, <2>1, <2>2, ExceptSeq
  <2> QED
    BY <1>3, <1>5, <2>3 DEF Requests!Serve
<1>6. CASE Requests!Publish
  <2>1. version' = version + 1 /\ UNCHANGED <<requests, data, busySince, floor>>
    BY <1>6 DEF Requests!Publish
  <2> QED
    BY <1>1, <2>1 DEF RequestsInv, Fresh, ListIsFresh, Requests!ListIsFresh
<1>7. CASE Requests!Arrive
  <2>1. PICK i \in 1 .. Len(requests) :
          /\ requests[i] # None
          /\ requests' = Requests!RemoveAt(requests, i)
          /\ IF requests[i] # Error /\ routes # <<>>
               THEN data' = requests[i] /\ floor' = busySince
               ELSE UNCHANGED <<data, floor>>
          /\ UNCHANGED <<version, busySince>>
    BY <1>7 DEF Requests!Arrive, Requests!SetData
  <2>2. requests' \in Seq(Fresh) /\ requests[i] \in Fresh
    BY <1>1, <2>1, RemoveAtProperties, ElementOfSeq DEF Requests!RemoveAt
  <2>3. CASE requests[i] # Error /\ routes # <<>>
    <3>1. data' >= floor'
      BY <2>1, <2>2, <2>3 DEF Fresh
    <3> QED
      BY <1>1, <2>1, <2>2, <3>1 DEF RequestsInv, Fresh, ListIsFresh, Requests!ListIsFresh
  <2>4. CASE ~(requests[i] # Error /\ routes # <<>>)
    BY <1>3, <2>1, <2>2, <2>4
  <2> QED
    BY <2>3, <2>4
<1>8. CASE Requests!handleListTap
  BY <1>2, <1>8 DEF Requests!handleListTap
<1>9. CASE Requests!OK
  BY <1>2, <1>9 DEF Requests!OK
<1>10. CASE Requests!Frame
  BY <1>2, <1>10 DEF Requests!Frame
<1>11. CASE UNCHANGED requests_
  BY <1>2, <1>11 DEF requests_
<1> QED
  BY <1>4, <1>5, <1>6, <1>7, <1>8, <1>9, <1>10, <1>11, RequestsOrOther DEF Requests!Next

\* Whatever the order of overlapping answers, the list is no older than what
\* the server had when the requests began.
THEOREM ListStaysFresh == Spec => []ListIsFresh
<1>1. Init => RequestsInv
  BY RequestsInit
<1>2. RequestsInv /\ [Next]_vars => RequestsInv'
  BY RequestsStep
<1>3. RequestsInv => ListIsFresh
  BY DEF RequestsInv
<1> QED
  BY <1>1, <1>2, <1>3, PTL DEF Spec

-----------------------------------------------------------------------------
(***************************************************************************)
(* The types of the requests screen.                                       *)
(***************************************************************************)

\* What is on the navigator: the page, or a dialog for a post.
Route == {"page"} \cup STRING

VersionShown == Requests!Version \cup {None}

RequestsTypes ==
  /\ version \in Requests!Version /\ busySince \in Requests!Version /\ floor \in Requests!Version
  /\ requests \in Seq(Requests!Answer) /\ Len(requests) <= MaxRequests
  /\ data \in VersionShown /\ framed.data \in VersionShown
  /\ routes \in Seq(Route) /\ Len(routes) <= MaxRoutes
  /\ framed.routes \in Seq(Route) /\ Len(framed.routes) \in 1 .. MaxRoutes

\* The server has a list to start with.
LEMMA RequestsTypesInit == ASSUME Init PROVE RequestsTypes
<1>1. /\ version = 1 /\ requests = <<>> /\ data = None /\ routes = <<"page">>
      /\ framed = [data |-> None, routes |-> <<"page">>] /\ busySince = 1 /\ floor = 1
  BY DEF Init, Requests!Init
<1>2. 1 \in Requests!Version
  <2>1. Len(Lists) \in Nat /\ Len(Lists) # 0
    BY HomeAssumption, EmptySeq
  <2> QED
    BY <2>1 DEF Requests!Version
<1>3. 0 <= MaxRequests /\ 1 <= MaxRoutes /\ 1 \in 1 .. MaxRoutes
  <2>1. MaxRequests \in Nat /\ MaxRoutes \in Nat /\ MaxRoutes # 0
    BY HomeAssumption
  <2> QED
    BY <2>1
<1>4. requests \in Seq(Requests!Answer) /\ Len(requests) = 0
  BY <1>1, EmptySeq
<1>5. <<"page">> \in Seq(Route) /\ Len(<<"page">>) = 1
  <2>1. \A S : \A e \in S : <<e>> \in Seq(S) /\ Len(<<e>>) = 1
    OBVIOUS
  <2>2. "page" \in Route
    BY DEF Route
  <2> QED
    BY <2>1, <2>2, Zenon
<1> QED
  BY <1>1, <1>2, <1>3, <1>4, <1>5 DEF RequestsTypes, VersionShown

\* Each step of the screen keeps its types.
LEMMA RequestsTypesStep == ASSUME RequestsTypes, [Next]_vars PROVE RequestsTypes'
<1>1. /\ version \in Requests!Version /\ requests \in Seq(Requests!Answer)
      /\ Len(requests) <= MaxRequests
      /\ data \in VersionShown /\ framed.data \in VersionShown
      /\ routes \in Seq(Route) /\ Len(routes) <= MaxRoutes
  BY DEF RequestsTypes
<1>2. MaxRequests \in Nat /\ MaxRoutes \in Nat /\ Lists \in Seq(Seq(STRING))
  BY HomeAssumption
<1>3. PICK n \in Nat : n = Len(requests)
  BY <1>1, LenProperties
<1>4. PICK m \in Nat : m = Len(routes)
  BY <1>1, LenProperties
<1>5. CASE Requests!getData
  <2>1. /\ requests' = Append(requests, None) /\ n < MaxRequests
        /\ busySince' = IF Requests!Quiet THEN version ELSE busySince
        /\ UNCHANGED <<version, data, routes, framed, floor>>
    BY <1>3, <1>5 DEF Requests!getData
  <2>2. None \in Requests!Answer
    BY DEF Requests!Answer
  <2>3. requests' \in Seq(Requests!Answer) /\ Len(requests') = n + 1
    BY <1>1, <1>3, <2>1, <2>2, AppendProperties
  <2>4. n + 1 <= MaxRequests
    BY <1>2, <2>1
  <2> QED
    BY <2>1, <2>3, <2>4 DEF RequestsTypes
<1>6. CASE Requests!Serve
  <2>1. PICK i \in 1 .. Len(requests), answer \in {version, Error} :
          /\ requests' = [requests EXCEPT ![i] = answer]
          /\ UNCHANGED <<version, data, routes, framed, busySince, floor>>
    BY <1>6 DEF Requests!Serve
  <2>2. answer \in Requests!Answer
    BY <1>1 DEF Requests!Answer
  <2>3. requests' \in Seq(Requests!Answer) /\ Len(requests') = Len(requests)
    BY <1>1, <2>1, <2>2, ExceptSeq
  <2> QED
    BY <2>1, <2>3 DEF RequestsTypes
<1>7. CASE Requests!Publish
  <2>1. /\ version < Len(Lists) /\ version' = version + 1
        /\ UNCHANGED <<requests, data, routes, framed, busySince, floor>>
    BY <1>7 DEF Requests!Publish
  <2>2. Len(Lists) \in Nat
    BY <1>2, LenProperties
  <2>3. version' \in Requests!Version
    BY <1>1, <2>1, <2>2 DEF Requests!Version
  <2> QED
    BY <2>1, <2>3 DEF RequestsTypes
<1>8. CASE Requests!Arrive
  <2>1. PICK i \in 1 .. Len(requests) :
          /\ requests[i] # None
          /\ requests' = Requests!RemoveAt(requests, i)
          /\ \/ requests[i] # Error /\ data' = requests[i] /\ floor' = busySince
             \/ UNCHANGED <<data, floor>>
          /\ UNCHANGED <<version, routes, framed, busySince>>
    BY <1>8 DEF Requests!Arrive, Requests!SetData
  <2>2. requests[i] \in Requests!Answer
    BY <1>1, ElementOfSeq
  <2>3. PICK k \in Nat : /\ Len(requests) = k + 1 /\ Len(requests') = k
                         /\ requests' \in Seq(Requests!Answer)
    BY <1>1, <2>1, RemoveAtProperties DEF Requests!RemoveAt
  <2>4. Len(requests') <= MaxRequests
    <3>1. k + 1 <= MaxRequests
      BY <1>1, <2>3
    <3>2. k <= MaxRequests
      BY <1>2, <3>1
    <3> QED
      BY <2>3, <3>2
  <2>5. data' \in VersionShown
    BY <1>1, <2>1, <2>2 DEF VersionShown, Requests!Answer
  <2> QED
    BY <2>1, <2>3, <2>4, <2>5 DEF RequestsTypes
<1>9. CASE Requests!handleListTap
  <2>1. /\ m < MaxRoutes /\ UNCHANGED <<version, requests, data, framed, busySince, floor>>
        /\ \E position \in 1 .. Len(Requests!Posts(framed.data)) :
             routes' = IF position <= Len(Requests!Posts(data))
                         THEN Append(routes, Requests!Posts(data)[position]) ELSE routes
    BY <1>4, <1>9 DEF Requests!handleListTap
  <2>2. \A v \in VersionShown : Requests!Posts(v) \in Seq(STRING)
    <3>1. \A v \in Requests!Version : Lists[v] \in Seq(STRING)
      BY <1>2, ElementOfSeq DEF Requests!Version
    <3> QED
      BY <3>1, EmptySeq DEF VersionShown, Requests!Posts
  <2>3. CASE routes' = routes
    BY <1>1, <2>1, <2>3 DEF RequestsTypes
  <2>4. CASE routes' # routes
    <3>1. PICK position \in 1 .. Len(Requests!Posts(framed.data)) :
            /\ position <= Len(Requests!Posts(data))
            /\ routes' = Append(routes, Requests!Posts(data)[position])
      BY <2>1, <2>4
    <3>2. Requests!Posts(data)[position] \in Route
      <4>1. Len(Requests!Posts(data)) \in Nat /\ Len(Requests!Posts(framed.data)) \in Nat
        BY <1>1, <2>2, LenProperties
      <4>2. position \in 1 .. Len(Requests!Posts(data))
        BY <3>1, <4>1
      <4> QED
        BY <1>1, <2>2, <4>2, ElementOfSeq DEF Route
    <3>3. routes' \in Seq(Route) /\ Len(routes') = m + 1
      BY <1>1, <1>4, <3>1, <3>2, AppendProperties
    <3>4. m + 1 <= MaxRoutes
      BY <1>2, <2>1
    <3> QED
      BY <2>1, <3>3, <3>4 DEF RequestsTypes
  <2> QED
    BY <2>3, <2>4
<1>10. CASE Requests!OK
  <2>1. /\ routes # <<>> /\ routes' = SubSeq(routes, 1, Len(routes) - 1)
        /\ UNCHANGED <<version, requests, data, framed, busySince, floor>>
    BY <1>10 DEF Requests!OK, Requests!Front
  <2>2. PICK k \in Nat : Len(routes) = k + 1 /\ routes' \in Seq(Route) /\ Len(routes') = k
    BY <1>1, <2>1, FrontProperties
  <2>3. k + 1 <= MaxRoutes
    BY <1>1, <2>2
  <2>4. k <= MaxRoutes
    BY <1>2, <2>3
  <2> QED
    BY <2>1, <2>2, <2>4 DEF RequestsTypes
<1>11. CASE Requests!Frame
  <2>1. /\ routes # <<>> /\ framed'.data = data /\ framed'.routes = routes
        /\ UNCHANGED <<version, requests, data, routes, busySince, floor>>
    BY <1>11 DEF Requests!Frame
  <2>2. m # 0 /\ m <= MaxRoutes
    BY <1>1, <1>4, <2>1, EmptySeq
  <2>3. m \in 1 .. MaxRoutes
    BY <1>2, <2>2
  <2> QED
    BY <1>1, <1>4, <2>1, <2>3 DEF RequestsTypes
<1>12. CASE UNCHANGED requests_
  BY <1>12 DEF requests_, RequestsTypes
<1> QED
  BY <1>5, <1>6, <1>7, <1>8, <1>9, <1>10, <1>11, <1>12, RequestsOrOther DEF Requests!Next

\* What is under way and on the navigator is bounded.
LEMMA RequestsTyped == ASSUME RequestsTypes PROVE Requests!TypeOK
<1>1. Requests!Range(requests) \subseteq Requests!Answer
  BY LenProperties, ElementOfSeq DEF RequestsTypes, Requests!Range
<1>2. Len(routes) \in 0 .. MaxRoutes
  <2>1. Len(routes) \in Nat /\ Len(routes) <= MaxRoutes
    BY LenProperties DEF RequestsTypes
  <2> QED
    BY <2>1
<1> QED
  BY <1>1, <1>2 DEF RequestsTypes, VersionShown, Requests!TypeOK

-----------------------------------------------------------------------------
(***************************************************************************)
(* The types of the weather screens, for any cities and any number of      *)
(* pages.                                                                  *)
(***************************************************************************)

WeatherPage == {page \in Weather!Page : page.waiting => page.kind = "weather"}

WeatherInv ==
  /\ pages \in Seq(WeatherPage) /\ Len(pages) \in 1 .. MaxPages
  /\ pagesFramed \in 1 .. MaxPages

\* What the handlers make of a page is a page.
LEMMA PageTypes ==
  /\ Weather!WeatherSearch \in WeatherPage
  /\ \A city \in City \cup {""} : Weather!WeatherHome(city) \in WeatherPage
  /\ \A page \in WeatherPage :
       /\ page.text \in City \cup {""} /\ page \in Weather!Page
       /\ Weather!ClearFields(page) \in WeatherPage
       /\ [page EXCEPT !.dirty = TRUE] \in WeatherPage
       /\ Weather!Built(page) \in WeatherPage
       /\ \A city \in City : [page EXCEPT !.text = city] \in WeatherPage
       /\ \A answer \in {"weather", "error"} : Weather!Answered(page, answer) \in WeatherPage
<1>1. Weather!WeatherSearch \in WeatherPage
  BY DEF Weather!WeatherSearch, WeatherPage, Weather!Page
<1>2. \A city \in City \cup {""} : Weather!WeatherHome(city) \in WeatherPage
  BY DEF Weather!WeatherHome, Weather!WeatherSearch, WeatherPage, Weather!Page
<1>3. ASSUME NEW page \in WeatherPage
      PROVE  /\ page.text \in City \cup {""} /\ page \in Weather!Page
             /\ Weather!ClearFields(page) \in WeatherPage
             /\ [page EXCEPT !.dirty = TRUE] \in WeatherPage
             /\ \A city \in City : [page EXCEPT !.text = city] \in WeatherPage
             /\ \A answer \in {"weather", "error"} : Weather!Answered(page, answer) \in WeatherPage
  BY DEF Weather!ClearFields, Weather!Answered, WeatherPage, Weather!Page
<1>4. ASSUME NEW page \in WeatherPage PROVE Weather!Built(page) \in WeatherPage
  <2>1. CASE page.kind = "weather"
    <3>1. [page EXCEPT !.dirty = FALSE, !.waiting = TRUE] \in WeatherPage
      BY <2>1 DEF WeatherPage, Weather!Page
    <3>2. Weather!Built(page) \in {page, [page EXCEPT !.dirty = FALSE, !.waiting = TRUE]}
      BY <2>1 DEF Weather!Built
    <3> QED
      BY <3>1, <3>2
  <2>2. CASE page.kind # "weather"
    <3>1. [page EXCEPT !.dirty = FALSE, !.waiting = FALSE] \in WeatherPage
      BY <2>2 DEF WeatherPage, Weather!Page
    <3>2. Weather!Built(page) \in {page, [page EXCEPT !.dirty = FALSE, !.waiting = FALSE]}
      BY <2>2 DEF Weather!Built
    <3> QED
      BY <3>1, <3>2
  <2> QED
    BY <2>1, <2>2
<1> QED
  BY <1>1, <1>2, <1>3, <1>4

\* One search page at the start.
LEMMA WeatherInit == ASSUME Init PROVE WeatherInv
<1>1. pages = <<Weather!WeatherSearch>> /\ pagesFramed = 1
  BY DEF Init, Weather!Init
<1>2. \A S : \A e \in S : <<e>> \in Seq(S) /\ Len(<<e>>) = 1
  OBVIOUS
<1>3. pages \in Seq(WeatherPage) /\ Len(pages) = 1
  BY <1>1, <1>2, PageTypes, Zenon
<1>4. 1 \in 1 .. MaxPages
  <2>1. MaxPages \in Nat /\ MaxPages # 0
    BY HomeAssumption
  <2> QED
    BY <2>1
<1> QED
  BY <1>1, <1>3, <1>4 DEF WeatherInv

\* The home screen is the only one that takes steps.
LEMMA WeatherOrOther == ASSUME [Next]_vars PROVE Weather!Next \/ UNCHANGED weather_
BY DEF Next, Step, OthersKept, vars

\* A page more, after one was changed or none.
LEMMA PagePushed ==
  ASSUME WeatherInv, NEW q \in Seq(WeatherPage), Len(q) = Len(pages), NEW page \in WeatherPage,
         Len(pages) < MaxPages, pages' = Append(q, page), UNCHANGED pagesFramed
  PROVE  WeatherInv'
<1>1. MaxPages \in Nat
  BY HomeAssumption
<1>2. PICK n \in 1 .. MaxPages : n = Len(pages)
  BY DEF WeatherInv
<1>3. pages' \in Seq(WeatherPage) /\ Len(pages') = n + 1
  BY <1>2, AppendProperties
<1>4. n + 1 \in 1 .. MaxPages
  BY <1>1, <1>2
<1> QED
  BY <1>3, <1>4 DEF WeatherInv

\* Each step of the screens keeps the types.
LEMMA WeatherStep == ASSUME WeatherInv, [Next]_vars PROVE WeatherInv'
<1>1. /\ pages \in Seq(WeatherPage) /\ Len(pages) \in 1 .. MaxPages
      /\ pagesFramed \in 1 .. MaxPages /\ MaxPages \in Nat
  BY HomeAssumption DEF WeatherInv
<1>2. \A i \in 1 .. Len(pages) : pages[i] \in WeatherPage
  BY <1>1, ElementOfSeq
<1>3. ASSUME pagesFramed <= Len(pages) PROVE pagesFramed \in 1 .. Len(pages)
  BY <1>1, <1>3
<1>4. ASSUME NEW i \in 1 .. Len(pages), NEW page \in WeatherPage,
             pages' = [pages EXCEPT ![i] = page], UNCHANGED pagesFramed
      PROVE  WeatherInv'
  <2>1. pages' \in Seq(WeatherPage) /\ Len(pages') = Len(pages)
    BY <1>1, <1>4, ExceptSeq
  <2> QED
    BY <1>1, <1>4, <2>1 DEF WeatherInv
<1>5. ASSUME NEW f \in [1 .. Len(pages) -> WeatherPage], pages' = f,
             pagesFramed' \in {pagesFramed, Len(pages)}
      PROVE  WeatherInv'
  <2>1. PICK n \in Nat : n = Len(pages)
    BY <1>1, LenProperties
  <2>2. f \in Seq(WeatherPage) /\ Len(f) = n
    BY <2>1, SeqDef
  <2> QED
    BY <1>1, <1>5, <2>1, <2>2 DEF WeatherInv
<1>6. CASE Weather!Type
  <2>1. PICK city \in City :
          /\ pagesFramed <= Len(pages)
          /\ pages' = [pages EXCEPT ![pagesFramed].text = city]
          /\ UNCHANGED pagesFramed
    BY <1>6 DEF Weather!Type
  <2>2. [pages[pagesFramed] EXCEPT !.text = city] \in WeatherPage
    BY <1>2, <1>3, <2>1, PageTypes
  <2>3. pages' = [pages EXCEPT ![pagesFramed] = [pages[pagesFramed] EXCEPT !.text = city]]
    BY <2>1
  <2> QED
    BY <1>3, <1>4, <2>1, <2>2, <2>3
<1>7. CASE Weather!GetWeather
  <2> DEFINE top == pages[pagesFramed]
             q == [pages EXCEPT ![pagesFramed] = Weather!ClearFields(top)]
  <2>1. /\ pagesFramed \in 1 .. Len(pages) /\ Len(pages) < MaxPages
        /\ pages' = Append(q, Weather!WeatherHome(top.text)) /\ UNCHANGED pagesFramed
    BY <1>3, <1>7 DEF Weather!GetWeather, Weather!Top
  <2>2. top \in WeatherPage
    BY <1>2, <2>1
  <2>3. Weather!ClearFields(top) \in WeatherPage /\ Weather!WeatherHome(top.text) \in WeatherPage
    BY <2>2, PageTypes
  <2>4. q \in Seq(WeatherPage) /\ Len(q) = Len(pages)
    BY <1>1, <2>1, <2>3, ExceptSeq
  <2> QED
    BY <2>1, <2>3, <2>4, PagePushed
<1>8. CASE Weather!moveToNextScreen
  <2>1. /\ Len(pages) < MaxPages /\ pages' = Append(pages, Weather!WeatherSearch)
        /\ UNCHANGED pagesFramed
    BY <1>8 DEF Weather!moveToNextScreen
  <2>2. Weather!WeatherSearch \in WeatherPage
    BY PageTypes
  <2> QED
    BY <1>1, <2>1, <2>2, PagePushed
<1>9. CASE Weather!Back
  <2>1. /\ Len(pages) > 1 /\ pages' = SubSeq(pages, 1, Len(pages) - 1) /\ UNCHANGED pagesFramed
    BY <1>9 DEF Weather!Back, Weather!Front
  <2>2. pages # <<>>
    BY <2>1, EmptySeq
  <2>3. PICK k \in Nat : Len(pages) = k + 1 /\ pages' \in Seq(WeatherPage) /\ Len(pages') = k
    BY <1>1, <2>1, <2>2, FrontProperties
  <2>4. k + 1 > 1 /\ k + 1 \in 1 .. MaxPages
    BY <1>1, <2>1, <2>3
  <2>5. k \in 1 .. MaxPages
    BY <1>1, <2>4
  <2> QED
    BY <1>1, <2>1, <2>3, <2>5 DEF WeatherInv
<1>10. CASE Weather!Metrics
  <2>1. /\ pages' = [i \in 1 .. Len(pages) |-> [pages[i] EXCEPT !.dirty = TRUE]]
        /\ UNCHANGED pagesFramed
    BY <1>10 DEF Weather!Metrics
  <2>2. [i \in 1 .. Len(pages) |-> [pages[i] EXCEPT !.dirty = TRUE]] \in [1 .. Len(pages) -> WeatherPage]
    BY <1>2, PageTypes
  <2> QED
    BY <1>5, <2>1, <2>2
<1>11. CASE Weather!Frame
  <2>1. /\ pages' = [i \in 1 .. Len(pages) |-> Weather!Built(pages[i])]
        /\ pagesFramed' = Len(pages)
    BY <1>11 DEF Weather!Frame
  <2>2. [i \in 1 .. Len(pages) |-> Weather!Built(pages[i])] \in [1 .. Len(pages) -> WeatherPage]
    BY <1>2, PageTypes
  <2> QED
    BY <1>5, <2>1, <2>2
<1>12. CASE Weather!Answer
  <2>1. PICK i \in 1 .. Len(pages), answer \in {"weather", "error"} :
          /\ pages' = [pages EXCEPT ![i] = Weather!Answered(pages[i], answer)]
          /\ UNCHANGED pagesFramed
    BY <1>12 DEF Weather!Answer
  <2>2. Weather!Answered(pages[i], answer) \in WeatherPage
    BY <1>2, PageTypes
  <2> QED
    BY <1>4, <2>1, <2>2
<1>13. CASE UNCHANGED weather_
  BY <1>13 DEF weather_, WeatherInv
<1> QED
  BY <1>6, <1>7, <1>8, <1>9, <1>10, <1>11, <1>12, <1>13, WeatherOrOther
     DEF Weather!Next, Weather!User

\* A weather page that waits has been built, a search page never waits.
LEMMA WeatherTyped == ASSUME WeatherInv PROVE Weather!TypeOK
BY ElementOfSeq DEF WeatherInv, WeatherPage, Weather!TypeOK

-----------------------------------------------------------------------------
(***************************************************************************)
(* The shared preferences screen, for any texts and any number of calls on *)
(* their way to the plugin.                                                *)
(*                                                                         *)
(* The last write on its way, or if there is none the file, has the text   *)
(* that was saved last.  As long as that write has not met the loading of  *)
(* the plugin, no write is on its way while the plugin loads, and so what  *)
(* it loads is that text too.                                              *)
(***************************************************************************)

NoWrites(q) == \A i \in 1 .. Len(q) : q[i].op # "setString"

LastWrite(q, i) ==
  q[i].op = "setString" /\ \A j \in 1 .. Len(q) : j > i => q[j].op # "setString"

\* What is in the file f once the calls of q are served is w.
WritesEndWith(q, f, w) ==
  /\ NoWrites(q) => f = w
  /\ \A i \in 1 .. Len(q) : LastWrite(q, i) => q[i].text = w

Found(w) == \A i \in 1 .. Len(textToDart) : textToDart[i].all = w

PrefsInv ==
  /\ Prefs!TypeOK
  /\ WritesEndWith(textToNative, file, written)
  /\ instance = "absent" => ~raced /\ NoWrites(textToNative)
  /\ ~raced => /\ instance \in {"absent", written}
               /\ Prefs!Loading => NoWrites(textToNative) /\ Found(written)

-----------------------------------------------------------------------------
(* Calls in line.                                                          *)

\* A write that joins the line is the last one.
LEMMA WriteJoins ==
  ASSUME NEW q \in Seq(Prefs!Call), NEW f, NEW call \in Prefs!Call, call.op = "setString"
  PROVE  WritesEndWith(Append(q, call), f, call.text)
<1> DEFINE r == Append(q, call)
<1>1. /\ Len(q) \in Nat /\ Len(r) = Len(q) + 1 /\ r[Len(r)] = call
      /\ \A i \in 1 .. Len(q) : r[i] = q[i]
  OBVIOUS
<1> HIDE DEF r
<1>2. ~NoWrites(r)
  BY <1>1 DEF NoWrites
<1>3. ASSUME NEW i \in 1 .. Len(r), LastWrite(r, i) PROVE r[i].text = call.text
  <2>1. i = Len(r)
    BY <1>1, <1>3 DEF LastWrite
  <2> QED
    BY <1>1, <2>1
<1> QED
  BY <1>2, <1>3 DEF WritesEndWith, r

\* A read that joins the line changes nothing.
LEMMA ReadJoins ==
  ASSUME NEW q \in Seq(Prefs!Call), NEW f, NEW w, NEW call \in Prefs!Call, call.op = "getAll"
  PROVE  /\ WritesEndWith(q, f, w) => WritesEndWith(Append(q, call), f, w)
         /\ NoWrites(q) => NoWrites(Append(q, call))
<1> DEFINE r == Append(q, call)
<1>1. /\ Len(q) \in Nat /\ Len(r) = Len(q) + 1 /\ r[Len(r)] = call
      /\ \A i \in 1 .. Len(q) : r[i] = q[i]
  OBVIOUS
<1> HIDE DEF r
<1>2. NoWrites(q) <=> NoWrites(r)
  BY <1>1 DEF NoWrites
<1>3. ASSUME NEW i \in 1 .. Len(r), LastWrite(r, i)
      PROVE  i \in 1 .. Len(q) /\ LastWrite(q, i) /\ r[i] = q[i]
  BY <1>1, <1>3 DEF LastWrite
<1> QED
  BY <1>2, <1>3 DEF WritesEndWith, r

\* What is left of the line when its first call is served.
LEMMA HeadLeaves ==
  ASSUME NEW q \in Seq(Prefs!Call), q # <<>>, NEW f, NEW w, WritesEndWith(q, f, w)
  PROVE  /\ Head(q).op = "getAll" => WritesEndWith(Tail(q), f, w)
         /\ Head(q).op = "setString" => WritesEndWith(Tail(q), Head(q).text, w)
         /\ NoWrites(q) => NoWrites(Tail(q)) /\ Head(q).op # "setString"
<1> DEFINE t == Tail(q)
<1>1. /\ Len(q) \in Nat /\ Len(q) >= 1 /\ Len(t) = Len(q) - 1 /\ Head(q) = q[1]
      /\ \A i \in 1 .. Len(t) : t[i] = q[i + 1]
  BY HeadTailProperties, EmptySeq
<1> HIDE DEF t
<1>2. ASSUME NEW i \in 1 .. Len(t), LastWrite(t, i) PROVE t[i].text = w
  <2>1. i + 1 \in 1 .. Len(q) /\ q[i + 1].op = "setString"
    BY <1>1, <1>2 DEF LastWrite
  <2>2. ASSUME NEW j \in 1 .. Len(q), j > i + 1 PROVE q[j].op # "setString"
    <3>1. j - 1 \in 1 .. Len(t) /\ j - 1 > i /\ t[j - 1] = q[j]
      BY <1>1, <2>2
    <3> QED
      BY <1>2, <3>1 DEF LastWrite
  <2>3. LastWrite(q, i + 1)
    BY <2>1, <2>2 DEF LastWrite
  <2> QED
    BY <1>1, <2>1, <2>3 DEF WritesEndWith
<1>3. NoWrites(q) <=> NoWrites(t) /\ q[1].op # "setString"
  <2>1. ASSUME NoWrites(q) PROVE NoWrites(t) /\ q[1].op # "setString"
    BY <1>1, <2>1 DEF NoWrites
  <2>2. ASSUME NoWrites(t), q[1].op # "setString" PROVE NoWrites(q)
    <3>1. ASSUME NEW j \in 1 .. Len(q) PROVE q[j].op # "setString"
      <4>1. CASE j = 1
        BY <2>2, <4>1
      <4>2. CASE j # 1
        <5>1. j - 1 \in 1 .. Len(t) /\ t[j - 1] = q[j]
          BY <1>1, <4>2
        <5> QED
          BY <2>2, <5>1 DEF NoWrites
      <4> QED
        BY <4>1, <4>2
    <3> QED
      BY <3>1 DEF NoWrites
  <2> QED
    BY <2>1, <2>2
<1>4. NoWrites(t) /\ q[1].op = "setString" => LastWrite(q, 1)
  <2>1. ASSUME NoWrites(t), q[1].op = "setString", NEW j \in 1 .. Len(q), j > 1
        PROVE  q[j].op # "setString"
    <3>1. j - 1 \in 1 .. Len(t) /\ t[j - 1] = q[j]
      BY <1>1, <2>1
    <3> QED
      BY <2>1, <3>1 DEF NoWrites
  <2> QED
    BY <2>1 DEF LastWrite
<1>5. ASSUME NoWrites(t) PROVE /\ q[1].op # "setString" => f = w
                               /\ q[1].op = "setString" => q[1].text = w
  BY <1>1, <1>3, <1>4, <1>5 DEF WritesEndWith
<1> QED
  BY <1>1, <1>2, <1>3, <1>5 DEF WritesEndWith, t

-----------------------------------------------------------------------------
(* The invariant.                                                          *)

\* The two kinds of calls.
LEMMA CallTypes ==
  /\ None \in Prefs!Value /\ Text \subseteq Prefs!Value /\ "absent" \notin Prefs!Value
  /\ \A then \in {"load", "save"}, value \in Prefs!Value :
       /\ Prefs!GetAll(then, value) \in Prefs!Call
       /\ Prefs!GetAll(then, value).op = "getAll"
  /\ \A value \in Prefs!Value :
       /\ Prefs!SetString(value) \in Prefs!Call
       /\ Prefs!SetString(value).op = "setString" /\ Prefs!SetString(value).text = value
BY HomeAssumption DEF HomeAssumption, Prefs!Value, Prefs!GetAll, Prefs!SetString, Prefs!Call

\* At the start, or after a restart, the plugin is asked once.
LEMMA StartInv ==
  ASSUME instance' = "absent", textToNative' = Prefs!initState, textToDart' = <<>>,
         raced' = FALSE, text' \in Prefs!Value, file' \in Prefs!Value, written' = file'
  PROVE  PrefsInv'
<1> DEFINE call == Prefs!GetAll("load", None)
<1>1. /\ call \in Prefs!Call /\ call.op = "getAll"
  BY CallTypes
<1>2. textToNative' = <<call>>
  BY DEF Prefs!initState
<1> HIDE DEF call
<1>3. textToNative' \in Seq(Prefs!Call) /\ NoWrites(textToNative')
  BY <1>1, <1>2 DEF NoWrites
<1>4. \A i \in 1 .. Len(textToNative') : ~LastWrite(textToNative', i)
  BY <1>3 DEF LastWrite, NoWrites
<1>5. Prefs!TypeOK'
  <2>1. raced' \in BOOLEAN /\ instance' \in Prefs!Value \cup {"absent"}
    OBVIOUS
  <2>2. textToDart' \in Seq(Prefs!Call)
    BY EmptySeq
  <2> QED
    BY <1>3, <2>1, <2>2, Zenon DEF Prefs!TypeOK
<1>6. WritesEndWith(textToNative', file', written')
  BY <1>4 DEF WritesEndWith
<1>7. Found(written)'
  BY DEF Found
<1> QED
  BY <1>3, <1>5, <1>6, <1>7 DEF PrefsInv

\* A save is the last write, and in the cache; it is raced if the plugin loads.
LEMMA SaveInv ==
  ASSUME Prefs!TypeOK, NEW value \in Prefs!Value,
         Prefs!Save(value, Prefs!Loading'), text' \in Prefs!Value, UNCHANGED file,
         textToDart' \in Seq(Prefs!Call)
  PROVE  PrefsInv'
<1> DEFINE call == Prefs!SetString(value)
<1>1. /\ instance' = value /\ textToNative' = Append(textToNative, call)
      /\ written' = value /\ raced' = Prefs!Loading'
  BY DEF Prefs!Save
<1>2. call \in Prefs!Call /\ call.op = "setString" /\ call.text = value /\ value # "absent"
  BY CallTypes
<1> HIDE DEF call
<1>3. textToNative \in Seq(Prefs!Call) /\ file \in Prefs!Value
  BY DEF Prefs!TypeOK
<1>4. textToNative' \in Seq(Prefs!Call)
  BY <1>1, <1>2, <1>3
<1>5. WritesEndWith(textToNative', file', written')
  BY <1>1, <1>2, <1>3, WriteJoins
<1>6. raced' \in BOOLEAN
  BY <1>1 DEF Prefs!Loading
<1>7. Prefs!TypeOK'
  BY <1>1, <1>3, <1>4, <1>6 DEF Prefs!TypeOK
<1> QED
  BY <1>1, <1>2, <1>5, <1>7 DEF PrefsInv

\* Asking for an instance that is not there yet.
LEMMA AskInv ==
  ASSUME PrefsInv, instance = "absent", NEW call \in Prefs!Call, call.op = "getAll",
         textToNative' = Append(textToNative, call),
         UNCHANGED <<text, instance, file, textToDart, written, raced>>
  PROVE  PrefsInv'
<1>1. textToNative \in Seq(Prefs!Call) /\ textToDart \in Seq(Prefs!Call)
  BY DEF PrefsInv, Prefs!TypeOK
<1>2. textToNative' \in Seq(Prefs!Call)
  BY <1>1
<1>3. WritesEndWith(textToNative', file', written') /\ NoWrites(textToNative') /\ ~raced
  BY <1>1, ReadJoins DEF PrefsInv
<1>4. Found(written)'
  <2>1. CASE textToDart = <<>>
    BY <2>1 DEF Found
  <2>2. CASE textToDart # <<>>
    BY <1>3, <2>2 DEF PrefsInv, Prefs!Loading, Found
  <2> QED
    BY <2>1, <2>2
<1>5. Prefs!TypeOK'
  BY <1>2 DEF PrefsInv, Prefs!TypeOK
<1> QED
  BY <1>3, <1>4, <1>5 DEF PrefsInv

\* The plugin's native side serves a call.
LEMMA NativeInv == ASSUME PrefsInv, Prefs!Native PROVE PrefsInv'
<1> DEFINE call == Head(textToNative)
<1>1. /\ textToNative # <<>> /\ textToNative' = Tail(textToNative)
      /\ \/ /\ call.op = "getAll"
            /\ textToDart' = Append(textToDart, [call EXCEPT !.all = file])
            /\ UNCHANGED file
         \/ /\ call.op = "setString"
            /\ file' = call.text
            /\ UNCHANGED textToDart
      /\ UNCHANGED <<text, instance, written, raced>>
  BY DEF Prefs!Native
<1>2. /\ textToNative \in Seq(Prefs!Call) /\ textToDart \in Seq(Prefs!Call)
      /\ file \in Prefs!Value /\ WritesEndWith(textToNative, file, written)
  BY DEF PrefsInv, Prefs!TypeOK
<1>3. /\ call \in Prefs!Call /\ Tail(textToNative) \in Seq(Prefs!Call) /\ Len(textToNative) \in Nat
      /\ Len(textToNative) >= 1 /\ call = textToNative[1]
      /\ Len(Tail(textToNative)) = Len(textToNative) - 1
      /\ \A i \in 1 .. Len(Tail(textToNative)) : Tail(textToNative)[i] = textToNative[i + 1]
  BY <1>1, <1>2, HeadTailProperties, EmptySeq
<1>4. /\ call.op = "getAll" => WritesEndWith(Tail(textToNative), file, written)
      /\ call.op = "setString" => WritesEndWith(Tail(textToNative), call.text, written)
      /\ NoWrites(textToNative) => NoWrites(Tail(textToNative)) /\ call.op # "setString"
  BY <1>1, <1>2, HeadLeaves
<1> HIDE DEF call
<1>5. CASE /\ call.op = "getAll"
           /\ textToDart' = Append(textToDart, [call EXCEPT !.all = file])
           /\ UNCHANGED file
  <2> DEFINE answer == [call EXCEPT !.all = file]
  <2>1. answer \in Prefs!Call /\ answer.all = file
    BY <1>2, <1>3 DEF Prefs!Call
  <2> HIDE DEF answer
  <2>2. textToDart' = Append(textToDart, answer)
    BY <1>5 DEF answer
  <2>3. /\ textToDart' \in Seq(Prefs!Call) /\ Len(textToDart) \in Nat
        /\ Len(textToDart') = Len(textToDart) + 1 /\ textToDart'[Len(textToDart')] = answer
        /\ \A i \in 1 .. Len(textToDart) : textToDart'[i] = textToDart[i]
    BY <1>2, <2>1, <2>2
  <2>4. Prefs!TypeOK'
    BY <1>1, <1>3, <1>5, <2>3 DEF PrefsInv, Prefs!TypeOK
  <2>5. Prefs!Loading
    BY <1>3, <1>5 DEF Prefs!Loading
  <2>6. ASSUME ~raced PROVE NoWrites(textToNative) /\ Found(written) /\ file = written
    BY <1>2, <2>5, <2>6 DEF PrefsInv, WritesEndWith
  <2>7. ASSUME ~raced PROVE Found(written)'
    BY <1>1, <2>1, <2>3, <2>6, <2>7 DEF Found
  <2> QED
    BY <1>1, <1>4, <1>5, <2>4, <2>6, <2>7 DEF PrefsInv
<1>6. CASE call.op = "setString" /\ file' = call.text /\ UNCHANGED textToDart
  <2>1. Prefs!TypeOK'
    BY <1>1, <1>3, <1>6 DEF PrefsInv, Prefs!TypeOK, Prefs!Call
  <2>2. ~NoWrites(textToNative)
    BY <1>4, <1>6
  <2>3. Prefs!Loading' => Prefs!Loading
    <3>1. ASSUME NEW i \in 1 .. Len(Tail(textToNative)), Tail(textToNative)[i].op = "getAll"
          PROVE  i + 1 \in 1 .. Len(textToNative) /\ textToNative[i + 1].op = "getAll"
      BY <1>3, <3>1
    <3> QED
      BY <1>1, <1>6, <3>1 DEF Prefs!Loading
  <2> QED
    BY <1>1, <1>4, <1>6, <2>1, <2>2, <2>3 DEF PrefsInv
<1> QED
  BY <1>1, <1>5, <1>6

\* An answer of the plugin makes an instance.
LEMMA InstanceInv == ASSUME PrefsInv, Prefs!Instance PROVE PrefsInv'
<1> DEFINE call == Head(textToDart)
<1>1. /\ textToDart # <<>> /\ textToDart' = Tail(textToDart) /\ UNCHANGED file
      /\ \/ /\ call.then = "load"
            /\ instance' = call.all
            /\ text' = call.all
            /\ UNCHANGED <<textToNative, written, raced>>
         \/ /\ call.then = "save"
            /\ Prefs!Save(call.text, Prefs!Loading')
            /\ UNCHANGED text
  BY DEF Prefs!Instance
<1>2. Prefs!TypeOK /\ textToDart \in Seq(Prefs!Call) /\ text \in Prefs!Value
  BY DEF PrefsInv, Prefs!TypeOK
<1>3. /\ call \in Prefs!Call /\ Tail(textToDart) \in Seq(Prefs!Call) /\ Len(textToDart) \in Nat
      /\ Len(textToDart) >= 1 /\ call = textToDart[1]
      /\ Len(Tail(textToDart)) = Len(textToDart) - 1
      /\ \A i \in 1 .. Len(Tail(textToDart)) : Tail(textToDart)[i] = textToDart[i + 1]
  BY <1>1, <1>2, HeadTailProperties, EmptySeq
<1>4. call.all \in Prefs!Value /\ call.text \in Prefs!Value /\ call.all # "absent"
  BY <1>3, CallTypes DEF Prefs!Call
<1> HIDE DEF call
<1>5. CASE /\ call.then = "load"
           /\ instance' = call.all
           /\ text' = call.all
           /\ UNCHANGED <<textToNative, written, raced>>
  <2>1. Prefs!TypeOK'
    BY <1>1, <1>2, <1>3, <1>4, <1>5 DEF Prefs!TypeOK
  <2>2. Prefs!Loading
    BY <1>1 DEF Prefs!Loading
  <2>3. ASSUME ~raced PROVE NoWrites(textToNative) /\ Found(written) /\ call.all = written
    BY <1>3, <2>2, <2>3 DEF PrefsInv, Found
  <2>4. ASSUME ~raced PROVE Found(written)'
    <3>1. ASSUME NEW i \in 1 .. Len(textToDart') PROVE textToDart'[i].all = written
      <4>1. i + 1 \in 1 .. Len(textToDart) /\ textToDart'[i] = textToDart[i + 1]
        BY <1>1, <1>3
      <4> QED
        BY <2>3, <2>4, <4>1 DEF Found
    <3> QED
      BY <1>5, <3>1 DEF Found
  <2> QED
    BY <1>1, <1>4, <1>5, <2>1, <2>3, <2>4 DEF PrefsInv
<1>6. CASE call.then = "save" /\ Prefs!Save(call.text, Prefs!Loading') /\ UNCHANGED text
  BY <1>1, <1>2, <1>3, <1>4, <1>6, SaveInv
<1> QED
  BY <1>1, <1>5, <1>6

\* The screen starts with the plugin being loaded.
LEMMA PrefsInit == ASSUME Init PROVE PrefsInv
<1> DEFINE call == Prefs!GetAll("load", None)
<1>1. /\ call \in Prefs!Call /\ call.op = "getAll" /\ None \in Prefs!Value
  BY CallTypes
<1>2. /\ textToNative = <<call>> /\ textToDart = <<>> /\ instance = "absent" /\ raced = FALSE
      /\ text = None /\ file = None /\ written = None
  BY DEF Init, Prefs!Init, Prefs!initState
<1> HIDE DEF call
<1>3. textToNative \in Seq(Prefs!Call) /\ NoWrites(textToNative)
  BY <1>1, <1>2 DEF NoWrites
<1>4. \A i \in 1 .. Len(textToNative) : ~LastWrite(textToNative, i)
  BY <1>3 DEF LastWrite, NoWrites
<1>5. Prefs!TypeOK
  <2>1. raced \in BOOLEAN /\ instance \in Prefs!Value \cup {"absent"}
    BY <1>2
  <2>2. textToDart \in Seq(Prefs!Call)
    BY <1>2, EmptySeq
  <2>3. text \in Prefs!Value /\ file \in Prefs!Value /\ written \in Prefs!Value
    BY <1>1, <1>2
  <2> QED
    BY <1>3, <2>1, <2>2, <2>3, Zenon DEF Prefs!TypeOK
<1>6. WritesEndWith(textToNative, file, written)
  BY <1>2, <1>4 DEF WritesEndWith
<1>7. Found(written)
  BY <1>2 DEF Found
<1> QED
  BY <1>2, <1>3, <1>5, <1>6, <1>7 DEF PrefsInv

\* A write with an instance at hand, or without.
LEMMA SaveDataInv == ASSUME PrefsInv, Prefs!SaveData PROVE PrefsInv'
<1>1. PICK value \in Text :
        \/ /\ instance = "absent"
           /\ textToNative' = Append(textToNative, Prefs!GetAll("save", value))
           /\ UNCHANGED <<instance, written, raced>>
        \/ Prefs!Save(value, Prefs!Loading)
  BY DEF Prefs!SaveData
<1>2. UNCHANGED <<text, file, textToDart>> /\ value \in Prefs!Value
  BY CallTypes DEF Prefs!SaveData
<1>3. CASE /\ instance = "absent"
           /\ textToNative' = Append(textToNative, Prefs!GetAll("save", value))
           /\ UNCHANGED <<instance, written, raced>>
  BY <1>2, <1>3, CallTypes, AskInv
<1>4. CASE Prefs!Save(value, Prefs!Loading)
  <2> DEFINE call == Prefs!SetString(value)
  <2>1. /\ Prefs!TypeOK /\ textToNative \in Seq(Prefs!Call) /\ text \in Prefs!Value
        /\ textToDart \in Seq(Prefs!Call)
    BY DEF PrefsInv, Prefs!TypeOK
  <2>2. call \in Prefs!Call /\ call.op = "setString"
    BY <1>2, CallTypes
  <2>3. textToNative' = Append(textToNative, call)
    BY <1>4 DEF Prefs!Save
  <2> HIDE DEF call
  <2>4. /\ Len(textToNative) \in Nat /\ Len(textToNative') = Len(textToNative) + 1
        /\ textToNative'[Len(textToNative')] = call
        /\ \A i \in 1 .. Len(textToNative) : textToNative'[i] = textToNative[i]
    BY <2>1, <2>2, <2>3
  <2>5. Prefs!Loading' = Prefs!Loading
    <3>1. (\E i \in 1 .. Len(textToNative') : textToNative'[i].op = "getAll")
            <=> \E i \in 1 .. Len(textToNative) : textToNative[i].op = "getAll"
      BY <2>2, <2>4
    <3> QED
      BY <1>2, <3>1 DEF Prefs!Loading
  <2> QED
    BY <1>2, <1>4, <2>1, <2>5, SaveInv
<1> QED
  BY <1>1, <1>3, <1>4

\* Nothing of the screen changes but the text it shows.
LEMMA ShownInv ==
  ASSUME PrefsInv, text' \in Prefs!Value,
         UNCHANGED <<instance, file, textToNative, textToDart, written, raced>>
  PROVE  PrefsInv'
BY DEF PrefsInv, Prefs!TypeOK, Prefs!Loading, Found

\* The home screen is the only one that takes steps.
LEMMA PrefsOrOther == ASSUME [Next]_vars PROVE Prefs!Next \/ UNCHANGED prefs_
BY DEF Next, Step, OthersKept, vars

\* Each step of the screen keeps the invariant.
LEMMA PrefsStep == ASSUME PrefsInv, [Next]_vars PROVE PrefsInv'
<1>0. text \in Prefs!Value /\ file \in Prefs!Value
  BY DEF PrefsInv, Prefs!TypeOK
<1>1. CASE Prefs!SaveData
  BY <1>1, SaveDataInv
<1>2. CASE Prefs!LoadSharedPreferencesData
  <2>1. CASE /\ instance = "absent"
             /\ textToNative' = Append(textToNative, Prefs!GetAll("load", None))
             /\ UNCHANGED text
    BY <1>2, <2>1, CallTypes, AskInv DEF Prefs!LoadSharedPreferencesData
  <2>2. CASE instance # "absent" /\ text' = instance /\ UNCHANGED textToNative
    <3>1. text' \in Prefs!Value
      BY <2>2 DEF PrefsInv, Prefs!TypeOK
    <3> QED
      BY <1>2, <2>2, <3>1, ShownInv DEF Prefs!LoadSharedPreferencesData
  <2> QED
    BY <1>2, <2>1, <2>2 DEF Prefs!LoadSharedPreferencesData
<1>3. CASE Prefs!Native
  BY <1>3, NativeInv
<1>4. CASE Prefs!Instance
  BY <1>4, InstanceInv
<1>5. CASE Prefs!Restart
  BY <1>0, <1>5, CallTypes, StartInv DEF Prefs!Restart
<1>6. CASE UNCHANGED prefs_
  BY <1>0, <1>6, ShownInv DEF prefs_
<1> QED
  BY <1>1, <1>2, <1>3, <1>4, <1>5, <1>6, PrefsOrOther DEF Prefs!Next

\* Once everything has arrived, the file holds what was saved last, and the
\* cache the same unless that write met the loading of the plugin.
THEOREM WritesSettle == Spec => []SettledIsWritten
<1>1. Init => PrefsInv
  BY PrefsInit
<1>2. PrefsInv /\ [Next]_vars => PrefsInv'
  BY PrefsStep
<1>3. PrefsInv => SettledIsWritten
  <2>1. ASSUME PrefsInv, textToNative = <<>> PROVE file = written
    BY <2>1 DEF PrefsInv, WritesEndWith, NoWrites
  <2> QED
    BY <2>1 DEF PrefsInv, SettledIsWritten, Prefs!SettledIsWritten, Prefs!Quiet
<1> QED
  BY <1>1, <1>2, <1>3, PTL DEF Spec

-----------------------------------------------------------------------------
(***************************************************************************)
(* The login screen, for any accounts and any number of logins and         *)
(* sign-outs under way.                                                    *)
(*                                                                         *)
(* Two handlers under way have overtaken each other, so what holds of one  *)
(* that nothing overtook, it holds because no other changed the account of *)
(* Google or Firebase meanwhile.  And the newest sign-in among Firebase's  *)
(* answers is of the user Firebase has; if there is none the photo is, or  *)
(* else that user failed the assertions and the photo is an earlier one.   *)
(***************************************************************************)

\* Firebase has answered c, and c has not been told.
Waits(c) == \E i \in 1 .. Len(replies) : replies[i] = c

\* Firebase has signed the user of c in.
HasSignedIn(c) ==
  \/ chains[c].at \in {"getIdToken", "currentUser"}
  \/ chains[c].at = "signInWithCredential" /\ Waits(c)

SignInAt(i) == chains[replies[i]].at = "signInWithCredential"

RepliesTyped ==
  /\ replies \in Seq(Chain)
  /\ \A i, j \in 1 .. Len(replies) : replies[i] = replies[j] => i = j
  /\ \A i \in 1 .. Len(replies) :
       chains[replies[i]].at \in {"signInWithCredential", "currentUser"}

Overlap ==
  \A c, d \in Chain : c # d /\ chains[c].at # "idle" /\ chains[d].at # "idle"
                        => chains[c].overtaken

\* What a handler nothing overtook can rely on.
Alone(c) ==
  ~chains[c].overtaken =>
    /\ chains[c].at \in {"authentication", "signInWithCredential"} => google # None
    /\ HasSignedIn(c) => firebase = chains[c].account
    /\ chains[c].at = "currentUser" /\ Waits(c) => chains[c].current = chains[c].account

\* Firebase's user, if the assertions on it fail.
Rejected == firebase \in Account \ complete

\* The newest sign-in that was answered is of Firebase's user; or else the photo
\* is, unless the assertions on that user failed.
NewestIsUser ==
  /\ \A i \in 1 .. Len(replies) :
       SignInAt(i) /\ (\A j \in 1 .. Len(replies) : j > i => ~SignInAt(j))
         => chains[replies[i]].account = firebase
  /\ (\A i \in 1 .. Len(replies) : ~SignInAt(i)) /\ imageUrl \in Account
       => firebase = imageUrl \/ Rejected

\* Past signIn() a login has an account.
Known == {"authentication", "signInWithCredential", "getIdToken", "currentUser"}
Named == \A c \in Chain : chains[c].at \in Known => chains[c].account # None

\* The photo is of a user on whom the assertions held.
PhotoPassed == complete \subseteq Account /\ (imageUrl \in Account => imageUrl \in complete)

LoginInv ==
  /\ chains \in [Chain -> Login!Handler]
  /\ google \in Account \cup {None} /\ firebase \in Account \cup {None}
  /\ RepliesTyped
  /\ Overlap
  /\ \A c \in Chain : Alone(c)
  /\ NewestIsUser
  /\ Named
  /\ PhotoPassed
  /\ PhotoIsSignedIn

-----------------------------------------------------------------------------
(* The steps of one handler.                                               *)

\* A handler goes on to its next await.
LEMMA GoesToNext ==
  ASSUME chains \in [Chain -> Login!Handler], NEW c \in Chain, NEW stage \in Login!Stage,
         NEW account \in Account \cup {None}, Login!GoesTo(c, stage, account)
  PROVE  \E h \in Login!Handler :
           /\ chains' = [chains EXCEPT ![c] = h]
           /\ h.at = stage /\ h.account = account
           /\ h.current = chains[c].current /\ h.overtaken = chains[c].overtaken
<1> DEFINE h == [chains[c] EXCEPT !.at = stage, !.account = account]
<1>1. chains[c] \in Login!Handler
  OBVIOUS
<1>2. /\ h \in Login!Handler /\ h.at = stage /\ h.account = account
      /\ h.current = chains[c].current /\ h.overtaken = chains[c].overtaken
  BY <1>1 DEF Login!Handler
<1>3. chains' = [chains EXCEPT ![c] = h]
  BY DEF Login!GoesTo
<1> QED
  BY <1>2, <1>3

\* A handler that ends.
LEMMA EndsIdle ==
  ASSUME NEW c \in Chain, Login!Ends(c)
  PROVE  \E h \in Login!Handler : chains' = [chains EXCEPT ![c] = h] /\ h.at = "idle"
<1>1. Login!Idle \in Login!Handler /\ Login!Idle.at = "idle"
  BY DEF Login!Idle, Login!Handler, Login!Stage
<1> QED
  BY <1>1 DEF Login!Ends

\* A handler under way that Firebase does not answer goes on, or ends.
LEMMA MoveInv ==
  ASSUME LoginInv, NEW c \in Chain, chains[c].at # "idle", ~Waits(c),
         NEW h \in Login!Handler, chains' = [chains EXCEPT ![c] = h],
         UNCHANGED <<complete, firebase, replies>>, google' \in Account \cup {None},
         h.at \in Known => h.account # None,
         h.at # "idle" => h.overtaken = chains[c].overtaken,
         h.at \in {"authentication", "signInWithCredential"} /\ ~h.overtaken => google' # None,
         h.at \in {"getIdToken", "currentUser"} /\ ~h.overtaken => firebase = h.account,
         google' = None /\ imageUrl' \in Account => google = None,
         imageUrl' \in Account => imageUrl' = imageUrl /\ mixed' = mixed
  PROVE  LoginInv'
<1>1. /\ chains' \in [Chain -> Login!Handler] /\ chains'[c] = h
      /\ \A d \in Chain : d # c => chains'[d] = chains[d]
  BY DEF LoginInv
<1>2. \A i \in 1 .. Len(replies) : replies[i] # c /\ replies[i] \in Chain
  BY ElementOfSeq DEF Waits, LoginInv, RepliesTyped
<1>3. \A i \in 1 .. Len(replies) : chains'[replies[i]] = chains[replies[i]]
  BY <1>1, <1>2
<1>4. RepliesTyped'
  BY <1>3 DEF LoginInv, RepliesTyped
<1>5. Overlap'
  BY <1>1 DEF LoginInv, Overlap
<1>6. \A d \in Chain : Waits(d)' <=> Waits(d)
  BY DEF Waits
<1>7. ASSUME NEW d \in Chain PROVE Alone(d)'
  <2>1. CASE d = c
    BY <1>1, <1>6, <2>1 DEF Alone, HasSignedIn
  <2>2. CASE d # c /\ chains[d].at # "idle"
    <3>1. chains[d].overtaken
      BY <2>2 DEF LoginInv, Overlap
    <3> QED
      BY <1>1, <2>2, <3>1 DEF Alone
  <2>3. CASE d # c /\ chains[d].at = "idle"
    BY <1>1, <2>3 DEF Alone, HasSignedIn
  <2> QED
    BY <2>1, <2>2, <2>3
<1>8. NewestIsUser'
  BY <1>3 DEF LoginInv, NewestIsUser, SignInAt, Rejected
<1>9. PhotoIsSignedIn'
  BY DEF LoginInv, PhotoIsSignedIn, Login!PhotoIsSignedIn
<1>10. Named' /\ PhotoPassed'
  BY <1>1 DEF LoginInv, Named, PhotoPassed
<1> QED
  BY <1>1, <1>4, <1>5, <1>7, <1>8, <1>9, <1>10 DEF LoginInv

\* Firebase signs the user of a handler in.
LEMMA SignsInInv ==
  ASSUME LoginInv, NEW c \in Chain, chains[c].at = "signInWithCredential", ~Waits(c),
         firebase' = chains[c].account, replies' = Append(replies, c),
         UNCHANGED <<complete, google, chains, imageUrl, mixed>>
  PROVE  LoginInv'
<1>0. PICK n \in Nat : n = Len(replies) + 1
  BY LenProperties DEF LoginInv, RepliesTyped
<1>1. /\ replies \in Seq(Chain) /\ Len(replies) \in Nat /\ chains[c] \in Login!Handler
      /\ \A i \in 1 .. Len(replies) : replies[i] # c
  BY DEF LoginInv, RepliesTyped, Waits
<1>2. /\ replies' \in Seq(Chain) /\ Len(replies') = n /\ replies'[n] = c
      /\ \A i \in 1 .. Len(replies) : replies'[i] = replies[i]
      /\ \A i \in 1 .. n : i # n => i \in 1 .. Len(replies)
      /\ n \in 1 .. n
  BY <1>0, <1>1
<1>3. RepliesTyped'
  <2>1. ASSUME NEW i \in 1 .. n, NEW j \in 1 .. n, replies'[i] = replies'[j] PROVE i = j
    BY <1>1, <1>2, <2>1 DEF LoginInv, RepliesTyped
  <2>2. ASSUME NEW i \in 1 .. n
        PROVE  chains[replies'[i]].at \in {"signInWithCredential", "currentUser"}
    BY <1>1, <1>2, <2>2 DEF LoginInv, RepliesTyped
  <2> QED
    BY <1>2, <2>1, <2>2 DEF RepliesTyped
<1>4. Waits(c)' /\ \A d \in Chain : d # c => (Waits(d)' <=> Waits(d))
  BY <1>2 DEF Waits
<1>5. ASSUME NEW d \in Chain PROVE Alone(d)'
  <2>1. CASE d = c
    BY <1>4, <2>1 DEF LoginInv, Alone
  <2>2. CASE d # c /\ chains[d].at # "idle"
    <3>1. chains[d].overtaken
      BY <2>2 DEF LoginInv, Overlap
    <3> QED
      BY <3>1 DEF Alone
  <2>3. CASE d # c /\ chains[d].at = "idle"
    BY <2>3 DEF Alone, HasSignedIn
  <2> QED
    BY <2>1, <2>2, <2>3
<1>6. NewestIsUser'
  <2>1. SignInAt(n)'
    BY <1>2 DEF SignInAt
  <2>2. ASSUME NEW i \in 1 .. n, \A j \in 1 .. n : j > i => ~SignInAt(j)'
        PROVE  i = n
    <3>1. ~(n > i)
      BY <1>2, <2>1, <2>2
    <3> QED
      BY <1>0, <1>1, <3>1
  <2> QED
    BY <1>2, <2>1, <2>2 DEF NewestIsUser
<1>7. firebase' \in Account \cup {None}
  BY <1>1 DEF Login!Handler
<1> QED
  BY <1>3, <1>5, <1>6, <1>7 DEF LoginInv, Overlap, Named, PhotoPassed, PhotoIsSignedIn,
                                 Login!PhotoIsSignedIn

\* Firebase answers with the user it has.
LEMMA TellsInv ==
  ASSUME LoginInv, NEW c \in Chain, chains[c].at = "currentUser", ~Waits(c),
         chains' = [chains EXCEPT ![c].current = firebase], replies' = Append(replies, c),
         UNCHANGED <<complete, google, firebase, imageUrl, mixed>>
  PROVE  LoginInv'
<1>0. PICK n \in Nat : n = Len(replies) + 1
  BY LenProperties DEF LoginInv, RepliesTyped
<1> DEFINE h == [chains[c] EXCEPT !.current = firebase]
<1>1. /\ replies \in Seq(Chain) /\ Len(replies) \in Nat /\ chains[c] \in Login!Handler
      /\ \A i \in 1 .. Len(replies) : replies[i] # c /\ replies[i] \in Chain
  BY ElementOfSeq DEF LoginInv, RepliesTyped, Waits
<1>2. /\ replies' \in Seq(Chain) /\ Len(replies') = n /\ replies'[n] = c
      /\ \A i \in 1 .. Len(replies) : replies'[i] = replies[i]
      /\ \A i \in 1 .. n : i # n => i \in 1 .. Len(replies)
      /\ \A i \in 1 .. Len(replies) : i \in 1 .. n
      /\ n \in 1 .. n
  BY <1>0, <1>1
<1>3. /\ h \in Login!Handler /\ h.at = "currentUser" /\ h.current = firebase
      /\ h.account = chains[c].account /\ h.overtaken = chains[c].overtaken
  BY <1>1 DEF Login!Handler, LoginInv
<1> HIDE DEF h
<1>4. /\ chains' \in [Chain -> Login!Handler] /\ chains'[c] = h
      /\ \A d \in Chain : d # c => chains'[d] = chains[d]
  BY <1>3 DEF LoginInv, h
<1>5. RepliesTyped'
  <2>1. ASSUME NEW i \in 1 .. n, NEW j \in 1 .. n, replies'[i] = replies'[j] PROVE i = j
    BY <1>1, <1>2, <2>1 DEF LoginInv, RepliesTyped
  <2>2. ASSUME NEW i \in 1 .. n
        PROVE  chains'[replies'[i]].at \in {"signInWithCredential", "currentUser"}
    BY <1>1, <1>2, <1>3, <1>4, <2>2 DEF LoginInv, RepliesTyped
  <2> QED
    BY <1>2, <2>1, <2>2 DEF RepliesTyped
<1>6. Waits(c)' /\ \A d \in Chain : d # c => (Waits(d)' <=> Waits(d))
  BY <1>2 DEF Waits
<1>7. ASSUME NEW d \in Chain PROVE Alone(d)'
  <2>1. CASE d = c
    BY <1>3, <1>4, <2>1 DEF LoginInv, Alone, HasSignedIn
  <2>2. CASE d # c
    BY <1>4, <1>6, <2>2 DEF LoginInv, Alone, HasSignedIn
  <2> QED
    BY <2>1, <2>2
<1>8. NewestIsUser'
  <2>1. ~SignInAt(n)'
    BY <1>2, <1>3, <1>4 DEF SignInAt
  <2>2. ASSUME NEW i \in 1 .. Len(replies)
        PROVE  /\ SignInAt(i)' <=> SignInAt(i)
               /\ chains'[replies'[i]] = chains[replies[i]]
    BY <1>1, <1>2, <1>4 DEF SignInAt
  <2>3. ASSUME NEW i \in 1 .. n, SignInAt(i)', \A j \in 1 .. n : j > i => ~SignInAt(j)'
        PROVE  chains'[replies'[i]].account = firebase
    <3>1. i \in 1 .. Len(replies)
      BY <1>2, <2>1, <2>3
    <3>2. SignInAt(i) /\ \A j \in 1 .. Len(replies) : j > i => ~SignInAt(j)
      BY <1>2, <2>2, <2>3, <3>1
    <3>3. chains[replies[i]].account = firebase
      BY <3>1, <3>2 DEF LoginInv, NewestIsUser
    <3> QED
      BY <2>2, <3>1, <3>3
  <2>4. ASSUME \A i \in 1 .. n : ~SignInAt(i)', imageUrl \in Account
        PROVE  firebase = imageUrl \/ Rejected
    BY <1>2, <2>2, <2>4 DEF LoginInv, NewestIsUser
  <2> QED
    BY <1>2, <2>3, <2>4 DEF NewestIsUser, Rejected
<1>9. Overlap'
  BY <1>3, <1>4 DEF LoginInv, Overlap
<1>10. Named' /\ PhotoPassed'
  BY <1>3, <1>4 DEF LoginInv, Named, PhotoPassed
<1> QED
  BY <1>4, <1>5, <1>7, <1>8, <1>9, <1>10 DEF LoginInv, PhotoIsSignedIn, Login!PhotoIsSignedIn

\* The app is told of an answer of Firebase: a sign-in, or its current user.
LEMMA ToldInv ==
  ASSUME LoginInv, NEW c \in Chain, replies # <<>>, c = Head(replies), replies' = Tail(replies),
         NEW h \in Login!Handler, chains' = [chains EXCEPT ![c] = h], UNCHANGED <<complete, google, firebase>>,
         \/ /\ chains[c].at = "signInWithCredential" /\ h.at = "getIdToken"
            /\ h.account = chains[c].account /\ h.overtaken = chains[c].overtaken
            /\ chains[c].account \in complete
            /\ imageUrl' = chains[c].account /\ mixed' = chains[c].overtaken
         \/ /\ chains[c].at = "signInWithCredential" /\ h.at = "idle"
            /\ chains[c].account \notin complete
            /\ UNCHANGED <<imageUrl, mixed>>
         \/ /\ chains[c].at = "currentUser" /\ h.at = "idle"
            /\ UNCHANGED <<imageUrl, mixed>>
  PROVE  LoginInv'
<1>0. PICK n \in Nat : n = Len(replies) - 1
  BY LenProperties, EmptySeq DEF LoginInv, RepliesTyped
<1>1. /\ replies \in Seq(Chain) /\ Len(replies) = n + 1 /\ replies[1] = c
      /\ chains[c] \in Login!Handler
      /\ replies' \in Seq(Chain) /\ Len(replies') = n
      /\ \A i \in 1 .. n : replies'[i] = replies[i + 1] /\ i + 1 \in 1 .. n + 1 /\ i + 1 # 1
      /\ 1 \in 1 .. n + 1
  BY <1>0, HeadTailProperties DEF LoginInv, RepliesTyped
<1>2. /\ chains' \in [Chain -> Login!Handler] /\ chains'[c] = h
      /\ \A d \in Chain : d # c => chains'[d] = chains[d]
  BY DEF LoginInv
<1>3. ASSUME NEW i \in 1 .. n
      PROVE  /\ replies[i + 1] \in Chain /\ replies[i + 1] # c
             /\ chains'[replies'[i]] = chains[replies[i + 1]]
             /\ SignInAt(i)' <=> SignInAt(i + 1)
  <2>1. replies[i + 1] \in Chain /\ replies[i + 1] # c
    BY <1>1, <1>3, ElementOfSeq DEF LoginInv, RepliesTyped
  <2> QED
    BY <1>1, <1>2, <1>3, <2>1 DEF SignInAt
<1>4. RepliesTyped'
  <2>1. ASSUME NEW i \in 1 .. n, NEW j \in 1 .. n, replies'[i] = replies'[j] PROVE i = j
    BY <1>1, <2>1 DEF LoginInv, RepliesTyped
  <2>2. ASSUME NEW i \in 1 .. n
        PROVE  chains'[replies'[i]].at \in {"signInWithCredential", "currentUser"}
    BY <1>1, <1>3, <2>2 DEF LoginInv, RepliesTyped
  <2> QED
    BY <1>1, <2>1, <2>2 DEF RepliesTyped
<1>5. Overlap'
  <2>1. chains[c].at # "idle" /\ (h.at # "idle" => h.overtaken = chains[c].overtaken)
    OBVIOUS
  <2> QED
    BY <1>2, <2>1 DEF LoginInv, Overlap
<1>6. Waits(c) /\ \A d \in Chain : d # c => (Waits(d)' => Waits(d))
  BY <1>1 DEF Waits
<1>7. ASSUME NEW d \in Chain PROVE Alone(d)'
  <2>1. CASE d = c
    BY <1>2, <1>6, <2>1 DEF LoginInv, Alone, HasSignedIn
  <2>2. CASE d # c
    BY <1>2, <1>6, <2>2 DEF LoginInv, Alone, HasSignedIn
  <2> QED
    BY <2>1, <2>2
<1>8. NewestIsUser'
  <2>1. ASSUME NEW i \in 1 .. n, SignInAt(i)', \A j \in 1 .. n : j > i => ~SignInAt(j)'
        PROVE  chains'[replies'[i]].account = firebase
    <3>1. ASSUME NEW j \in 1 .. n + 1, j > i + 1 PROVE ~SignInAt(j)
      <4>1. j - 1 \in 1 .. n /\ j - 1 > i /\ (j - 1) + 1 = j
        BY <3>1
      <4> QED
        BY <1>3, <2>1, <4>1
    <3>2. i + 1 \in 1 .. n + 1 /\ SignInAt(i + 1)
      BY <1>3, <2>1
    <3>3. chains[replies[i + 1]].account = firebase
      BY <1>1, <3>1, <3>2 DEF LoginInv, NewestIsUser
    <3> QED
      BY <1>3, <3>3
  <2>2. ASSUME \A i \in 1 .. n : ~SignInAt(i)', imageUrl' \in Account
        PROVE  firebase = imageUrl' \/ Rejected
    <3>1. ASSUME NEW j \in 1 .. n + 1, j > 1 PROVE ~SignInAt(j)
      <4>1. j - 1 \in 1 .. n /\ (j - 1) + 1 = j
        BY <3>1
      <4> QED
        BY <1>3, <2>2, <4>1
    <3>2. CASE /\ chains[c].at = "signInWithCredential"
               /\ imageUrl' = chains[c].account \/ chains[c].account \notin complete
      <4>1. SignInAt(1)
        BY <1>1, <3>2 DEF SignInAt
      <4>2. chains[replies[1]].account = firebase
        BY <1>1, <3>1, <4>1 DEF LoginInv, NewestIsUser
      <4>3. firebase \in Account
        BY <1>1, <3>2, <4>2 DEF LoginInv, Named, Known
      <4> QED
        BY <1>1, <3>2, <4>2, <4>3 DEF Rejected
    <3>3. CASE chains[c].at = "currentUser" /\ UNCHANGED imageUrl
      <4>1. ~SignInAt(1)
        BY <1>1, <3>3 DEF SignInAt
      <4>2. \A j \in 1 .. n + 1 : ~SignInAt(j)
        <5>1. \A j \in 1 .. n + 1 : j = 1 \/ j > 1
          OBVIOUS
        <5> QED
          BY <3>1, <4>1, <5>1
      <4> QED
        BY <1>1, <2>2, <3>3, <4>2 DEF LoginInv, NewestIsUser
    <3> QED
      BY <3>2, <3>3
  <2> QED
    BY <1>1, <2>1, <2>2 DEF NewestIsUser, Rejected
<1>9. PhotoIsSignedIn'
  <2>1. chains[c].at = "signInWithCredential" /\ ~chains[c].overtaken => google # None
    BY DEF LoginInv, Alone
  <2> QED
    BY <2>1 DEF LoginInv, PhotoIsSignedIn, Login!PhotoIsSignedIn
<1>10. Named'
  <2>1. chains[c].at \in Known /\ (h.at \in Known => h.account = chains[c].account)
    BY DEF Known
  <2> QED
    BY <1>2, <2>1 DEF LoginInv, Named
<1>11. PhotoPassed'
  BY DEF LoginInv, PhotoPassed
<1> QED
  BY <1>2, <1>4, <1>5, <1>7, <1>8, <1>9, <1>10, <1>11 DEF LoginInv

\* A tap starts a handler, which has overtaken those under way, and they it.
LEMMA BeginInv ==
  ASSUME LoginInv, NEW c \in Chain, Login!At(c, "idle"),
         NEW method \in {"signIn", "disconnect"}, Login!Begin(c, method)
  PROVE  LoginInv'
<1>1. /\ chains \in [Chain -> Login!Handler] /\ chains[c].at = "idle"
      /\ UNCHANGED <<complete, google, firebase, replies, imageUrl, mixed>>
  BY DEF LoginInv, Login!At, Login!Begin
<1>2. /\ Login!Idle \in Login!Handler /\ Login!Idle.at = "idle"
      /\ [Login!Idle EXCEPT !.at = method, !.overtaken = (Login!UnderWay # {})] \in Login!Handler
  BY DEF Login!Idle, Login!Handler, Login!Stage
<1>3. ASSUME NEW d \in Chain, d # c, chains[d].at # "idle"
      PROVE  /\ chains'[d] \in Login!Handler /\ chains'[d].overtaken
             /\ chains'[d].at = chains[d].at /\ chains'[d].account = chains[d].account
  <2>1. chains'[d] = [chains[d] EXCEPT !.overtaken = TRUE]
    BY <1>3 DEF Login!Begin, Login!UnderWay
  <2> QED
    BY <1>1, <2>1 DEF Login!Handler
<1>4. ASSUME NEW d \in Chain, d # c, chains[d].at = "idle"
      PROVE  chains'[d] \in Login!Handler /\ chains'[d].at = "idle"
  BY <1>2, <1>4 DEF Login!Begin, Login!UnderWay
<1>5. /\ chains'[c] \in Login!Handler /\ chains'[c].at = method
      /\ \A d \in Chain : chains[d].at # "idle" => chains'[c].overtaken
  <2>1. chains'[c] = [Login!Idle EXCEPT !.at = method, !.overtaken = (Login!UnderWay # {})]
    BY DEF Login!Begin
  <2>2. chains'[c].at = method /\ chains'[c].overtaken = (Login!UnderWay # {})
    BY <2>1 DEF Login!Idle
  <2> QED
    BY <1>2, <2>1, <2>2 DEF Login!UnderWay
<1>6. chains' \in [Chain -> Login!Handler]
  <2>1. \A d \in Chain : chains'[d] \in Login!Handler
    BY <1>3, <1>4, <1>5
  <2>2. chains' = [d \in Chain |-> chains'[d]]
    BY DEF Login!Begin
  <2> QED
    BY <2>1, <2>2
<1>7. ASSUME NEW i \in 1 .. Len(replies)
      PROVE  /\ chains'[replies[i]].at = chains[replies[i]].at
             /\ chains'[replies[i]].account = chains[replies[i]].account
  <2>1. replies[i] \in Chain /\ replies[i] # c /\ chains[replies[i]].at # "idle"
    BY <1>1, ElementOfSeq DEF LoginInv, RepliesTyped
  <2> QED
    BY <1>3, <2>1
<1>8. RepliesTyped'
  BY <1>1, <1>7 DEF LoginInv, RepliesTyped
<1>9. Overlap'
  BY <1>3, <1>4, <1>5 DEF Overlap
<1>10. ASSUME NEW d \in Chain PROVE Alone(d)'
  <2>1. CASE d = c
    BY <1>5, <2>1 DEF Alone, HasSignedIn
  <2>2. CASE d # c /\ chains[d].at # "idle"
    BY <1>3, <2>2 DEF Alone
  <2>3. CASE d # c /\ chains[d].at = "idle"
    BY <1>4, <2>3 DEF Alone, HasSignedIn
  <2> QED
    BY <2>1, <2>2, <2>3
<1>11. NewestIsUser'
  BY <1>1, <1>7 DEF LoginInv, NewestIsUser, SignInAt, Rejected
<1>12. Named' /\ PhotoPassed'
  <2>1. ASSUME NEW d \in Chain, chains'[d].at \in Known PROVE chains'[d].account # None
    BY <1>3, <1>4, <1>5, <2>1 DEF LoginInv, Named, Known
  <2> QED
    BY <1>1, <2>1 DEF LoginInv, Named, PhotoPassed
<1> QED
  BY <1>1, <1>6, <1>8, <1>9, <1>10, <1>11, <1>12
     DEF LoginInv, PhotoIsSignedIn, Login!PhotoIsSignedIn

-----------------------------------------------------------------------------
(* The invariant, one step per action.                                     *)

\* A handler that is at no await of Firebase has no answer waiting.
LEMMA NotWaiting ==
  ASSUME LoginInv, NEW c \in Chain,
         chains[c].at \notin {"signInWithCredential", "currentUser"}
  PROVE  ~Waits(c)
BY DEF LoginInv, RepliesTyped, Waits

\* The screen starts with nobody signed in.
LEMMA LoginInit == ASSUME Init PROVE LoginInv
<1>1. /\ google = None /\ firebase = None /\ chains = [c \in Chain |-> Login!Idle]
      /\ replies = <<>> /\ imageUrl = None /\ complete \subseteq Account
  BY DEF Init, Login!Init
<1>2. Login!Idle \in Login!Handler /\ Login!Idle.at = "idle"
  BY DEF Login!Idle, Login!Handler, Login!Stage
<1>3. RepliesTyped
  BY <1>1, EmptySeq DEF RepliesTyped
<1>4. Overlap /\ \A c \in Chain : Alone(c)
  BY <1>1, <1>2 DEF Overlap, Alone, HasSignedIn
<1>5. NewestIsUser
  BY <1>1 DEF NewestIsUser
<1>6. PhotoIsSignedIn
  BY <1>1, HomeAssumption DEF HomeAssumption, PhotoIsSignedIn, Login!PhotoIsSignedIn
<1>7. Named /\ PhotoPassed
  BY <1>1, <1>2, HomeAssumption DEF HomeAssumption, Named, Known, PhotoPassed
<1> QED
  BY <1>1, <1>2, <1>3, <1>4, <1>5, <1>6, <1>7 DEF LoginInv

\* A step of one handler.
LEMMA HandlerStep ==
  ASSUME LoginInv, NEW c \in Chain, Login!Step(c)
  PROVE  LoginInv'
<1>1. /\ chains \in [Chain -> Login!Handler] /\ chains[c] \in Login!Handler
      /\ chains[c].account \in Account \cup {None}
      /\ google \in Account \cup {None} /\ Alone(c)
      /\ chains[c].at \in Known => chains[c].account # None
      /\ "idle" \notin Known
  BY DEF LoginInv, Login!Handler, Named, Known
<1>2. /\ {"authentication", "signInWithCredential", "getIdToken", "currentUser"} \subseteq Login!Stage
      /\ {"authentication", "signInWithCredential", "getIdToken", "currentUser"} = Known
  BY DEF Login!Stage, Known
<1>3. CASE Login!SignedIn(c)
  <2>1. /\ chains[c].at = "signIn" /\ UNCHANGED <<complete, firebase, replies, imageUrl, mixed>>
        /\ google' \in (IF google = None THEN Account \cup {None} ELSE {google})
        /\ IF google' = None THEN Login!Ends(c) ELSE Login!GoesTo(c, "authentication", google')
    BY <1>3 DEF Login!SignedIn, Login!At
  <2>2. ~Waits(c) /\ google' \in Account \cup {None} /\ (google' = None => google = None)
    BY <1>1, <2>1, NotWaiting
  <2>3. CASE google' = None
    BY <1>1, <2>1, <2>2, <2>3, EndsIdle, MoveInv
  <2>4. CASE google' # None
    <3>1. PICK h \in Login!Handler : /\ chains' = [chains EXCEPT ![c] = h]
                                     /\ h.at = "authentication" /\ h.account = google'
                                     /\ h.overtaken = chains[c].overtaken
      BY <1>1, <1>2, <2>1, <2>2, <2>4, GoesToNext
    <3> QED
      BY <2>1, <2>2, <2>4, <3>1, MoveInv
  <2> QED
    BY <2>3, <2>4
<1>4. CASE Login!Authenticated(c)
  <2>1. /\ chains[c].at = "authentication" /\ UNCHANGED <<complete, google, firebase, replies, imageUrl, mixed>>
        /\ Login!GoesTo(c, "signInWithCredential", chains[c].account) \/ Login!Ends(c)
    BY <1>4 DEF Login!Authenticated, Login!At
  <2>2. ~Waits(c)
    BY <2>1, NotWaiting
  <2>3. CASE Login!Ends(c)
    BY <1>1, <2>1, <2>2, <2>3, EndsIdle, MoveInv
  <2>4. CASE Login!GoesTo(c, "signInWithCredential", chains[c].account)
    <3>1. PICK h \in Login!Handler : /\ chains' = [chains EXCEPT ![c] = h]
                                     /\ h.at = "signInWithCredential"
                                     /\ h.account = chains[c].account
                                     /\ h.overtaken = chains[c].overtaken
      BY <1>1, <1>2, <2>4, GoesToNext
    <3>2. ~h.overtaken => google # None
      BY <1>1, <2>1, <3>1 DEF Alone
    <3> QED
      BY <1>1, <1>2, <2>1, <2>2, <3>1, <3>2, MoveInv
  <2> QED
    BY <2>1, <2>3, <2>4
<1>5. CASE Login!FirebaseSignsIn(c)
  <2>1. /\ chains[c].at = "signInWithCredential" /\ ~Waits(c) /\ UNCHANGED <<complete, google, imageUrl, mixed>>
        /\ \/ /\ firebase' = chains[c].account /\ replies' = Append(replies, c)
              /\ UNCHANGED chains
           \/ Login!Ends(c) /\ UNCHANGED <<firebase, replies>>
    BY <1>5 DEF Login!FirebaseSignsIn, Login!At, Login!Contains, Waits
  <2>2. CASE Login!Ends(c) /\ UNCHANGED <<firebase, replies>>
    BY <1>1, <2>1, <2>2, EndsIdle, MoveInv
  <2> QED
    BY <2>1, <2>2, SignsInInv
<1>6. CASE Login!SignInCompletes(c)
  <2>1. /\ replies # <<>> /\ c = Head(replies) /\ replies' = Tail(replies)
        /\ chains[c].at = "signInWithCredential" /\ UNCHANGED <<complete, google, firebase>>
        /\ \/ /\ chains[c].account \in complete
              /\ imageUrl' = chains[c].account /\ mixed' = chains[c].overtaken
              /\ Login!GoesTo(c, "getIdToken", chains[c].account)
           \/ /\ chains[c].account \notin complete
              /\ Login!Ends(c) /\ UNCHANGED <<imageUrl, mixed>>
    BY <1>6 DEF Login!SignInCompletes, Login!Reply, Login!At
  <2>2. CASE Login!Ends(c) /\ chains[c].account \notin complete /\ UNCHANGED <<imageUrl, mixed>>
    <3>1. PICK h \in Login!Handler : chains' = [chains EXCEPT ![c] = h] /\ h.at = "idle"
      BY <2>2, EndsIdle
    <3> QED
      BY <2>1, <2>2, <3>1, ToldInv
  <2>3. CASE /\ Login!GoesTo(c, "getIdToken", chains[c].account) /\ chains[c].account \in complete
             /\ imageUrl' = chains[c].account /\ mixed' = chains[c].overtaken
    <3>1. PICK h \in Login!Handler : /\ chains' = [chains EXCEPT ![c] = h]
                                     /\ h.at = "getIdToken" /\ h.account = chains[c].account
                                     /\ h.overtaken = chains[c].overtaken
      BY <1>1, <1>2, <2>3, GoesToNext
    <3> QED
      BY <2>1, <2>3, <3>1, ToldInv
  <2> QED
    BY <2>1, <2>2, <2>3
<1>7. CASE Login!HasIdToken(c)
  <2>1. /\ chains[c].at = "getIdToken" /\ UNCHANGED <<complete, google, firebase, replies, imageUrl, mixed>>
        /\ Login!GoesTo(c, "currentUser", chains[c].account) \/ Login!Ends(c)
    BY <1>7 DEF Login!HasIdToken, Login!At
  <2>2. ~Waits(c)
    BY <2>1, NotWaiting
  <2>3. CASE Login!Ends(c)
    BY <1>1, <2>1, <2>2, <2>3, EndsIdle, MoveInv
  <2>4. CASE Login!GoesTo(c, "currentUser", chains[c].account)
    <3>1. PICK h \in Login!Handler : /\ chains' = [chains EXCEPT ![c] = h]
                                     /\ h.at = "currentUser" /\ h.account = chains[c].account
                                     /\ h.overtaken = chains[c].overtaken
      BY <1>1, <1>2, <2>4, GoesToNext
    <3>2. ~h.overtaken => firebase = h.account
      BY <1>1, <2>1, <3>1 DEF Alone, HasSignedIn
    <3> QED
      BY <1>1, <1>2, <2>1, <2>2, <3>1, <3>2, MoveInv
  <2> QED
    BY <2>1, <2>3, <2>4
<1>8. CASE Login!FirebaseTells(c)
  BY <1>8, TellsInv DEF Login!FirebaseTells, Login!At, Login!Contains, Waits
<1>9. CASE Login!LoggedIn(c)
  <2>1. /\ replies # <<>> /\ c = Head(replies) /\ replies' = Tail(replies)
        /\ chains[c].at = "currentUser" /\ UNCHANGED <<complete, google, firebase, imageUrl, mixed>>
        /\ Login!Ends(c)
    BY <1>9 DEF Login!LoggedIn, Login!Reply, Login!At
  <2> QED
    BY <2>1, EndsIdle, ToldInv
<1>10. CASE Login!Disconnected(c)
  <2>1. /\ chains[c].at = "disconnect" /\ Login!Ends(c) /\ UNCHANGED <<complete, firebase, replies>>
        /\ \/ google' = None /\ imageUrl' = ""
           \/ UNCHANGED <<google, imageUrl, mixed>>
    BY <1>10 DEF Login!Disconnected, Login!ClearImage, Login!At
  <2>2. ~Waits(c) /\ "" \notin Account
    BY <2>1, NotWaiting, HomeAssumption DEF HomeAssumption
  <2>3. PICK h \in Login!Handler : chains' = [chains EXCEPT ![c] = h] /\ h.at = "idle"
    BY <2>1, EndsIdle
  <2> QED
    BY <1>1, <2>1, <2>2, <2>3, MoveInv
<1> QED
  BY <1>3, <1>4, <1>5, <1>6, <1>7, <1>8, <1>9, <1>10 DEF Login!Step

\* The home screen is the only one that takes steps.
LEMMA LoginOrOther == ASSUME [Next]_vars PROVE Login!Next \/ UNCHANGED login_
BY DEF Next, Step, OthersKept, vars

\* Each step of the screen keeps the invariant.
LEMMA LoginStep == ASSUME LoginInv, [Next]_vars PROVE LoginInv'
<1>1. CASE UNCHANGED login_
  BY <1>1 DEF LoginInv, RepliesTyped, Overlap, Alone, HasSignedIn, Waits, NewestIsUser, SignInAt,
              Rejected, Named, PhotoPassed, PhotoIsSignedIn, Login!PhotoIsSignedIn, login_
<1>2. CASE Login!Next
  <2>1. PICK c \in Chain : Login!Tap(c) \/ Login!Step(c)
    BY <1>2 DEF Login!Next
  <2>2. CASE Login!Tap(c)
    BY <2>2, BeginInv DEF Login!Tap, Login!handleLoginGoogle, Login!handleSignOut
  <2>3. CASE Login!Step(c)
    BY <2>3, HandlerStep
  <2> QED
    BY <2>1, <2>2, <2>3
<1> QED
  BY <1>1, <1>2, LoginOrOther

-----------------------------------------------------------------------------
(* The theorems.                                                           *)

\* Everything below follows from this invariant of the login screen.
THEOREM LoginInvariance == Spec => []LoginInv
<1>1. Init => LoginInv
  BY LoginInit
<1>2. LoginInv /\ [Next]_vars => LoginInv'
  BY LoginStep
<1> QED
  BY <1>1, <1>2, PTL DEF Spec

\* The assertion that Firebase's current user is the one that signed in holds
\* at the end of any login that nothing overtook.
THEOREM AssertHoldsAlone == Spec => []AssertFailsOnlyOvertaken
<1>1. LoginInv => AssertFailsOnlyOvertaken
  <2>1. ASSUME LoginInv, NEW c \in Login!Range(replies), chains[c].at = "currentUser",
               chains[c].current # chains[c].account
        PROVE  chains[c].overtaken
    <3>1. PICK i \in 1 .. Len(replies) : replies[i] = c
      BY <2>1, LenProperties DEF Login!Range, LoginInv, RepliesTyped
    <3>2. c \in Chain /\ Waits(c)
      BY <2>1, <3>1, ElementOfSeq DEF Waits, LoginInv, RepliesTyped
    <3> QED
      BY <2>1, <3>2 DEF LoginInv, Alone
  <2> QED
    BY <2>1 DEF AssertFailsOnlyOvertaken, Login!AssertFailsOnlyOvertaken, Login!At
<1> QED
  BY <1>1, LoginInvariance, PTL

\* However logins and sign-outs overlap, the photo is in the end of the user
\* Firebase has, unless that user failed the assertions; and it is of one on whom
\* they held.
THEOREM PhotoOfUser == Spec => []PhotoIsOfUser
<1>1. LoginInv => PhotoIsOfUser
  <2>1. ASSUME LoginInv, imageUrl \in Account,
               \A c \in Login!Range(replies) : chains[c].at # "signInWithCredential"
        PROVE  firebase = imageUrl \/ Rejected
    <3>1. \A i \in 1 .. Len(replies) : replies[i] \in Login!Range(replies)
      BY <2>1, LenProperties DEF Login!Range, LoginInv, RepliesTyped
    <3> QED
      BY <2>1, <3>1 DEF LoginInv, NewestIsUser, SignInAt
  <2>2. LoginInv /\ imageUrl \in Account => imageUrl \in complete
    BY DEF LoginInv, PhotoPassed
  <2> QED
    BY <2>1, <2>2 DEF PhotoIsOfUser, Login!PhotoIsOfUser, Login!At, Rejected
<1> QED
  BY <1>1, LoginInvariance, PTL

\* A photo that is shown while Google is signed out is of a login that was overtaken.
THEOREM PhotoSignedIn == Spec => []PhotoIsSignedIn
<1>1. LoginInv => PhotoIsSignedIn
  BY DEF LoginInv
<1> QED
  BY <1>1, LoginInvariance, PTL

-----------------------------------------------------------------------------
(* The types of the login screen.                                          *)

\* Who waits for the Google plugin waits once, and at one of its calls.
CallsTyped ==
  /\ calls \in Seq(Chain)
  /\ \A i, j \in DOMAIN calls : calls[i] = calls[j] => i = j
  /\ \A i \in DOMAIN calls : chains[calls[i]].at \in {"signIn", "disconnect"}

LoginTypes ==
  imageUrl \in Account \cup {None, ""} /\ mixed \in BOOLEAN /\ CallsTyped

\* Nobody is called from a handler at another await.
LEMMA CallsStay ==
  ASSUME CallsTyped, NEW c \in Chain, chains[c].at \notin {"signIn", "disconnect"},
         \A d \in Chain : d # c => chains'[d] = chains[d], UNCHANGED calls
  PROVE  CallsTyped'
<1>1. \A i \in DOMAIN calls : calls[i] \in Chain /\ calls[i] # c
  BY LenProperties, ElementOfSeq DEF CallsTyped
<1> QED
  BY <1>1 DEF CallsTyped

\* The first in line leaves it.
LEMMA CallLeaves ==
  ASSUME CallsTyped, calls # <<>>, NEW c \in Chain, c = Head(calls), calls' = Tail(calls),
         \A d \in Chain : d # c => chains'[d] = chains[d]
  PROVE  CallsTyped'
<1>1. calls \in Seq(Chain)
  BY DEF CallsTyped
<1>2. PICK n \in Nat : /\ DOMAIN calls = 1 .. n + 1 /\ DOMAIN Tail(calls) = 1 .. n
                       /\ \A i \in 1 .. n : Tail(calls)[i] = calls[i + 1]
  BY <1>1, TailMessages, Zenon
<1>3. calls' \in Seq(Chain) /\ c = calls[1]
  BY <1>1, TailMessages
<1>4. \A i \in 1 .. n : i + 1 \in 1 .. n + 1 /\ i + 1 # 1
  OBVIOUS
<1>5. 1 \in 1 .. n + 1
  OBVIOUS
<1>6. ASSUME NEW i \in 1 .. n
      PROVE  /\ calls'[i] = calls[i + 1] /\ calls'[i] \in Chain /\ calls'[i] # c
             /\ chains[calls'[i]].at \in {"signIn", "disconnect"}
  <2>1. calls'[i] = calls[i + 1] /\ i + 1 \in DOMAIN calls
    BY <1>2, <1>4
  <2>2. calls'[i] \in Chain
    BY <1>1, <1>2, <2>1, LenProperties, ElementOfSeq
  <2>3. calls[i + 1] # calls[1]
    BY <1>2, <1>4, <1>5, <2>1 DEF CallsTyped
  <2> QED
    BY <1>3, <2>1, <2>2, <2>3 DEF CallsTyped
<1>7. \A i \in 1 .. n : chains'[calls'[i]].at \in {"signIn", "disconnect"}
  BY <1>6
<1>8. ASSUME NEW i \in 1 .. n, NEW j \in 1 .. n, calls'[i] = calls'[j] PROVE i = j
  <2>1. calls[i + 1] = calls[j + 1]
    BY <1>6, <1>8
  <2>2. i + 1 = j + 1
    BY <1>2, <1>4, <2>1 DEF CallsTyped
  <2> QED
    BY <2>2
<1> QED
  BY <1>2, <1>3, <1>7, <1>8 DEF CallsTyped

\* A handler that begins joins the line.
LEMMA CallJoins ==
  ASSUME LoginInv, CallsTyped, NEW c \in Chain, NEW method \in {"signIn", "disconnect"},
         chains[c].at = "idle", Login!Begin(c, method)
  PROVE  CallsTyped'
<1>1. calls \in Seq(Chain) /\ chains \in [Chain -> Login!Handler]
  BY DEF CallsTyped, LoginInv
<1>2. PICK n \in Nat : n = Len(calls) /\ DOMAIN calls = 1 .. n
  BY <1>1, LenProperties
<1>3. calls' = Append(calls, c)
  BY DEF Login!Begin
<1>4. /\ calls' \in Seq(Chain) /\ Len(calls') = n + 1 /\ calls'[n + 1] = c
      /\ \A i \in 1 .. n : calls'[i] = calls[i]
  BY <1>1, <1>2, <1>3, AppendProperties
<1>5. DOMAIN calls' = 1 .. n + 1 /\ \A i \in 1 .. n + 1 : i \in 1 .. n \/ i = n + 1
  BY <1>4, LenProperties
<1>6. \A i \in 1 .. n : calls[i] \in Chain /\ calls[i] # c /\ chains[calls[i]].at # "idle"
  BY <1>1, <1>2, ElementOfSeq DEF CallsTyped
<1>7. chains'[c].at = method
  BY DEF Login!Begin, Login!Idle
<1>8. \A d \in Chain : d # c /\ chains[d].at # "idle" => chains'[d].at = chains[d].at
  <2>1. ASSUME NEW d \in Chain, d # c, chains[d].at # "idle" PROVE chains'[d].at = chains[d].at
    <3>1. chains'[d] = [chains[d] EXCEPT !.overtaken = TRUE]
      BY <2>1 DEF Login!Begin, Login!UnderWay
    <3>2. chains[d] \in Login!Handler
      BY <1>1
    <3> QED
      BY <3>1, <3>2 DEF Login!Handler
  <2> QED
    BY <2>1
<1>9. \A i \in 1 .. n + 1 : chains'[calls'[i]].at \in {"signIn", "disconnect"}
  BY <1>2, <1>4, <1>5, <1>6, <1>7, <1>8 DEF CallsTyped
<1>10. \A i, j \in 1 .. n + 1 : calls'[i] = calls'[j] => i = j
  BY <1>2, <1>4, <1>5, <1>6 DEF CallsTyped
<1> QED
  BY <1>4, <1>5, <1>9, <1>10 DEF CallsTyped

\* Nobody waits at the start.
LEMMA LoginTypesInit == ASSUME Init PROVE LoginTypes
<1>1. calls = <<>> /\ imageUrl = None /\ mixed = FALSE
  BY DEF Init, Login!Init
<1>2. calls \in Seq(Chain) /\ DOMAIN calls = {}
  BY <1>1, EmptySeq
<1> QED
  BY <1>1, <1>2 DEF LoginTypes, CallsTyped

\* Each step of the screen keeps its types.
LEMMA LoginTypesStep == ASSUME LoginInv, LoginTypes, [Next]_vars PROVE LoginTypes'
<1>1. chains \in [Chain -> Login!Handler]
  BY DEF LoginInv
<1>2. imageUrl \in Account \cup {None, ""} /\ mixed \in BOOLEAN /\ CallsTyped
  BY DEF LoginTypes
<1>3. CASE UNCHANGED login_
  BY <1>3 DEF login_, LoginTypes, CallsTyped
<1>4. ASSUME NEW c \in Chain, Login!Tap(c) PROVE LoginTypes'
  <2>1. /\ chains[c].at = "idle"
        /\ Login!Begin(c, "signIn") \/ Login!Begin(c, "disconnect")
    BY <1>4 DEF Login!Tap, Login!handleLoginGoogle, Login!handleSignOut, Login!At
  <2>2. CallsTyped'
    BY <1>2, <2>1, CallJoins
  <2>3. UNCHANGED <<imageUrl, mixed>>
    BY <2>1 DEF Login!Begin
  <2> QED
    BY <1>2, <2>2, <2>3 DEF LoginTypes
<1>5. ASSUME NEW c \in Chain, Login!Step(c) PROVE LoginTypes'
  <2>1. chains[c].account \in Account \cup {None} /\ chains[c].overtaken \in BOOLEAN
    <3>1. chains[c] \in Login!Handler
      BY <1>1
    <3> QED
      BY <3>1 DEF Login!Handler
  <2>2. \A stage, account :
          Login!GoesTo(c, stage, account) => \A d \in Chain : d # c => chains'[d] = chains[d]
    BY <1>1 DEF Login!GoesTo
  <2>3. Login!Ends(c) => \A d \in Chain : d # c => chains'[d] = chains[d]
    BY <1>1 DEF Login!Ends
  <2>4. \A d \in Chain : d # c => chains'[d] = chains[d]
    <3>1. CASE Login!SignedIn(c)
      BY <2>2, <2>3, <3>1, Zenon DEF Login!SignedIn
    <3>2. CASE Login!Authenticated(c)
      BY <2>2, <2>3, <3>2, Zenon DEF Login!Authenticated
    <3>3. CASE Login!FirebaseSignsIn(c)
      BY <2>3, <3>3 DEF Login!FirebaseSignsIn
    <3>4. CASE Login!SignInCompletes(c)
      BY <2>2, <2>3, <3>4, Zenon DEF Login!SignInCompletes
    <3>5. CASE Login!HasIdToken(c)
      BY <2>2, <2>3, <3>5, Zenon DEF Login!HasIdToken
    <3>6. CASE Login!FirebaseTells(c)
      BY <1>1, <3>6 DEF Login!FirebaseTells
    <3>7. CASE Login!LoggedIn(c)
      BY <2>3, <3>7 DEF Login!LoggedIn
    <3>8. CASE Login!Disconnected(c)
      BY <2>3, <3>8 DEF Login!Disconnected
    <3> QED
      BY <1>5, <3>1, <3>2, <3>3, <3>4, <3>5, <3>6, <3>7, <3>8 DEF Login!Step
  <2>5. \/ calls # <<>> /\ c = Head(calls) /\ calls' = Tail(calls)
        \/ UNCHANGED calls /\ chains[c].at \notin {"signIn", "disconnect"}
    BY <1>5 DEF Login!Step, Login!At, Login!Reply, Login!SignedIn, Login!Authenticated,
                Login!FirebaseSignsIn, Login!SignInCompletes, Login!HasIdToken,
                Login!FirebaseTells, Login!LoggedIn, Login!Disconnected
  <2>6. CallsTyped'
    BY <1>2, <2>4, <2>5, CallsStay, CallLeaves
  <2>7. \/ UNCHANGED <<imageUrl, mixed>>
        \/ imageUrl' = "" /\ mixed' = FALSE
        \/ imageUrl' = chains[c].account /\ mixed' = chains[c].overtaken
    BY <1>5 DEF Login!Step, Login!SignedIn, Login!Authenticated, Login!ClearImage,
                Login!FirebaseSignsIn, Login!SignInCompletes, Login!HasIdToken,
                Login!FirebaseTells, Login!LoggedIn, Login!Disconnected
  <2>8. imageUrl' \in Account \cup {None, ""} /\ mixed' \in BOOLEAN
    BY <1>2, <2>1, <2>7
  <2> QED
    BY <2>6, <2>8 DEF LoginTypes
<1> QED
  BY <1>3, <1>4, <1>5, LoginOrOther DEF Login!Next

\* Who waits in a queue is at an await that uses it.
LEMMA LoginTyped == ASSUME LoginInv, LoginTypes PROVE Login!TypeOK
<1>1. \A c \in Login!Range(calls) : chains[c].at \in {"signIn", "disconnect"}
  BY DEF LoginTypes, CallsTyped, Login!Range
<1>2. \A c \in Login!Range(replies) : chains[c].at \in {"signInWithCredential", "currentUser"}
  BY LenProperties DEF LoginInv, RepliesTyped, Login!Range
<1> QED
  BY <1>1, <1>2 DEF LoginInv, PhotoPassed, LoginTypes, Login!TypeOK

-----------------------------------------------------------------------------
(***************************************************************************)
(* The animation screen, for any room on the call stack.                   *)
(*                                                                         *)
(* Above the first call there is always the rest of a reverse(), which     *)
(* leaves status, ticker and listeners in agreement.                       *)
(***************************************************************************)

Agrees == reported = status /\ (animating <=> status \in {"forward", "reverse"})

AnimationInv ==
  /\ status \in Animation!Status /\ reported \in Animation!Status /\ animating \in BOOLEAN
  /\ animationCalls \in Seq(Nat) /\ Len(animationCalls) <= MaxDepth
  /\ Len(animationCalls) >= 2 => animationCalls[2] = Animation!Rest
  /\ Len(animationCalls) <= 1 => Agrees

\* The animation runs from the start.
LEMMA AnimationInit == ASSUME Init PROVE AnimationInv
<1>1. /\ status = "forward" /\ animating = TRUE /\ reported = "forward"
      /\ animationCalls = <<>>
  BY DEF Init, Animation!Init
<1>2. animationCalls \in Seq(Nat) /\ Len(animationCalls) = 0
  BY <1>1, EmptySeq
<1>3. 0 <= MaxDepth /\ ~(0 >= 2)
  <2>1. MaxDepth \in Nat
    BY HomeAssumption
  <2> QED
    BY <2>1
<1>4. Len(animationCalls) <= MaxDepth /\ ~(Len(animationCalls) >= 2)
  BY <1>2, <1>3
<1>5. status \in Animation!Status /\ reported \in Animation!Status /\ animating \in BOOLEAN
  BY <1>1 DEF Animation!Status
<1>6. Agrees
  <2>1. status \in {"forward", "reverse"}
    BY <1>1
  <2> QED
    BY <1>1, <2>1, Zenon DEF Agrees
<1> QED
  BY <1>2, <1>4, <1>5, <1>6 DEF AnimationInv

\* A listener is called next, with new calls above it or none.
LEMMA CallsAbove ==
  ASSUME NEW q \in Seq(Nat), NEW n \in Nat, n = Len(q), q # <<>>, q[n] # 0,
         n >= 2 => q[2] = 0, NEW above \in {<<>>, << 0 >>, <<0, 1>>},
         NEW r, r = [q EXCEPT ![Len(q)] = @ + 1] \o above
  PROVE  /\ r \in Seq(Nat) /\ Len(r) = n + Len(above)
         /\ Len(r) >= 2 => r[2] = 0
<1> DEFINE p == [q EXCEPT ![n] = q[n] + 1]
<1>1. n \in 1 .. n /\ q[n] \in Nat
  <2>1. n # 0
    BY EmptySeq
  <2>2. n \in 1 .. n
    BY <2>1
  <2> QED
    BY <2>2, ElementOfSeq
<1>2. p \in Seq(Nat) /\ Len(p) = n /\ \A i \in 1 .. n : i # n => p[i] = q[i]
  BY <1>1, ExceptSeq
<1>3. r = p \o above
  BY <1>1
<1> HIDE DEF p
<1>4. above \in Seq(Nat) /\ Len(above) \in 0 .. 2 /\ (Len(above) >= 1 => above[1] = 0)
  <2>1. <<>> \in Seq(Nat) /\ Len(<<>>) = 0
    BY EmptySeq
  <2>2. <<0>> \in Seq(Nat) /\ Len(<<0>>) = 1 /\ <<0>>[1] = 0
    OBVIOUS
  <2>3. <<0, 1>> \in Seq(Nat) /\ Len(<<0, 1>>) = 2 /\ <<0, 1>>[1] = 0
    OBVIOUS
  <2>4. 0 \in 0 .. 2 /\ 1 \in 0 .. 2 /\ 2 \in 0 .. 2 /\ ~(0 >= 1)
    OBVIOUS
  <2>5. CASE above = <<>>
    BY <2>1, <2>4, <2>5
  <2>6. CASE above = <<0>>
    BY <2>2, <2>4, <2>6
  <2>7. CASE above = <<0, 1>>
    BY <2>3, <2>4, <2>7
  <2> QED
    BY <2>5, <2>6, <2>7
<1>5. /\ r \in Seq(Nat) /\ Len(r) = n + Len(above)
      /\ \A i \in 1 .. n + Len(above) : r[i] = IF i <= n THEN p[i] ELSE above[i - n]
  <2>1. /\ p \o above \in Seq(Nat) /\ Len(p \o above) = Len(p) + Len(above)
        /\ \A i \in 1 .. Len(p) + Len(above) :
             (p \o above)[i] = IF i <= Len(p) THEN p[i] ELSE above[i - Len(p)]
    BY <1>2, <1>4, ConcatProperties, Zenon
  <2> QED
    BY <1>2, <1>3, <2>1, Zenon
<1>6. PICK k \in 0 .. 2 : k = Len(above)
  BY <1>4
<1>7. ASSUME n + k >= 2 PROVE r[2] = 0
  <2>1. 2 \in 1 .. n + k
    BY <1>7
  <2>2. CASE n = 1
    <3>1. 2 - n = 1 /\ ~(2 <= n) /\ k >= 1
      BY <1>7, <2>2
    <3> QED
      BY <1>4, <1>5, <1>6, <2>1, <3>1
  <2>3. CASE n # 1
    <3>1. n >= 2 /\ 2 \in 1 .. n
      BY <1>1, <2>3
    <3>2. n # 2
      BY <3>1
    <3>3. r[2] = p[2]
      BY <1>5, <1>6, <2>1, <3>1
    <3> QED
      BY <1>2, <3>1, <3>2, <3>3
  <2> QED
    BY <2>2, <2>3
<1> QED
  BY <1>5, <1>6, <1>7

\* The home screen is the only one that takes steps.
LEMMA AnimationOrOther == ASSUME [Next]_vars PROVE Animation!Next \/ UNCHANGED animation_
BY DEF Next, Step, OthersKept, vars

\* Each of its steps keeps the invariant.
LEMMA AnimationStep == ASSUME AnimationInv, [Next]_vars PROVE AnimationInv'
<1> DEFINE q == animationCalls
<1>1. /\ status \in Animation!Status /\ reported \in Animation!Status /\ animating \in BOOLEAN
      /\ q \in Seq(Nat) /\ Len(q) <= MaxDepth
      /\ Len(q) >= 2 => q[2] = 0
      /\ Len(q) <= 1 => Agrees
  BY DEF AnimationInv, Animation!Rest
<1>2. PICK n \in Nat : n = Len(q)
  BY <1>1, LenProperties
<1>3. MaxDepth \in Nat /\ MaxDepth >= 3
  <2>1. MaxDepth \in Nat /\ MaxDepth # 0 /\ MaxDepth # 1 /\ MaxDepth # 2
    BY HomeAssumption
  <2> QED
    BY <2>1
<1>4. ASSUME Animation!Notifying, Animation!Top <= Animation!Listeners
      PROVE  q # <<>> /\ q[n] # 0 /\ n # 2
  BY <1>1, <1>2, <1>4 DEF Animation!Notifying, Animation!Top, Animation!Last, Animation!Rest
<1>5. CASE Animation!AnimateAgain
  <2>1. /\ q = <<>> /\ q' = q /\ status' = "forward" /\ animating' = TRUE
        /\ reported' = "forward"
    BY <1>5 DEF Animation!AnimateAgain
  <2> QED
    BY <1>1, <1>2, <2>1 DEF AnimationInv, Agrees, Animation!Status, Animation!Rest
<1>6. CASE Animation!TickToEnd
  <2>1. /\ animating' = FALSE /\ reported' = status' /\ status' \in {"completed", "dismissed"}
        /\ q' \in {<<1>>, <<>>}
    BY <1>6 DEF Animation!TickToEnd
  <2>2. q' \in Seq(Nat) /\ Len(q') \in 0 .. 1
    <3>1. <<>> \in Seq(Nat) /\ Len(<<>>) = 0
      BY EmptySeq
    <3>2. <<1>> \in Seq(Nat) /\ Len(<<1>>) = 1
      OBVIOUS
    <3>3. 0 \in 0 .. 1 /\ 1 \in 0 .. 1
      OBVIOUS
    <3> QED
      BY <2>1, <3>1, <3>2, <3>3, Zenon
  <2>3. \A k \in 0 .. 1 : k <= MaxDepth /\ ~(k >= 2)
    BY <1>3
  <2>4. Len(q') <= MaxDepth /\ ~(Len(q') >= 2)
    BY <2>2, <2>3, Zenon
  <2>5. /\ status' \in Animation!Status /\ reported' \in Animation!Status
        /\ animating' \in BOOLEAN
    BY <2>1 DEF Animation!Status
  <2>6. Agrees'
    <3>1. ~(status' \in {"forward", "reverse"})
      BY <2>1
    <3> QED
      BY <2>1, <3>1, Zenon DEF Agrees
  <2> QED
    BY <2>2, <2>4, <2>5, <2>6 DEF AnimationInv
<1>7. CASE Animation!Listen
  <2>1. /\ q # <<>> /\ q[n] # 0 /\ n + 2 <= MaxDepth /\ n # 0
        /\ status' = "completed" /\ animating' = FALSE /\ reported' = "completed"
    BY <1>1, <1>2, <1>4, <1>7, EmptySeq DEF Animation!Listen, Animation!reverse
  <2>2. PICK above \in {<<0>>, <<0, 1>>} : q' = [q EXCEPT ![Len(q)] = @ + 1] \o above
    BY <1>7 DEF Animation!Listen, Animation!reverse, Animation!Rest
  <2>3. q' \in Seq(Nat) /\ Len(q') = n + Len(above) /\ (Len(q') >= 2 => q'[2] = 0)
    BY <1>1, <1>2, <2>1, <2>2, CallsAbove
  <2>4. PICK k \in 1 .. 2 : k = Len(above)
    OBVIOUS
  <2>5. n + k <= MaxDepth /\ ~(n + k <= 1)
    BY <1>3, <2>1
  <2>6. Len(q') <= MaxDepth /\ ~(Len(q') <= 1)
    BY <2>3, <2>4, <2>5
  <2> QED
    BY <2>1, <2>3, <2>6 DEF AnimationInv, Animation!Status, Animation!Rest
<1>8. CASE Animation!Overflow
  <2>1. /\ q # <<>> /\ q[n] # 0 /\ n + 2 > MaxDepth /\ n # 0 /\ UNCHANGED reported
        /\ \/ status' = "completed" /\ animating' = FALSE
           \/ UNCHANGED <<status, animating>>
    BY <1>1, <1>2, <1>4, <1>8, EmptySeq DEF Animation!Overflow
  <2>2. q' = [q EXCEPT ![Len(q)] = @ + 1]
    BY <1>8 DEF Animation!Overflow
  <2>3. q' = [q EXCEPT ![Len(q)] = @ + 1] \o <<>>
    <3>1. n \in 1 .. n /\ q[n] \in Nat
      <4>1. n \in 1 .. n
        BY <2>1
      <4> QED
        BY <1>1, <1>2, <4>1, ElementOfSeq
    <3>2. [q EXCEPT ![Len(q)] = @ + 1] \in Seq(Nat)
      BY <1>1, <1>2, <3>1, ExceptSeq
    <3> QED
      BY <2>2, <3>2, ConcatEmptySeq
  <2>4. q' \in Seq(Nat) /\ Len(q') = n + Len(<<>>) /\ (Len(q') >= 2 => q'[2] = 0)
    BY <1>1, <1>2, <2>1, <2>3, CallsAbove
  <2>5. n + 0 = n /\ ~(n <= 1)
    BY <1>3, <2>1
  <2>6. Len(q') <= MaxDepth /\ ~(Len(q') <= 1)
    BY <1>1, <1>2, <2>4, <2>5
  <2> QED
    BY <1>1, <2>1, <2>4, <2>6 DEF AnimationInv, Animation!Status, Animation!Rest
<1>9. CASE Animation!Notified
  <2>1. /\ q # <<>> /\ q[n] # 0 /\ q' = SubSeq(q, 1, Len(q) - 1)
        /\ UNCHANGED <<status, animating, reported>>
    BY <1>2, <1>9 DEF Animation!Notified, Animation!Notifying, Animation!Top, Animation!Last,
                      Animation!Rest, Animation!Front
  <2>2. /\ q' \in Seq(Nat) /\ Len(q') = n - 1 /\ n - 1 \in Nat
        /\ \A i \in 1 .. n - 1 : q'[i] = q[i]
    BY <1>1, <1>2, <2>1, FrontProperties
  <2>3. n # 2
    BY <1>1, <1>2, <2>1
  <2>4. n - 1 <= MaxDepth /\ (n - 1 <= 1 => n <= 1) /\ (n - 1 >= 2 => n >= 2 /\ 2 \in 1 .. n - 1)
    <3>1. n <= MaxDepth
      BY <1>1, <1>2
    <3> QED
      BY <1>3, <2>2, <2>3, <3>1
  <2> QED
    BY <1>1, <1>2, <2>1, <2>2, <2>4 DEF AnimationInv, Agrees, Animation!Rest
<1>10. CASE Animation!StartReverse
  <2>1. /\ q # <<>> /\ q' = SubSeq(q, 1, Len(q) - 1)
        /\ status' = "reverse" /\ animating' = TRUE /\ reported' = "reverse"
    BY <1>10 DEF Animation!StartReverse, Animation!Front
  <2>2. /\ q' \in Seq(Nat) /\ Len(q') = n - 1 /\ n - 1 \in Nat
        /\ \A i \in 1 .. n - 1 : q'[i] = q[i]
    BY <1>1, <1>2, <2>1, FrontProperties
  <2>3. n - 1 <= MaxDepth /\ (n - 1 >= 2 => n >= 2 /\ 2 \in 1 .. n - 1)
    <3>1. n <= MaxDepth
      BY <1>1, <1>2
    <3> QED
      BY <1>3, <2>2, <3>1
  <2> QED
    BY <1>1, <1>2, <2>1, <2>2, <2>3 DEF AnimationInv, Agrees, Animation!Status, Animation!Rest
<1>11. CASE UNCHANGED animation_
  BY <1>11 DEF animation_, AnimationInv, Agrees
<1> QED
  BY <1>5, <1>6, <1>7, <1>8, <1>9, <1>10, <1>11, AnimationOrOther DEF Animation!Next, Animation!Run

\* Outside of a call, listeners have been told the status there is.
LEMMA AnimationTypes == ASSUME AnimationInv PROVE Animation!TypeOK
<1>1. Len(<<>>) <= 1
  OBVIOUS
<1> QED
  BY <1>1 DEF AnimationInv, Agrees, Animation!TypeOK
=============================================================================
