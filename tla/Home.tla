-------------------------------- MODULE Home ---------------------------------
(***************************************************************************)
(* The app of main.dart: one of the example screens is its home.  Which    *)
(* one is chosen in the source, by leaving one line of main uncommented;   *)
(* the others then never run.  (The text file and the to-do screens have   *)
(* modules that are checked on their own.)                                 *)
(***************************************************************************)
EXTENDS Naturals, Sequences

CONSTANTS
  None, Error,                 \* Dart's null; a failed request
  Lists, MaxRequests, MaxRoutes,
  City, MaxPages,
  Text, MaxCalls,
  Account, Chain,
  MaxDepth,
  MaxDoc, MaxDeletes

ASSUME HomeAssumption ==
  /\ Lists \in Seq(Seq(STRING)) /\ Lists # <<>>
  /\ MaxRequests \in Nat /\ MaxRoutes \in Nat \ {0}
  /\ "" \notin City /\ MaxPages \in Nat \ {0}
  /\ None \notin Text /\ "absent" \notin Text \cup {None} /\ MaxCalls \in Nat
  /\ Account \cap {None, ""} = {}
  /\ MaxDepth \in Nat \ {0, 1, 2}
  /\ MaxDoc \in Nat /\ MaxDeletes \in Nat /\ None \notin Seq(1 .. MaxDoc) \cup (1 .. MaxDoc)

VARIABLES
  home,
  version, requests, data, routes, framed, busySince, floor,
  pages, pagesFramed,
  text, instance, file, textToNative, textToDart, written, raced,
  complete, google, firebase, chains, calls, replies, imageUrl, mixed,
  status, animating, reported, animationCalls,
  collection, used, listeners, writes, toNative, toDart, list, built, hidden

Requests  == INSTANCE Requests
Weather   == INSTANCE Weather WITH framed <- pagesFramed
Prefs     == INSTANCE SharedPreferences
               WITH data <- text, toNative <- textToNative, toDart <- textToDart
Login     == INSTANCE Login
Animation == INSTANCE Animation WITH calls <- animationCalls
Firestore == INSTANCE FirestoreDB

Screen == {"RequestsWidget", "WeatherSearch", "SharedPreferencesStorageWidget", "Login",
           "AnimationExample", "FireStoreDB"}

requests_  == <<version, requests, data, routes, framed, busySince, floor>>
weather_   == <<pages, pagesFramed>>
prefs_     == <<text, instance, file, textToNative, textToDart, written, raced>>
login_     == <<complete, google, firebase, chains, calls, replies, imageUrl, mixed>>
animation_ == <<status, animating, reported, animationCalls>>
firestore_ == <<collection, used, listeners, writes, toNative, toDart, list, built, hidden>>

vars == <<home, requests_, weather_, prefs_, login_, animation_, firestore_>>

-----------------------------------------------------------------------------
\* main: home: new <screen>.
Init ==
  /\ home \in Screen
  /\ Requests!Init /\ Weather!Init /\ Prefs!Init
  /\ Login!Init /\ Animation!Init
  /\ Firestore!Init
  /\ home # "FireStoreDB" => collection = {}
  /\ home # "Login" => complete = {}

\* The other screens are not built.
OthersKept ==
  /\ UNCHANGED home
  /\ IF home = "RequestsWidget" THEN TRUE ELSE UNCHANGED requests_
  /\ IF home = "WeatherSearch" THEN TRUE ELSE UNCHANGED weather_
  /\ IF home = "SharedPreferencesStorageWidget" THEN TRUE ELSE UNCHANGED prefs_
  /\ IF home = "Login" THEN TRUE ELSE UNCHANGED login_
  /\ IF home = "AnimationExample" THEN TRUE ELSE UNCHANGED animation_
  /\ IF home = "FireStoreDB" THEN TRUE ELSE UNCHANGED firestore_

Step(screen, A) == home = screen /\ A /\ OthersKept

Next ==
  \/ Step("RequestsWidget", Requests!Next)
  \/ Step("WeatherSearch", Weather!Next)
  \/ Step("SharedPreferencesStorageWidget", Prefs!Next)
  \/ Step("Login", Login!Next)
  \/ Step("AnimationExample", Animation!Next)
  \/ Step("FireStoreDB", Firestore!Next)

Fairness ==
  /\ WF_vars(Step("WeatherSearch", Weather!Frame))
  /\ WF_vars(Step("WeatherSearch", Weather!Answer))
  /\ WF_vars(Step("AnimationExample", Animation!Run))
  /\ SF_vars(Step("FireStoreDB", Firestore!Native))
  /\ SF_vars(Step("FireStoreDB", Firestore!Deliver))

Spec == Init /\ [][Next]_vars /\ Fairness

-----------------------------------------------------------------------------
\* Types of the screen that runs.
TypeOK ==
  /\ Requests!TypeOK /\ Weather!TypeOK /\ Prefs!TypeOK /\ Login!TypeOK /\ Animation!TypeOK
  /\ Firestore!FirestoreTypeOK

\* Requests: overlapping answers, in whatever order (requestsExample.dart:55),
\* leave a list no older than what the server had when they were first asked.
ListIsFresh == Requests!ListIsFresh

\* Shared preferences: all that was saved last is in the file and, unless it
\* was saved while the plugin was loading, what a read shows
\* (sharedPreferences.dart:56).
SettledIsWritten == Prefs!SettledIsWritten

\* Login: the assertion at login.dart:104 fails only for an overlapped login.
AssertFailsOnlyOvertaken == Login!AssertFailsOnlyOvertaken

\* Login: the photo (login.dart:90) is of the user Firebase has, however logins
\* and sign-outs overlap, unless that user failed the assertions before it.
PhotoIsOfUser == Login!PhotoIsOfUser

\* Login: after a sign-out (login.dart:134) no photo stays or comes back but of
\* a login it overlapped.
PhotoIsSignedIn == Login!PhotoIsSignedIn

\* Weather: pages stop asking when they are no longer built again
\* (the "infinite loop" of weatherHome.dart:58).
RequestsStop == home = "WeatherSearch" => Weather!RequestsStop

\* Animation: whatever the two listeners do to each other
\* (animationExample.dart:58), the controller comes to rest.
ComesToRest == home = "AnimationExample" => Animation!ComesToRest

\* Firestore: once nothing is under way the listeners, however many
\* (firestoreDB.dart:141), have brought the list to the collection, unless a
\* delete has edited it since.
SnapshotsSettle == home = "FireStoreDB" => Firestore!SnapshotsSettle

\* Firestore: every document is listed in the end.
EveryDocumentIsListed == home = "FireStoreDB" => Firestore!EveryDocumentIsListed
=============================================================================
