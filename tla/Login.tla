-------------------------------- MODULE Login --------------------------------
(***************************************************************************)
(* The screen of login/login.dart: a Google sign-in that is passed on to   *)
(* Firebase, a sign-out that disconnects Google, and the user's photo.     *)
(*                                                                         *)
(* A login is a chain of five awaits with nothing to keep a second tap, or *)
(* a sign-out, from starting in between.  The Google plugin serves one     *)
(* call after the other; Firebase serves as many as there are at a time,   *)
(* and tells the app in the order in which it did.                         *)
(***************************************************************************)
EXTENDS Naturals, Sequences, SequencesExt

CONSTANTS
  Account,   \* Google accounts on the device
  Chain,     \* bound: handlers under way
  None       \* Dart's null

VARIABLES
  complete,  \* accounts Firebase has an address and a name for
  google,    \* the account the Google plugin is signed in with
  firebase,  \* the user Firebase is signed in with
  chains,    \* where each handler under way is
  calls,     \* handlers that wait for the Google plugin, in turn
  replies,   \* handlers Firebase has answered, in turn
  imageUrl,  \* whose photo is on the screen: None, "", or an account's
  mixed      \* history: the photo was set by a login that something overlapped

vars == <<complete, google, firebase, chains, calls, replies, imageUrl, mixed>>

\* at: the await; account: what the await before it returned; current: what
\* Firebase's currentUser() found; overtaken: another login, or a sign-out, was
\* under way at the same time.
Stage == {"idle", "signIn", "authentication", "signInWithCredential", "getIdToken",
          "currentUser", "disconnect"}
Handler == [at : Stage, account : Account \cup {None}, current : Account \cup {None},
            overtaken : BOOLEAN]
Idle == [at |-> "idle", account |-> None, current |-> None, overtaken |-> FALSE]

UnderWay == {c \in Chain : chains[c].at # "idle"}

At(c, stage)    == chains[c].at = stage
GoesTo(c, stage, account) ==
  chains' = [chains EXCEPT ![c].at = stage, ![c].account = account]
Ends(c)         == chains' = [chains EXCEPT ![c] = Idle]

-----------------------------------------------------------------------------
\* Which users are complete is up to Firebase, and the same at every sign-in.
Init ==
  /\ complete \in SUBSET Account
  /\ google = None /\ firebase = None
  /\ chains = [c \in Chain |-> Idle]
  /\ calls = <<>> /\ replies = <<>>
  /\ imageUrl = None
  /\ mixed = FALSE

\* The plugin's methods wait for the one called before.
Begin(c, method) ==
  /\ chains' = [d \in Chain |->
       IF d = c THEN [Idle EXCEPT !.at = method, !.overtaken = (UnderWay # {})]
       ELSE IF d \in UnderWay THEN [chains[d] EXCEPT !.overtaken = TRUE]
       ELSE Idle]
  /\ calls' = Append(calls, c)
  /\ UNCHANGED <<complete, google, firebase, replies, imageUrl, mixed>>

handleLoginGoogle(c) == At(c, "idle") /\ Begin(c, "signIn")
handleSignOut(c)     == At(c, "idle") /\ Begin(c, "disconnect")

\* _currentUser = await signIn(): the account there is, the one the user picks,
\* or null, whose `authentication` throws.
SignedIn(c) ==
  /\ calls # <<>> /\ c = Head(calls) /\ At(c, "signIn")
  /\ calls' = Tail(calls)
  /\ google' \in (IF google = None THEN Account \cup {None} ELSE {google})
  /\ IF google' = None THEN Ends(c) ELSE GoesTo(c, "authentication", google')
  /\ UNCHANGED <<complete, firebase, replies, imageUrl, mixed>>

\* Mutant: the photo of the Google account, before Firebase has the user.
Authenticated_Photo(c) ==
  /\ At(c, "authentication")
  /\ GoesTo(c, "signInWithCredential", chains[c].account)
  /\ imageUrl' = chains[c].account
  /\ UNCHANGED <<complete, google, firebase, calls, replies, mixed>>

\* The account's tokens, or the error that is printed.
Authenticated(c) ==
  /\ At(c, "authentication")
  /\ GoesTo(c, "signInWithCredential", chains[c].account) \/ Ends(c)
  /\ UNCHANGED <<complete, google, firebase, calls, replies, imageUrl, mixed>>

\* Mutant: a user who is signed in already is kept.
FirebaseSignsIn_Kept(c) ==
  /\ At(c, "signInWithCredential") /\ ~Contains(replies, c)
  /\ firebase' = IF firebase = None THEN chains[c].account ELSE firebase
  /\ replies' = Append(replies, c)
  /\ UNCHANGED <<complete, google, chains, calls, imageUrl, mixed>>

\* Firebase takes the credential, or refuses it.
FirebaseSignsIn(c) ==
  /\ At(c, "signInWithCredential") /\ ~Contains(replies, c)
  /\ \/ /\ firebase' = chains[c].account
        /\ replies' = Append(replies, c)
        /\ UNCHANGED chains
     \/ /\ Ends(c)
        /\ UNCHANGED <<firebase, replies>>
  /\ UNCHANGED <<complete, google, calls, imageUrl, mixed>>

Reply(c, stage) == replies # <<>> /\ c = Head(replies) /\ At(c, stage) /\ replies' = Tail(replies)

\* The three assertions on user, then setState(() { _imageUrl = user.photoUrl; });
\* one that fails ends the login in the catch, and Firebase keeps the user.
SignInCompletes(c) ==
  /\ Reply(c, "signInWithCredential")
  /\ \/ /\ chains[c].account \in complete
        /\ imageUrl' = chains[c].account
        /\ mixed' = chains[c].overtaken
        /\ GoesTo(c, "getIdToken", chains[c].account)
     \/ /\ chains[c].account \notin complete
        /\ Ends(c)
        /\ UNCHANGED <<imageUrl, mixed>>
  /\ UNCHANGED <<complete, google, firebase, calls>>

\* assert(await user_.getIdToken() != null), or the error that is printed.
HasIdToken(c) ==
  /\ At(c, "getIdToken")
  /\ GoesTo(c, "currentUser", chains[c].account) \/ Ends(c)
  /\ UNCHANGED <<complete, google, firebase, calls, replies, imageUrl, mixed>>

\* _auth.currentUser() is asked.
FirebaseTells(c) ==
  /\ At(c, "currentUser") /\ ~Contains(replies, c)
  /\ chains' = [chains EXCEPT ![c].current = firebase]
  /\ replies' = Append(replies, c)
  /\ UNCHANGED <<complete, google, firebase, calls, imageUrl, mixed>>

\* assert(user_.uid == currentUser.uid), the end of the login.
LoggedIn(c) ==
  /\ Reply(c, "currentUser")
  /\ Ends(c)
  /\ UNCHANGED <<complete, google, firebase, calls, imageUrl, mixed>>

\* Mutant: the photo is left.
ClearImage_No == UNCHANGED <<imageUrl, mixed>>

\* setState(() { _imageUrl = ""; })
ClearImage == imageUrl' = "" /\ mixed' = FALSE

\* Google has disconnected; Firebase is not told.  Or it could not.
Disconnected(c) ==
  /\ calls # <<>> /\ c = Head(calls) /\ At(c, "disconnect")
  /\ calls' = Tail(calls)
  /\ Ends(c)
  /\ \/ google' = None /\ ClearImage
     \/ UNCHANGED <<google, imageUrl, mixed>>
  /\ UNCHANGED <<complete, firebase, replies>>

Tap(c)  == handleLoginGoogle(c) \/ handleSignOut(c)
Step(c) == \/ SignedIn(c) \/ Authenticated(c) \/ FirebaseSignsIn(c) \/ SignInCompletes(c)
           \/ HasIdToken(c) \/ FirebaseTells(c) \/ LoggedIn(c) \/ Disconnected(c)

Next == \E c \in Chain : Tap(c) \/ Step(c)

Spec == Init /\ [][Next]_vars

-----------------------------------------------------------------------------
\* Types, and who waits in a queue is at an await that uses it.
TypeOK ==
  /\ complete \subseteq Account
  /\ google \in Account \cup {None} /\ firebase \in Account \cup {None}
  /\ chains \in [Chain -> Handler]
  /\ imageUrl \in Account \cup {None, ""} /\ mixed \in BOOLEAN
  /\ \A c \in Range(calls)   : chains[c].at \in {"signIn", "disconnect"}
  /\ \A c \in Range(replies) : chains[c].at \in {"signInWithCredential", "currentUser"}

\* The assertion at the end of _handleLoginGoogle, that the user who signed in
\* is Firebase's current user, fails only for a login another one overlapped.
AssertFailsOnlyOvertaken ==
  \A c \in Range(replies) :
    At(c, "currentUser") /\ chains[c].current # chains[c].account => chains[c].overtaken

\* However logins and sign-outs overlap: the photo on the screen, once Firebase
\* has told the app of every sign-in, is of the user Firebase has, or else Firebase
\* has one who failed the assertions before setState (login.dart:81-83); a photo of
\* such a user is never shown.
PhotoIsOfUser ==
  imageUrl \in Account =>
    /\ imageUrl \in complete
    /\ \/ firebase = imageUrl
       \/ firebase \in Account \ complete
       \/ \E c \in Range(replies) : At(c, "signInWithCredential")

\* A photo is shown only while Google is signed in, unless it is of a login that
\* a sign-out, or another login, overlapped.
PhotoIsSignedIn == imageUrl \in Account /\ google = None => mixed
=============================================================================
