------------------------------ MODULE TodoApp -------------------------------
(***************************************************************************)
(* The two Todo screens, Todo/todo.dart (a list of users, each with a      *)
(* delete icon) and Todo/addNewUsers.dart (a form), over DatabaseHelper.   *)
(*                                                                         *)
(* Each screen pushes the other, so the navigator's stack holds several    *)
(* list pages, each with the list it fetched itself.  Taps, frames and the *)
(* helper's replies are events; the continuation of a call is a microtask. *)
(* A pushed page is mounted (initState) by the next frame, and until then  *)
(* taps still reach the page below it.                                     *)
(***************************************************************************)
EXTENDS DatabaseHelper, SequencesExt

CONSTANTS
  Page,    \* identities for pages: a bound on those alive at one time
  Blank    \* the empty text

ASSUME BlankAssumption == Blank \in Name
ASSUME IdentitiesAssumption ==
  /\ IsFiniteSet(Call) /\ IsFiniteSet(Page) /\ Page # {}
  /\ None \notin Call \cup Page
  /\ \A rows \in SUBSET Row : rows # None

VARIABLES
  stack,   \* the navigator's pages, the last one on top
  page,    \* the pages
  client,  \* what each call in flight was made for
  leaked   \* a list arrived at a disposed page, whose close() then never ran

uiVars == <<stack, page, client, leaked>>
vars   == <<dbVars, uiVars>>

\* items is databaseItems (None: null); built is the list the tiles on the
\* screen were built from; covered: a page has been pushed on this one;
\* failed: the last list this page asked for was refused.
NewPage(kind) == [kind |-> kind, phase |-> "pushed", items |-> None, built |-> {},
                  text |-> Blank, covered |-> FALSE, failed |-> FALSE]
Gone          == [NewPage("add") EXCEPT !.phase = "gone"]

\* For a delete: the row databaseItems[index].
For(p)        == [page |-> p, row |-> None, covered |-> FALSE]
NoOne         == For(None)

Alive(p)   == page[p].phase \in {"mounted", "leaving"}
IdleCalls  == {c \in Call : call[c].pc = "idle"}

\* The page that taps reach: the topmost one that has been built.
TopBuilt(p) == \E i \in 1 .. Len(stack) :
  /\ stack[i] = p /\ page[p].phase = "mounted"
  /\ \A j \in i + 1 .. Len(stack) : page[stack[j]].phase = "pushed"

\* The index-th row of a list: `select *` returns rows by their key.
Nth(rows, i) == {r \in rows : Cardinality({q \in rows : q._id <= r._id}) = i}

Listing(p) == IF page[p].items = None THEN {} ELSE page[p].items

-----------------------------------------------------------------------------
(* Making calls.  slots: idle calls, or the settled one a continuation ends. *)

\* Bound: every delete in flight finds a second slot for its continuation.
Spare(n) == Cardinality(IdleCalls)
              >= n + Cardinality({c \in Call : call[c].op = "deleteUser" /\ call[c].pc # "idle"})

FreeCall   == CHOOSE c \in Call : call[c].pc = "idle"
FreePages  == {p \in Page : page[p].phase = "gone" /\ \A c \in Call : client[c].page # p}

\* The settled call c is over; the calls of slots are made, in order, for ops.
Continue(c, slots, ops) ==
  /\ call'  = [d \in Call |->
                 IF \E i \in 1 .. Len(slots) : slots[i] = d
                 THEN NewCall(ops[CHOOSE i \in 1 .. Len(slots) : slots[i] = d], Nothing)
                 ELSE IF d = c THEN Idle ELSE call[d]]
  /\ pathQ' = pathQ \o slots
  /\ UNCHANGED <<version, table, conn, waiters, cmdQ, replyQ>>

-----------------------------------------------------------------------------
(* Events. *)

\* Mutant: the tile's index, which Dart counts from 0, is sent instead.
KeyOf_Index(row, index) == index - 1

\* databaseItems[index]["_id"]
KeyOf(row, index) == row._id

\* onPointerDown of the index-th tile: databaseItems[index] is read at the tap.
TapDelete(p, index) ==
  /\ NoMicrotask /\ Spare(2)
  /\ TopBuilt(p) /\ page[p].kind = "todo"
  /\ index \in 1 .. Cardinality(page[p].built)
  /\ index <= Cardinality(Listing(p))              \* or else a RangeError
  /\ \E row \in Nth(Listing(p), index) :
       /\ deleteUser(FreeCall, KeyOf(row, index))
       /\ client' = [client EXCEPT ![FreeCall] =
            [page |-> p, row |-> row, covered |-> page[p].covered]]
  /\ UNCHANGED <<stack, page, leaked>>

\* Navigator.push: a page on top of all others.
Push(pages, kind) ==
  /\ FreePages # {}
  /\ LET q == CHOOSE q \in FreePages : TRUE IN
       /\ stack' = Append(stack, q)
       /\ page'  = [p \in Page |->
            IF p = q THEN NewPage(kind)
            ELSE IF p \in Range(stack) THEN [pages[p] EXCEPT !.covered = TRUE]
            ELSE pages[p]]

TapFab(p) ==
  /\ NoMicrotask
  /\ TopBuilt(p) /\ page[p].kind = "todo"
  /\ Push(page, "add")
  /\ UNCHANGED <<dbVars, client, leaked>>

\* The user types a name (the form is otherwise inert).
Type(p, name) ==
  /\ NoMicrotask
  /\ TopBuilt(p) /\ page[p].kind = "add"
  /\ page' = [page EXCEPT ![p].text = name]
  /\ UNCHANGED <<dbVars, stack, client, leaked>>

\* _insertUser(); _moveToNextScreen(); _clearFields();  The insert is not awaited.
TapInsert(p) ==
  /\ NoMicrotask /\ Spare(1)
  /\ TopBuilt(p) /\ page[p].kind = "add"
  /\ insertUser(FreeCall, [username |-> page[p].text, id |-> None])
  /\ Push([page EXCEPT ![p].text = Blank], "todo")
  /\ UNCHANGED <<client, leaked>>

\* Mutant: the home page can be popped.
Back_Home ==
  /\ NoMicrotask
  /\ stack # <<>> /\ page[Last(stack)].phase = "mounted"
  /\ stack' = Front(stack)
  /\ page'  = [page EXCEPT ![Last(stack)].phase = "leaving"]
  /\ UNCHANGED <<dbVars, client, leaked>>

\* The back button pops the top page; it is disposed when its animation ends.
Back ==
  /\ NoMicrotask
  /\ Len(stack) > 1 /\ page[Last(stack)].phase = "mounted"
  /\ stack' = Front(stack)
  /\ page'  = [page EXCEPT ![Last(stack)].phase = "leaving"]
  /\ UNCHANGED <<dbVars, client, leaked>>

Dispose(p) ==
  /\ NoMicrotask
  /\ page[p].phase = "leaving"
  /\ page' = [page EXCEPT ![p] = Gone]
  /\ UNCHANGED <<dbVars, stack, client, leaked>>

\* Some pages of the stack, from the lowest up.
InStackOrder(pages) ==
  {f \in [1 .. Cardinality(pages) -> pages] :
     /\ Range(f) = pages
     /\ \A i, j \in DOMAIN f : i < j =>
          \E k, l \in 1 .. Len(stack) : k < l /\ stack[k] = f[i] /\ stack[l] = f[j]}

\* Different idle calls.
Slots(n) == CHOOSE f \in [1 .. n -> IdleCalls] : IsInjective(f)

\* A frame mounts the pages that were pushed, from the lowest up, and rebuilds
\* the tiles.  A list page's initState calls _fetchValue.
Frame ==
  LET Pushed(p) == page[p].phase = "pushed"
      Lists     == {p \in Page : Pushed(p) /\ page[p].kind = "todo"}
      slots     == Slots(Cardinality(Lists))
  IN
  /\ NoMicrotask /\ Spare(Cardinality(Lists))
  /\ \E p \in Page : Pushed(p) \/ (Alive(p) /\ page[p].built # Listing(p))
  /\ page' = [p \in Page |->
       IF Pushed(p) THEN [page[p] EXCEPT !.phase = "mounted"]
       ELSE IF Alive(p) THEN [page[p] EXCEPT !.built = Listing(p)]
       ELSE page[p]]
  /\ Continue(None, slots, [i \in DOMAIN slots |-> "getAllUsers"])
  /\ \E lists \in InStackOrder(Lists) :
       client' = [c \in Call |->
         IF \E i \in DOMAIN slots : slots[i] = c
         THEN For(lists[CHOOSE i \in DOMAIN slots : slots[i] = c])
         ELSE client[c]]
  /\ UNCHANGED <<stack, leaked>>

-----------------------------------------------------------------------------
(* Continuations. *)

Settled(c, op) == call[c].pc = "done" /\ call[c].op = op

\* Mutants: the list is not stored; nothing is closed; nothing is fetched.
SetState_Empty(p, rows)   == page
CloseAfterList_No(c)      == Continue(c, <<>>, <<>>)
RefreshAfterDelete_No(c)  == Continue(c, <<c>>, <<"close">>)

SetState(p, rows)     == [page EXCEPT ![p].items = rows, ![p].failed = FALSE]
CloseAfterList(c)     == Continue(c, <<c>>, <<"close">>)
RefreshAfterDelete(c) == Continue(c, <<c, FreeCall>>, <<"getAllUsers", "close">>)

\* getAllUsers().then((result) { setState(..) }), then close(): on the same slot.
\* setState on a disposed page throws, and nothing after it is run.
ListArrived(c) ==
  LET p == client[c].page IN
  /\ Settled(c, "getAllUsers")
  /\ \/ /\ call[c].res.ok /\ Alive(p)
        /\ page' = SetState(p, call[c].res.rows)
        /\ CloseAfterList(c)
        /\ UNCHANGED leaked
     \/ /\ call[c].res.ok /\ ~ Alive(p)
        /\ leaked' = (conn = "open")
        /\ Continue(c, <<>>, <<>>)
        /\ UNCHANGED page
     \/ /\ ~ call[c].res.ok
        /\ page' = [page EXCEPT ![p].failed = Alive(p)]
        /\ Continue(c, <<>>, <<>>)
        /\ UNCHANGED leaked
  /\ client' = [client EXCEPT ![c] = NoOne]
  /\ UNCHANGED stack

\* deleteUser(id).then((result) { _fetchValue(); }), then close().
DeleteSettled(c) ==
  /\ Settled(c, "deleteUser")
  /\ \/ /\ call[c].res.ok
        /\ RefreshAfterDelete(c)
        /\ client' = [client EXCEPT ![c] = For(client[c].page)]
     \/ /\ ~ call[c].res.ok
        /\ Continue(c, <<>>, <<>>)
        /\ client' = [client EXCEPT ![c] = NoOne]
  /\ UNCHANGED <<stack, page, leaked>>

\* Nobody awaits an insert or a close.
Unawaited(c) ==
  /\ Settled(c, "insertUser") \/ Settled(c, "close")
  /\ Return(c)
  /\ UNCHANGED uiVars

-----------------------------------------------------------------------------

\* The home page; the app may be started on either screen.
Home(kind) == LET p == CHOOSE p \in Page : TRUE IN
  [on |-> <<p>>, pages |-> [q \in Page |-> IF q = p THEN NewPage(kind) ELSE Gone]]

TodoInit ==
  /\ Init
  /\ \E kind \in {"todo", "add"} : stack = Home(kind).on /\ page = Home(kind).pages
  /\ client = [c \in Call |-> NoOne]
  /\ leaked = FALSE

Relaunch ==
  /\ Restart
  /\ \E kind \in {"todo", "add"} : stack' = Home(kind).on /\ page' = Home(kind).pages
  /\ client' = [c \in Call |-> NoOne]
  /\ leaked' = FALSE

\* The connection is gone: nothing is leaked any more.
HelperStep ==
  /\ Plugin
  /\ leaked' = (leaked /\ conn' # "none")
  /\ UNCHANGED <<stack, page, client>>

Tap == \E p \in Page :
  \/ \E index \in 1 .. Cardinality(page[p].built) : TapDelete(p, index)
  \/ TapFab(p)
  \/ \E name \in Name : Type(p, name)
  \/ TapInsert(p)

Microtask == \E c \in Call : ListArrived(c) \/ DeleteSettled(c) \/ Unawaited(c)

TodoNext == Tap \/ Back \/ Frame \/ (\E p \in Page : Dispose(p)) \/ Microtask \/ HelperStep \/ Relaunch

\* The framework draws frames and finishes animations; the plugin answers.
\* The user need not do anything.
TodoFairness ==
  /\ SF_vars(HelperStep /\ PathReply) /\ SF_vars(HelperStep /\ Deliver)
  /\ WF_vars(HelperStep /\ Grant) /\ WF_vars(HelperStep /\ Native)
  /\ WF_vars(Microtask) /\ SF_vars(Frame)
  /\ \A p \in Page : SF_vars(Dispose(p))

TodoSpec == TodoInit /\ [][TodoNext]_vars /\ TodoFairness

-----------------------------------------------------------------------------
(* Properties. *)

\* Types of the screens' state, and that bookkeeping fits the calls.
TodoTypeOK ==
  /\ stack \in Seq(Page) /\ stack # <<>> /\ IsInjective(stack)
  /\ \A p \in Page :
       /\ page[p].kind \in {"todo", "add"}
       /\ page[p].phase \in {"gone", "pushed", "mounted", "leaving"}
       /\ page[p].items \in (SUBSET Row) \cup {None}
       /\ page[p].built \in SUBSET Row
       /\ page[p].text \in Name
       /\ page[p].phase \in {"pushed", "mounted"} <=> p \in Range(stack)
  /\ \A c \in Call :
       call[c].pc # "idle" /\ call[c].op \in {"deleteUser", "getAllUsers"} => client[c].page \in Page
  /\ leaked \in BOOLEAN

Quiet == /\ \A c \in Call : call[c].pc = "idle"
         /\ \A p \in Page : page[p].phase # "pushed"

OnTopSinceBuilt(p) == page[p].kind = "todo" /\ page[p].phase = "mounted" /\ ~ page[p].covered

\* When nothing is in flight, the page on top lists exactly the table, unless
\* another page came and went above it or its last list was refused: although
\* the insert that opened it is not awaited (addNewUsers.dart:42) and deletes
\* tapped while others are under way fetch and close on their own.
SettledListIsTable ==
  Quiet => \A p \in Page : OnTopSinceBuilt(p) /\ ~ page[p].failed => page[p].items = table

\* The list a page shows while nothing was pushed on it only ever loses rows:
\* no older list overtakes a newer one, and a user whose removal it has shown
\* does not come back (overlapping _fetchValue calls, todo.dart:40).
ListOnlyShrinks ==
  [][\A p \in Page :
       /\ OnTopSinceBuilt(p) /\ page[p].items # None
       /\ page'[p].phase = "mounted" /\ page'[p].kind = "todo"
       => page'[p].items \subseteq page[p].items]_vars

NotYetRun(c) == call[c].pc \in {"path", "lock", "open"} \/ (call[c].pc = "native" /\ \E i \in 1 .. Len(cmdQ) : cmdQ[i] = c)

\* A delete under way, tapped on a page nothing was pushed on, can only remove
\* the row that was tapped, even after sqlite has given its id out again.
DeletesTappedRow ==
  \A c \in Call :
    call[c].op = "deleteUser" /\ call[c].pc # "idle" /\ NotYetRun(c) /\ ~ client[c].covered
      => Rows(call[c].arg.id) \subseteq {client[c].row}

\* When nothing is in flight the connection is closed, although most close()
\* calls meet an operation of somebody else and the one after an insert is
\* commented out (addNewUsers.dart:43); only a list that arrives at a disposed
\* page leaves it open.
QuietIsClosed == Quiet => conn = "none" \/ leaked

\* Every list page that is mounted gets its list, unless it is disposed of
\* first or the helper refuses it.
EveryPageLoads ==
  \A p \in Page :
    page[p].phase = "mounted" /\ page[p].kind = "todo" /\ page[p].items = None
      ~> page[p].items # None \/ page[p].failed \/ page[p].phase # "mounted" \/ page[p].kind # "todo"

\* todo.dart:50, the item deleted is the item tapped: the user with the id that
\* is sent is the user of the row the page holds.
DeletesItemOfList ==
  \A c \in Call :
    call[c].op = "deleteUser" /\ call[c].pc # "idle" /\ NotYetRun(c)
      => Rows(call[c].arg.id) \subseteq {client[c].row}
=============================================================================
