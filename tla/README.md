# A verification project for the Flutter examples app

The program is the Dart code of `src/lib` (20 files): one Flutter application
made of independent example screens, of which `main.dart` picks one as the home
page. There is no server and the Dart code has one thread. What is hard in it is
what its asynchronous handlers do to state outside them: a sqlite connection, a
Firestore collection, a text file, the answers of an HTTP server. The rest of
`src` (`ios/Pods`, `build`, `android`) is third-party or generated, and the
repository has no tests. Two parts of `ios/Pods` are modelled all the same,
because what the Firestore screen stores rests on them: the database leveldb, and
the transaction Firestore's client puts in front of it.

## 1. Inventory

| component | state | operations | shared with |
|---|---|---|---|
| `persistantStorage/sqFlite.dart` `DatabaseHelper` | the file main.db (`dbTable`), the plugin's one open connection; `_db` is declared and never assigned | `insertUser`, `updateUser`, `deleteUser`, `getAllUsers`, `getUser`, `close`, all through the getter `db` = `initDB` | every object of the class shares the connection |
| `models/user.dart` `User` | username, password, id | constructor, `User.map`, `toMap`, `fromMap` | rows of `dbTable` |
| `Todo/todo.dart` `TodoApp` | `databaseItems` | `_fetchValue` on `initState`, `_deleteItem` on a tap, push of the form | `DatabaseHelper`, the navigator |
| `Todo/addNewUsers.dart` `AddUsers` | two text controllers | `_insertUser` (not awaited), push of the list, `_clearFields` | `DatabaseHelper`, the navigator |
| `persistantStorage/firestoreDB.dart` | `databaseItems`, the listeners on the collection `books` | `_fetchValues`, `_deleteValue`, `_insertValue` | Firestore |
| `persistantStorage/asText.dart` | `data`, the file data.txt | `readData`, `writeData` | the file |
| `persistantStorage/sharedPreferences.dart` | `data`, the plugin's cache | load, save | the preferences file |
| `requests/requestsExample.dart` | `data` | `getData`, `handleListTap` | an HTTP server |
| `weather/weatherSearch.dart`, `weatherHome.dart` | the search text; a future per build | `moveToNextScreen`, `getWeather` | an HTTP server, the navigator |
| `login/login.dart` | `_currentUser`, `_imageUrl`, `radioGroupVal` | Google and e-mail sign-in, account creation, sign-out | the Firebase and Google sessions |
| `animationExamples/*` | an `AnimationController`, two listeners on it | start, status listeners, `dispose` | the ticker |
| `forms`, `scaffold`, `boilerplate`, `dartLanguage`, `utils` | a tap counter, a form key | none with asynchronous effects | none |
| `main.dart` | the screen that is the home | `main` | all screens |
| `ios/Pods/FirebaseFirestore` `LevelDbTransaction` | pending puts and deletes, a version, iterators | `Put` (string, message), `Get`, `Delete`, `Seek`, `Next`, `Commit` | leveldb |
| `ios/Pods/leveldb-library` `DBImpl`, `VersionSet` | logs, tables, the manifest, two memory tables, a queue of writers, one background thread | `Write`, `Get`, iterators, snapshots, flush, compaction, `DB::Open` | the disk |

How they interact: the Todo screens call `DatabaseHelper` and push each other
on the navigator, so that one stack may hold several list pages, each with a
list of its own; the Weather screens push each other too; every other screen
talks to its plugin alone. Calls are futures: a handler runs to its first
`await`, the rest is a continuation that runs when the plugin's reply arrives.

What is hard, and what makes each component correct:

* `DatabaseHelper`: every operation opens the database for itself and any
  `close()` closes it for all. Correct: operations take effect one at a time in
  the order they were requested or are refused without effect; no statement is
  run on a closed connection; no two openings overlap; every call returns.
* Todo screens: nothing waits for the insert, for another delete, or for the
  page to be built. Correct: when all is quiet the list on top is the table and
  the connection is closed; a list never goes back in time; a tap deletes what
  was tapped; each page gets its list.
* Firestore screen: listeners add up, deletes edit the list locally. Correct:
  the list settles on the collection whatever the listeners do, deletes delete what
  was tapped. (The second is not so: section 5.)
* Text file: writes truncate first and overlap. Correct: the file holds the
  text that was written last, a read shows a whole text.
* Preferences: a save is not awaited. Correct: a load after it shows its value.
* Requests: answers overtake each other. Correct: the list is no older than what the
  server had when the requests under way began (an older answer may still replace a
  newer one).
* Weather: each page, and each build of it, asks for itself, and a page may be gone
  when its answer arrives. What a page shows is the answer to its own question,
  `FutureBuilder` sees to that. Correct: pages stop asking.
* Login: two sessions that may part, and a handler that may stop between them.
  Correct: the photo is of the user Firebase has, signed out means of both.
* Animation: two status listeners act on one controller, one inside the other.
  Correct: it comes to rest.
* `LevelDbTransaction`: an iterator is used while the transaction it shows
  changes. Correct: a read sees the last change, a commit writes it, an iterator
  neither skips nor repeats a key.
* leveldb: writers, readers and the background thread share state they use
  without the mutex, the disk fails, the process or the machine stops. Correct: a
  read finds the newest entry; what was synced survives; no file in use is
  deleted; no writer waits for ever.

`PROJECT.json` lists the hazards at their lines, with the properties that watch
over each of them.

## 2. Modules

| module | models | uses |
|---|---|---|
| `UserRows` | `User`, `toMap`, `fromMap`, the rows of `dbTable`, the results of operations | |
| `UserStore` | abstract: a table whose operations take effect atomically and in order | `UserRows` |
| `DatabaseHelper` | sqFlite.dart and the sqflite plugin under it, for any client | `UserRows`; implements `UserStore` |
| `TodoApp` | todo.dart, addNewUsers.dart, the navigator | `DatabaseHelper`, whose client it is |
| `DatabaseHelperProofs` | proofs | `DatabaseHelper` |
| `TodoAppProofs` | proofs | `TodoApp`, `DatabaseHelperProofs` |
| `FirestoreDB` | firestoreDB.dart and the Firestore plugin under it | |
| `Requests`, `Weather`, `SharedPreferences`, `Login`, `Animation` | the screen of that name, and what it asks of its plugin or server | |
| `Home` | main.dart: one screen is the home | the five above and `FirestoreDB`, by INSTANCE |
| `TextStorage` | asText.dart and dart:io under it | |
| `TextStorageProofs` | proofs | `TextStorage` |
| `LevelDbTransaction` | leveldb_transaction.cc and FSTLevelDB's use of it | |
| `LevelDBVersion` | the tables of leveldb as pure operators: reads, levels, the inputs and outputs of a compaction | |
| `LevelDB` | db_impl.cc and version_set.cc: writers, flush, compaction, files, crashes, recovery | `LevelDBVersion` |
| `HomeProofs` | proofs about the screens but Firestore's | `Home` |
| `FirestoreDBProofs` | proofs about the Firestore screen and the types of `Home` | `HomeProofs` |
| `LevelDbTransactionProofs`, `LevelDBProofs` | proofs | the module each is named for |
| `LevelDBFilesProofs` | proofs about the levels of `LevelDB`'s tables, the order of entries over them and what readers find | `LevelDBProofs` |
| `MCDatabaseHelper`, `MCTextStorage`, `MCHome`, `MCLevelDB` | symmetry sets, and values of constants, for TLC | |

### DatabaseHelper

One record of `call` is one call in flight, with its operation, its argument, the
place where it waits (`pc`) and its result. The code has no list of calls; it has
one Dart future chain each. `Request` is an operation up to its first `await`
(`fetchFilePath`), `PathReply` the rest of `fetchFilePath` and `initDB` up to
`openDatabase`, `Deliver` and `Grant` the return of `openDatabase` and the use of
`dbClient`, `Return` what the caller does with the result. `RunOpen` (with
`_onCreate`), `RunInsert`, `RunUpdate`, `RunDelete`, `RunQuery` and `RunClose`
are the statements on the native side.

What is taken from the plugin, whose source is not in the repository, is marked
`external` in the map: one connection per path, a lock around its opening, one
native thread that runs commands in the order they are sent, a connection that
refuses statements from the moment its close is asked for until it is forgotten,
a second close that does nothing, a version and an `onCreate` that are committed
together. The plugin's lock between statements is not modelled: statements are
sent as they come, which that lock could only restrict.

Dart's event loop is modelled where it matters: continuations of settled futures
(`Grant`, `Return`) run before the next event, and every event has the guard
`NoMicrotask`. `Restart` kills the process at any moment and keeps the file.

### TodoApp

`page` is one `State` object per page, `stack` the navigator. A page that was
pushed is `pushed` until the next frame, `mounted` from its `initState` on,
`leaving` from the pop until its animation ends. `items` is `databaseItems`,
`built` the list the tiles on the screen were built from: a tap goes to a tile,
the handler indexes the list. `client` remembers what each call was made for.
`covered`, `failed` and `leaked` are history, used by properties only.

### FirestoreDB

Commands go to the plugin and events come back, in order. `Native` applies a
command (a write changes the local cache at once and every listener is told),
`Acknowledge` and `Refuse` are the server, which may refuse inserts and deletes alike
(the future fails, and neither `_fetchValues` nor `removeAt` is run), `OtherDevice`
another writer. A name is never given out twice (names are random), and a list shows
documents in the order of their names. `hidden` is history: how many items deletes
have taken off the list since the last snapshot. It says when `SnapshotsSettle` may
expect the whole collection on the list; `SettledListIsCollection`, which is what the
comment on `_deleteValue` promises, has no such exception and is refuted.

### TextStorage

`work` is the chain of file requests each tap has started. `OpenToWrite`
truncates, `Write` writes at position 0; a read asks for the length and then for
that many bytes. Which thread serves a request is open, so chains interleave
freely. A text is one character repeated, which tells two texts and a mixture of
them apart. `last` and `torn` are history. The values that `readData` and
`writeData` return are used by nobody and left out.

### Home and its screens

`main` makes one screen the home; which one is edited in the source. `Home`
chooses it in `Init`, and a step is a step of that screen. The modules of the
screens are complete specifications of their own; `Home` gives them one set of
variables and states their properties.

* `Requests`: a request is a connection of its own, so `Arrive` may take any of
  them. `framed` is what the last frame built; a tap is judged by it, and reads
  the list as it is now. `busySince` and `floor` are history.
* `Weather`: `Built` is a `build` of a page, with the request it makes;
  `Answered` builds only the `FutureBuilder` again. `Metrics` stands for what
  makes Flutter build every route.
* `SharedPreferences`: `instance` is the plugin's cache, shared by all callers of
  `getInstance`; before there is one each of them asks for the file. `written` and
  `raced` are history.
* `Login`: `chains` are the handlers under way, each at one of its awaits;
  `calls` is the Google plugin's queue, `replies` what Firebase has answered and
  Dart not yet seen. `complete` are the users on whom the three assertions before
  `setState` (login.dart:81-83) hold; on another one the login ends there, though
  Firebase has the user. `overtaken` and `mixed` are history.
* `Animation`: `calls` is the call stack of `notifyStatusListeners` and
  `reverse`. `MaxDepth` is its size: the listeners do fill it.

### LevelDbTransaction

One transaction at a time (FSTLevelDB asserts that), its pending changes, and one
iterator with the position of the two iterators it merges. An iterator is used in
any order with puts and deletes, as the code's version counter allows. `latest`
is history: the rows as the calls left them; `kept` and `masked` are the keys on
which the code departs from it (section 5).

### LevelDBVersion and LevelDB

One action is what the code does in one stretch under `mutex_`, or one call to
the disk made without it. The leader of the writers is at `stage`; the background
thread is at `bg.at`: `build` (writing a memory table), `merge` (writing the
outputs of a compaction), `edit` (in `LogAndApply`, without the mutex). A merge
writes its tables one by one (`WriteOutput`); flushes with their deletion of obsolete
files, a failing call or a crash may come between any two. They are in no version
until `Merge` and `Install`, and `pending_outputs_` alone protects them. A table
counts as written from when its file is opened: until it is installed nobody reads
it, and what is in it is settled by the inputs. An entry's
value is its sequence number. `manifest` is a set of states because a failed write
may or may not have reached the disk. `truth` and `safe` are history: what has
been written, and what of it with `sync`; a crash takes off `truth` what it lost.

Left open, so that every outcome is allowed: how large a level is, how many
writers join a group, where in a level the next compaction begins
(`compact_pointer_`), what of an unsynced log survives. Left out: the bytes of
grandparents that cut outputs and refuse expansions, manual compaction and the
reuse of logs (Firestore uses neither), the end of a database object, caches. A
recovered log becomes one table (recovery may cut it in several), and operations
on file names are durable in order.

## 3. Runs

| run | question | what it shows |
|---|---|---|
| `helper_safety` | three calls of any operation, with restarts: `TypeOK`, `CloseIsLast`, `OpenIsAlone`, `FailsOnlyByClose`, and each step against `UserStore` | hold |
| `helper_store` | two calls: `EveryCallReturns`, and the whole of `UserStore` with its fairness | hold |
| `todo_overlap` | two pages, four calls, two names: `TodoTypeOK`, `SettledListIsTable`, `QuietIsClosed`, `DeletesTappedRow`, `ListOnlyShrinks` | hold |
| `todo_loads` | `EveryPageLoads` under fairness | holds |
| `todo_reused` | is what is deleted the row the page holds? | no: sqlite gives ids out again, and a page below others keeps its rows |
| `text_taps` | three taps, with kills: `TextTypeOK`, `LastTextIsInFront`, `CleanReadIsWhole` | hold |
| `home` | six screens: `ListIsFresh`, `SettledIsWritten`, `AssertFailsOnlyOvertaken`, `PhotoIsOfUser`, `PhotoIsSignedIn`, `SnapshotsSettle`, `RequestsStop`, `ComesToRest`, `EveryDocumentIsListed`, `TypeOK` | hold |
| `firestore_deletes` | is the list, when all is quiet, the collection? | no: a delete leaves the document and takes an item off the list |
| `leveldb_transaction` | three changes over three keys under an iterator: `TypeOK`, `GetIsLatest`, `CommitIsLatest`, `NextIsSuccessor` | hold |
| `leveldb_crash` | two writers, two crashes, a failing disk: `TypeOK`, `ReadsNewest`, `SyncedSurvives`, `NeededTablesExist`, `EveryWriteReturns` | hold |
| `leveldb_compaction` | four entries through three levels, two snapshots or iterators, or one and a failing call: `ReadsNewest`, `LevelsDisjoint`, `SmallerLevelIsNewer`, `NeededTablesExist` | hold |
| `leveldb_split` | the same, when a compaction cuts its output after each entry: `SmallerLevelIsNewer` | violated: a newer entry moves below an older one |

Bounds, and why they are enough. Three calls are one that closes, one that is
refused or waits and one that opens again; the fourth of `todo_overlap` allows
two deletes with their continuations at once (`Spare` is the bound: a delete
starts only if its continuation will find a call). Its two pages are a list with the
form above it, or the form with the list above it, as the app may be started on
either; more of them, such as the two lists a double tap on the form pushes, are
within the theorems of section 4, which hold for any number of pages and calls.
`todo_reused` needs three: a list, the form above it and the list above that. Two ids are what it takes to delete one
user, insert another and see the id come back (`RoomFor` keeps inserts below
`MaxId`). Two names tell a user from the one that has its id later; where names
do not matter there is one. Two documents are a tapped one and one that moves it;
listeners are bounded by the inserts, `MaxDeletes` bounds deletes under way.
Texts of up to two characters are a shorter and a longer one. Symmetry is used
for safety only, over identities that nothing chooses between.

For the screens: three lists (a post more, a post less), two requests at a time
and a dialog on a dialog; four weather pages; two texts and four calls to the
preferences, which is two loads with two saves between; three logins or sign-outs
of two accounts; a call stack of eight, which the listeners fill. For the
transaction three changes are a put, a delete and a put of one key. For leveldb
the constants of dbformat.h are scaled down and keep their order: three levels,
memory tables go down to level 1, two tables of level 0 ask for a compaction, and
stop writers; a memory table is full with one batch. Three entries under two
crashes reach a crash inside a recovery; four entries over three keys give a table
that spans a key it does not hold, flushed over and compacted twice, under a
snapshot and an iterator at once (with five entries and one of the two the
properties hold as well; that takes longer than a run should). In
`leveldb_crash` and `leveldb_split` an output is cut after each entry, so that a
merge of two keys has two outputs to write; in `leveldb_compaction` it never is, since
under a snapshot a cut may fall between two entries of a key, which is what
`leveldb_split` is about. `leveldb_compaction` has no crash, and a failing call in
place of one of the two readers (`Budget`, its constraint); the order of levels after
crashes is left to the proofs (section 4).

Fairness. A reply that has arrived is in Dart's event queue, which is first in,
first out; microtasks and user events may keep coming in front of it, so `PathReply`
and `Deliver` have strong fairness, as have the messages of Firestore, which
restarts may lose again and again. Microtasks and the native thread have weak
fairness. Frames and page animations are the framework's and fair; taps, the
Firestore server, and the text file's chains have none. Frames and answers of the
weather pages and the ticker are weakly fair, and so are leveldb's writers and its
background thread, which `env_->Schedule` runs; its liveness is stated for a disk
that fails at most once and a bounded number of crashes.

In every model the process may be killed at any step. That makes no liveness
property vacuous: a restart is a step the fair scheduler need not take.

## 4. Proofs

`DatabaseHelperProofs` proves for every set of calls, every set of names and
every bound on ids:

* `TypeCorrect`: `TypeOK` is invariant.
* `Invariance`: the inductive invariant `IInv`.
* `CloseLast`, `OpenAlone`, `FailureNeedsClose`: `CloseIsLast`, `OpenIsAlone` and
  `FailsOnlyByClose` are invariant.
* `HelperStepsImplementStore`: `StepsImplementStore`, the refinement of `UserStore`.

The assumptions are those of `UserRows`: `MaxId` is a natural number, `None` is
not. None of the three properties is inductive: each speaks of commands in
flight, and a step may send one only because of what the connection and the
queues hold. `IInv` says so: each call is in the one queue its `pc` names, and
once (`WaitInv`, `SentInv`); nothing is in flight without a connection, and one
command exactly while it is opened (`ConnInv`); a close in flight is the last
command, and there is one exactly while the connection is closing (`CloseInv`);
statements that select by key or everything succeed natively (`ReplyInv`). The
proof has a lemma per action, from lemmas on joining, leaving and keeping a
queue. `IInv` was checked with TLC before it was proved.

The refinement maps a call to what the store knows of it (idle, pending, effected,
done) and the helper's queues in a row to the store's order: commands, then those
who wait for the opening, then those who wait for the directory. `RInv` adds to
`IInv` that a call which has not run has no result (`NoResult`) and that there is no
table before `_onCreate` (`Created`). A call that goes from one queue to the next
leaves the row as it is (`HeadMoves`), since whoever stands before it is in an
earlier queue: that is a step the store does not see. A statement that runs, or a
call that is refused, takes one call out of the row (`HeadRemoved`), which the store
allows for the oldest and for a refused one. That the helper also fulfils the
store's fairness (`ImplementsStore`) stays with TLC.

`TodoAppProofs` proves about the two Todo screens, for any number of pages and calls,
from `BlankAssumption`, `IdentitiesAssumption` (calls and pages are finitely many,
there is a page, `None` is none of them nor a list) and those of `UserRows`:

* `TodoTypesCorrect`, `ConnectionCloses`, `OnlyTappedRow`, `SettledList`:
  `TodoTypeOK`, `QuietIsClosed`, `DeletesTappedRow` and `SettledListIsTable`.
* `ListsShrink`: the action property `ListOnlyShrinks`.
* `HelperKeepsPromises`: the helper's own invariants under these screens, which ask
  for several things at once and go on within a continuation.

None of them is inductive, and the invariant they share, `TodoInv`, rests on one
picture: the helper's queues in a row (`Flight`) are the calls in flight in the order
they were requested. The screens depend on three things only: how far each call has
got (`stage`), which of two is the older (`before`), and the results. The first part
of the module shows that each step of the plugin is one of four (`PluginMoves`):
nothing the screens could see, the oldest pending call takes effect, the oldest of
all settles, or a call is refused behind a close. The second shows what each handler
asks for (`Asked`) and that it keeps:

* `PageInv`, for a page nothing was pushed on. While an insert or another page's
  delete is pending, the page shows nothing yet and its lists come after
  (`ForeignInv`): this is why an insert nobody awaits is not missed. What it shows,
  the lists on their way to it from older to younger, and the table are ever smaller
  sets (`ShrinkInv`). A list that is out of date is followed by a delete that will
  fetch another (`StaleInv`), and as long as the page is not up to date something
  under way will bring it there (`FreshInv`).
* `TappedInv`: no insert is ahead of a pending delete, so an id cannot be given out
  again before it.
* `OpenInv`: behind each insert there is another call or a page that will make one,
  and while the connection is open something is under way that ends in a close.
* `SpareInv`: each delete in flight finds the second call its continuation makes.

`TextStorageProofs` proves, for every set of taps and every set of texts:

* `FileInvariance`: the inductive invariant `FileInv`.
* `LastTextFirst`, `CleanReadWhole`, `TextTypeCorrect`: `LastTextIsInFront`,
  `CleanReadIsWhole` and `TextTypeOK` are invariant.

The assumption is `TextAssumption`: a bound on lengths and a `None` that is no
text. `LastTextIsInFront` speaks of a file no write is about to fill and says
nothing before; `FileInv` adds that, as long as nothing happened since a write
had the file to itself, at most one write is between its truncation and its text
and the file is empty then (`HalfInv`), and that a read no write came near has
been told the length of the text that is still there (`ReadInv`). What an
overwrite leaves (`Overwritten`) is a lemma about sequences. `FileInv` too was
checked with TLC first, for two taps.

`HomeProofs` proves about the screens of `Home`, for every set of lists, texts,
accounts and cities, any number of requests and calls under way, and from
`HomeAssumption` (`None` and "absent" are no texts, no account is `None` or empty,
no city is empty, the bounds are numbers that leave room for one page and two
nested calls):

* `ListStaysFresh`: `ListIsFresh`. Its invariant says of each request under way
  that its answer, if there is one yet, is no older than the moment since which
  requests have been under way without a gap.
* `WritesSettle`: `SettledIsWritten`. The property speaks of a queue that is
  empty; the invariant says what a full one comes to: the last write on its way, or
  if there is none the file, has the text saved last. Of the cache it says that,
  unless that write has met the plugin's loading, no write is on its way while the
  plugin loads, and what it has found is that text.
* `LoginInvariance`, `AssertHoldsAlone`, `PhotoOfUser`, `PhotoSignedIn`: the
  invariant `LoginInv`, and `AssertFailsOnlyOvertaken`, `PhotoIsOfUser` and
  `PhotoIsSignedIn`. Two handlers under way have overtaken each other (`Overlap`);
  so what holds of a handler that was not overtaken holds because no other touched
  either account meanwhile (`Alone`). The newest sign-in among Firebase's answers is
  of the user Firebase has; if there is none, the photo is, unless Firebase's user
  failed the assertions that come before `setState` (`NewestIsUser`). Such a user's
  photo is never set (`PhotoPassed`).

It also has the types of these screens, each from an invariant of its own:
`RequestsTypes`; `WeatherInv`, by which only a weather page ever waits; `LoginTypes`,
by which who waits for the Google plugin waits once and at one of its calls; and
`AnimationInv`. The last is more than types: between the ticks, status, ticker and
what the listeners were told agree. Nested calls break that in between, and it comes
true again because the oldest frame above the first call is always the rest of a
`reverse`, which sets all three.

`FirestoreDBProofs` proves of the Firestore screen, for any number of documents,
listeners and messages, with other devices, refused writes and restarts:

* `ListSettles`: `SnapshotsSettle`. Its invariant, `FirestoreInv`, says what
  the property comes to while messages are under way: as long as there is no
  listener, a command for one is on its way (`Listens`); once there is, the last
  snapshot on its way is of what the cache holds, or none is on its way and the list
  is the last one, less what deletes removed (`Follows`). How many listeners there
  are does not matter, because every one of them is told the same. The order of the
  list needs that a set of documents is one sequence in rising order (`RisingExists`,
  `RisingUnique`); a smallest set without one would, less its greatest element, be a
  smaller set without one.
* `HomeTypesCorrect`: `TypeOK` of `Home`, with the types of the Firestore screen.
  What is hard there is the number of listeners, which nothing ever cancels. A
  listener is asked for at the start, and by each insert whose answer this run of the
  app awaits; `FewListeners` counts those that are and those still to come, in all
  three queues, and says that they are never more than the names given out and one.

`LevelDbTransactionProofs` proves for any number of keys and changes and any
values, from `BoundsAssumption` and `NoneAssumption`:

* `TransactionInvariance`: the inductive invariant `TransactionInv`.
* `TransactionTypeCorrect`, `ReadsLatest`, `CommitsLatest`, `IteratorOrder`:
  `TypeOK`, `GetIsLatest`, `CommitIsLatest` and `NextIsSuccessor`.

Reads and commits rest on `InStep`: for each key outside `kept` and `masked`, what
`Get` and the batch say is `latest`. The iterator rests on `IterInv`: as long as it
has seen the last change, its two positions stand at the first rows not before its
key, one of them at the key itself; so moving past that key reaches the next one,
and after a change seeking does. That a non-empty set of keys has a least one
(`MinIsLeast`) is proved from the well-foundedness of the natural numbers.

`LevelDBProofs` proves, for any keys, writes, levels and bounds, with crashes and
failing calls to the disk, from `LevelsAssumption` and `WritesAssumption` (a write is
a sequence of operations and a flag):

* `NeededTables`: `NeededTablesExist`. It is not inductive: that nothing is deleted
  which the manifest names needs that, as long as nothing has failed, the manifest
  names no more than the version (`TablesInv`); that a merge interrupted by a flush
  finds its inputs needs that they are of the version it holds (`ThreadInv`); and that
  it finds what it has written so far, that these tables are among `pending_outputs_`
  until it ends, and are not the flush's (`OutputsHeld`). The proof has a lemma per
  action of the thread. The other theorems need of the outputs that they are numbered
  and are what the merge had to write, each once (`OutputsInv`).

* `SyncedWritesSurvive`: `SyncedSurvives`. A crash takes off `truth` what the logs
  lose, so the question is whether they can lose a synced entry. A log holds
  no synced entry only beyond its synced part (`Safe`); the danger is a sequence
  number used twice, for then a record nobody synced can stand for one that was.
  So only the leader's record has numbers above the last one (`Latest`), and after
  a crash the last number is found again, because whoever reads the manifest's
  number and the logs from its `log` on has met every synced entry (`Covers`). A
  group's record stays in the log until the group returns, and is synced if the
  leader asked for that (`Leading`); `MayJoin` keeps writers with sync out of other
  groups. That an entry no log holds any more is found in the tables is
  `ReadsNewest`, below.

`LevelDBFilesProofs` adds, with `MemAssumption` (a memory table has room:
`SanitizeOptions`, db_impl.cc:98) and `NoneAssumption` (`None` is no set of entries:
a null `imm_` is no memory table):

* `DatabaseTypesCorrect`: `TypeOK`. Its invariant, `TypesInv`, whose lemmas are the
  second half of `LevelDBProofs`, has four parts besides
  `TablesInv` and `SyncInv`. `RoomInv`: the numbers given out fit, because a writer
  joins the queue only if the last number and all that waits leave room, and neither
  a group of any size nor a leader that fails uses more than its own operations
  (`OpsSplit`). `EntriesInv`: so what logs, memory tables and tables hold are entries;
  and no table is empty, since a memory table is handed over when it is full, an
  output of a compaction begins with an entry, and recovery skips an empty log.
  `FilesInv`: the version, each state of the manifest and the edit under way have
  files below their own next number, on levels there are. An edit's next number is
  no smaller than any in the manifest, though it was taken before the mutex was given
  up. `StateInv`: what is left, such as that the log in use is no older than those
  needed.

* `LevelsStayDisjoint`: `LevelsDisjoint`, which `Builder::SaveTo` asserts
  (version_set.cc:742), in every behaviour without a step `Retried`. That is the
  failing manifest record of a flush within a compaction, after which the code
  flushes again; without the exception the theorem is false (section 5), with it
  every other failure and crash is covered. Its invariant, `LevelsInv`, says of the
  manifest what the property says of the version, for a crash makes the one the
  other; and that while the thread is at work the two are the same, because a
  failed record ends the call and the next one does nothing.

  What an edit makes of the version must be disjoint too, and here is the difficulty:
  a compaction chooses its inputs, and before its outputs are installed a flush may
  put a table between them. `PickLevel` has looked at the version then, and not at
  the compaction. It works because of what `Movable` says of the inputs: each table
  of the next level that is not among them lies on one side of all their entries,
  and there is no range of keys with some of the inputs wholly below it and others
  wholly above (`Linked`), unless one of them meets it. A flushed table goes below
  level 0 only if it meets no table down to its level, the inputs included, so all of
  them lie on one side of it (`FlushFits`), and the outputs, which hold entries of
  the inputs only, do too (`MergeFits`). That the inputs are so is `InputsMovable`:
  at level 0 `GetOverlappingInputs` goes on until nothing more meets the range
  (`OverlappingSides`), and when `SetupOtherInputs` takes more files of the level,
  it has made sure that they meet no more of the next.

* `NewerEntriesAbove`: `SmallerLevelIsNewer`, on which `Version::Get` relies when it
  stops at the first level that has the key (version_set.cc:346), in every behaviour
  without a step `Retried` and without a step `Cut`: a merge that cuts an output
  between two entries of one key. `leveldb_split` shows that the second exception is
  needed. Two invariants go with `LevelsInv`.

  `AgesInv`: the entries of the tables of a version have numbers up to the last one
  (and up to the one the manifest's state records), below those of the memory table and
  of each log that the state still counts as needed; those of the table that waits
  lie between. It has to be said of the version in use, of the manifest's states, for a
  crash makes one of them the version and replays the logs, and of what the edit
  under way will make, with the edit's own log and number. So a flush writes a table
  newer than all others, and recovery puts newer tables on level 0.

  `NewerInv`: the property and `Apart`, that no two tables of a level above 0 share a
  key, of the same versions, and `Fits` of the inputs of a compaction. A compaction
  takes along each table of its level and of the next that shares a key with it
  (`InputsFit`): at level 0 because nothing more meets the range, above because of
  `Apart`, in the next level because `SetupOtherInputs` ends with all that meet the
  final range (`InputsMeet`). A flush that gets in between puts its table past none
  that it meets (`PickLevel`), so it shares a key with the inputs only from their
  smaller level upwards, and with newer entries (`FlushIsNewer`). Then the outputs may
  take the inputs' place (`InputsReplaced`), if no two of them share a key.

* `NewerEntriesAboveWithoutSnapshots`: the same for a database that nobody takes a
  snapshot of, and without a word about `Cut`. Firestore's store is such a database.
  A merge then sees all entries of its inputs (`SeenInv`: a compaction looks at the
  last number when it begins, and a flush within it adds no inputs), drops every entry
  that has a newer one of its key, and so keeps one of each (`OneOfAKey`, `NoCut`).
  This holds for any size of outputs, also where `leveldb_split` refutes the
  property under a snapshot.

* `ReadsFindNewest`: `ReadsNewest`, in every behaviour without a step `Retried` and
  without a step `Cut`. A read looks into the memory table in use, the one that waits,
  and the version, and stops at the first that has the key. That this is the newest
  entry written needs three things besides `LevelsInv` and `NewerInv`.

  Nothing is lost. What was written (`truth`) is in the memory table in use, or was
  in the logs before it, which is in the table that waits, or was in the logs before
  `logNumber` (`MemInv`). Of these last entries, `Before(truth, logs, logNumber)`,
  the version has some, and answers as they do whoever reads at `Least` or later: the
  snapshot's number, or the last one (`KeptInv`). The same is said of each state of
  the manifest with its own log and number, since a crash may make it the version;
  and of what the edit under way will make, with its log, for the numbers a reader
  may have now and for the number the edit records, which a recovery begins with. A
  flush moves its entries from one side to the other, and recovery makes a table of
  what the manifest's logs say. An entry stays where it is only because the logs are
  consistent (`LogsInv`): all numbers differ, a log's entries are newer than all that
  was written before it, and a log that is deleted held nothing that still counts.

  What a merge drops nobody misses (`MergeKeeps`). A newer entry of the key that all
  readers see stands above the one that is dropped. A deletion is forgotten only if no
  deeper level holds the key, and that is decided on the version the compaction began
  with, while flushes install others: but a table that a flush puts deeper than the
  compaction's levels has newer entries than its inputs (`DeepInv`). So an older
  entry of the key, that the deletion should hide, is nowhere.

  The newest entry is found. `InVersion` is the newest of all that the version stores
  (`VersionReads`): on level 0 because the file with the greater number is newer
  (`StackInv`), on the others because the one table `FindFile` finds has the key's
  first entry that the reader may see (`LevelReads`), and across levels because of
  `NewerInv`. With `KeptInv` and the memory tables, whose entries are newer than
  what is below them since their logs are (`HeldInv`), the answer is that of `truth`
  (`GetFindsNewest`).

* `ReadsFindNewestWithoutSnapshots`: the same for a database that nobody takes a
  snapshot of, and without a word about `Cut`, as above.

`SyncInv`, the parts of `TypesInv`, `LevelsInv`, `AgesInv`, `NewerInv`, `SeenInv` and
the six parts of `ReadInv` were checked with TLC as invariants first.

Only model-checked: all liveness properties, which are beyond the prover, as ENABLED
is. Every safety property of the runs is a theorem, three of leveldb with the
exceptions above. `ReadsNewest` does not hold for every value of the constants: where
a compaction cuts an output between two entries of a key it fails with
`SmallerLevelIsNewer`. Whether it needs the exception `Retried` is open: within the
bounds of section 5 and in `leveldb_crash`, where such steps happen, TLC finds no read that fails.

## 5. Divergences met

The violation runs are the findings of `PROJECT.json`. The models contain others,
which no run singles out:

* todo.dart:57: a delete tapped while a `close()` is under way gets the
  connection that is being closed, is refused, and nothing handles the error.
* firestoreDB.dart:130: `removeAt(position)` runs on a list that snapshots may have
  replaced since the tap, and takes off another item than the tapped one (that an item
  is taken off at all is the finding of `firestore_deletes`).
* asText.dart:61: of two overlapping writes the shorter text may be written over
  the longer, and the file is then neither. `readData` says it returns the data
  and returns null, and does not await the read whose error it means to catch.
* user.dart:52: `fromMap` reads the key `id` where rows have `_id`, so a user from
  `getUser` has no id and updating it names no row (no screen does either).
* todo.dart:120: a tap on a tile between `setState` and the next frame reads
  another row than the tile shows; requestsExample.dart does the same, and beyond
  the end of a shorter list it throws. A second tap on OK there pops the page.
* sharedPreferences.dart:56: a save while the plugin is loading leaves a cache
  older than the file, until the next start (`raced`).
* login.dart:81: an assertion that fails ends the login after Firebase has signed the
  user in, so the photo of an earlier one stays beside a new user (`PhotoIsOfUser`
  allows that and no more); login.dart:134: a sign-out leaves the Firebase session;
  login.dart:104: the assertion fails when two logins overlap (`overtaken`); the
  e-mail handlers pass null to Firebase.
* animationExample.dart:57 and 89: the two listeners call each other until the
  call stack is full; the framework catches that, and the animation goes on.
* weatherHome.dart:136: the keyboard or a rotation asks for the weather anew; a
  second tap on "Get Weather" pushes a page for no city.
* leveldb_transaction.cc:167: `emplace` keeps the value of an earlier put of the
  same key, against leveldb_transaction.h:173 (`kept`); leveldb_transaction.h:164:
  `Put` of a message takes no pending delete back, so `Get` does not find the row
  that `Commit` will write, against leveldb_transaction.h:179 (`masked`).
* db_impl.cc:563: when the manifest record of a flush fails, `CompactMemTable` keeps
  `imm_`; within a compaction `DoCompactionWork` (db_impl.cc:918) looks at `has_imm_`
  and not at `bg_error_`, and calls it again before the next key. That writes the
  same entries to a second table, and if the first record had reached the disk after
  all, a crash leaves a manifest that names both: on a level above 0 they overlap,
  against "Make sure there is no overlap in levels > 0" (version_set.cc:742). With
  two keys, `Singles` written, no readers, `MaxFails` and `MaxCrashes` 1 and otherwise the
  bounds of `leveldb_compaction`, TLC finds that state for `LevelsDisjoint` after 33
  steps; `ReadsNewest` holds there, since the two tables are equal. This is why
  `LevelsDisjoint` and what rests on it are proved without a step `Retried`.

## 6. Not modelled, and the plan

Left out for good: layout, formatting, the form and scaffold examples, the
language examples. `_firestoreStreamBuilder` and the Firestore screen's
`_moveToNextScreen` are called by nothing. Passwords are carried along with
names and tell nothing apart.

The repository's own program is `src/lib`, about three thousand lines, and all of
it that keeps state is modelled. By lines nearly everything else under `src` is the
source of the pods: BoringSSL, gRPC, Protobuf, FMDB, most of Firestore. These are
other projects' code, linked by plugins; cryptography, transports and generated
tables have little that a model of this app could use, and the greater part of the
repository's lines stays out of reach of any project of this kind.

What could follow, in this order: the rest of Firestore's local store above the
transaction (mutation queue, garbage collection by reference); leveldb's log
format with its torn records (db_impl.cc:1224); `ReadsFindNewest`
for behaviours with a step `Retried`.
