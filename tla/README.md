# Stockly: TLA+ models and proofs

Stockly is an iOS app (`src/Stockly/Stockly`, about 3200 lines of Swift) that
shows stocks of three sectors, searches stocks, shows a stock's quote, chart and
news, and keeps a watch list in Firebase. It has no tests. Everything below
`src/Stockly/Pods` is third-party code that is built into the app; two of its parts
are modelled here, the Firebase database client, on which every screen that saves or
lists a stock rests, and LevelDB, the store that client is built with. Paths below
are relative to `src/Stockly/Stockly`, or to `src/Stockly/Pods` where they begin with
`FirebaseDatabase` or `leveldb-library`.

## 1. Inventory

| Component | Source | State | Operations |
|---|---|---|---|
| Watch list | `View Controllers/Profile/ProfileTableViewController.swift`, `Model Controllers/ProfileController.swift`, `Models/UserStock.swift` | `watchList`, `symbolList`, `timer`, indicator, Firebase observers | appear, disappear, value event, timer, answers, reload, swipe |
| Networking | `Networking/DataGetter.swift`, `Model Controllers/*.swift` | decoded stocks, quote, news, chart, logo | one request, one completion; decode |
| Search | `View Controllers/Search/SearchViewController.swift`, `StockController.searchStock` | `searchResults`, search text, a delayed request | typing (debounced), cancel, answers, reload, row tap |
| Home | `View Controllers/Home/HomeTableViewController.swift`, three sector controllers | three stock arrays, one shared `StockController` | three fetches, sectioned table, row tap |
| Stock details | `Home/HomeStockDetailViewController.swift`, `Search/ResultsViewController.swift` | quote, news, chart, logo, rows of key data | load, save to the watch list, logo, key-data rows |
| Session | `Login/*`, `Account/SettingsViewController.swift`, `Resources/AppDelegate.swift`, `Navigation/*` | Firebase user, `UserDefaults` name, `users/<uid>` node | first launch, sign in/up, Facebook, reset, sign out |
| Firebase database client | `FirebaseDatabase/Firebase/Database/Core/FPersistentConnection.m`, `FRepo.m`, `FSyncTree.m`, `FWriteTree.m`, `FViewProcessor.m`, `Realtime/FConnection.m` | connection state, token, retry, listens, outstanding puts, answers held back, the view's cache | set, observe, remove, connect, authenticate, restore, answers, data, revocation, interrupt |
| LevelDB | `leveldb-library/db/db_impl.cc`, `version_set.cc`, `log_*.cc`, `builder.cc`, `util/env_posix.cc` | log, memory tables, versions, MANIFEST, writers' queue, background thread | write, get, flush, compact, snapshot, recover |
| Onboarding | `View Controllers/Onboarding/*` | page index | swipe, next, skip |
| Static views | `Analyze*`, `*News*`, cells, styling | none | layout |

The parts meet in these places.

* Screens call a model controller, which calls `DataGetter.fetchData`; the
  completion comes back on the URL session's serial queue, and most of them
  change a screen's arrays right there and then dispatch a table reload to the
  main queue.
* The detail screens store a child under `users/<uid>/WatchList`; Firebase raises
  a value event to every observer the watch list has registered, on the main queue.
* Home hands its own `StockController` to every detail screen it opens; Search
  makes one per screen.
* A screen's `setValue` and `observe` go to the database client, which runs on a queue of
  its own, sends them when it is connected and again after a loss, and calls back on
  the main queue. With persistence on it would keep its state in LevelDB; the app
  leaves persistence off, so LevelDB is compiled in and opened by nobody.
* The session decides which `users/<uid>` node the others read.

Hard behaviours, each listed with its line in `PROJECT.json` ("hazards"): arrays
changed off the main thread; reloads that come later than the change they belong
to; answers out of order; connections lost with writes outstanding; a crash between
any two file operations; observers and timers that are never taken back; a group
whose error path never leaves; a removal addressed by a value that is not a key;
state shared between screens; writes that are reported before they are stored.

## 2. Plan

Done:

1. `WatchList`: the watch list, the part with the most concurrency.
2. `OneShot`, `Networking`: one request through `DataGetter` and a model controller
   to its completion, against the abstract promise "exactly one completion".
3. `SearchScreen`: typing, debounce, answers in any order, reload.
4. `HomeFeed`: three concurrent sector fetches and the sectioned table.
5. `StockScreens`: loading, the shared controller's logo, saving.
6. `KeyDataTable`: the rows of key data.
7. `Session`: the user, the name in `UserDefaults` and the `users/<uid>` record across
   sign up, sign in, Facebook, sign out, a session the server ends, a stop of the
   process between two of these writes, a reinstallation, the first launch.
8. `Networking` composed with `HomeFeed`, which extends it: the three calls of the
   home tab run statement by statement in one specification, and the abstract
   promise is checked and proved of the whole.
9. `AtLeastOnce`, `DatabaseClient`: the database client between program and server, over
   lost connections, expired tokens, refusals and revocations, against the promise it
   makes to the program.
10. `LevelDBVersion`, `LevelDB`: the store, with crashes, failing file operations,
    flushes, compactions and readers; its types, the order of its levels, what reads
    find and what a recovery finds proved.

Left, in this order:

11. Compositions: saving from a stock screen into the watch list (`StockScreens` and
    `WatchList` over one `DatabaseClient`), and the tab bars of earlier sessions, which
    stay presented below the new ones with their observers and timers.

The project keeps to twelve runs and forty properties: a later module takes the place
of a run that merges into another, or of a property that says less. Invariants that a
theorem establishes and no run checks any more are named in section 6.

## 3. The modules

Each `MC*` module extends its specification and defines the values of its constants
that a `.cfg` cannot write; each `*Proofs` module extends it with the theorems.
`PROJECT.json` ("map") names the lines of every definition.

Three threads of control recur. **The main thread** runs touches, timers and the
blocks of the main queue one at a time: a handler is one action, guards and early
returns included. **The session's queue** is the serial delegate queue of
`URLSession.shared`: two answers never interleave with each other, but each does
with the main thread. **Firebase's client and server, URLSession, UIKit's hit
testing** are external actions, modelled by how the code uses them.

Where Swift or UIKit would stop the process (an index past the end, `nil!`, a row
count that disagrees with an update) the action sets `app`, which disables the
rest. A data race on an array is a step that reads it, a step that stores it, and a
trap in between (`WatchList`, `SearchScreen`); `HomeFeed` assigns each array once,
over the empty one, whose storage is static, and makes it one step.

| Module | State in the code | Actions and where they come from |
|---|---|---|
| `WatchList` | `watchList`, `symbolList`, `timer`, `ref.observe`, `hud`, the dispatch group of `fireTimer`, `users/<uid>/WatchList`, the table's row count | `Appear`, `Disappear` (viewWillAppear, viewDidDisappear), `HandleValue` (addStockToArray's event), `FireTimer`, `BeginAppend`/`EndAppend`/`FetchFails` (its completions), `HandleNotify`, `HandleAlert`, `DeleteRow`, `DeletePastEnd`, `ScrollTraps`, `RaceTrap`; external `Save`, `ServerData`, `RemovalAnswered`, `SignOut` |
| `OneShot` | none: the promise | `Start`, `Store`, `Succeed`, `Fail` |
| `Networking` | the closures of `DataGetter.fetchData` and of the fetches | `Fetch`, `FetchData`, and the closure's statements `ReportError` (which does not return), `GuardData`, `Decode`, `DecodeFails`, `Succeed`; external `Deliver` |
| `SearchScreen` | `searchResults`, the search bar, the delayed `makeSearchRequest`, requests in flight, the table's rows | `ChangeText`, `ClickCancel`, `ClickSearch`, `DismissKeyboard`, `MakeSearchRequest`, `BeginAssign`/`EndAssign`/`SearchFails`, `HandleReload`, `HandleAlert`, `TapRow`, `ScrollTraps`, `Back` |
| `HomeFeed` | the three arrays, the sections' row counts, and `Networking`'s state, one call a section | `Networking`'s statements, each call ending in `CompleteSector`; `HandleReload`, `ShowCell`, `TapRow`, `Back` |
| `StockScreens` | per screen: stock, quote, `ref`, its requests, image; per controller: `stockLogoURL`; Firebase's pending writes | `OpenHome`, `OpenSearch`, `BatchFound`, `BatchFails`, `ShowLoaded`, `ShowInvalid`, `LogoFound`, `LogoFails`, `LogoTraps`, `ImageArrives`, `ImageFails`, `ShowImage`, `Save`, `SaveTraps`, `Back`; external `Accept`, `Refuse`, `LoseSession` |
| `KeyDataTable` | `keyDataTableData`, the cells, the quote | `QuoteArrives`, `Reload`, `ShowBlank`, `ShowValue` (cellForRowAt) |
| `Session` | Firebase's user in the keychain, `name` and `hasRunBefore` in `UserDefaults`, the server's `users/<uid>`, logins under way, their completions on the main queue, the client's writes, the screen on top and its indicator | `Launch`, `PresentOnboarding`, `ShowMainMenu`, `GetStarted`, `ToSignIn`, `ToSignUp`, `Back`, `SignInButtonTapped`, `SignUpButtonPressed`, `FacebookButtonPressed`, `AuthFails`, `SignInDone`, `SignUpDone`, `ConfirmSignUp`, `FacebookGrants`, `FacebookCancelled`, `FacebookFails`, `FacebookSignedIn`, `GraphFails`, `GraphAnswers`, `GraphAnswersNobody`, `SaveStock`, `SignOut`, `SignedOut`; external `AuthSucceeds`, `Accept`, `Refuse`, `LoseSession`, `Stop`, `Reinstall` |
| `AtLeastOnce` | none: the promise | `Issue`, `Store`, `StoreForeign`, `Answer` |
| `DatabaseClient` | `connectionState`, `interruptReasons`, `forceAuthTokenRefresh`, `authToken`, `listens`, `outstandingPuts`, `putsToAck`, `unackedListensCount`, the view's server cache | `RunRetry`, `FetchFails`, `FetchSucceeds`, `OnReady`, `OnDisconnect`, `Interrupt`, `Resume`, `EnteringForeground`, `RefreshAuthToken`, `SetValue`, `Observe`, `RemoveObserver`, `OnAuth`, `OnAuthRevoked`, `OnPut`, `OnListen`, `OnDataUpdate`, `OnListenRevoked`, `OnKill`; external: the server, the network, the token service, other devices |
| `LevelDBVersion` | a version's tables | operators: `Get`, `GetOverlappingInputs`, `AddBoundaryInputs`, `Inputs`, `Dropped`, `IsBaseLevelForKey`, `LevelsForMemTableOutput` |
| `LevelDB` | `DBImpl` and `VersionSet` in memory; tables, logs and MANIFEST on disk | `Write`, `Leader` (MakeRoomForWrite, BuildBatchGroup, append, sync, insert, return), `Background` (BackgroundCall: flush, compaction, LogAndApply, DeleteObsoleteFiles, one file operation a step), `Reader`, `Crash`, `Recover`, `OpenDone`, `OpenFails` |

The modules rest on each other as the code does. `WatchList`, `SearchScreen` and
`StockScreens` take an answer to be one completion: `Networking` shows that, and
`HomeFeed` is composed with it. `StockScreens.Save` is `WatchList`'s external `Save`.
Those two and `Session` take the database to store a write or refuse it, and to show a
list its newest value: `DatabaseClient` is what that rests on, with the exceptions of
section 7.

In `DatabaseClient` a step is a block of the client's queue. The connection is a channel
each way, in order, that goes away with what is on it. The model has one location, whose
values are the writes' numbers; what an observer is shown is the latest pending write,
or else the server's data. Requests of an old connection that
reach the server after a new one is open are left out.

In `LevelDB` a step is what a thread does with the mutex held, or one file operation
without it. An entry is one operation on a key, a table the set of its entries; sizes in
bytes are left out, so every limit on them is a choice (a table may be full after any
entry, a compaction may be due for any level). A crash ends the process and keeps the
files, or the machine and takes from each log any part that was not synced. Choices
taken: one table for each log replayed; `fsync` of a new file makes its name durable; a
sync covers the log it is called on, not what was left unsynced in an earlier one;
`reuse_logs` and `paranoid_checks` are off, as the client opens it; closing the
database is a crash that loses nothing; the outputs of a compaction that failed are not
kept; a record of the MANIFEST is written whole or not at all. A log is its records, how many
are synced, how many come before a damage and whether it is damaged. Five history
variables, which no action reads for a decision of the program, serve the properties:
`committed`, `acked` and `synced` (entries made visible, of writes that returned ok, and of
synced ones), `left` (keys of which a compaction left older entries in a boundary table it did
not take) and `repeated` (an edit was written after a refused one that is on disk).

`Session` keeps three history variables, which no action reads for a decision of the
program: `inherited` (who an earlier installation left signed in), `lost` (the last
session ended without the app) and `mixed` (users whose session ended other than by
signing out, or who logged in over one another), the named exceptions of its
properties. It allows more than the program does in one place: touches may come
between a login's answer and its completion. It leaves out the error alerts, the
password reset (a mail, no state), and edits of a sign-up form while its request is
under way; only this device writes the record.

Data is abstracted to what the properties tell apart: a stock is its symbol, a
search result list is its term and length, a key-data value is the number of its
label, a logo is the stock it belongs to. Prices, news, charts, cell layout and
formatting are left out; so are the trees below a database location, and keys and values
of LevelDB beyond their order and age.

Operators marked *(Faulty: ...)* are the mutated forms that `PROJECT.json`
("mutants") puts in place of the definition below each. No specification uses them.

## 4. The runs

| Run | Bounds | Shows |
|---|---|---|
| `watchlist_overlap` | 1 symbol, 2 saves, 2 refreshes in flight, 2 appearances, 2 queued blocks, 2 rows before an append, 1 removal | group balance, the table's rows against `watchList`, the symbols' freshness, the timer |
| `watchlist_serial` | 2 symbols, 2 saves, 1 refresh at a time | no stock more often than saved; the indicator goes and a saved stock shows, unless a request fails |
| `watchlist_delete` | as serial | a swipe leaves the stored list as it was (violation) |
| `watchlist_duplicate` | as overlap | overlapping refreshes list a stock twice (violation) |
| `search` | 3 terms with 2, 1 and 0 hits, 2 requests in flight, 2 queued blocks | table and results agree when settled, the tapped row's stock opens; the text the user stops at is searched |
| `home` | 3 calls, 5 kinds of answer, 3 sections of 2 stocks | the calls implement `OneShot`, every call completes; no lookup past an array, reloads catch up, each sector comes on its own |
| `screens` | 2 stocks, 2 home screens, 1 search screen, the screens of each kind alike | no screen shows another stock's logo unless its logo request failed; no image is dropped by the app |
| `keydata_all` | 10 labels, 7 rows on the screen, all 1024 sets of nil values | a quote without nil is right in every row, home never indexes past its data, rows show the values in turn |
| `session` | 2 email users and 1 Facebook user, 2 logins under way, 1 pending write | the settings name the user signed in, a stored WatchList outlives every later login, the tabs have a user, a reinstallation signs out who was left, a login's indicator goes with it |
| `database` | 2 writes, another device's value; five budgets: two lost connections under a listen, a listen removed and made again, refusals and revocations, tokens and failing fetches, interruptions | the promise `AtLeastOnce`; the latest word stands; a confirmed value does not jump back; the connection's fields fit what is on its way; every write is answered, with the named exceptions |
| `leveldb` | 2 keys, 3 levels, a memory table of 1 entry, compaction at 1 and stop at 2 tables of level 0; six budgets of up to 4 writes, 2 writers, 2 crashes, 1 failing operation, 1 reader | reads are of the newest write, promised writes survive, levels are sorted, writers return |
| `leveldb_deleted` | 2 keys, 2 levels, compaction and stop at 1 table of level 0, 4 writes, 1 snapshot | a deleted value comes back (violation) |

Why the bounds are enough. A race needs two parties: two refreshes, two requests,
two home screens on one controller, two stocks to mix up. A queue of two blocks
holds a reload behind another block; an action that would exceed a bound waits, so
bounds remove behaviours and add none. Lengths 2, 1 and 0 let a list grow, shrink
and empty. Two logins under way and a third user let a login meet one that is answered,
one that is not and one that was left; the same run with two pending writes passes
too and takes four times as long. `keydata_all` uses the code's own ten labels and the storyboard's table
(281 points high, rows of 46, scrolling off), for every combination of nils. The
theorems of section 6 hold for every value of the constants. Symmetry is used in
`watchlist_overlap`, `screens` and `session`, which check no liveness.

`database` and `leveldb` start in any of a set of budgets instead of one large one: a
budget bounds how often each kind of trouble happens, and each combines the kinds that
meet in the code. Two writes are what it takes to be stored out of order, three values to
jump back, two losses to lose a connection while restoring what the first one cut. A
memory table of one entry makes each write a flush, and triggers of 1 and 2 make the
background thread compact level 0, and writers wait for it, within three writes; three levels let
a table be above, at and below a compaction's output; two keys let a table overlap
another or not. With a snapshot held, one key already leaves several entries of it in one
level, which is when `AddBoundaryInputs` matters.

Deadlock is not checked: a user who does nothing more, a process that stopped and
a bound reached are all legitimate ends.

## 5. Fairness

`FairSpec` has weak fairness for what the platform owes, and nothing else:
URLSession answers every request or times it out; its serial queue runs the
handlers handed to it; the main run loop runs its blocks, due timers and delayed
selectors; Firebase gives the first copy of a list. In `DatabaseClient` the client's queue
runs, the token service calls back, what the network has not lost is delivered, and the
server answers what it took; in `LevelDB` the writer at the front and the background
thread run.
The user, other devices, and the outcome of a request (success or failure) have
none: liveness properties name the failure as the way out where the code has no
retry. That is why `LoadingEndsOrFails` and `SectorShownOrFails` are stated as they
are.

Two liveness statements are about one request at a time, and say so:
`SavedIsListedOrFails` runs with one batch, and `TextIsSearched` starts from a
text entered while nothing is in flight. With more, an older answer may replace a
newer one for good: the code has no cancellation of a request sent, and nothing in
the repository promises otherwise.

## 6. Proofs

`tlapm` proves these for every value of the constants, from the constants'
assumptions alone (`ASSUME`, in the specifications; TLC evaluates them on each run).

* `WatchListProofs`: `TypeOK`, `GroupBalanced`, `QuietRowsMatch`,
  `NoTrapWhenQuiet`, `SymbolListFresh`, `RefreshRuns`. `TypeInv` adds to typing what it
  rests on: a valid timer is one that fires, requests are of keys that were wanted.
  With it `GroupBalanced` is inductive (enters and requests are made together; an
  answer turns a request into an append, whose end gives up both), and with both
  `QuietRowsMatch`: every step that changes `watchList` and ends at rest also counts
  the rows, and a refresh that is not at rest keeps a count, an append or a queued
  notify. `NoTrapWhenQuiet` follows. `EventInv` strengthens `SymbolListFresh` and
  `RefreshRuns` by: the newest value event queued carries the stored list, and a
  client that holds the list has an observer, so every change queues an event.
  `NoMoreRowsThanSaves` holds when refreshes do not overlap, and is proved for one batch: every
  list the screen works from is part of the stored one (`StoredInv`), and a stock has no more
  rows, with the one an append is about to store, than keys of the batch whose requests came to
  an end (`RowsInv`).
* `SearchScreenProofs`: `TypeOK`, `SettledAgrees`, `NoTrapWhenSettled`,
  `TapOpensShownRow`. Each assignment enqueues a reload in the same step, so
  `SettledAgrees` is inductive with typing and the two action properties follow.
* `HomeFeedProofs`, first of `Networking`, which `HomeFeed` extends: its `TypeOK`, and
  `KeepsPromise`, the refinement of `OneShot`:
  initial states map to initial states and each statement of the closure to one
  step of the promise or a stutter. The inductive invariant says that the waiting
  answers are of different calls, none handled yet, that a handler has data or an
  error but never both (the fact that makes the missing `return` after
  `completion(error)` harmless), and how far its call is at each statement. Then of the
  home tab: `HomeIsNetworking`, that with its three calls it behaves as
  `Networking` says and so keeps its promise; `HomeTypeOK`, `NeverTraps`,
  `ReloadedShowsAll`, from: no section has more rows than stocks, no cell is past its
  section's rows.
* `StockScreensProofs`: `TypeOK`, and `LogoIsOwn` for any number of screens: an
  image under way is that of the screen's stock unless its logo request failed; a
  search screen's controller only ever holds its own stock's URL. `RestShowsLogo`:
  a screen asks for an image only with a URL, and rests with the image or a failure.
  `SavedIsWritten` is inductive as it stands.
  Of the table of key data on these screens, `KeyDataTable`: `KeyDataTypeOK`,
  `CompleteIsRight`, `HomeNeverTraps`, `ShownInTurn`. A complete quote's data starts with
  all its values once it has any; on a home screen it is at least as long as the rows asked
  for. For any quote the data is its values some whole number of times over (`TurnInv`), so
  a row's value is that of its remainder.
* `SessionProofs`: `TypeOK`, `InheritedSignedOut`, `TabsHaveUser`, `HudWaits`,
  `NameIsUsers`, `ListKept`, for any number of users and logins. A login whose screen has
  not been left is the only such one and shows its indicator there; a write belongs to at
  most one Facebook login, which waits for it (so `HudWaits` is inductive). From a login's
  answer to the tabs there is a user or the session was lost. An inherited user is still to
  be signed out or could not be. The last two rest on `NamesInv`: completions wait in the order of the
  answers, a login answered while another was under way met it (`MetInv`, which makes both
  `mixed`), a sign-up that met nobody finds its user signed in without a stored list
  (`AloneInv`), and so a write that sets a record anew drops none (`SetInv`).
* `DatabaseClientProofs`: `TypeOK`, `ConnectionConsistent`, `NewestWins`,
  `ConfirmedStaysShown` and `KeepsPromise`, the refinement of `AtLeastOnce`, for any number of writes and any
  budget of troubles, and `StatesAgree` alone: what the assertions of
  `FPersistentConnection` expect. The inductive invariant `AllInv` has six parts.
  `IInv`: the states agree, and nothing is on its way unless the connection is
  authenticating or connected. `TypeInv`: types, and the listens on their way are those
  counted. `AuthInv`: a connection that authenticates has one such request or answer on
  its way, the first of its kind to be answered, and an open one has none; so `OnAuth` restores
  once per connection. `WireInv`: each outstanding put is on its way once, requests and answers
  in the order of the writes. `StatusInv`: what is outstanding is pending, and later than
  what is held back or was answered. `OkInv`: a write told, held or on its way as ok is
  settled, stored with no earlier write behind it. The last two meet in `ServerPuts`: the put the
  server takes is outstanding, so later than every settled write, and storing it unsettles
  none. `NewestWins` is a part of `OkInv`; for `KeepsPromise`, `StatusInv` gives the guard of
  `Store` and `OkInv` that of `Answer`.
  `ConfirmedStaysShown` needs, besides, what the view holds at every point of the
  answers on their way (`ViewInv`). `FreshInv`: while no listen is in a request or waits at
  the server, after any of the messages under way with no answer to a listen behind it
  (when `unackedListensCount` is zero and the program may be told) the view has each write
  with an ok held or heard so far, or something stored later. It rests on the others:
  `ServedInv`, the server pushes what it stores to such a client unless the end of the
  listen is under way; `RelistInv`, the last listen sent is the outstanding one, whose
  number no earlier one has (`NumberInv`); and for the listen that is answered without data
  because it named the value by its hash, `HashInv`: what it said of the cache is still
  so, since nothing of a listen reaches a new connection before its first answer
  (`OrderInv`). The empty value, for which no data is sent either, is only the first
  of `history` (`HistoryInv`), so no write was stored when it is the latest.

* `LevelDBFilesProofs`: `TypeOK`, for any finite or infinite set of keys, any depth,
  triggers and budgets, with crashes and failing file operations at any step. The
  actions are first put as what they do to tables, logs, MANIFEST and versions
  (`AllSteps`), and this module's and the next one's invariants are kept by each of these,
  each resting on those before.
  `TypeInv`: types, finiteness, and how far the writer at the front, the edit and the
  compaction are; in particular what each of them holds. `FilesInv`: numbers in use are below
  the next one, in memory and in the MANIFEST (so recovery, which replays logs to tables of
  new numbers, overwrites nothing), and all that a version, an edit, a compaction, an
  iterator or a recovery needs is in the directory, which is what `DeleteObsoleteFiles` has to
  leave. `EntriesInv`: a key has one entry of a number in tables, memory tables,
  readable logs and the group being written, none is beyond the last number, and no table is
  empty; so `Before` orders them, and each table has a first and a last entry. What would be an
  induction over data, such as that a finite set of numbers has a largest, takes a minimal
  element of a well-founded order instead (`WFMin`).
* `LevelDBProofs`, on these: `LevelsSorted`, `ReadsLatest` and `Durable`. Their exception is
  `repeated`, as in the run. `OrderInv`: the current version, the one after the edit under way and the
  MANIFEST's are in order, and a compaction has taken every table of its two levels that reaches
  between its inputs, still so after a flush in the middle of it, whose table went below level 0
  only where nothing overlaps. That the inputs are so (`Whole`, `Fits`) is the work of lemmas
  about `GetOverlappingInputs` and `AddBoundaryInputs`, which the model defines as smallest
  closed sets; `LevelsSorted` is a part of it. For `ReadsLatest`, `LookupFinds` says that where
  newer entries of a key are in memory above tables, in upper levels above lower ones, and in
  level 0 in tables of larger numbers, the first entry a lookup meets is the latest of all.
  That they are there is `MemoryInv` (a log is newer than the tables and logs made before it,
  and holds its memory table) and `AgedInv` (each version is in that order, and what a
  compaction takes is the oldest of its upper level, `InputsOldest`: the boundary tables are
  what it needs below level 0). `CoverInv`: what the database, a snapshot or a reader looks at
  shows of each key the latest committed entry, or has none when that is a deletion. A
  compaction keeps this because what it drops is hidden, or is a deletion with nothing older
  anywhere in the version (`NothingOlder`), but for the keys it leaves older entries of, which
  `left` collects.
  For `Durable`, `WritesInv`: a log is read whole where no record failed half-way, and a group
  with a synced writer is on disk before it is inserted, because `BuildBatchGroup` lets no
  synced write join one that is not. `KeptInv`: a write that returned ok is in what recovery
  surely reads of the logs, or an entry of its key no older is in a table the MANIFEST names,
  or a committed deletion no older is older than all that recovery may read of the key; and
  what was promised of a log in use is in its memory table (`AckedHeld`). That last part is
  what a flush needs: when the MANIFEST gives up a log, the table it names in the same edit
  holds all that was promised there (`FlushPromises`). The deletion is what a compaction needs:
  what it drops was hidden by an entry it keeps, or was a deletion with nothing older left
  (`CompactKeeps`). A recovery promises what it read, and its edit names all of it.

`NoTrapWhenQuiet`, `NoTrapWhenSettled`, `SavedIsWritten`, `HomeTypeOK`, `KeyDataTypeOK` and the
`TypeOK` of `Networking` are proved and no run checks them.

Model-checked only: all liveness (out of this prover's reach).

## 7. What the code does against its own words

The violating runs show these; each quotes its line in `PROJECT.json`.

* A swiped watch-list row is not removed: the child named is the quote's symbol,
  and children are stored under automatic keys
  (`ProfileTableViewController.swift:154`, `:96`).
* Overlapping refreshes fill one array, so a stock is listed twice
  (`ProfileTableViewController.swift:155`).
* LevelDB: a compaction takes the boundary tables of the level it compacts, and none of the
  level it writes to (`version_set.cc:1410`). A table there that begins with older entries of
  the inputs' last key stays behind, and when the compaction drops a deletion of that key a
  read finds the deleted value (`leveldb_deleted`).

More are visible in the models, where the weaker statement that does hold is what the
runs check. A quote with a nil value shows the values after it under other labels
(`HomeStockDetailViewController.swift:190`, `ResultsViewController.swift:194`): with all
values there each row is right (`CompleteIsRight`), else the rows show the values in
turn (`ShownInTurn`). A failed request of a refresh skips `leave()` and the indicator stays
(`LoadingEndsOrFails`). "Stock Saved!" is shown before the server has decided
(`SavedIsWritten`). `stockLogoURL!` is unwrapped after a first request that failed
(`HomeStockDetailViewController.swift:225`, `ResultsViewController.swift:266`; `LogoTraps`).
A search screen opened without a user stops the process when its save
button is tapped (`SaveTraps`).

Three of the session are the exceptions its properties name. A Facebook login one of
whose steps fails returns without dismissing the indicator, and the welcome screen
stays blocked (`HudWaits`). The name in `UserDefaults` is removed by the sign-out
button alone, so it outlives a session the server ended, and a process that stops
between `signOut` and the removal (`NameIsUsers`). A sign-up's record is written for
whoever is signed in when its completion runs (`ListKept`).

Three of the database client. Answers held back for a listen's data when the connection
was lost (`FPersistentConnection.m:374` zeroes the count, the answers stay) come with
the next listen's, maybe after a later write's; if the listen has been removed they never
come, though a completion block is to be called once the write is committed
(`FIRDatabaseReference.h:97`): the case `Stranded` of `EveryWriteAnswered`. A forced
refresh of the token is forgotten when its fetch fails or a visit to the foreground
reschedules it; the next refusal forces it again. `purgeOutstandingWrites`, which the
app does not call, removes every write from the sync tree and then lets held answers
remove them once more, which `FWriteTree.m:147` asserts cannot happen.

Two more of LevelDB. After an append that failed half-way it goes on with the same log, whose
reader stops at the damage, so later writes to that log may be lost although they returned
ok. `Durable` names them as its exception. And a flush refused in the middle of a compaction
is tried again (`db_impl.cc:908` does not look at the error), while the refused edit may be on
disk: the MANIFEST then names two tables of one memory table, which may overlap below level 0,
against "Must not overlap" (`version_set.cc:747`). The history variable `repeated` tells of
such a MANIFEST, and is the exception of `LevelsSorted`, `ReadsLatest` and `Durable`; `left`, the
keys of the violating run above, is that of the last two.

## 8. Not modelled

* The onboarding's page index: one number, counted by the next button and set when UIKit
  says a swipe is done. Whether UIKit calls back after a cancelled animation decides whether
  the two agree, and that is not in the source. `Session` has the onboarding as the screen it
  presents. The modules other than `Session` take from it that a user may be signed out at any
  time (`SignOut`, `LoseSession`).
* `SectorController` and `StockController.fetchSector` have no caller.
* Analyze and news screens, cells and styling: no state of their own.
* Torn reads of a struct: `quote` is assigned on the session's queue while the main
  thread may copy it. The language defines no outcome; the modules take the
  assignment of one field as atomic, and list the hazard.
* Of the database client: transactions, `onDisconnect` writes, queries and tags,
  `purgeOutstandingWrites` and persistence, none of which the app uses; the merging of
  trees below one location; the raising of events on the main queue (`WatchList` has
  it, as an event that comes later than its change).
* Of LevelDB: `CompactRange`, which nothing calls; the bytes of tables, blocks, filters
  and the cache; a MANIFEST record written half-way.
* The other libraries below `Pods`: Firebase Auth and Core, Facebook, Charts, GTMSessionFetcher,
  nanopb, indicators. What the app relies on is external in the modules. Nearly all C, C++
  and header files of the repository are there, about 61 700 lines, and of those the app
  reaches little: the map covers LevelDB's, and otherwise names Swift and Objective-C files.
