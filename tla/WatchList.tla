------------------------------ MODULE WatchList ------------------------------
(***************************************************************************)
(* The Profile tab's watch list: ProfileTableViewController, the batch     *)
(* requests it makes through ProfileController and DataGetter, and (as     *)
(* external parts) the Firebase node users/<uid>/WatchList and the main    *)
(* dispatch queue.                                                         *)
(*                                                                         *)
(* Three threads of control meet here.  The main queue runs Firebase's     *)
(* value events, the reload of a finished refresh, alerts, the timer and   *)
(* the user's touches.  The URL session's serial queue runs the answers of *)
(* the requests and appends to `watchList' with no synchronisation, so an  *)
(* append is two steps here: it reads the array, and later stores it.      *)
(* The server and the user's other devices change the stored list.         *)
(*                                                                         *)
(* A behaviour is one run of the process: Init allows every stored list.   *)
(* `trapped' is the end of a process that Swift or UIKit stopped.          *)
(***************************************************************************)
EXTENDS Naturals, Sequences, FiniteSets, SequencesExt

CONSTANTS
    Symbols,        \* stock symbols, numbered in the order of their company names
    Batches,        \* slots for refreshes in flight at the same time
    MaxSaves,       \* bound: children ever stored under WatchList
    MaxObservers,   \* bound: times the screen appears
    MaxQueue,       \* bound: blocks waiting in the main queue
    MaxRows,        \* bound: rows an append may find in `watchList'
    MaxRemovals,    \* bound: removals the server has not answered
    ScreenRows      \* rows the table shows without scrolling

ASSUME SymbolsAssumption == Symbols \subseteq Nat
ASSUME BoundsAssumption ==
    /\ MaxSaves \in Nat /\ MaxObservers \in Nat /\ MaxQueue \in Nat
    /\ MaxRows \in Nat /\ MaxRemovals \in Nat /\ ScreenRows \in Nat

VARIABLES
    db,         \* the stored list: childByAutoId key -> "stock symbol"
    saves,      \* keys handed out so far
    primed,     \* the client holds the server's copy of the list
    signedIn,   \* Auth.auth().currentUser is not nil
    visible,    \* between viewWillAppear and viewDidDisappear
    alert,      \* an alert covers the screen
    hud,        \* the "Loading Watchlist..." indicator blocks touches
    observers,  \* ref.observe(.value) registrations; none is ever removed
    mainQueue,  \* blocks waiting for the main thread, first in first out
    symbolList, \* the snapshot the symbols were read from
    watchList,  \* the rows' model
    timers,     \* repeating timers that still fire
    timerValid, \* `timer' refers to one of them
    batches,    \* the refreshes' requests and dispatch groups
    appending,  \* the append in progress on the session queue, if any
    rows,       \* rows the table view believes it has
    removals,   \* removals the server has not answered
    app

vars == <<db, saves, primed, signedIn, visible, alert, hud, observers, mainQueue,
          symbolList, watchList, timers, timerValid, batches, appending, rows,
          removals, app>>

-----------------------------------------------------------------------------
\* Data.

AutoId(n) == <<"autoId", n>>        \* the n-th key childByAutoId() makes
SymbolId(s) == <<"symbol", s>>      \* a symbol used as a key

Keys == {AutoId(n) : n \in 1..MaxSaves}
Lists == UNION {[K -> Symbols] : K \in SUBSET Keys}

UserStocks == [id : {SymbolId(s) : s \in Symbols}, stockSymbol : Symbols]

(* The row made of the answer to the request for the child `key': its id is the
   quote's symbol.  Prices and names are left out. *)
UserStockFor(key, symbol) == [id |-> SymbolId(symbol), stockSymbol |-> symbol]

ValueBlock(list) == [kind |-> "value", snapshot |-> list]
NoList == [k \in {} |-> k]
NotifyBlock(b) == [kind |-> "notify", batch |-> b]
AlertBlock == [kind |-> "alert"]

Blocks == [kind : {"value"}, snapshot : Lists]
            \cup [kind : {"notify"}, batch : Batches]
            \cup [kind : {"alert"}]

Idle == [wanted |-> NoList, pending |-> {}, count |-> 0]

Appends == [batch : Batches, row : UserStocks, base : Seq(UserStocks)]

With(list, key, symbol) ==
    [k \in DOMAIN list \cup {key} |-> IF k = key THEN symbol ELSE list[k]]
Without(list, key) == [k \in DOMAIN list \ {key} |-> list[k]]

\* One value event for every registration, when the client can compute it.
Events(list, raised) ==
    IF raised THEN [i \in 1..observers |-> ValueBlock(list)] ELSE <<>>

Occurrences(list, row) == Cardinality({i \in DOMAIN list : list[i] = row})

IsSortOf(sorted, list) ==
    /\ \A i, j \in DOMAIN sorted : i < j => sorted[i].stockSymbol <= sorted[j].stockSymbol
    /\ \A i \in DOMAIN list : Occurrences(sorted, list[i]) = Occurrences(list, list[i])

Enqueue(block) ==
    /\ Len(mainQueue) < MaxQueue
    /\ mainQueue' = Append(mainQueue, block)

(* The faulty variants that follow are what the mutants of PROJECT.json put in
   place of the definition after them; no specification uses one. *)

\* Refilling `symbolList' without clearing what an earlier event left: first wins.
RefillOnce(snapshot) ==
    symbolList' = IF DOMAIN symbolList = {} THEN snapshot ELSE symbolList
\* symbolList.removeAll(), then every child's symbol.
Refill(snapshot) == symbolList' = snapshot

\* Another repeating timer, whatever `timer' refers to.
ScheduleTimer == timers' = timers + 1 /\ timerValid' = TRUE

\* Invalidating without looking whether `timer' still fires.
InvalidateAny == timers' = timers - 1 /\ timerValid' = FALSE
\* timer?.invalidate(): a timer already invalid stays so.
Invalidate ==
    /\ timers' = IF timerValid THEN timers - 1 ELSE timers
    /\ timerValid' = FALSE

\* One enter per distinct symbol.
EntersDistinct(list) == Cardinality(Range(list))
\* The enters of one refresh: one per symbol of the list.
Enters(list) == Cardinality(DOMAIN list)

\* The old rows stay.
KeepRows == UNCHANGED watchList
\* watchList.removeAll()
ClearRows == watchList' = <<>>

\* A reload only while the indicator is up.
ReloadFirst == rows' = IF hud THEN Len(watchList) ELSE rows
\* tableView.reloadData()
Reload == rows' = Len(watchList)

\* The indicator stays.
KeepHud == UNCHANGED hud
\* hud.dismiss()
DismissHud == hud' = FALSE

\* An observer for the first appearance only.
ObserveOnce ==
    /\ observers' = IF observers = 0 THEN 1 ELSE observers
    /\ UNCHANGED mainQueue
\* ref.observe(.value): a client that holds the list queues its first event at once.
Observe ==
    /\ observers' = observers + 1
    /\ IF primed THEN Enqueue(ValueBlock(db)) ELSE UNCHANGED mainQueue

\* Leaving the group for the last time submits its notify block.
Leave(b, batch) ==
    /\ batches' = [batches EXCEPT ![b] = batch]
    /\ IF batch.count = 0 THEN Enqueue(NotifyBlock(b)) ELSE UNCHANGED mainQueue

AppendsOf(b) == {a \in appending : a.batch = b}

Running == app = "running"

\* The user's touches reach the table.
Touchable == Running /\ visible /\ ~hud /\ ~alert

Trap == app' = "trapped"

-----------------------------------------------------------------------------
Init ==
    /\ saves \in 0..MaxSaves
    /\ db \in [{AutoId(n) : n \in 1..saves} -> Symbols]
    /\ primed = FALSE
    /\ signedIn = TRUE
    /\ visible = FALSE
    /\ alert = FALSE
    /\ hud = FALSE
    /\ observers = 0
    /\ mainQueue = <<>>
    /\ symbolList = NoList
    /\ watchList = <<>>
    /\ timers = 0
    /\ timerValid = FALSE
    /\ batches = [b \in Batches |-> Idle]
    /\ appending = {}
    /\ rows = 0
    /\ removals = 0
    /\ app = "running"

-----------------------------------------------------------------------------
\* The screen comes and goes.

(* viewWillAppear: the indicator is shown before the check of the user, and
   every appearance registers another observer. *)
Appear ==
    /\ Running
    /\ ~visible
    /\ observers < MaxObservers
    /\ visible' = TRUE
    /\ hud' = TRUE
    /\ IF signedIn
       THEN Observe
       ELSE UNCHANGED <<observers, mainQueue>>
    /\ UNCHANGED <<db, saves, primed, signedIn, alert, symbolList, watchList, timers,
                   timerValid, batches, appending, rows, removals, app>>

(* viewDidDisappear invalidates the one timer `timer' refers to.  The tab bar
   stays outside the indicator, an alert covers it. *)
Disappear ==
    /\ Running
    /\ visible
    /\ ~alert
    /\ visible' = FALSE
    /\ Invalidate
    /\ UNCHANGED <<db, saves, primed, signedIn, alert, hud, observers, mainQueue,
                   symbolList, watchList, batches, appending, rows, removals, app>>

\* The user dismisses the alert.
DismissAlert ==
    /\ Running
    /\ alert
    /\ alert' = FALSE
    /\ UNCHANGED <<db, saves, primed, signedIn, visible, hud, observers, mainQueue,
                   symbolList, watchList, timers, timerValid, batches, appending, rows,
                   removals, app>>

\* currentUser becomes nil: the Settings sheet signs out, or the token is revoked.
SignOut ==
    /\ Running
    /\ signedIn
    /\ signedIn' = FALSE
    /\ UNCHANGED <<db, saves, primed, visible, alert, hud, observers, mainQueue,
                   symbolList, watchList, timers, timerValid, batches, appending, rows,
                   removals, app>>

-----------------------------------------------------------------------------
\* The stored list.

\* The server's copy arrives for the first observer; all of them are told.
ServerData ==
    /\ Running
    /\ signedIn
    /\ observers > 0
    /\ ~primed
    /\ Len(mainQueue) + observers <= MaxQueue
    /\ primed' = TRUE
    /\ mainQueue' = mainQueue \o Events(db, TRUE)
    /\ UNCHANGED <<db, saves, signedIn, visible, alert, hud, observers, symbolList,
                   watchList, timers, timerValid, batches, appending, rows, removals,
                   app>>

\* A detail screen of this or another device stores a child under a new key.
Save(symbol) ==
    /\ Running
    /\ signedIn
    /\ saves < MaxSaves
    /\ Len(mainQueue) + observers <= MaxQueue
    /\ saves' = saves + 1
    /\ db' = With(db, AutoId(saves + 1), symbol)
    /\ mainQueue' = mainQueue \o Events(db', primed)
    /\ UNCHANGED <<primed, signedIn, visible, alert, hud, observers, symbolList,
                   watchList, timers, timerValid, batches, appending, rows, removals,
                   app>>

(* The observer's block.  A list with children replaces `symbolList' and starts
   another repeating timer, whatever `timer' held; an empty one only dismisses
   the indicator. *)
HandleValue ==
    /\ Running
    /\ mainQueue # <<>>
    /\ Head(mainQueue).kind = "value"
    /\ mainQueue' = Tail(mainQueue)
    /\ IF DOMAIN Head(mainQueue).snapshot # {}
       THEN /\ Refill(Head(mainQueue).snapshot)
            /\ ScheduleTimer
            /\ UNCHANGED hud
       ELSE /\ DismissHud
            /\ UNCHANGED <<symbolList, timers, timerValid>>
    /\ UNCHANGED <<db, saves, primed, signedIn, visible, alert, observers, watchList,
                   batches, appending, rows, removals, app>>

-----------------------------------------------------------------------------
\* A refresh.

(* fireTimer: clears the rows' model, enters the group once per symbol and
   sends the requests.  A slot is free when its requests are answered and its
   notify block has run. *)
FireTimer(b) ==
    /\ Running
    /\ timers > 0
    /\ batches[b].pending = {}
    /\ AppendsOf(b) = {}
    /\ NotifyBlock(b) \notin Range(mainQueue)
    /\ ClearRows
    /\ Leave(b, [wanted |-> symbolList, pending |-> DOMAIN symbolList,
                 count |-> Enters(symbolList)])
    /\ UNCHANGED <<db, saves, primed, signedIn, visible, alert, hud, observers,
                   symbolList, timers, timerValid, appending, rows, removals, app>>

\* An answer decodes: the session queue reads `watchList' to append a row.
BeginAppend(b, k) ==
    /\ Running
    /\ appending = {}
    /\ k \in batches[b].pending
    /\ Len(watchList) < MaxRows
    /\ batches' = [batches EXCEPT ![b].pending = @ \ {k}]
    /\ appending' = {[batch |-> b, row |-> UserStockFor(k, batches[b].wanted[k]),
                      base |-> watchList]}
    /\ UNCHANGED <<db, saves, primed, signedIn, visible, alert, hud, observers,
                   mainQueue, symbolList, watchList, timers, timerValid, rows,
                   removals, app>>

\* It stores the longer array, over whatever the main thread did, and leaves.
EndAppend ==
    /\ Running
    /\ \E a \in appending :
        /\ watchList' = Append(a.base, a.row)
        /\ Leave(a.batch, [batches[a.batch] EXCEPT !.count = @ - 1])
    /\ appending' = {}
    /\ UNCHANGED <<db, saves, primed, signedIn, visible, alert, hud, observers,
                   symbolList, timers, timerValid, rows, removals, app>>

\* The other outcome of two unsynchronised writes: the array's storage is gone.
RaceTrap ==
    /\ Running
    /\ \E a \in appending : a.base # watchList
    /\ Trap
    /\ UNCHANGED <<db, saves, primed, signedIn, visible, alert, hud, observers,
                   mainQueue, symbolList, watchList, timers, timerValid, batches,
                   appending, rows, removals>>

\* A request fails, or its answer does not decode: an alert, and no leave.
FetchFails(b, k) ==
    /\ Running
    /\ appending = {}
    /\ k \in batches[b].pending
    /\ batches' = [batches EXCEPT ![b].pending = @ \ {k}]
    /\ Enqueue(AlertBlock)
    /\ UNCHANGED <<db, saves, primed, signedIn, visible, alert, hud, observers,
                   symbolList, watchList, timers, timerValid, appending, rows,
                   removals, app>>

\* The group's notify block: sort, dismiss the indicator, reload the table.
HandleNotify ==
    /\ Running
    /\ mainQueue # <<>>
    /\ Head(mainQueue).kind = "notify"
    /\ mainQueue' = Tail(mainQueue)
    /\ \E sorted \in [DOMAIN watchList -> Range(watchList)] :
        /\ IsSortOf(sorted, watchList)
        /\ watchList' = sorted
    /\ DismissHud
    /\ Reload
    /\ UNCHANGED <<db, saves, primed, signedIn, visible, alert, observers, symbolList,
                   timers, timerValid, batches, appending, removals, app>>

\* showAlert: a screen that is not in the window presents nothing.
HandleAlert ==
    /\ Running
    /\ mainQueue # <<>>
    /\ Head(mainQueue).kind = "alert"
    /\ mainQueue' = Tail(mainQueue)
    /\ alert' = (alert \/ visible)
    /\ UNCHANGED <<db, saves, primed, signedIn, visible, hud, observers, symbolList,
                   watchList, timers, timerValid, batches, appending, rows, removals,
                   app>>

-----------------------------------------------------------------------------
\* The user's touches.

(* Scrolling makes cellForRowAt index `watchList' with a row of the table: it
   stops the process past the end, or when the append moves the array. *)
ScrollTraps ==
    /\ Touchable
    /\ rows > ScreenRows
    /\ rows > Len(watchList) \/ appending # {}
    /\ Trap
    /\ UNCHANGED <<db, saves, primed, signedIn, visible, alert, hud, observers,
                   mainQueue, symbolList, watchList, timers, timerValid, batches,
                   appending, rows, removals>>

\* Swiping a row away whose index `watchList' no longer has.
DeletePastEnd ==
    /\ Touchable
    /\ signedIn
    /\ rows > Len(watchList)
    /\ Trap
    /\ UNCHANGED <<db, saves, primed, signedIn, visible, alert, hud, observers,
                   mainQueue, symbolList, watchList, timers, timerValid, batches,
                   appending, rows, removals>>

(* Swiping row i away: the child named by the row's id is removed, the row is
   removed, and deleteRows stops the process when the table then counts wrong. *)
DeleteRow(i) ==
    /\ Touchable
    /\ signedIn
    /\ removals < MaxRemovals
    /\ i <= rows
    /\ db' = Without(db, watchList[i].id)
    /\ Len(mainQueue) + observers <= MaxQueue
    /\ mainQueue' = mainQueue \o Events(db', primed /\ db' # db)
    /\ removals' = removals + 1
    /\ watchList' = RemoveAt(watchList, i)
    /\ IF rows = Len(watchList)
       THEN rows' = rows - 1 /\ UNCHANGED app
       ELSE Trap /\ UNCHANGED rows
    /\ UNCHANGED <<saves, primed, signedIn, visible, alert, hud, observers, symbolList,
                   timers, timerValid, batches, appending>>

\* The server answers a removal; a refusal queues an alert.
RemovalAnswered ==
    /\ Running
    /\ removals > 0
    /\ removals' = removals - 1
    /\ Enqueue(AlertBlock) \/ UNCHANGED mainQueue
    /\ UNCHANGED <<db, saves, primed, signedIn, visible, alert, hud, observers,
                   symbolList, watchList, timers, timerValid, batches, appending, rows,
                   app>>

-----------------------------------------------------------------------------
Answer(b) == \E k \in batches[b].pending : BeginAppend(b, k) \/ FetchFails(b, k)

Next ==
    \/ Appear
    \/ Disappear
    \/ DismissAlert
    \/ SignOut
    \/ ServerData
    \/ \E symbol \in Symbols : Save(symbol)
    \/ HandleValue
    \/ \E b \in Batches : FireTimer(b) \/ Answer(b)
    \/ EndAppend
    \/ RaceTrap
    \/ HandleNotify
    \/ HandleAlert
    \/ ScrollTraps
    \/ DeletePastEnd
    \/ \E i \in DOMAIN watchList : DeleteRow(i)
    \/ RemovalAnswered

Spec == Init /\ [][Next]_vars

(* The main run loop empties its queue and fires due timers; every request and
   the first read of the list are answered; an append that began ends.  The
   user, the other devices and the removals' answers owe nothing. *)
Fairness ==
    /\ WF_vars(ServerData)
    /\ WF_vars(HandleValue)
    /\ WF_vars(HandleNotify)
    /\ WF_vars(HandleAlert)
    /\ WF_vars(EndAppend)
    /\ \A b \in Batches : WF_vars(FireTimer(b)) /\ WF_vars(Answer(b))

FairSpec == Spec /\ Fairness

-----------------------------------------------------------------------------
\* Properties.

\* The variables' types.
TypeOK ==
    /\ db \in Lists
    /\ saves \in 0..MaxSaves
    /\ primed \in BOOLEAN
    /\ signedIn \in BOOLEAN
    /\ visible \in BOOLEAN
    /\ alert \in BOOLEAN
    /\ hud \in BOOLEAN
    /\ observers \in Nat
    /\ mainQueue \in Seq(Blocks)
    /\ symbolList \in Lists
    /\ watchList \in Seq(UserStocks)
    /\ timers \in Nat
    /\ timerValid \in BOOLEAN
    /\ batches \in [Batches -> [wanted : Lists, pending : SUBSET Keys, count : Nat]]
    /\ appending \subseteq Appends
    /\ rows \in Nat
    /\ removals \in Nat
    /\ app \in {"running", "trapped"}

\* A failed request took the group's last chance to reach zero with it.
Dead(b) == batches[b].count > Cardinality(batches[b].pending) + Cardinality(AppendsOf(b))

Queued(kind) == \E i \in DOMAIN mainQueue : mainQueue[i].kind = kind

(* No refresh is under way: no request, append or reload is outstanding, and
   none was lost to a failure. *)
Quiet ==
    /\ appending = {}
    /\ \A b \in Batches : batches[b].count = 0
    /\ ~Queued("notify")

(* fireTimer's group is entered for every leave still to come, so that no
   interleaving of the answers of overlapping refreshes leaves it once too
   often (which stops the process). *)
GroupBalanced ==
    \A b \in Batches :
        Cardinality(batches[b].pending) + Cardinality(AppendsOf(b)) <= batches[b].count

(* At rest the table's row count is the count of the rows' model, whatever
   refreshes overlapped, failed or raced before: every path that changes
   `watchList' in fireTimer or the swipe ends in a reload or adjusts the rows. *)
QuietRowsMatch == (Running /\ Quiet) => rows = Len(watchList)

(* A touch never stops the process at rest: cellForRowAt and the swipe index a
   row that exists, so the traps need a refresh in flight (or a failed one). *)
NoTrapWhenQuiet == [][app' = "trapped" => ~Quiet]_vars

(* A visible screen whose list is known and not empty keeps refreshing, or is
   about to: leaving and coming back (which invalidates one timer of several
   and registers one more observer) never leaves the screen without a timer
   that viewDidDisappear can reach. *)
RefreshRuns ==
    (visible /\ signedIn /\ primed /\ DOMAIN db # {} /\ ~Queued("value")) => timerValid

(* With the observers' events delivered, the symbols the next refresh asks for
   are those of the stored list: an older snapshot never overwrites a newer. *)
SymbolListFresh ==
    (primed /\ DOMAIN db # {} /\ ~Queued("value")) => symbolList = db

(* The rows never show a stock more often than it was saved, when each refresh
   is answered before the next one starts (one batch). *)
NoMoreRowsThanSaves ==
    \A s \in Symbols :
        Cardinality({i \in DOMAIN watchList : watchList[i].stockSymbol = s})
            <= Cardinality({k \in DOMAIN db : db[k] = s})

Stopped == ~Running \/ ~visible \/ ~signedIn

(* The loading indicator goes away while the screen stays up, unless a request
   of a refresh fails. *)
LoadingEndsOrFails ==
    (hud /\ visible) ~> (~hud \/ Stopped \/ \E b \in Batches : Dead(b))

(* A stored stock is shown by the visible screen in the end, unless a request
   fails: a save on another device reaches the table without a touch. *)
Listed(k) ==
    /\ rows = Len(watchList)
    /\ \E i \in DOMAIN watchList : watchList[i].stockSymbol = db[k]
SavedIsListedOrFails ==
    \A k \in Keys :
        (k \in DOMAIN db /\ visible)
            ~> (Stopped \/ (k \in DOMAIN db /\ Listed(k)) \/ \E b \in Batches : Dead(b))

-----------------------------------------------------------------------------
\* What the code says of itself and does not do.

(* "Child correctly removed" (ProfileTableViewController.swift:104): swiping a
   row away removes its child from the stored list. *)
DeleteRemovesChild == [][\A i \in DOMAIN watchList : DeleteRow(i) => db' # db]_vars

(* "stock saved in watchlist" (UserStock.swift:11): a row stands for a saved
   stock, also when refreshes overlap (several batches). *)
RowsAreSavedStocks == NoMoreRowsThanSaves

=============================================================================
