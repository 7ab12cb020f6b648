---------------------------- MODULE SearchScreen ----------------------------
(***************************************************************************)
(* The Search tab: SearchViewController and the requests it makes through  *)
(* StockController.searchStock.                                            *)
(*                                                                         *)
(* Typing schedules one request half a second later (perform after delay)  *)
(* and cancels the one scheduled before; a request already sent is never   *)
(* cancelled, so answers come in any order.  An answer replaces            *)
(* `searchResults' on the session's queue, in the middle of whatever the   *)
(* main thread does, and only then dispatches the table's reload.          *)
(***************************************************************************)
EXTENDS Naturals, Sequences

CONSTANTS
    Terms,      \* texts a user types
    Blank,      \* the empty text
    Hits,       \* how many stocks the server finds for a term
    Slots,      \* bound: requests in flight at the same time
    MaxQueue,   \* bound: blocks waiting in the main queue
    ScreenRows  \* rows the table shows without scrolling

ASSUME BlankAssumption == Blank \notin Terms
ASSUME HitsAssumption == Hits \in [Terms -> Nat]
ASSUME BoundsAssumption == MaxQueue \in Nat /\ ScreenRows \in Nat

VARIABLES
    text,           \* searchBar.text
    editing,        \* the search bar is first responder
    showsCancel,    \* searchBar.showsCancelButton
    enteredText,
    scheduled,      \* a makeSearchRequest waits for its delay
    requests,       \* the requests in flight: slot -> term, or Blank
    assigning,      \* the results an answer is storing, if any
    searchResults,
    mainQueue,      \* "reload" and "alert" blocks
    shown,          \* the results the table was last reloaded with
    alert,          \* an alert covers the screen
    opened,         \* the row whose stock ResultsViewController shows, if any
    app

vars == <<text, editing, showsCancel, enteredText, scheduled, requests, assigning,
          searchResults, mainQueue, shown, alert, opened, app>>

-----------------------------------------------------------------------------
\* (Faulty: the last index taken for the count.)
LastIndexFor(term) == [term |-> term, count |-> Hits[term] - 1]
\* A list of results is the term it answers and how many stocks it holds.
ResultsFor(term) == [term |-> term, count |-> Hits[term]]
NoResults == [term |-> Blank, count |-> 0]
Results == [term : Terms \cup {Blank}, count : Nat]

Running == app = "running"
Touchable == Running /\ opened = {} /\ ~alert
Trap == app' = "trapped"

Enqueue(block) ==
    /\ Len(mainQueue) < MaxQueue
    /\ mainQueue' = Append(mainQueue, block)

Queued(block) == \E i \in DOMAIN mainQueue : mainQueue[i] = block

Init ==
    /\ text = Blank
    /\ editing = FALSE
    /\ showsCancel = FALSE
    /\ enteredText = Blank
    /\ scheduled = FALSE
    /\ requests = [slot \in Slots |-> Blank]
    /\ assigning = {}
    /\ searchResults = NoResults
    /\ mainQueue = <<>>
    /\ shown = NoResults
    /\ alert = FALSE
    /\ opened = {}
    /\ app = "running"

-----------------------------------------------------------------------------
\* The search bar.

BeginEditing ==
    /\ Touchable
    /\ ~editing
    /\ editing' = TRUE
    /\ showsCancel' = TRUE
    /\ UNCHANGED <<text, enteredText, scheduled, requests, assigning, searchResults,
                   mainQueue, shown, alert, opened, app>>

\* (Faulty: a request already scheduled keeps the text it was scheduled for.)
EnterOnce(newText) ==
    /\ enteredText' = IF scheduled THEN enteredText ELSE newText
    /\ scheduled' = TRUE
\* The request scheduled before is cancelled, one for the new text scheduled.
Enter(newText) ==
    /\ enteredText' = newText
    /\ scheduled' = TRUE

ChangeText(newText) ==
    /\ Touchable
    /\ editing
    /\ newText # text
    /\ text' = newText
    /\ Enter(newText)
    /\ UNCHANGED <<editing, showsCancel, requests, assigning, searchResults, mainQueue,
                   shown, alert, opened, app>>

(* The cancel button empties the bar.  A text set by the program is no change the
   delegate hears of: what is scheduled stays scheduled. *)
ClickCancel ==
    /\ Touchable
    /\ showsCancel
    /\ text' = Blank
    /\ showsCancel' = FALSE
    /\ editing' = FALSE
    /\ UNCHANGED <<enteredText, scheduled, requests, assigning, searchResults,
                   mainQueue, shown, alert, opened, app>>

ClickSearch ==
    /\ Touchable
    /\ editing
    /\ editing' = FALSE
    /\ showsCancel' = FALSE
    /\ UNCHANGED <<text, enteredText, scheduled, requests, assigning, searchResults,
                   mainQueue, shown, alert, opened, app>>

\* A tap beside the bar ends editing and leaves the cancel button.
DismissKeyboard ==
    /\ Touchable
    /\ editing
    /\ editing' = FALSE
    /\ UNCHANGED <<text, showsCancel, enteredText, scheduled, requests, assigning,
                   searchResults, mainQueue, shown, alert, opened, app>>

-----------------------------------------------------------------------------
\* Requests and answers.

\* The delay is over and there is nothing to search.
SearchBlank ==
    /\ Running
    /\ scheduled
    /\ enteredText = Blank
    /\ scheduled' = FALSE
    /\ UNCHANGED <<text, editing, showsCancel, enteredText, requests, assigning,
                   searchResults, mainQueue, shown, alert, opened, app>>

MakeSearchRequest(slot) ==
    /\ Running
    /\ scheduled
    /\ enteredText # Blank
    /\ requests[slot] = Blank
    /\ scheduled' = FALSE
    /\ requests' = [requests EXCEPT ![slot] = enteredText]
    /\ UNCHANGED <<text, editing, showsCancel, enteredText, assigning, searchResults,
                   mainQueue, shown, alert, opened, app>>

\* An answer decodes; the session queue starts replacing `searchResults'.
BeginAssign(slot) ==
    /\ Running
    /\ assigning = {}
    /\ requests[slot] # Blank
    /\ assigning' = {ResultsFor(requests[slot])}
    /\ requests' = [requests EXCEPT ![slot] = Blank]
    /\ UNCHANGED <<text, editing, showsCancel, enteredText, scheduled, searchResults,
                   mainQueue, shown, alert, opened, app>>

\* (Faulty: only a list that finds something is worth a reload.)
RequestReloadOfHits ==
    IF searchResults'.count > 0 THEN Enqueue("reload") ELSE UNCHANGED mainQueue
\* DispatchQueue.main.async { self.tableView.reloadData() }
RequestReload == Enqueue("reload")

EndAssign ==
    /\ Running
    /\ \E results \in assigning : searchResults' = results
    /\ assigning' = {}
    /\ RequestReload
    /\ UNCHANGED <<text, editing, showsCancel, enteredText, scheduled, requests, shown,
                   alert, opened, app>>

\* The request fails, or its answer does not decode.
SearchFails(slot) ==
    /\ Running
    /\ assigning = {}
    /\ requests[slot] # Blank
    /\ requests' = [requests EXCEPT ![slot] = Blank]
    /\ Enqueue("alert")
    /\ UNCHANGED <<text, editing, showsCancel, enteredText, scheduled, assigning,
                   searchResults, shown, alert, opened, app>>

Answer(slot) == BeginAssign(slot) \/ SearchFails(slot)

\* (Faulty: a reload for a list that shrank is left out.)
ReloadLonger == shown' = IF searchResults.count < shown.count THEN shown ELSE searchResults
\* numberOfRowsInSection and cellForRowAt, for the rows on the screen.
Reload == shown' = searchResults

\* While an answer is storing, the table reads the list it replaces, or a freed one.
HandleReload ==
    /\ Running
    /\ mainQueue # <<>>
    /\ Head(mainQueue) = "reload"
    /\ mainQueue' = Tail(mainQueue)
    /\ \/ Reload /\ UNCHANGED app
       \/ assigning # {} /\ Trap /\ UNCHANGED shown
    /\ UNCHANGED <<text, editing, showsCancel, enteredText, scheduled, requests,
                   assigning, searchResults, alert, opened>>

\* showAlert: a screen covered by another one presents nothing.
HandleAlert ==
    /\ Running
    /\ mainQueue # <<>>
    /\ Head(mainQueue) = "alert"
    /\ mainQueue' = Tail(mainQueue)
    /\ alert' = (alert \/ opened = {})
    /\ UNCHANGED <<text, editing, showsCancel, enteredText, scheduled, requests,
                   assigning, searchResults, shown, opened, app>>

DismissAlert ==
    /\ Running
    /\ alert
    /\ alert' = FALSE
    /\ UNCHANGED <<text, editing, showsCancel, enteredText, scheduled, requests,
                   assigning, searchResults, mainQueue, shown, opened, app>>

-----------------------------------------------------------------------------
\* The table.

\* cellForRowAt for a row that scrolls in: past the end, or in a freed array.
ScrollTraps ==
    /\ Touchable
    /\ shown.count > ScreenRows
    /\ shown.count > searchResults.count \/ assigning # {}
    /\ Trap
    /\ UNCHANGED <<text, editing, showsCancel, enteredText, scheduled, requests,
                   assigning, searchResults, mainQueue, shown, alert, opened>>

(* prepare(for:): the stock is looked up again by the row's index, in the results
   as they are now. *)
TapRow(row) ==
    /\ Touchable
    /\ row <= shown.count
    /\ \/ /\ row <= searchResults.count
          /\ opened' = {[term |-> searchResults.term, row |-> row]}
          /\ UNCHANGED app
       \/ /\ row > searchResults.count \/ assigning # {}
          /\ Trap
          /\ UNCHANGED opened
    /\ UNCHANGED <<text, editing, showsCancel, enteredText, scheduled, requests,
                   assigning, searchResults, mainQueue, shown, alert>>

Back ==
    /\ Running
    /\ opened # {}
    /\ opened' = {}
    /\ UNCHANGED <<text, editing, showsCancel, enteredText, scheduled, requests,
                   assigning, searchResults, mainQueue, shown, alert, app>>

-----------------------------------------------------------------------------
Next ==
    \/ BeginEditing
    \/ \E newText \in Terms \cup {Blank} : ChangeText(newText)
    \/ ClickCancel
    \/ ClickSearch
    \/ DismissKeyboard
    \/ SearchBlank
    \/ \E slot \in Slots : MakeSearchRequest(slot) \/ Answer(slot)
    \/ EndAssign
    \/ HandleReload
    \/ HandleAlert
    \/ DismissAlert
    \/ ScrollTraps
    \/ \E row \in 1..shown.count : TapRow(row)
    \/ Back

Spec == Init /\ [][Next]_vars

(* Delays end, requests are answered (URLSession times out), an assignment that
   began ends, the main run loop empties its queue.  The user owes nothing. *)
Fairness ==
    /\ WF_vars(SearchBlank)
    /\ WF_vars(\E slot \in Slots : MakeSearchRequest(slot))
    /\ \A slot \in Slots : WF_vars(Answer(slot))
    /\ WF_vars(EndAssign)
    /\ WF_vars(HandleReload)
    /\ WF_vars(HandleAlert)

FairSpec == Spec /\ Fairness

-----------------------------------------------------------------------------
\* Properties.

\* The variables' types.
TypeOK ==
    /\ text \in Terms \cup {Blank}
    /\ editing \in BOOLEAN
    /\ showsCancel \in BOOLEAN
    /\ enteredText \in Terms \cup {Blank}
    /\ scheduled \in BOOLEAN
    /\ requests \in [Slots -> Terms \cup {Blank}]
    /\ assigning \subseteq Results
    /\ searchResults \in Results
    /\ mainQueue \in Seq({"reload", "alert"})
    /\ shown \in Results
    /\ alert \in BOOLEAN
    /\ opened \subseteq [term : Terms, row : Nat]
    /\ app \in {"running", "trapped"}

\* No answer is between its assignment and its reload (requests may be in flight).
Settled == assigning = {} /\ ~Queued("reload")

(* Once every reload dispatched has run, the table shows the very list its rows
   are looked up in, in whatever order the answers came: no assignment goes
   without a reload after it. *)
SettledAgrees == (Running /\ Settled) => shown = searchResults

(* With the reloads done no touch stops the process: cellForRowAt and prepare
   index `searchResults' with a row the table shows. *)
NoTrapWhenSettled == [][app' = "trapped" => ~Settled]_vars

(* With the reloads done a tap opens the stock of the row that was shown, not the
   stock another answer put at its index. *)
TapOpensShownRow ==
    [][(Settled /\ opened' # opened)
        => \A row \in opened' : row.term = shown.term /\ row.row <= shown.count]_vars

\* No answer is on its way or being stored.
NothingInFlight == assigning = {} /\ \A slot \in Slots : requests[slot] = Blank

(* A text that stays in the bar while no older request is in flight is searched and
   its results are shown, unless its request fails: the debounce loses no text that
   the user stopped at. *)
TextIsSearched ==
    \A term \in Terms :
        (scheduled /\ text = term /\ NothingInFlight)
            ~> (text # term \/ shown.term = term \/ alert \/ Queued("alert") \/ ~Running)

=============================================================================
