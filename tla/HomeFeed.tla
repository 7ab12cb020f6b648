------------------------------ MODULE HomeFeed ------------------------------
(***************************************************************************)
(* The Home tab: HomeTableViewController and its three sector controllers, *)
(* on top of Networking.                                                   *)
(*                                                                         *)
(* viewDidLoad makes three calls.  The completion of each fills its        *)
(* sector's array on the session's queue and dispatches a reload of the    *)
(* whole table, so a reload shows what the other sectors got in the        *)
(* meantime.  An array is assigned once, over the empty one, whose storage *)
(* is never freed: a read by the main thread at that moment sees one of    *)
(* the two, and assigning is one step here.                                *)
(***************************************************************************)
EXTENDS Networking

CONSTANT Size       \* stocks of a sector

ASSUME SizeAssumption == Size \in Nat \ {0}

VARIABLES
    stocks,     \* section -> length of its array
    reloads,    \* sections whose reload waits in the main queue
    rows,       \* section -> rows the table has
    cells,      \* the rows that have a cell
    laidOut,    \* the table was laid out a first time
    opened,     \* the row whose detail screen is open, if any
    app

arrays == <<stocks, reloads>>
screen == <<rows, cells, laidOut, opened, app>>
homeVars == <<vars, arrays, screen>>

\* Technology, Health Care, Industrial: each is fetched by one call.
Sections == Calls

Running == app = "running"

HomeInit ==
    /\ Init
    /\ stocks = [section \in Sections |-> 0]
    /\ reloads = {}
    /\ rows = [section \in Sections |-> 0]
    /\ cells = {}
    /\ laidOut = FALSE
    /\ opened = {}
    /\ app = "running"

-----------------------------------------------------------------------------
\* viewDidLoad, on the main thread; nothing else runs there until it has ended.

FetchSector(section) ==
    /\ Running
    /\ Fetch(section)
    /\ UNCHANGED <<arrays, screen>>

Loaded == \A section \in Sections : progress[section] # "idle"

\* An answer arrives, or its handler gets on without completing a call.
Respond ==
    /\ Running
    /\ \/ \E section \in Sections, answer \in Answers : Deliver(section, answer)
       \/ FetchData
       \/ Closure
    /\ completions' = completions
    /\ UNCHANGED <<arrays, screen>>

\* (Faulty: the table is reloaded with the first sector only.)
DispatchFirst(section) ==
    reloads' = IF \A other \in Sections \ {section} : stocks[other] = 0
                 THEN reloads \cup {section} ELSE reloads
Dispatch(section) == reloads' = reloads \cup {section}

\* Two completions on the session's queue: the sector's array is assigned from the
\* controller's five fields and the reload dispatched, or the fields are nil.
Assign(section) ==
    /\ section \in stored
    /\ stocks' = [stocks EXCEPT ![section] = Size]
    /\ Dispatch(section)

GiveUp(section) == section \notin stored /\ UNCHANGED arrays

CompleteSector ==
    /\ Running
    /\ Closure
    /\ completions' # completions
    /\ Assign(handler.call) \/ GiveUp(handler.call)
    /\ UNCHANGED screen

-----------------------------------------------------------------------------
\* On the main thread.

\* (Faulty: a row for the sector's header is counted.)
CountHeaders ==
    /\ rows' = [section \in Sections |->
                   IF stocks[section] > 0 THEN stocks[section] + 1 ELSE 0]
    /\ cells' = {}
\* numberOfSections and numberOfRowsInSection: all sections, and new cells.
CountRows ==
    /\ rows' = stocks
    /\ cells' = {}

Layout ==
    /\ Running
    /\ Loaded
    /\ ~laidOut
    /\ laidOut' = TRUE
    /\ CountRows
    /\ UNCHANGED <<vars, arrays, opened, app>>

\* The reloads of the three sectors are the same block.
HandleReload(section) ==
    /\ Running
    /\ Loaded
    /\ section \in reloads
    /\ reloads' = reloads \ {section}
    /\ laidOut' = TRUE
    /\ CountRows
    /\ UNCHANGED <<vars, stocks, opened, app>>

\* stockFor(indexPath:) indexes the sector's array: past its end the process stops.
StockFor(section, row) == app' = IF row <= stocks[section] THEN app ELSE "trapped"

\* cellForRowAt, for a row that comes on the screen.
ShowCell(section, row) ==
    /\ Running
    /\ row <= rows[section]
    /\ <<section, row>> \notin cells
    /\ cells' = cells \cup {<<section, row>>}
    /\ StockFor(section, row)
    /\ UNCHANGED <<vars, arrays, rows, laidOut, opened>>

\* prepare(for:): the stock is looked up once more for the row tapped.
TapRow(section, row) ==
    /\ Running
    /\ opened = {}
    /\ <<section, row>> \in cells
    /\ opened' = {<<section, row>>}
    /\ StockFor(section, row)
    /\ UNCHANGED <<vars, arrays, rows, cells, laidOut>>

Back ==
    /\ Running
    /\ opened # {}
    /\ opened' = {}
    /\ UNCHANGED <<vars, arrays, rows, cells, laidOut, app>>

-----------------------------------------------------------------------------
HomeNext ==
    \/ \E section \in Sections :
          \/ FetchSector(section)
          \/ HandleReload(section)
          \/ \E row \in 1..rows[section] : ShowCell(section, row) \/ TapRow(section, row)
    \/ Respond
    \/ CompleteSector
    \/ Layout
    \/ Back

HomeSpec == HomeInit /\ [][HomeNext]_homeVars

(* viewDidLoad ends, requests are answered (URLSession times out), handlers end, the
   main run loop runs its blocks.  The user owes nothing. *)
HomeFairness ==
    /\ \A section \in Sections :
          /\ WF_homeVars(FetchSector(section))
          /\ WF_homeVars(Respond /\ progress'[section] # progress[section])
          /\ WF_homeVars(HandleReload(section))
    /\ WF_homeVars((Respond /\ progress' = progress) \/ CompleteSector)

HomeFairSpec == HomeSpec /\ HomeFairness

-----------------------------------------------------------------------------
\* Properties.

\* The variables' types.
HomeTypeOK ==
    /\ TypeOK
    /\ stocks \in [Sections -> {0, Size}]
    /\ reloads \subseteq Sections
    /\ rows \in [Sections -> {0, Size}]
    /\ cells \subseteq Sections \X Nat
    /\ laidOut \in BOOLEAN
    /\ opened \subseteq Sections \X Nat
    /\ app \in {"running", "trapped"}

(* Whatever the order of answers, reloads, scrolling and taps, no row is looked up
   past the end of its array: between an assignment and its reload the table has
   fewer rows than the arrays, never more. *)
NeverTraps == Running

(* With no reload waiting the table laid out has a row for every stock the
   controllers hold: no sector's arrival goes unshown. *)
ReloadedShowsAll == (laidOut /\ reloads = {}) => rows = stocks

(* A sector comes on the screen unless its own request fails: the failure of
   another one, or its own reload coming early, does not hold it up. *)
SectorShownOrFails ==
    \A section \in Sections :
        <>(completions[section] = <<"failed">> \/ rows[section] = Size)

=============================================================================
