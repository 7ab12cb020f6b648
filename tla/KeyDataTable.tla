---------------------------- MODULE KeyDataTable ----------------------------
(***************************************************************************)
(* The table of key data on the two screens of a stock.                    *)
(*                                                                         *)
(* `keyDataTableKeys' labels the rows.  cellForRowAt appends the values    *)
(* the quote has, and none for a nil one, to `keyDataTableData' on every   *)
(* call, never empties it, and shows the value at the row's index.  The    *)
(* table cannot be scrolled: it asks for its rows from the first one on.   *)
(* A home screen has its quote from the start, a search screen gets it     *)
(* from the session's queue, even between two rows, and is reloaded then.  *)
(*                                                                         *)
(* A value is the number of its label.                                     *)
(***************************************************************************)
EXTENDS Naturals, Sequences

CONSTANTS
    Labels,     \* how many labels, and rows, there are
    Quotes,     \* the value lists of quotes: which values are not nil
    Visible     \* the rows that fit on the screen

ASSUME LabelsAssumption == Labels \in Nat /\ Visible \in 0..Labels
ASSUME QuotesAssumption == Quotes \subseteq Seq(1..Labels)

VARIABLES
    kind,       \* "home" or "search"
    values,     \* the values the quote has, in the order of the labels
    quote,      \* the quote is there
    reloaded,   \* the reload for it was done
    row,        \* the rows asked for in this layout
    keyDataTableData,
    cells,      \* row -> the value shown, 0 for a blank cell
    process     \* "running", or "trapped" by an index past the data

keyDataVars == <<kind, values, quote, reloaded, row, keyDataTableData, cells, process>>

TableRuns == process = "running"
Blank == [r \in 1..Labels |-> 0]

KeyDataInit ==
    /\ kind \in {"home", "search"}
    /\ values \in Quotes
    /\ quote = (kind = "home")
    /\ reloaded = (kind = "home")
    /\ row = 0
    /\ keyDataTableData = <<>>
    /\ cells = Blank
    /\ process = "running"

QuoteArrives ==
    /\ TableRuns
    /\ ~quote
    /\ quote' = TRUE
    /\ UNCHANGED <<kind, values, reloaded, row, keyDataTableData, cells, process>>

\* Blocks of the main queue run before or after a layout.
Reload ==
    /\ TableRuns
    /\ quote
    /\ ~reloaded
    /\ row \in {0, Visible}
    /\ reloaded' = TRUE
    /\ row' = 0
    /\ cells' = Blank
    /\ UNCHANGED <<kind, values, quote, keyDataTableData, process>>

\* guard let quote: the cell stays as it is.
ShowBlank ==
    /\ TableRuns
    /\ row < Visible
    /\ ~quote
    /\ row' = row + 1
    /\ UNCHANGED <<kind, values, quote, reloaded, keyDataTableData, cells, process>>

\* (Faulty: the values are appended on the first call only.)
FillOnce == keyDataTableData' = IF keyDataTableData = <<>> THEN values ELSE keyDataTableData
\* The ten if-lets, each appending its value.
Fill == keyDataTableData' = keyDataTableData \o values

\* (Faulty: the row's number is taken for its index.)
IndexAfter(r) == r + 1
Index(r) == r

ShowValue ==
    /\ TableRuns
    /\ row < Visible
    /\ quote
    /\ row' = row + 1
    /\ Fill
    /\ IF Index(row') <= Len(keyDataTableData')
         THEN /\ cells' = [cells EXCEPT ![row'] = keyDataTableData'[Index(row')]]
              /\ UNCHANGED process
         ELSE process' = "trapped" /\ UNCHANGED cells
    /\ UNCHANGED <<kind, values, quote, reloaded>>

KeyDataNext == QuoteArrives \/ Reload \/ ShowBlank \/ ShowValue

KeyDataSpec == KeyDataInit /\ [][KeyDataNext]_keyDataVars

-----------------------------------------------------------------------------
\* Properties.

\* The variables' types.
KeyDataTypeOK ==
    /\ kind \in {"home", "search"}
    /\ values \in Seq(1..Labels)
    /\ quote \in BOOLEAN
    /\ reloaded \in BOOLEAN
    /\ row \in 0..Visible
    /\ keyDataTableData \in Seq(1..Labels)
    /\ cells \in [1..Labels -> 0..Labels]
    /\ process \in {"running", "trapped"}

\* The quote has a value for every label.
Complete == values = [r \in 1..Labels |-> r]

(* Although the data grows with every row shown, a quote without a nil value fills
   each row with the value of its label, whenever it arrives. *)
CompleteIsRight ==
    Complete => TableRuns /\ \A r \in 1..Labels : cells[r] \in {0, r}

(* Home's table never indexes past the data as long as the quote has any value: the
   rows come in order, and each call appends before it looks. *)
HomeNeverTraps == (kind = "home" /\ values # <<>>) => TableRuns

(* What the rows really show, label or not: the values there are, in turn. *)
ShownInTurn ==
    \A r \in 1..Labels :
        cells[r] # 0 => cells[r] = values[((r - 1) % Len(values)) + 1]

=============================================================================
