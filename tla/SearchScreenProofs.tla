------------------------- MODULE SearchScreenProofs -------------------------
(***************************************************************************)
(* Proofs about SearchScreen, for every value of its constants: typing,    *)
(* and the agreement of the table with the results its rows are looked up  *)
(* in once the reloads have run.                                           *)
(***************************************************************************)
EXTENDS SearchScreen, SequenceTheorems, TLAPS

(* TypeOK with what it needs: only the list of a term holds stocks. *)
TypeInv ==
    /\ TypeOK
    /\ \A results \in assigning : results.term \in Terms
    /\ searchResults.term \in Terms \/ searchResults.count = 0

-----------------------------------------------------------------------------
\* Typing.

(* Enqueueing keeps the queue well typed and queues the block. *)
LEMMA EnqueueType ==
  ASSUME TypeOK, NEW block \in {"reload", "alert"}, Enqueue(block)
  PROVE  /\ mainQueue' \in Seq({"reload", "alert"})
         /\ Queued(block)'
         /\ \A other : Queued(other) => Queued(other)'
<1>1. mainQueue \in Seq({"reload", "alert"}) /\ mainQueue' = Append(mainQueue, block)
  BY DEF TypeOK, Enqueue
<1>2. mainQueue' \in Seq({"reload", "alert"})
  BY <1>1, AppendProperties
<1>3. /\ Len(mainQueue) \in Nat
      /\ DOMAIN mainQueue = 1..Len(mainQueue)
      /\ DOMAIN mainQueue' = 1..(Len(mainQueue) + 1)
      /\ \A i \in 1..Len(mainQueue) : mainQueue'[i] = mainQueue[i]
      /\ mainQueue'[Len(mainQueue) + 1] = block
  BY <1>1, <1>2, AppendProperties, LenProperties
<1>4. Queued(block)'
  BY <1>3 DEF Queued
<1>5. ASSUME NEW other, Queued(other) PROVE Queued(other)'
  BY <1>3, <1>5 DEF Queued
<1> QED BY <1>2, <1>4, <1>5

(* Running a block keeps the queue well typed and the other blocks queued. *)
LEMMA TailType ==
  ASSUME TypeOK, mainQueue # <<>>, mainQueue' = Tail(mainQueue)
  PROVE  /\ mainQueue' \in Seq({"reload", "alert"})
         /\ \A other : (Queued(other) /\ other # Head(mainQueue)) => Queued(other)'
<1>1. mainQueue \in Seq({"reload", "alert"})
  BY DEF TypeOK
<1>2. mainQueue' \in Seq({"reload", "alert"}) /\ Len(mainQueue') = Len(mainQueue) - 1
  BY <1>1, HeadTailProperties
<1>3. /\ Len(mainQueue) \in Nat \ {0}
      /\ DOMAIN mainQueue = 1..Len(mainQueue)
      /\ Head(mainQueue) = mainQueue[1]
      /\ DOMAIN mainQueue' = 1..(Len(mainQueue) - 1)
      /\ \A i \in 1..(Len(mainQueue) - 1) : mainQueue'[i] = mainQueue[i + 1]
  BY <1>1, <1>2, HeadTailProperties, LenProperties, EmptySeq
<1>4. ASSUME NEW other, Queued(other), other # Head(mainQueue) PROVE Queued(other)'
  <2> PICK i \in DOMAIN mainQueue : mainQueue[i] = other
    BY <1>4 DEF Queued
  <2>1. i # 1
    BY <1>3, <1>4
  <2>2. i - 1 \in DOMAIN mainQueue' /\ mainQueue'[i - 1] = other
    BY <1>3, <2>1
  <2> QED BY <2>2 DEF Queued
<1> QED BY <1>2, <1>4

(* The search starts well typed. *)
LEMMA TypeInit == Init => TypeInv
<1> SUFFICES ASSUME Init PROVE TypeInv
  OBVIOUS
<1>1. mainQueue \in Seq({"reload", "alert"})
  BY EmptySeq DEF Init
<1>2. searchResults \in Results /\ shown \in Results
  BY DEF Init, NoResults, Results
<1>3. requests \in [Slots -> Terms \cup {Blank}]
  BY DEF Init
<1>4. TypeOK
  BY <1>1, <1>2, <1>3 DEF Init, TypeOK
<1> QED BY <1>4 DEF Init, TypeInv, NoResults

(* Every step of the user, of an answer or of the main queue keeps the types. *)
LEMMA TypeStep == TypeInv /\ [Next]_vars => TypeInv'
<1> SUFFICES ASSUME TypeInv, [Next]_vars PROVE TypeInv'
  OBVIOUS
<1> USE DEF TypeInv
<1>1. CASE BeginEditing
  BY <1>1 DEF BeginEditing, TypeOK
<1>2. ASSUME NEW newText \in Terms \cup {Blank}, ChangeText(newText) PROVE TypeInv'
  BY <1>2 DEF ChangeText, Enter, TypeOK
<1>3. CASE ClickCancel
  BY <1>3 DEF ClickCancel, TypeOK
<1>4. CASE ClickSearch
  BY <1>4 DEF ClickSearch, TypeOK
<1>5. CASE DismissKeyboard
  BY <1>5 DEF DismissKeyboard, TypeOK
<1>6. CASE SearchBlank
  BY <1>6 DEF SearchBlank, TypeOK
<1>7. ASSUME NEW slot \in Slots, MakeSearchRequest(slot) PROVE TypeInv'
  BY <1>7 DEF MakeSearchRequest, TypeOK
<1>8. ASSUME NEW slot \in Slots, BeginAssign(slot) PROVE TypeInv'
  <2>1. requests[slot] \in Terms
    BY <1>8 DEF BeginAssign, TypeOK
  <2>2. ResultsFor(requests[slot]) \in Results
    BY <2>1, HitsAssumption DEF ResultsFor, Results
  <2>3. requests' \in [Slots -> Terms \cup {Blank}]
    BY <1>8 DEF BeginAssign, TypeOK
  <2>4. assigning' = {ResultsFor(requests[slot])} /\ ResultsFor(requests[slot]).term \in Terms
    BY <1>8, <2>1 DEF BeginAssign, ResultsFor
  <2> QED BY <1>8, <2>2, <2>3, <2>4 DEF BeginAssign, TypeOK
<1>9. CASE EndAssign
  <2>1. mainQueue' \in Seq({"reload", "alert"})
    BY <1>9, EnqueueType DEF EndAssign, RequestReload
  <2>2. searchResults' \in assigning
    BY <1>9 DEF EndAssign
  <2> QED BY <1>9, <2>1, <2>2 DEF EndAssign, TypeOK
<1>10. ASSUME NEW slot \in Slots, SearchFails(slot) PROVE TypeInv'
  <2>1. mainQueue' \in Seq({"reload", "alert"})
    BY <1>10, EnqueueType DEF SearchFails
  <2> QED BY <1>10, <2>1 DEF SearchFails, TypeOK
<1>11. CASE HandleReload
  <2>1. mainQueue' \in Seq({"reload", "alert"})
    BY <1>11, TailType DEF HandleReload
  <2>2. shown' \in Results /\ app' \in {"running", "trapped"}
    BY <1>11 DEF HandleReload, Reload, Trap, TypeOK
  <2> QED BY <1>11, <2>1, <2>2 DEF HandleReload, TypeOK
<1>12. CASE HandleAlert
  <2>1. mainQueue' \in Seq({"reload", "alert"})
    BY <1>12, TailType DEF HandleAlert
  <2> QED BY <1>12, <2>1 DEF HandleAlert, TypeOK
<1>13. CASE DismissAlert
  BY <1>13 DEF DismissAlert, TypeOK
<1>14. CASE ScrollTraps
  BY <1>14 DEF ScrollTraps, Trap, TypeOK
<1>15. ASSUME NEW row \in 1..shown.count, TapRow(row) PROVE TypeInv'
  <2>1. opened' \subseteq [term : Terms, row : Nat]
    <3>1. CASE opened' = opened
      BY <3>1 DEF TypeOK
    <3>2. CASE row <= searchResults.count /\ opened' = {[term |-> searchResults.term, row |-> row]}
      <4>1. searchResults.count \in Nat /\ row \in Nat /\ row > 0
        BY DEF TypeOK, Results
      <4>2. searchResults.term \in Terms
        BY <3>2, <4>1
      <4> QED BY <3>2, <4>1, <4>2
    <3> QED BY <1>15, <3>1, <3>2 DEF TapRow
  <2>2. app' \in {"running", "trapped"}
    BY <1>15 DEF TapRow, Trap, TypeOK
  <2> QED BY <1>15, <2>1, <2>2 DEF TapRow, TypeOK
<1>16. CASE Back
  BY <1>16 DEF Back, TypeOK
<1>17. CASE UNCHANGED vars
  BY <1>17 DEF vars, TypeOK
<1> QED
  BY <1>1, <1>2, <1>3, <1>4, <1>5, <1>6, <1>7, <1>8, <1>9, <1>10, <1>11, <1>12,
     <1>13, <1>14, <1>15, <1>16, <1>17 DEF Next, Answer

-----------------------------------------------------------------------------
\* The table.

(* A step that leaves the lists, the assignments and the queued reloads alone
   keeps the agreement. *)
LEMMA AgreementKept ==
  ASSUME SettledAgrees, UNCHANGED <<assigning, searchResults, shown, app>>,
         Queued("reload") => Queued("reload")'
  PROVE  SettledAgrees'
BY DEF SettledAgrees, Settled, Running

(* An assignment queues a reload after itself, and a reload that runs while one
   is in progress has another to come. *)
LEMMA AgreementStep == TypeInv /\ SettledAgrees /\ [Next]_vars => SettledAgrees'
<1> SUFFICES ASSUME TypeInv, SettledAgrees, [Next]_vars PROVE SettledAgrees'
  OBVIOUS
<1>0. TypeOK
  BY DEF TypeInv
<1>a. ASSUME UNCHANGED <<assigning, searchResults, mainQueue, shown, app>> PROVE SettledAgrees'
  <2>1. Queued("reload") => Queued("reload")'
    BY <1>a DEF Queued
  <2> QED BY <1>a, <2>1, AgreementKept
<1>1. CASE BeginEditing \/ ClickCancel \/ ClickSearch \/ DismissKeyboard
  BY <1>a, <1>1 DEF BeginEditing, ClickCancel, ClickSearch, DismissKeyboard
<1>2. ASSUME NEW newText \in Terms \cup {Blank}, ChangeText(newText) PROVE SettledAgrees'
  BY <1>a, <1>2 DEF ChangeText
<1>3. CASE SearchBlank \/ DismissAlert \/ Back
  BY <1>a, <1>3 DEF SearchBlank, DismissAlert, Back
<1>4. ASSUME NEW slot \in Slots, MakeSearchRequest(slot) PROVE SettledAgrees'
  BY <1>a, <1>4 DEF MakeSearchRequest
<1>5. ASSUME NEW slot \in Slots, BeginAssign(slot) PROVE SettledAgrees'
  BY <1>5 DEF BeginAssign, SettledAgrees, Settled
<1>6. CASE EndAssign
  <2>1. Queued("reload")'
    BY <1>0, <1>6, EnqueueType DEF EndAssign, RequestReload
  <2> QED BY <2>1 DEF SettledAgrees, Settled
<1>7. ASSUME NEW slot \in Slots, SearchFails(slot) PROVE SettledAgrees'
  <2>1. Queued("reload") => Queued("reload")'
    BY <1>0, <1>7, EnqueueType DEF SearchFails
  <2> QED BY <1>7, <2>1, AgreementKept DEF SearchFails
<1>8. CASE HandleReload
  <2>1. CASE shown' = searchResults /\ app' = app
    BY <1>8, <2>1 DEF HandleReload, SettledAgrees
  <2>2. CASE app' = "trapped"
    BY <2>2 DEF SettledAgrees, Running
  <2> QED BY <1>8, <2>1, <2>2 DEF HandleReload, Reload, Trap
<1>9. CASE HandleAlert
  <2>1. Queued("reload") => Queued("reload")'
    BY <1>0, <1>9, TailType DEF HandleAlert
  <2> QED BY <1>9, <2>1, AgreementKept DEF HandleAlert
<1>10. CASE ScrollTraps
  BY <1>10 DEF ScrollTraps, Trap, SettledAgrees, Running
<1>11. ASSUME NEW row \in 1..shown.count, TapRow(row) PROVE SettledAgrees'
  <2>1. CASE app' = app
    BY <1>a, <1>11, <2>1 DEF TapRow
  <2>2. CASE app' = "trapped"
    BY <2>2 DEF SettledAgrees, Running
  <2> QED BY <1>11, <2>1, <2>2 DEF TapRow, Trap
<1>12. CASE UNCHANGED vars
  BY <1>a, <1>12 DEF vars
<1> QED
  BY <1>1, <1>2, <1>3, <1>4, <1>5, <1>6, <1>7, <1>8, <1>9, <1>10, <1>11, <1>12
     DEF Next, Answer

(* Every state is well typed and agrees. *)
LEMMA Agreement == Spec => [](TypeInv /\ SettledAgrees)
<1>1. Init => SettledAgrees
  BY DEF Init, SettledAgrees
<1>2. TypeInv /\ SettledAgrees /\ [Next]_vars => TypeInv' /\ SettledAgrees'
  BY TypeStep, AgreementStep
<1> QED BY <1>1, <1>2, TypeInit, PTL DEF Spec

(* No order of typing, answers and reloads takes a variable out of its type. *)
THEOREM TypeCorrect == Spec => []TypeOK
<1>1. TypeInv => TypeOK
  BY DEF TypeInv
<1> QED BY <1>1, Agreement, PTL

(* With the reloads done the table shows the list its rows are looked up in,
   whatever order the answers came in. *)
THEOREM SettledAgreesCorrect == Spec => []SettledAgrees
BY Agreement, PTL

(* A step that stops the process or opens a stock is one of the table's. *)
LEMMA TouchSteps ==
  ASSUME TypeInv, SettledAgrees, [Next]_vars, Settled
  PROVE  /\ app' = "trapped" => UNCHANGED vars
         /\ opened' # opened
              => \A row \in opened' : row.term = shown.term /\ row.row <= shown.count
<1>0. /\ assigning = {}
      /\ shown.count \in Nat /\ searchResults.count \in Nat
  BY DEF Settled, TypeInv, TypeOK, Results
<1>1. \/ app' = app /\ opened' = opened
      \/ ScrollTraps
      \/ HandleReload
      \/ \E row \in 1..shown.count : TapRow(row)
      \/ Back
      \/ UNCHANGED vars
  BY DEF Next, Answer, BeginEditing, ChangeText, ClickCancel, ClickSearch,
     DismissKeyboard, SearchBlank, MakeSearchRequest, BeginAssign, SearchFails,
     EndAssign, HandleAlert, DismissAlert
<1>2. CASE app' = app /\ opened' = opened
  <2>1. app = "running" \/ UNCHANGED vars
    BY DEF Next, Answer, BeginEditing, ChangeText, ClickCancel, ClickSearch,
       DismissKeyboard, SearchBlank, MakeSearchRequest, BeginAssign, SearchFails,
       EndAssign, HandleReload, HandleAlert, DismissAlert, ScrollTraps, TapRow, Back,
       Touchable, Running
  <2> QED BY <1>2, <2>1
<1>3. CASE ScrollTraps
  <2>1. shown = searchResults
    BY <1>3 DEF ScrollTraps, Touchable, SettledAgrees
  <2> QED BY <1>0, <1>3, <2>1 DEF ScrollTraps
<1>4. CASE HandleReload
  BY <1>0, <1>4 DEF HandleReload, Running
<1>5. ASSUME NEW row \in 1..shown.count, TapRow(row)
      PROVE  /\ app' # "trapped"
             /\ \A r \in opened' : r.term = shown.term /\ r.row <= shown.count
  <2>1. shown = searchResults /\ app = "running"
    BY <1>5 DEF TapRow, Touchable, Running, SettledAgrees
  <2> QED BY <1>0, <1>5, <2>1 DEF TapRow
<1>6. CASE Back
  BY <1>6 DEF Back, Running
<1>7. CASE UNCHANGED vars
  BY <1>7 DEF vars
<1> QED BY <1>1, <1>2, <1>3, <1>4, <1>5, <1>6, <1>7

(* With the reloads done no scroll and no tap indexes past the results. *)
THEOREM NoTrapWhenSettledCorrect == Spec => NoTrapWhenSettled
<1>1. TypeInv /\ SettledAgrees /\ [Next]_vars => [app' = "trapped" => ~Settled]_vars
  BY TouchSteps
<1> QED BY <1>1, Agreement, PTL DEF Spec, NoTrapWhenSettled

(* With the reloads done a tap opens the stock of the row that is shown. *)
THEOREM TapOpensShownRowCorrect == Spec => TapOpensShownRow
<1>1. TypeInv /\ SettledAgrees /\ [Next]_vars
        => [(Settled /\ opened' # opened)
              => \A row \in opened' : row.term = shown.term /\ row.row <= shown.count]_vars
  BY TouchSteps
<1> QED BY <1>1, Agreement, PTL DEF Spec, TapOpensShownRow

=============================================================================
