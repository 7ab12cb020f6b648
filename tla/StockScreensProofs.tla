------------------------- MODULE StockScreensProofs -------------------------
(***************************************************************************)
(* Proofs about StockScreens, for any stocks and any screens: typing, that *)
(* a screen shows its own stock's logo unless its fetchLogo failed on the  *)
(* shared controller, that no logo and no save is dropped.  And about the  *)
(* table of key data on these screens, for any labels and any quotes.      *)
(***************************************************************************)
EXTENDS StockScreens, KeyDataTable, Integers, SequenceTheorems, TLAPS

\* A logo that may be on the screen, or on its way there.
Fits(screen, logo) ==
    \/ logo \in {None, screens[screen].stock}
    \/ screen \in HomeScreens /\ "logo" \in screens[screen].failed

(* The image a screen asked for fits, a search screen's controller holds no URL but
   that of its own stock, and a screen that was not opened holds nothing. *)
LogoInv ==
    \A screen \in Screens :
        /\ Fits(screen, screens[screen].image)
        /\ Fits(screen, screens[screen].download)
        /\ screen \in SearchScreens => logoURL[screen] \in {None, screens[screen].stock}
        /\ screens[screen].phase = "unused" => screens[screen].stock = None

IndInv == TypeOK /\ LogoInv

-----------------------------------------------------------------------------
\* Facts about the constants and the records.

(* A home screen uses the controller of the tab, a search screen its own. *)
LEMMA ControllerFact ==
  ASSUME NEW screen \in Screens
  PROVE  /\ ControllerOf(screen) \in Controllers
         /\ screen \in SearchScreens => ControllerOf(screen) = screen
         /\ screen \in HomeScreens => ControllerOf(screen) = None
BY ScreensAssumption DEF ControllerOf, Controllers, Screens

LEMMA TabFact == ASSUME NEW screen \in Screens PROVE TabOf(screen) \in Tabs
BY DEF TabOf, Tabs

LEMMA UnusedFact ==
  ASSUME NEW stock \in Stocks
  PROVE  /\ Unused \in ScreenStates
         /\ \A user \in BOOLEAN :
              [Unused EXCEPT !.stock = stock, !.ref = user, !.phase = "batch"] \in ScreenStates
         /\ [Unused EXCEPT !.stock = stock, !.quote = stock, !.phase = "logo"] \in ScreenStates
BY DEF Unused, ScreenStates, Phases

-----------------------------------------------------------------------------
(* No screen is open at the start. *)
LEMMA InitInv == Init => IndInv
<1> SUFFICES ASSUME Init PROVE IndInv
  OBVIOUS
<1>1. Unused \in ScreenStates
  BY DEF Unused, ScreenStates, Phases
<1>2. screens \in [Screens -> ScreenStates] /\ \A screen \in Screens : screens[screen] = Unused
  BY <1>1 DEF Init
<1>3. /\ top \in [Tabs -> Screens \cup {None}]
      /\ logoURL \in [Controllers -> Stocks \cup {None}]
      /\ \A controller \in Controllers : logoURL[controller] = None
  BY DEF Init
<1>4. TypeOK
  BY <1>2, <1>3 DEF Init, TypeOK
<1>5. LogoInv
  BY <1>2, <1>3 DEF LogoInv, Fits, Unused, Controllers
<1> QED BY <1>4, <1>5 DEF IndInv

(* A step that changes one screen keeps the invariant if what that screen then holds
   fits, and its controller gets no URL but its own stock's. *)
LEMMA ScreenStep ==
  ASSUME IndInv, NEW screen \in Screens, NEW state \in ScreenStates,
         screens' = [screens EXCEPT ![screen] = state],
         top' \in [Tabs -> Screens \cup {None}], alert' \in BOOLEAN,
         UNCHANGED <<signedIn, writes, reported, stored, refused, app>>,
         logoURL' \in [Controllers -> Stocks \cup {None}],
         \A other \in SearchScreens \ {screen} : logoURL'[other] = logoURL[other],
         screen \in SearchScreens => logoURL'[screen] \in {None, state.stock},
         \A logo \in {state.image, state.download} :
            \/ logo \in {None, state.stock}
            \/ screen \in HomeScreens /\ "logo" \in state.failed,
         state.phase # "unused"
  PROVE  IndInv'
<1>1. TypeOK'
  BY DEF IndInv, TypeOK
<1>2. screens'[screen] = state /\ \A other \in Screens \ {screen} : screens'[other] = screens[other]
  BY DEF IndInv, TypeOK
<1>3. LogoInv'
  <2> SUFFICES ASSUME NEW other \in Screens
               PROVE  /\ Fits(other, screens[other].image)'
                      /\ Fits(other, screens[other].download)'
                      /\ other \in SearchScreens =>
                            logoURL'[other] \in {None, screens'[other].stock}
                      /\ screens'[other].phase = "unused" => screens'[other].stock = None
    BY DEF LogoInv
  <2>1. CASE other = screen
    BY <2>1, <1>2 DEF Fits
  <2>2. CASE other # screen
    BY <2>2, <1>2 DEF IndInv, LogoInv, Fits
  <2> QED BY <2>1, <2>2
<1> QED BY <1>1, <1>3 DEF IndInv

(* Opening a screen: what it holds is new, and its own controller empty. *)
LEMMA OpenStep ==
  ASSUME IndInv, NEW screen \in Screens, NEW stock \in Stocks,
         OpenHome(screen, stock) \/ OpenSearch(screen, stock)
  PROVE  IndInv'
<1> PICK state \in ScreenStates :
      /\ Push(screen, state)
      /\ state.image = None /\ state.download = None /\ state.phase # "unused"
  <2>1. signedIn \in BOOLEAN
    BY DEF IndInv, TypeOK
  <2> QED BY <2>1, UnusedFact DEF OpenHome, OpenSearch, Unused
<1>1. top' \in [Tabs -> Screens \cup {None}]
  BY TabFact DEF Push, IndInv, TypeOK
<1>2. screen \in SearchScreens => logoURL[screen] = None
  BY DEF Push, At, IndInv, LogoInv
<1> QED BY <1>1, <1>2, ScreenStep DEF Push, IndInv, TypeOK

(* What a request brings leaves the logos alone, but for those it is about. *)
LEMMA LoadStep ==
  ASSUME IndInv, NEW screen \in Screens,
         \/ BatchFound(screen) \/ BatchFails(screen) \/ ShowLoaded(screen)
         \/ ShowInvalid(screen) \/ ImageArrives(screen) \/ ImageFails(screen)
         \/ ShowImage(screen)
  PROVE  IndInv'
<1> DEFINE state == screens'[screen]
           old == screens[screen]
<1>1. old \in ScreenStates
  BY DEF IndInv, TypeOK
<1>2. /\ state \in ScreenStates
      /\ screens' = [screens EXCEPT ![screen] = state]
      /\ state.stock = old.stock
      /\ state.download = old.download
      /\ state.image \in {old.image, old.download}
      /\ state.failed \in {old.failed, old.failed \cup {"image"}}
      /\ state.phase # "unused"
  BY <1>1 DEF BatchFound, BatchFails, ShowLoaded, ShowInvalid, ImageArrives, ImageFails,
     ShowImage, ImageOf, IndInv, TypeOK, ScreenStates, Phases
<1>3. alert' \in BOOLEAN /\ UNCHANGED <<top, signedIn, logoURL, writes, reported, stored, refused, app>>
  BY DEF BatchFound, BatchFails, ShowLoaded, ShowInvalid, ImageArrives, ImageFails,
     ShowImage, IndInv, TypeOK
<1>4. \A logo \in {state.image, state.download} :
         \/ logo \in {None, state.stock}
         \/ screen \in HomeScreens /\ "logo" \in state.failed
  BY <1>2 DEF IndInv, LogoInv, Fits
<1>5. screen \in SearchScreens => logoURL'[screen] \in {None, state.stock}
  BY <1>2, <1>3 DEF IndInv, LogoInv
<1> QED BY <1>2, <1>3, <1>4, <1>5, ScreenStep DEF IndInv, TypeOK

(* The logo found is the stock's own, in the controller and in the request made with
   it; after a failure the request is for what the controller had. *)
LEMMA LogoStep ==
  ASSUME IndInv, NEW screen \in Screens, LogoFound(screen) \/ LogoFails(screen)
  PROVE  IndInv'
<1> DEFINE state == screens'[screen]
           old == screens[screen]
           controller == ControllerOf(screen)
<1>1. /\ old \in ScreenStates
      /\ controller \in Controllers
      /\ old.stock \in Stocks \cup {None}
  BY ControllerFact DEF IndInv, TypeOK, ScreenStates
<1>2. /\ logoURL' \in [Controllers -> Stocks \cup {None}]
      /\ \A other \in Controllers \ {controller} : logoURL'[other] = logoURL[other]
      /\ logoURL'[controller] \in Stocks \cup {None}
      /\ LogoFound(screen) => logoURL'[controller] = old.stock
      /\ LogoFails(screen) => logoURL'[controller] = logoURL[controller]
  BY <1>1 DEF LogoFound, LogoFails, IndInv, TypeOK
<1>3. PICK failure \in {{}, {"logo"}} :
         GetData(screen, failure) /\ (LogoFound(screen) \/ failure = {"logo"})
  BY DEF LogoFound, LogoFails
<1>4. /\ state \in ScreenStates
      /\ screens' = [screens EXCEPT ![screen] = state]
      /\ state.stock = old.stock
      /\ state.image = old.image
      /\ state.download = logoURL'[controller]
      /\ state.failed = old.failed \cup failure
      /\ state.phase # "unused"
  BY <1>1, <1>2, <1>3 DEF GetData, URLRead, IndInv, TypeOK, ScreenStates, Phases
<1>5. UNCHANGED <<top, alert, signedIn, writes, reported, stored, refused, app>>
  BY DEF LogoFound, LogoFails
<1>6. screen \in SearchScreens => logoURL'[screen] \in {None, state.stock}
  BY <1>2, <1>4, ControllerFact DEF IndInv, LogoInv
<1>7. \A logo \in {state.image, state.download} :
         \/ logo \in {None, state.stock}
         \/ screen \in HomeScreens /\ "logo" \in state.failed
  <2>1. CASE LogoFound(screen)
    BY <2>1, <1>2, <1>4 DEF IndInv, LogoInv, Fits
  <2>2. CASE failure = {"logo"} /\ screen \in HomeScreens
    BY <2>2, <1>4
  <2>3. CASE failure = {"logo"} /\ screen \in SearchScreens
    BY <2>3, <1>4, <1>6, ControllerFact DEF IndInv, LogoInv, Fits
  <2> QED BY <2>1, <2>2, <2>3, <1>3 DEF Screens
<1>8. \A other \in SearchScreens \ {screen} : logoURL'[other] = logoURL[other]
  <2>1. \A other \in SearchScreens \ {screen} : other \in Controllers /\ other # controller
    BY ControllerFact, NoneAssumption DEF Controllers, Screens
  <2> QED BY <2>1, <1>2
<1> QED BY <1>2, <1>4, <1>5, <1>6, <1>7, <1>8, ScreenStep DEF IndInv, TypeOK

(* The other steps touch no screen and no controller. *)
LEMMA OtherStep ==
  ASSUME IndInv, UNCHANGED <<screens, logoURL>>, TypeOK'
  PROVE  IndInv'
BY DEF IndInv, LogoInv, Fits

LEMMA StepInv == IndInv /\ [Next]_vars => IndInv'
<1> SUFFICES ASSUME IndInv, [Next]_vars PROVE IndInv'
  OBVIOUS
<1>1. ASSUME NEW screen \in Screens, LogoTraps(screen) PROVE IndInv'
  BY <1>1, OtherStep DEF LogoTraps, IndInv, TypeOK
<1>2. ASSUME NEW screen \in Screens, Back(screen) PROVE IndInv'
  <2>1. top' \in [Tabs -> Screens \cup {None}]
    BY <1>2, TabFact DEF Back, IndInv, TypeOK
  <2> QED BY <1>2, <2>1, OtherStep DEF Back, IndInv, TypeOK
<1>3. ASSUME NEW screen \in Screens, Save(screen) PROVE IndInv'
  <2>1. screens[screen].quote \in Stocks
    BY <1>3 DEF Save, Loaded, IndInv, TypeOK, ScreenStates
  <2> QED BY <1>3, <2>1, OtherStep DEF Save, Write, IndInv, TypeOK
<1>4. ASSUME NEW screen \in Screens, SaveTraps(screen) PROVE IndInv'
  BY <1>4, OtherStep DEF SaveTraps, IndInv, TypeOK
<1>5. ASSUME NEW stock \in Stocks, Accept(stock) \/ Refuse(stock) PROVE IndInv'
  BY <1>5, OtherStep DEF Accept, Refuse, IndInv, TypeOK
<1>6. CASE DismissAlert
  BY <1>6, OtherStep DEF DismissAlert, IndInv, TypeOK
<1>7. CASE LoseSession
  BY <1>7, OtherStep DEF LoseSession, IndInv, TypeOK
<1>8. CASE UNCHANGED vars
  BY <1>8, OtherStep DEF vars, IndInv, TypeOK
<1>9. HomeScreens \subseteq Screens /\ SearchScreens \subseteq Screens
  BY DEF Screens
<1> QED BY <1>1, <1>2, <1>3, <1>4, <1>5, <1>6, <1>7, <1>8, <1>9, OpenStep, LoadStep, LogoStep
        DEF Next, AnswerBatch, AnswerLogo, AnswerImage, MainBlock

-----------------------------------------------------------------------------
\* Screens at rest.

(* A screen has its quote once its batch is there, asks for an image it has the URL
   of, and rests with a logo or a failure. *)
RestOf(state) ==
    /\ state.phase \in {"unused", "batch", "invalid"} => state.quote = None
    /\ state.phase # "unused" => state.stock # None
    /\ state.phase \in {"image", "arrived"} => state.download # None
    /\ (state.phase = "idle" /\ state.quote # None)
          => (state.image # None \/ state.failed # {})

RestInv == \A screen \in Screens : RestOf(screens[screen])

LEMMA OneScreen ==
  ASSUME TypeOK, RestInv, NEW screen \in Screens, NEW state \in ScreenStates,
         screens' = [screens EXCEPT ![screen] = state], RestOf(state)
  PROVE  RestInv'
<1> SUFFICES ASSUME NEW other \in Screens PROVE RestOf(screens'[other])
  BY DEF RestInv, RestOf
<1>1. CASE other = screen
  BY <1>1 DEF TypeOK
<1>2. CASE other # screen
  BY <1>2 DEF TypeOK, RestInv
<1> QED BY <1>1, <1>2

(* Every request's answer leads a screen to the next phase with what it needs. *)
LEMMA RestStep == IndInv /\ RestInv /\ [Next]_vars => RestInv'
<1> SUFFICES ASSUME IndInv, RestInv, [Next]_vars PROVE RestInv'
  OBVIOUS
<1>0. TypeOK /\ HomeScreens \subseteq Screens /\ SearchScreens \subseteq Screens
  BY DEF IndInv, Screens
<1>1. ASSUME NEW screen \in Screens, NEW stock \in Stocks,
             OpenHome(screen, stock) \/ OpenSearch(screen, stock)
      PROVE  RestInv'
  <2> PICK state \in ScreenStates : Push(screen, state) /\ RestOf(state)
    <3>1. signedIn \in BOOLEAN /\ stock # None
      BY <1>0, NoneAssumption DEF TypeOK
    <3> QED BY <1>1, <3>1, UnusedFact DEF OpenHome, OpenSearch, Unused, RestOf
  <2> QED BY <1>0, OneScreen DEF Push
<1>2. ASSUME NEW screen \in Screens,
             \/ BatchFound(screen) \/ BatchFails(screen) \/ ShowLoaded(screen)
             \/ ShowInvalid(screen) \/ ImageArrives(screen) \/ ImageFails(screen)
             \/ ShowImage(screen)
      PROVE  RestInv'
  <2>1. screens[screen] \in ScreenStates /\ RestOf(screens[screen])
    BY <1>0 DEF TypeOK, RestInv
  <2> DEFINE state == screens'[screen]
  <2>2. state \in ScreenStates /\ screens' = [screens EXCEPT ![screen] = state]
    BY <1>0, <1>2, <2>1 DEF BatchFound, BatchFails, ShowLoaded, ShowInvalid, ImageArrives,
       ImageFails, ShowImage, ImageOf, TypeOK, ScreenStates, Phases
  <2>3. CASE BatchFound(screen) \/ BatchFails(screen)
    <3>1. RestOf(state)
      BY <1>0, <2>1, <2>3 DEF BatchFound, BatchFails, At, RestOf, TypeOK, ScreenStates
    <3> QED BY <1>0, <2>2, <3>1, OneScreen
  <2>4. CASE ShowLoaded(screen) \/ ShowInvalid(screen) \/ ImageArrives(screen)
    <3>1. RestOf(state)
      BY <1>0, <2>1, <2>4 DEF ShowLoaded, ShowInvalid, ImageArrives, At, RestOf, TypeOK,
         ScreenStates
    <3> QED BY <1>0, <2>2, <3>1, OneScreen
  <2>5. CASE ImageFails(screen)
    <3>1. /\ screens[screen].phase = "image" /\ state.phase = "idle"
          /\ state.failed = screens[screen].failed \cup {"image"}
          /\ state.quote = screens[screen].quote
          /\ state.stock = screens[screen].stock
      BY <1>0, <2>1, <2>5 DEF ImageFails, At, TypeOK, ScreenStates
    <3>2. state.failed # {}
      BY <3>1
    <3>3. RestOf(state)
      BY <2>1, <3>1, <3>2 DEF RestOf
    <3> QED BY <1>0, <2>2, <3>3, OneScreen
  <2>6. CASE ShowImage(screen)
    <3>1. /\ screens[screen].phase = "arrived" /\ state.phase = "idle"
          /\ state.image = screens[screen].download
          /\ state.quote = screens[screen].quote
          /\ state.failed = screens[screen].failed
          /\ state.stock = screens[screen].stock
      BY <1>0, <2>1, <2>6 DEF ShowImage, ImageOf, At, TypeOK, ScreenStates
    <3>2. RestOf(state)
      BY <2>1, <3>1 DEF RestOf
    <3> QED BY <1>0, <2>2, <3>2, OneScreen
  <2> QED BY <1>2, <2>3, <2>4, <2>5, <2>6
<1>3. ASSUME NEW screen \in Screens, LogoFound(screen) \/ LogoFails(screen) PROVE RestInv'
  <2>1. /\ screens[screen] \in ScreenStates /\ RestOf(screens[screen])
        /\ At(screen, "logo")
    BY <1>0, <1>3 DEF TypeOK, RestInv, LogoFound, LogoFails
  <2>2. URLRead(screen) \in Stocks
    BY <1>0, <1>3, <2>1, ControllerFact
       DEF LogoFound, LogoFails, URLRead, At, RestOf, TypeOK, ScreenStates
  <2>3. PICK failure \in {{}, {"logo"}} : GetData(screen, failure)
    BY <1>3 DEF LogoFound, LogoFails
  <2> DEFINE state == [screens[screen] EXCEPT !.phase = "image", !.download = URLRead(screen),
                                              !.failed = @ \cup failure]
  <2>4. screens' = [screens EXCEPT ![screen] = state] /\ state \in ScreenStates
    BY <1>0, <2>1, <2>2, <2>3 DEF GetData, TypeOK, ScreenStates, Phases
  <2>5. RestOf(state)
    BY <2>1, <2>2, NoneAssumption DEF At, RestOf, ScreenStates
  <2> QED BY <1>0, <2>4, <2>5, OneScreen
<1>4. ASSUME UNCHANGED screens PROVE RestInv'
  BY <1>4 DEF RestInv, RestOf
<1>5. \/ UNCHANGED screens
      \/ \E screen \in Screens : \/ AnswerBatch(screen) \/ LogoFound(screen)
                                 \/ LogoFails(screen) \/ AnswerImage(screen)
                                 \/ MainBlock(screen)
      \/ \E screen \in HomeScreens, stock \in Stocks : OpenHome(screen, stock)
      \/ \E screen \in SearchScreens, stock \in Stocks : OpenSearch(screen, stock)
  BY DEF Next, AnswerLogo, LogoTraps, Back, Save, SaveTraps, Accept, Refuse, DismissAlert,
     LoseSession, vars
<1> QED BY <1>0, <1>1, <1>2, <1>3, <1>4, <1>5 DEF AnswerBatch, AnswerImage, MainBlock

LEMMA RestInit == Init => RestInv
<1> SUFFICES ASSUME Init, NEW screen \in Screens PROVE RestOf(screens[screen])
  BY DEF RestInv
<1>1. screens[screen] = Unused
  BY DEF Init
<1> QED BY <1>1 DEF RestOf, Unused

(* A save is written as it is reported, and a write leaves the client decided. *)
LEMMA SavedStep == SavedIsWritten /\ [Next]_vars => SavedIsWritten'
<1> SUFFICES ASSUME SavedIsWritten, [Next]_vars PROVE SavedIsWritten'
  OBVIOUS
<1>1. ASSUME NEW screen \in Screens, Save(screen) PROVE SavedIsWritten'
  BY <1>1 DEF Save, Write, SavedIsWritten
<1>2. ASSUME NEW stock \in Stocks, Accept(stock) PROVE SavedIsWritten'
  BY <1>2 DEF Accept, SavedIsWritten
<1>3. ASSUME NEW stock \in Stocks, Refuse(stock) PROVE SavedIsWritten'
  BY <1>3 DEF Refuse, SavedIsWritten
<1>4. ASSUME UNCHANGED <<writes, reported, stored, refused>> PROVE SavedIsWritten'
  BY <1>4 DEF SavedIsWritten
<1>5. \/ UNCHANGED <<writes, reported, stored, refused>>
      \/ \E screen \in Screens : Save(screen)
      \/ \E stock \in Stocks : Accept(stock) \/ Refuse(stock)
  BY DEF Next, AnswerBatch, AnswerLogo, AnswerImage, MainBlock, BatchFound, BatchFails,
     LogoFound, LogoFails, LogoTraps, ImageArrives, ImageFails, ShowLoaded, ShowInvalid,
     ShowImage, Back, SaveTraps, OpenHome, OpenSearch, Push, DismissAlert, LoseSession, vars
<1> QED BY <1>1, <1>2, <1>3, <1>4, <1>5

-----------------------------------------------------------------------------
(* The variables keep their types. *)
THEOREM TypeCorrect == Spec => []TypeOK
<1>1. IndInv => TypeOK
  BY DEF IndInv
<1> QED BY <1>1, InitInv, StepInv, PTL DEF Spec

(* A screen shows its own stock's logo, unless its fetchLogo failed and it is one of
   the home screens, which share a controller. *)
THEOREM LogoIsOwnCorrect == Spec => []LogoIsOwn
<1>1. IndInv => LogoIsOwn
  BY DEF IndInv, LogoInv, Fits, LogoIsOwn
<1> QED BY <1>1, InitInv, StepInv, PTL DEF Spec

(* A loaded screen at rest shows a logo or had a request fail, open or not. *)
THEOREM RestShowsLogoCorrect == Spec => []RestShowsLogo
<1>1. RestInv => RestShowsLogo
  BY DEF RestInv, RestOf, RestShowsLogo
<1> QED BY <1>1, InitInv, StepInv, RestInit, RestStep, PTL DEF Spec

(* Whatever was reported as saved is being written, stored or refused. *)
THEOREM SavedIsWrittenCorrect == Spec => []SavedIsWritten
<1>1. Init => SavedIsWritten
  BY DEF Init, SavedIsWritten
<1> QED BY <1>1, SavedStep, PTL DEF Spec

-----------------------------------------------------------------------------
\* The table of key data.

(* Once a home screen's rows are being shown, every row added at least one value. *)
HomeInv ==
    (kind = "home" /\ values # <<>>) => quote /\ TableRuns /\ Len(keyDataTableData) >= row

(* The data of a complete quote starts with all of its values, and with them all
   the rows are right. *)
CompleteInv ==
    Complete =>
        /\ TableRuns
        /\ keyDataTableData # <<>> =>
              /\ Len(keyDataTableData) >= Labels
              /\ \A r \in 1..Labels : keyDataTableData[r] = r
        /\ \A r \in 1..Labels : cells[r] \in {0, r}

KeyDataInv == KeyDataTypeOK /\ HomeInv /\ CompleteInv

-----------------------------------------------------------------------------
(* The values are there to be appended to the data. *)
LEMMA ValuesType == ASSUME KeyDataTypeOK PROVE values \in Seq(1..Labels) /\ Len(values) \in Nat
BY QuotesAssumption, LenProperties DEF KeyDataTypeOK

(* A complete quote has as many values as there are labels. *)
LEMMA CompleteLength ==
  ASSUME KeyDataTypeOK, Complete
  PROVE  Len(values) = Labels /\ \A r \in 1..Labels : values[r] = r
<1>1. Len(values) = Labels
  BY ValuesType, LabelsAssumption, LenProperties DEF Complete
<1> QED BY <1>1 DEF Complete

(* Appending the values makes the data longer by their number. *)
LEMMA FillFact ==
  ASSUME KeyDataTypeOK, Fill
  PROVE  /\ keyDataTableData' \in Seq(1..Labels)
         /\ Len(keyDataTableData) \in Nat
         /\ Len(keyDataTableData') = Len(keyDataTableData) + Len(values)
         /\ \A i \in 1..Len(keyDataTableData) : keyDataTableData'[i] = keyDataTableData[i]
         /\ \A i \in 1..Len(values) :
               keyDataTableData'[Len(keyDataTableData) + i] = values[i]
         /\ \A i \in 1..Len(keyDataTableData') : keyDataTableData'[i] \in 1..Labels
<1>1. keyDataTableData \in Seq(1..Labels) /\ values \in Seq(1..Labels)
  BY ValuesType DEF KeyDataTypeOK
<1>2. keyDataTableData' = keyDataTableData \o values
  BY DEF Fill
<1>3. /\ keyDataTableData' \in Seq(1..Labels)
      /\ Len(keyDataTableData') = Len(keyDataTableData) + Len(values)
      /\ \A i \in 1..Len(keyDataTableData') :
            keyDataTableData'[i] = IF i <= Len(keyDataTableData) THEN keyDataTableData[i]
                                   ELSE values[i - Len(keyDataTableData)]
  BY <1>1, <1>2, ConcatProperties
<1>4. Len(keyDataTableData) \in Nat /\ Len(values) \in Nat
  BY <1>1, LenProperties
<1>5. keyDataTableData' \in [1..Len(keyDataTableData') -> 1..Labels]
  BY <1>3, LenProperties
<1> QED BY <1>3, <1>4, <1>5

-----------------------------------------------------------------------------
(* A screen starts with a blank table. *)
LEMMA KeyDataInvInit == KeyDataInit => KeyDataInv
<1> SUFFICES ASSUME KeyDataInit PROVE KeyDataInv
  OBVIOUS
<1>1. keyDataTableData \in Seq(1..Labels) /\ Len(keyDataTableData) = 0
  BY EmptySeq DEF KeyDataInit
<1>2. cells \in [1..Labels -> 0..Labels] /\ \A r \in 1..Labels : cells[r] = 0
  BY LabelsAssumption DEF KeyDataInit, Blank
<1>3. KeyDataTypeOK
  BY <1>1, <1>2, LabelsAssumption, QuotesAssumption DEF KeyDataInit, KeyDataTypeOK
<1>4. HomeInv
  <2> SUFFICES ASSUME kind = "home" PROVE quote /\ TableRuns /\ Len(keyDataTableData) >= row
    BY DEF HomeInv
  <2>1. quote
    BY DEF KeyDataInit
  <2>2. TableRuns /\ row = 0
    BY DEF KeyDataInit, TableRuns
  <2> QED BY <1>1, <2>1, <2>2
<1>5. CompleteInv
  <2>1. keyDataTableData = <<>> /\ TableRuns
    BY DEF KeyDataInit, TableRuns
  <2>2. \A r \in 1..Labels : cells[r] \in {0, r}
    BY <1>2
  <2> QED BY <2>1, <2>2 DEF CompleteInv
<1> QED BY <1>3, <1>4, <1>5 DEF KeyDataInv

(* Showing a row appends before it looks. *)
LEMMA ShowValueStep == KeyDataInv /\ ShowValue => KeyDataInv'
<1> SUFFICES ASSUME KeyDataInv, ShowValue PROVE KeyDataInv'
  OBVIOUS
<1> USE DEF KeyDataInv
<1>1. /\ row \in Nat /\ row' = row + 1 /\ row' \in 1..Labels /\ row' \in 0..Visible
      /\ Labels \in Nat
      /\ UNCHANGED <<kind, values, quote, reloaded>>
      /\ TableRuns /\ quote
  BY LabelsAssumption DEF ShowValue, KeyDataTypeOK
<1>2. Fill
  BY DEF ShowValue
<1>3. /\ keyDataTableData' \in Seq(1..Labels)
      /\ Len(keyDataTableData') \in Nat
      /\ \A i \in 1..Len(keyDataTableData') : keyDataTableData'[i] \in 1..Labels
  BY <1>2, FillFact, LenProperties
<1>4. \/ /\ row' <= Len(keyDataTableData')
         /\ cells' = [cells EXCEPT ![row'] = keyDataTableData'[row']]
         /\ UNCHANGED process
      \/ /\ ~(row' <= Len(keyDataTableData'))
         /\ process' = "trapped"
         /\ UNCHANGED cells
  BY DEF ShowValue, Index
<1>5. KeyDataTypeOK'
  <2>1. CASE row' <= Len(keyDataTableData')
    <3>1. keyDataTableData'[row'] \in 0..Labels
      BY <2>1, <1>1, <1>3
    <3> QED BY <2>1, <3>1, <1>1, <1>3, <1>4 DEF KeyDataTypeOK
  <2>2. CASE ~(row' <= Len(keyDataTableData'))
    BY <2>2, <1>1, <1>3, <1>4 DEF KeyDataTypeOK
  <2> QED BY <2>1, <2>2
<1>6. HomeInv'
  <2> SUFFICES ASSUME kind = "home", values # <<>>
               PROVE  TableRuns' /\ Len(keyDataTableData') >= row'
    BY <1>1 DEF HomeInv
  <2>1. Len(values) >= 1
    BY ValuesType, EmptySeq, LenProperties
  <2>2. Len(keyDataTableData) >= row
    BY DEF HomeInv
  <2>3. Len(keyDataTableData') >= row'
    BY <1>1, <1>2, <2>1, <2>2, FillFact, ValuesType
  <2> QED BY <2>3, <1>1, <1>4 DEF TableRuns
<1>7. CompleteInv'
  <2> SUFFICES ASSUME Complete PROVE CompleteInv'
    BY <1>1 DEF CompleteInv, Complete
  <2>1. Len(values) = Labels /\ \A r \in 1..Labels : values[r] = r
    BY CompleteLength
  <2>2. Len(keyDataTableData') >= Labels /\ \A r \in 1..Labels : keyDataTableData'[r] = r
    <3>1. CASE keyDataTableData = <<>>
      <4>1. Len(keyDataTableData) = 0
        BY <3>1
      <4>2. /\ Len(keyDataTableData') = Labels
            /\ \A i \in 1..Labels : keyDataTableData'[0 + i] = values[i]
        BY <4>1, <2>1, <1>1, <1>2, FillFact
      <4>3. \A i \in 1..Labels : 0 + i = i
        BY <1>1
      <4> QED BY <4>2, <4>3, <2>1, <1>1
    <3>2. CASE keyDataTableData # <<>>
      <4>1. /\ Len(keyDataTableData) >= Labels
            /\ \A r \in 1..Labels : keyDataTableData[r] = r
        BY <3>2 DEF CompleteInv
      <4>2. /\ Len(keyDataTableData) \in Nat
            /\ Len(keyDataTableData') = Len(keyDataTableData) + Labels
            /\ \A i \in 1..Len(keyDataTableData) :
                  keyDataTableData'[i] = keyDataTableData[i]
        BY <1>2, <2>1, FillFact
      <4>3. \A r \in 1..Labels : r \in 1..Len(keyDataTableData)
        BY <4>1, <4>2, <1>1
      <4> QED BY <4>1, <4>2, <4>3, <1>1
    <3> QED BY <3>1, <3>2
  <2>3. row' <= Len(keyDataTableData') /\ keyDataTableData'[row'] = row'
    BY <2>2, <1>1, <1>3
  <2>4. \A r \in 1..Labels : cells'[r] \in {0, r}
    BY <2>3, <1>1, <1>4 DEF CompleteInv, KeyDataTypeOK
  <2> QED BY <2>2, <2>3, <2>4, <1>1, <1>4 DEF CompleteInv, TableRuns
<1> QED BY <1>5, <1>6, <1>7

(* So do the arrival of the quote, the reload and the blank rows. *)
LEMMA KeyDataInvStep == KeyDataInv /\ [KeyDataNext]_keyDataVars => KeyDataInv'
<1> SUFFICES ASSUME KeyDataInv, [KeyDataNext]_keyDataVars PROVE KeyDataInv'
  OBVIOUS
<1> USE DEF KeyDataInv
<1>1. CASE QuoteArrives
  BY <1>1 DEF QuoteArrives, KeyDataTypeOK, HomeInv, CompleteInv, Complete, TableRuns
<1>2. CASE Reload
  <2>1. Len(keyDataTableData) \in Nat
    BY LenProperties DEF KeyDataTypeOK
  <2>2. cells' \in [1..Labels -> 0..Labels] /\ \A r \in 1..Labels : cells'[r] = 0
    BY <1>2, LabelsAssumption DEF Reload, Blank
  <2>3. KeyDataTypeOK'
    BY <1>2, <2>2, LabelsAssumption DEF Reload, KeyDataTypeOK
  <2>4. HomeInv'
    BY <1>2, <2>1 DEF Reload, HomeInv, TableRuns
  <2>5. CompleteInv'
    BY <1>2, <2>2 DEF Reload, CompleteInv, Complete, TableRuns
  <2> QED BY <2>3, <2>4, <2>5
<1>3. CASE ShowBlank
  <2>1. row' \in 0..Visible
    BY <1>3, LabelsAssumption DEF ShowBlank, KeyDataTypeOK
  <2> QED BY <1>3, <2>1 DEF ShowBlank, KeyDataTypeOK, HomeInv, CompleteInv, Complete, TableRuns
<1>4. CASE UNCHANGED keyDataVars
  BY <1>4 DEF keyDataVars, KeyDataTypeOK, HomeInv, CompleteInv, Complete, TableRuns
<1> QED BY <1>1, <1>2, <1>3, <1>4, ShowValueStep DEF KeyDataNext

-----------------------------------------------------------------------------
(* The variables keep their types. *)
THEOREM KeyDataTypeCorrect == KeyDataSpec => []KeyDataTypeOK
<1>1. KeyDataInv => KeyDataTypeOK
  BY DEF KeyDataInv
<1> QED BY <1>1, KeyDataInvInit, KeyDataInvStep, PTL DEF KeyDataSpec

(* A quote without a nil value is shown right, whenever it arrives. *)
THEOREM CompleteIsRightCorrect == KeyDataSpec => []CompleteIsRight
<1>1. KeyDataInv => CompleteIsRight
  BY DEF KeyDataInv, CompleteInv, CompleteIsRight
<1> QED BY <1>1, KeyDataInvInit, KeyDataInvStep, PTL DEF KeyDataSpec

(* The table of a home screen never indexes past its data for a quote with a value. *)
THEOREM HomeNeverTrapsCorrect == KeyDataSpec => []HomeNeverTraps
<1>1. KeyDataInv => HomeNeverTraps
  BY DEF KeyDataInv, HomeInv, HomeNeverTraps
<1> QED BY <1>1, KeyDataInvInit, KeyDataInvStep, PTL DEF KeyDataSpec

-----------------------------------------------------------------------------
\* The rows of any quote.

(* The data is the values, some number of times over. *)
TurnInv ==
    /\ values = <<>> => keyDataTableData = <<>> /\ \A r \in 1..Labels : cells[r] = 0
    /\ values # <<>> =>
          /\ \E times \in Nat : Len(keyDataTableData) = Len(values) * times
          /\ \A i \in 1..Len(keyDataTableData) :
                keyDataTableData[i] = values[((i - 1) % Len(values)) + 1]
    /\ ShownInTurn

LEMMA NoMultiple ==
  ASSUME NEW n \in Nat \ {0}, NEW d \in Int, n * d < n, -n < n * d
  PROVE  d = 0
<1>1. CASE d >= 1
  <2>1. n * d >= n
    BY <1>1
  <2> QED BY <2>1
<1>2. CASE d <= -1
  <2>1. n * d <= -n
    BY <1>2
  <2> QED BY <2>1
<1> QED BY <1>1, <1>2

(* Multiples leave the remainder as it is. *)
LEMMA Remainder ==
  ASSUME NEW n \in Nat \ {0}, NEW times \in Nat, NEW m \in 0..n - 1
  PROVE  (n * times + m) % n = m
<1> DEFINE x == n * times + m
           q == x \div n
           r == x % n
<1>1. n * times + m = n * q + r /\ r \in 0..n - 1 /\ q \in Int
  OBVIOUS
<1> HIDE DEF q, r
<1>2. n * (times - q) = r - m
  BY <1>1
<1>3. times - q = 0
  BY <1>1, <1>2, NoMultiple
<1>4. r = m
  BY <1>1, <1>2, <1>3
<1> QED BY <1>4 DEF r, x

LEMMA TurnInit == KeyDataInit => TurnInv
<1> SUFFICES ASSUME KeyDataInit PROVE TurnInv
  OBVIOUS
<1>1. \A r \in 1..Labels : cells[r] = 0
  BY DEF KeyDataInit, Blank
<1>2. keyDataTableData = <<>> /\ Len(keyDataTableData) = 0
  BY DEF KeyDataInit
<1>3. Len(values) \in Nat
  BY QuotesAssumption, LenProperties DEF KeyDataInit
<1>4. Len(keyDataTableData) = Len(values) * 0
  BY <1>2, <1>3
<1> QED BY <1>1, <1>2, <1>4 DEF TurnInv, ShownInTurn

(* The values are appended, once more: what a row shows is a value of one of the turns. *)
LEMMA TurnShowValue == KeyDataInv /\ TurnInv /\ ShowValue => TurnInv'
<1> SUFFICES ASSUME KeyDataInv, TurnInv, ShowValue PROVE TurnInv'
  OBVIOUS
<1> DEFINE n == Len(values)
           old == Len(keyDataTableData)
           new == Len(keyDataTableData')
<1>1. /\ Fill /\ UNCHANGED values /\ row \in Nat /\ row' = row + 1
      /\ cells' = cells \/ (row' <= new /\ cells' = [cells EXCEPT ![row'] = keyDataTableData'[row']])
      /\ cells \in [1..Labels -> 0..Labels]
  BY LabelsAssumption DEF ShowValue, Index, KeyDataInv, KeyDataTypeOK
<1>2. /\ n \in Nat /\ old \in Nat /\ new = old + n
      /\ \A i \in 1..old : keyDataTableData'[i] = keyDataTableData[i]
      /\ \A i \in 1..n : keyDataTableData'[old + i] = values[i]
  BY <1>1, FillFact, ValuesType DEF KeyDataInv
<1>3. CASE values = <<>>
  <2>1. keyDataTableData = <<>> /\ keyDataTableData' = <<>> /\ new = 0
    BY <1>1, <1>3 DEF Fill, TurnInv
  <2>2. UNCHANGED cells
    BY <1>1, <2>1
  <2> QED BY <1>1, <1>3, <2>1, <2>2 DEF TurnInv, ShownInTurn
<1>4. CASE values # <<>>
  <2>1. n \in Nat \ {0}
    BY <1>2, <1>4, ValuesType, EmptySeq DEF KeyDataInv
  <2>2. PICK times \in Nat : old = n * times
    BY <1>4 DEF TurnInv
  <2>3. new = n * (times + 1) /\ times + 1 \in Nat
    BY <1>2, <2>1, <2>2
  <2>4. ASSUME NEW i \in 1..new
        PROVE  keyDataTableData'[i] = values[((i - 1) % n) + 1]
    <3>1. CASE i <= old
      <4>1. i \in 1..old
        BY <1>2, <3>1
      <4> QED BY <1>2, <1>4, <4>1 DEF TurnInv
    <3>2. CASE i > old
      <4>1. i - old \in 1..n /\ i = old + (i - old) /\ i - old - 1 \in 0..n - 1
        BY <1>2, <2>4, <3>2
      <4>2. keyDataTableData'[i] = values[i - old]
        BY <1>2, <4>1
      <4>3. i - 1 = n * times + (i - old - 1)
        BY <1>2, <2>1, <2>2, <4>1
      <4>4. (i - 1) % n = i - old - 1
        BY <2>1, <4>1, <4>3, Remainder
      <4>5. ((i - 1) % n) + 1 = i - old
        BY <1>2, <4>1, <4>4
      <4> QED BY <4>2, <4>5
    <3> QED BY <1>2, <3>1, <3>2
  <2>5. ShownInTurn'
    <3> SUFFICES ASSUME NEW r \in 1..Labels, cells'[r] # 0
                 PROVE  cells'[r] = values[((r - 1) % n) + 1]
      BY <1>1 DEF ShownInTurn
    <3>1. CASE cells'[r] = cells[r]
      BY <3>1 DEF TurnInv, ShownInTurn
    <3>2. CASE cells'[r] # cells[r]
      <4>1. r = row' /\ row' <= new /\ cells'[r] = keyDataTableData'[r]
        BY <1>1, <3>2
      <4>2. r \in 1..new
        BY <1>1, <1>2, <4>1
      <4> QED BY <2>4, <4>1, <4>2
    <3> QED BY <3>1, <3>2
  <2> QED BY <1>1, <1>4, <2>3, <2>4, <2>5 DEF TurnInv
<1> QED BY <1>3, <1>4

LEMMA TurnStep == KeyDataInv /\ TurnInv /\ [KeyDataNext]_keyDataVars => TurnInv'
<1> SUFFICES ASSUME KeyDataInv, TurnInv, [KeyDataNext]_keyDataVars PROVE TurnInv'
  OBVIOUS
<1>1. CASE QuoteArrives \/ ShowBlank \/ UNCHANGED keyDataVars
  BY <1>1 DEF QuoteArrives, ShowBlank, keyDataVars, TurnInv, ShownInTurn
<1>2. CASE Reload
  <2>1. \A r \in 1..Labels : cells'[r] = 0
    BY <1>2 DEF Reload, Blank
  <2> QED BY <1>2, <2>1 DEF Reload, TurnInv, ShownInTurn
<1> QED BY <1>1, <1>2, TurnShowValue DEF KeyDataNext

(* Whatever values a quote lacks, the rows show those it has, in turn. *)
THEOREM ShownInTurnCorrect == KeyDataSpec => []ShownInTurn
<1>1. TurnInv => ShownInTurn
  BY DEF TurnInv
<1> QED BY <1>1, KeyDataInvInit, KeyDataInvStep, TurnInit, TurnStep, PTL DEF KeyDataSpec

=============================================================================
