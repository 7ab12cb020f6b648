---------------------------- MODULE StockScreens ----------------------------
(***************************************************************************)
(* The screens of one stock: HomeStockDetialViewController, opened from    *)
(* the Home tab with its stock, and ResultsViewController, opened from the *)
(* Search tab with a symbol it has to load first.                          *)
(*                                                                         *)
(* All home screens share the StockController of HomeTableViewController,  *)
(* and with it `stockLogoURL'; every search screen has its own.  Handlers  *)
(* of answers run one at a time on the session's queue: each is one step,  *)
(* the getData they call in it included.  Saving queues a write in the     *)
(* Firebase client, which keeps it in memory until the server decides.     *)
(***************************************************************************)
EXTENDS Naturals

CONSTANTS
    Stocks,
    None,
    HomeScreens,    \* bound: screens opened from the Home tab
    SearchScreens   \* bound: screens opened from the Search tab

ASSUME ScreensAssumption == HomeScreens \cap SearchScreens = {}
ASSUME NoneAssumption == None \notin Stocks \cup HomeScreens \cup SearchScreens

VARIABLES
    top,        \* tab -> the stock screen on its navigation stack, or None
    alert,      \* an alert covers the screen
    signedIn,   \* Auth.auth().currentUser is not nil
    screens,    \* screen -> what its view controller holds
    logoURL,    \* controller -> the stock its stockLogoURL belongs to, or None
    writes,     \* saves the Firebase client has not got an answer for
    reported,   \* stocks reported as saved
    stored,     \* stocks in the user's WatchList on the server
    refused,    \* stocks whose write the server refused
    app         \* "running", or what stopped the process

vars == <<top, alert, signedIn, screens, logoURL, writes, reported, stored, refused, app>>

-----------------------------------------------------------------------------
Screens == HomeScreens \cup SearchScreens
Tabs == {"home", "search"}
TabOf(screen) == IF screen \in HomeScreens THEN "home" ELSE "search"

\* The StockController a screen uses; the home tab's is named None.
ControllerOf(screen) == IF screen \in HomeScreens THEN None ELSE screen
Controllers == SearchScreens \cup {None}

Phases == {"unused", "batch", "loaded", "invalid", "logo", "image", "arrived", "idle"}

ScreenStates ==
    [stock : Stocks \cup {None},    \* the stock it was opened for
     quote : Stocks \cup {None},    \* the stock whose quote it has
     ref : BOOLEAN,                 \* `ref' is set
     phase : Phases,                \* how far its requests are
     download : Stocks \cup {None}, \* the stock whose image getData asks for
     image : Stocks \cup {None},    \* the stock whose logo it shows
     failed : SUBSET {"logo", "image"}]

Unused == [stock |-> None, quote |-> None, ref |-> FALSE, phase |-> "unused",
           download |-> None, image |-> None, failed |-> {}]

Running == app = "running"
Touchable(screen) == Running /\ ~alert /\ top[TabOf(screen)] = screen
At(screen, phase) == Running /\ screens[screen].phase = phase

Init ==
    /\ top = [tab \in Tabs |-> None]
    /\ alert = FALSE
    /\ signedIn = TRUE
    /\ screens = [screen \in Screens |-> Unused]
    /\ logoURL = [controller \in Controllers |-> None]
    /\ writes = {}
    /\ reported = {}
    /\ stored = {}
    /\ refused = {}
    /\ app = "running"

-----------------------------------------------------------------------------
\* Opening and leaving.  The user may change tabs before any of these.

Push(screen, state) ==
    /\ At(screen, "unused")
    /\ ~alert
    /\ top[TabOf(screen)] = None
    /\ top' = [top EXCEPT ![TabOf(screen)] = screen]
    /\ screens' = [screens EXCEPT ![screen] = state]
    /\ UNCHANGED <<alert, signedIn, logoURL, writes, reported, stored, refused, app>>

\* viewDidLoad of a home screen has its stock's batch and asks for the logo.
OpenHome(screen, stock) ==
    Push(screen, [Unused EXCEPT !.stock = stock, !.quote = stock, !.phase = "logo"])

\* viewDidLoad of a search screen asks for the batch, and sets `ref' for a user.
OpenSearch(screen, stock) ==
    Push(screen, [Unused EXCEPT !.stock = stock, !.ref = signedIn, !.phase = "batch"])

\* The screen lives on in the closures of its requests.
Back(screen) ==
    /\ Touchable(screen)
    /\ top' = [top EXCEPT ![TabOf(screen)] = None]
    /\ UNCHANGED <<alert, signedIn, screens, logoURL, writes, reported, stored, refused, app>>

DismissAlert ==
    /\ Running
    /\ alert
    /\ alert' = FALSE
    /\ UNCHANGED <<top, signedIn, screens, logoURL, writes, reported, stored, refused, app>>

\* Firebase signs a user out whose token the server no longer accepts.
LoseSession ==
    /\ Running
    /\ signedIn
    /\ signedIn' = FALSE
    /\ UNCHANGED <<top, alert, screens, logoURL, writes, reported, stored, refused, app>>

-----------------------------------------------------------------------------
\* Loading a search screen.

\* The batch decodes: the controller's quote is set, the block is dispatched.
BatchFound(screen) ==
    /\ At(screen, "batch")
    /\ screens' = [screens EXCEPT ![screen].quote = screens[screen].stock,
                                  ![screen].phase = "loaded"]
    /\ UNCHANGED <<top, alert, signedIn, logoURL, writes, reported, stored, refused, app>>

BatchFails(screen) ==
    /\ At(screen, "batch")
    /\ screens' = [screens EXCEPT ![screen].phase = "invalid"]
    /\ UNCHANGED <<top, alert, signedIn, logoURL, writes, reported, stored, refused, app>>

\* The main queue's block: reloads, chart, updateViews, and fetchImage's request.
ShowLoaded(screen) ==
    /\ At(screen, "loaded")
    /\ screens' = [screens EXCEPT ![screen].phase = "logo"]
    /\ UNCHANGED <<top, alert, signedIn, logoURL, writes, reported, stored, refused, app>>

\* "Please Provide Valid Symbol", unless the screen is out of sight.
ShowInvalid(screen) ==
    /\ At(screen, "invalid")
    /\ screens' = [screens EXCEPT ![screen].phase = "idle"]
    /\ alert' \in {alert, alert \/ top["search"] = screen}
    /\ UNCHANGED <<top, signedIn, logoURL, writes, reported, stored, refused, app>>

-----------------------------------------------------------------------------
\* The logo.

\* (Faulty: the completion runs before the answer is stored.)
URLBefore(screen) == logoURL[ControllerOf(screen)]
\* The URL that fetchLogo's completion reads from the controller.
URLRead(screen) == logoURL'[ControllerOf(screen)]

\* getData(url: URL(string: stockController.stockLogoURL!)!)
GetData(screen, failure) ==
    screens' = [screens EXCEPT ![screen].phase = "image",
                               ![screen].download = URLRead(screen),
                               ![screen].failed = @ \cup failure]

LogoFound(screen) ==
    /\ At(screen, "logo")
    /\ logoURL' = [logoURL EXCEPT ![ControllerOf(screen)] = screens[screen].stock]
    /\ GetData(screen, {})
    /\ UNCHANGED <<top, alert, signedIn, writes, reported, stored, refused, app>>

\* The error is printed, and the URL the controller had unwrapped all the same.
LogoFails(screen) ==
    /\ At(screen, "logo")
    /\ logoURL[ControllerOf(screen)] # None
    /\ UNCHANGED logoURL
    /\ GetData(screen, {"logo"})
    /\ UNCHANGED <<top, alert, signedIn, writes, reported, stored, refused, app>>

\* The controller has none to unwrap, or the server's is "" and URL(string:) is nil.
LogoTraps(screen) ==
    /\ At(screen, "logo")
    /\ app' = "noLogo"
    /\ UNCHANGED <<top, alert, signedIn, screens, logoURL, writes, reported, stored, refused>>

ImageArrives(screen) ==
    /\ At(screen, "image")
    /\ screens' = [screens EXCEPT ![screen].phase = "arrived"]
    /\ UNCHANGED <<top, alert, signedIn, logoURL, writes, reported, stored, refused, app>>

\* No data, or none that is an image: there is nothing to show.
ImageFails(screen) ==
    /\ At(screen, "image")
    /\ screens' = [screens EXCEPT ![screen].phase = "idle", ![screen].failed = @ \cup {"image"}]
    /\ UNCHANGED <<top, alert, signedIn, logoURL, writes, reported, stored, refused, app>>

\* (Faulty: only a screen still open takes its image.)
ImageIfOpen(screen) ==
    IF top[TabOf(screen)] = screen THEN screens[screen].download ELSE None
\* The closure holds its screen, open or not.
ImageOf(screen) == screens[screen].download

ShowImage(screen) ==
    /\ At(screen, "arrived")
    /\ screens' = [screens EXCEPT ![screen].phase = "idle", ![screen].image = ImageOf(screen)]
    /\ UNCHANGED <<top, alert, signedIn, logoURL, writes, reported, stored, refused, app>>

-----------------------------------------------------------------------------
\* Saving.

\* ref.child(key).setValue(object), without a completion block.
Write(stock) == writes' = writes \cup {stock}

\* (Faulty: the screen is taken for loaded when it is opened.)
OpenedFor(screen) == screens[screen].stock # None
Loaded(screen) == screens[screen].quote # None

(* The quote's stock is written and the alert "Stock Saved!" shown.  A home screen
   takes the user as they are now, a search screen the one it was opened by. *)
Save(screen) ==
    /\ Touchable(screen)
    /\ IF screen \in HomeScreens THEN signedIn ELSE screens[screen].ref
    /\ Loaded(screen)
    /\ Write(screens[screen].quote)
    /\ reported' = reported \cup {screens[screen].quote}
    /\ alert' = TRUE
    /\ UNCHANGED <<top, signedIn, screens, logoURL, stored, refused, app>>

\* A search screen unwraps `ref' before it looks at anything else.
SaveTraps(screen) ==
    /\ Touchable(screen)
    /\ screen \in SearchScreens
    /\ ~screens[screen].ref
    /\ app' = "noRef"
    /\ UNCHANGED <<top, alert, signedIn, screens, logoURL, writes, reported, stored, refused>>

Accept(stock) ==
    /\ Running
    /\ stock \in writes
    /\ writes' = writes \ {stock}
    /\ stored' = stored \cup {stock}
    /\ UNCHANGED <<top, alert, signedIn, screens, logoURL, reported, refused, app>>

Refuse(stock) ==
    /\ Running
    /\ stock \in writes
    /\ writes' = writes \ {stock}
    /\ refused' = refused \cup {stock}
    /\ UNCHANGED <<top, alert, signedIn, screens, logoURL, reported, stored, app>>

-----------------------------------------------------------------------------
AnswerBatch(screen) == BatchFound(screen) \/ BatchFails(screen)
AnswerLogo(screen) == LogoFound(screen) \/ LogoFails(screen) \/ LogoTraps(screen)
AnswerImage(screen) == ImageArrives(screen) \/ ImageFails(screen)
MainBlock(screen) == ShowLoaded(screen) \/ ShowInvalid(screen) \/ ShowImage(screen)

Next ==
    \/ \E screen \in Screens :
          \/ AnswerBatch(screen)
          \/ AnswerLogo(screen)
          \/ AnswerImage(screen)
          \/ MainBlock(screen)
          \/ Back(screen)
          \/ Save(screen)
          \/ SaveTraps(screen)
    \/ \E screen \in HomeScreens, stock \in Stocks : OpenHome(screen, stock)
    \/ \E screen \in SearchScreens, stock \in Stocks : OpenSearch(screen, stock)
    \/ \E stock \in Stocks : Accept(stock) \/ Refuse(stock)
    \/ DismissAlert
    \/ LoseSession

Spec == Init /\ [][Next]_vars

-----------------------------------------------------------------------------
\* Properties.

\* The variables' types.
TypeOK ==
    /\ top \in [Tabs -> Screens \cup {None}]
    /\ alert \in BOOLEAN
    /\ signedIn \in BOOLEAN
    /\ screens \in [Screens -> ScreenStates]
    /\ logoURL \in [Controllers -> Stocks \cup {None}]
    /\ writes \subseteq Stocks
    /\ reported \subseteq Stocks
    /\ stored \subseteq Stocks
    /\ refused \subseteq Stocks
    /\ app \in {"running", "noLogo", "noRef"}

(* The logo on a screen is its own stock's, although the home screens share one
   controller and their answers interleave.  The exception is a home screen whose
   fetchLogo failed: it shows the logo the shared controller had. *)
LogoIsOwn ==
    \A screen \in Screens :
        \/ screens[screen].image \in {None, screens[screen].stock}
        \/ screen \in HomeScreens /\ "logo" \in screens[screen].failed

(* A loaded screen with nothing under way shows a logo, unless a request failed: no
   image is dropped on its way, not even for a screen that was left. *)
RestShowsLogo ==
    \A screen \in Screens :
        (screens[screen].phase = "idle" /\ screens[screen].quote # None)
            => (screens[screen].image # None \/ screens[screen].failed # {})

(* What was reported as saved is with the Firebase client, or the server has decided
   on it: the app drops no save, and reports none it did not make. *)
SavedIsWritten == reported \subseteq writes \cup stored \cup refused

=============================================================================
