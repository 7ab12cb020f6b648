------------------------------ MODULE Session ------------------------------
(***************************************************************************)
(* Who is signed in, and what the app and the server keep of them: the     *)
(* launch, the login screens (SignInViewController, SignUpViewController,  *)
(* WelcomeController) and the sign-out of SettingsViewController.          *)
(*                                                                         *)
(* Firebase keeps the user in the keychain, the app a name in UserDefaults *)
(* and the server users/<uid>: three places, written at different times.   *)
(* A login's answer changes the user on Firebase's own queue; what the app *)
(* does about it runs later on the main queue.  The indicator covers the   *)
(* view of a login screen and not its back button, so that a login may be  *)
(* left under way, and another begun.                                      *)
(***************************************************************************)
EXTENDS Naturals, Sequences

CONSTANTS
    EmailUsers,     \* users who log in with an email
    FacebookUsers,
    None,
    Requests,       \* bound: logins under way at once
    MaxWrites       \* bound: writes the Firebase client has no answer for

Users == EmailUsers \cup FacebookUsers

ASSUME UsersAssumption == EmailUsers \cap FacebookUsers = {}
ASSUME NoneAssumption == None \notin Users \cup Requests
ASSUME MaxWritesAssumption == MaxWrites \in Nat \ {0}

VARIABLES
    screen,     \* the screen on top
    hud,        \* its touch-blocking indicator is shown
    requests,   \* the logins under way
    blocks,     \* their completions on the main queue, in order
    user,       \* Auth.auth().currentUser, kept in the keychain
    name,       \* "name" in UserDefaults: the user it is the name of
    hasRun,     \* "hasRunBefore" in UserDefaults
    accounts,   \* the users the server knows
    records,    \* users/<uid> on the server: its name, and whether it has a WatchList
    writes,     \* the client's writes, in order
    inherited,  \* history: the user an earlier installation left signed in
    lost,       \* history: the last session ended without the app
    mixed       \* history: users whose session ended without a sign-out or met another's

held == <<name, hasRun, records>>
history == <<inherited, lost, mixed>>
vars == <<screen, hud, requests, blocks, user, accounts, writes, held, history>>

-----------------------------------------------------------------------------
Kinds == {"none", "signIn", "signUp", "facebook"}
Phases == {"idle", "dialog", "sent", "answered", "graph", "writing"}

RequestStates ==
    [kind : Kinds,
     user : Users \cup {None},
     phase : Phases,
     here : BOOLEAN]    \* the screen it was made on has not been left

Idle == [kind |-> "none", user |-> None, phase |-> "idle", here |-> FALSE]
UnderWay(request) == request.phase \in {"sent", "answered", "graph", "writing"}

Writes ==
    [kind : {"set", "update", "stock"}, user : Users, name : Users \cup {None},
     request : Requests \cup {None}]

Screens ==
    {"dead", "splash", "splashOut", "onboarding", "welcome", "signIn", "signUp",
     "signedUp", "tabs", "signingOut"}

Alive == screen # "dead"
\* Signing out is one handler, and nothing else runs on the main thread meanwhile.
MainFree == screen \notin {"dead", "signingOut"}
In(q, kind, phase) == requests[q].kind = kind /\ requests[q].phase = phase
Known(u) == {u} \ {None}

Init ==
    /\ screen = "dead"
    /\ hud = FALSE
    /\ requests = [q \in Requests |-> Idle]
    /\ blocks = <<>>
    /\ user = None
    /\ name = None
    /\ hasRun = FALSE
    /\ accounts = {}
    /\ records = [u \in Users |-> [name |-> None, list |-> FALSE]]
    /\ writes = <<>>
    /\ inherited = None
    /\ lost = FALSE
    /\ mixed = {}

-----------------------------------------------------------------------------
\* The process and its launch.

\* (Faulty: whoever is in the keychain stays signed in.)
KeychainUser == user
FirstUser == None

(* The first launch of an installation signs out who is left in the keychain.  That
   may fail, and the flag is set all the same.  The launch screen then looks at
   the user: its block presents the onboarding before the timer's segue is due. *)
FirstLaunch ==
    /\ hasRun' = TRUE
    /\ \/ user' = FirstUser /\ UNCHANGED mixed
       \/ user' = user /\ mixed' = mixed \cup Known(user)
    /\ inherited' = IF user' = None THEN None ELSE inherited

Launch ==
    /\ ~Alive
    /\ \/ ~hasRun /\ FirstLaunch
       \/ hasRun /\ UNCHANGED <<hasRun, user, inherited, mixed>>
    /\ screen' = IF user' = None THEN "splashOut" ELSE "splash"
    /\ UNCHANGED <<hud, requests, blocks, name, accounts, records, writes, lost>>

Move(from, to) ==
    /\ screen = from
    /\ ~hud
    /\ screen' = to
    /\ UNCHANGED <<hud, requests, blocks, user, accounts, writes, held, history>>

\* Without a user the onboarding is presented at once.  The segue to the tabs is performed
\* after two seconds all the same: over the onboarding UIKit refuses it, which is no step.
PresentOnboarding == Move("splashOut", "onboarding")
ShowMainMenu == Move("splash", "tabs")

\* An account asked for may exist on the server, the app not knowing.
Asked == {requests[q].user : q \in {r \in Requests : In(r, "signUp", "sent")}}

\* The process ends: what was under way and unwritten is gone.
Stop ==
    /\ Alive
    /\ screen' = "dead"
    /\ hud' = FALSE
    /\ requests' = [q \in Requests |-> Idle]
    /\ blocks' = <<>>
    /\ writes' = <<>>
    /\ \E made \in SUBSET Asked : accounts' = accounts \cup made
    /\ mixed' = IF screen = "signingOut" THEN mixed \cup Known(name) ELSE mixed
    /\ UNCHANGED <<user, held, inherited, lost>>

\* The app is removed and installed anew: the keychain stays.
Reinstall ==
    /\ ~Alive
    /\ name' = None
    /\ hasRun' = FALSE
    /\ inherited' = user
    /\ UNCHANGED <<screen, hud, requests, blocks, user, accounts, records, writes, lost, mixed>>

\* Firebase signs a user out whose token the server no longer accepts.
LoseSession ==
    /\ MainFree
    /\ user # None
    /\ user' = None
    /\ inherited' = None
    /\ lost' = TRUE
    /\ mixed' = mixed \cup {user}
    /\ UNCHANGED <<screen, hud, requests, blocks, accounts, writes, held>>

-----------------------------------------------------------------------------
\* The login screens.

\* Skip and Get Started, and the buttons of the welcome screen.
GetStarted == Move("onboarding", "welcome")
ToSignIn == Move("welcome", "signIn")
ToSignUp == Move("welcome", "signUp")

\* The back button, which no indicator covers: a login under way goes on.
Back ==
    /\ screen \in {"signIn", "signUp"}
    /\ screen' = "welcome"
    /\ hud' = FALSE
    /\ requests' = [q \in Requests |-> [requests[q] EXCEPT !.here = FALSE]]
    /\ UNCHANGED <<blocks, user, accounts, writes, held, history>>

Ask(q, kind, u, phase) ==
    /\ ~hud
    /\ requests[q] = Idle
    /\ requests' = [requests EXCEPT ![q] =
                      [kind |-> kind, user |-> u, phase |-> phase, here |-> TRUE]]
    /\ hud' = TRUE
    /\ UNCHANGED <<screen, blocks, user, accounts, writes, held, history>>

SignInButtonTapped(q, u) == screen = "signIn" /\ Ask(q, "signIn", u, "sent")
SignUpButtonPressed(q, u) == screen = "signUp" /\ Ask(q, "signUp", u, "sent")
FacebookButtonPressed(q) == screen = "welcome" /\ Ask(q, "facebook", None, "dialog")

Finish(q) == requests' = [requests EXCEPT ![q] = Idle]

\* (Faulty: the indicator is left for the next screen to cover.)
HudLeft(q) == hud
\* self.hud.dismiss: the indicator of the login's own screen, if it is there.
HudAfter(q) == hud /\ ~requests[q].here

-----------------------------------------------------------------------------
\* Answers to a login.

\* Other users a login finds signed in, being signed out or under way.
Met(q) ==
    Known(user) \cup (IF screen = "signingOut" THEN Known(name) ELSE {}) \cup
    {requests[p].user : p \in {r \in Requests \ {q} : UnderWay(requests[r])}}

(* Firebase's queue makes the answer's user the current one and saves it, whoever was
   before. *)
AuthSucceeds(q) ==
    LET u == requests[q].user IN
    /\ Alive
    /\ requests[q].phase = "sent"
    /\ requests[q].kind = "signIn" => u \in accounts
    /\ requests[q].kind = "signUp" => u \notin accounts
    /\ user' = u
    /\ accounts' = accounts \cup {u}
    /\ requests' = [requests EXCEPT ![q].phase = "answered"]
    /\ blocks' = Append(blocks, q)
    /\ inherited' = None
    /\ lost' = FALSE
    /\ mixed' = IF Met(q) \subseteq {u} THEN mixed ELSE mixed \cup {u} \cup Met(q)
    /\ UNCHANGED <<screen, hud, writes, held>>

\* The indicator goes and an alert comes.  A sign-up may have made its account.
AuthFails(q) ==
    /\ MainFree
    /\ requests[q].phase = "sent"
    /\ \E made \in SUBSET {requests[q].user} :
          /\ made # {} => requests[q].kind # "signIn"
          /\ accounts' = accounts \cup made
    /\ hud' = HudAfter(q)
    /\ Finish(q)
    /\ UNCHANGED <<screen, blocks, user, writes, held, history>>

\* The main queue runs a login's completion.
Complete(q, kind) ==
    /\ MainFree
    /\ blocks # <<>>
    /\ q = Head(blocks)
    /\ In(q, kind, "answered")
    /\ blocks' = Tail(blocks)

\* A screen that was left presents nothing.
Present(q, next) == screen' = IF requests[q].here THEN next ELSE screen

SignInDone(q) ==
    /\ Complete(q, "signIn")
    /\ hud' = HudAfter(q)
    /\ Present(q, "tabs")
    /\ Finish(q)
    /\ UNCHANGED <<user, accounts, writes, held, history>>

Queue(kind, written, request) ==
    /\ Len(writes) < MaxWrites
    /\ writes' = Append(writes, [kind |-> kind, user |-> user, name |-> written,
                                 request |-> request])

\* (Faulty: there is always a user after a sign-up.)
Anyone == TRUE
\* guard let uid = Auth.auth().currentUser?.uid
Someone == user # None

(* saveUserIntoFirebase sets the record of whoever is signed in by now to the
   form's name and email; the name is kept in UserDefaults in any case. *)
SignUpDone(q) ==
    /\ Complete(q, "signUp")
    /\ \/ Someone /\ Queue("set", requests[q].user, None)
       \/ ~Someone /\ UNCHANGED writes
    /\ hud' = HudAfter(q)
    /\ name' = requests[q].user
    /\ Present(q, "signedUp")
    /\ Finish(q)
    /\ UNCHANGED <<user, hasRun, accounts, records, history>>

\* "Sign Up Successful": OK presents the tabs.
ConfirmSignUp == Move("signedUp", "tabs")

-----------------------------------------------------------------------------
\* Facebook.

FacebookGrants(q, u) ==
    /\ MainFree
    /\ In(q, "facebook", "dialog")
    /\ requests' = [requests EXCEPT ![q].phase = "sent", ![q].user = u]
    /\ UNCHANGED <<screen, hud, blocks, user, accounts, writes, held, history>>

FacebookCancelled(q) ==
    /\ MainFree
    /\ In(q, "facebook", "dialog")
    /\ hud' = HudAfter(q)
    /\ Finish(q)
    /\ UNCHANGED <<screen, blocks, user, accounts, writes, held, history>>

\* A login given up at a step that leaves the indicator where it is.
GiveUp(q) ==
    /\ Finish(q)
    /\ UNCHANGED <<screen, hud, blocks, user, accounts, writes, held, history>>

\* .failed of the login, and an error of the Graph request.
FacebookFails(q) ==
    MainFree /\ In(q, "facebook", "dialog") /\ GiveUp(q)
GraphFails(q) ==
    MainFree /\ In(q, "facebook", "graph") /\ GiveUp(q)

\* fetchFacebookUser
FacebookSignedIn(q) ==
    /\ Complete(q, "facebook")
    /\ requests' = [requests EXCEPT ![q].phase = "graph"]
    /\ UNCHANGED <<screen, hud, user, accounts, writes, held, history>>

\* currentUser.displayName, which only Facebook gives.
DisplayName(u) == IF u \in FacebookUsers THEN u ELSE None

\* (Faulty: the record is set anew, as sign-up does.)
SetKind == "set"
UpdateKind == "update"

\* saveUserIntoFirebase; without a user the login is given up.
GraphAnswers(q) ==
    /\ MainFree
    /\ In(q, "facebook", "graph")
    /\ Someone
    /\ Queue(UpdateKind, DisplayName(user), q)
    /\ requests' = [requests EXCEPT ![q].phase = "writing"]
    /\ UNCHANGED <<screen, hud, blocks, user, accounts, held, history>>

GraphAnswersNobody(q) ==
    MainFree /\ In(q, "facebook", "graph") /\ ~Someone /\ GiveUp(q)

-----------------------------------------------------------------------------
\* The server's answers to the client's writes.

Apply(write, record) ==
    CASE write.kind = "set" -> [name |-> write.name, list |-> FALSE]
      [] write.kind = "update" -> [record EXCEPT !.name = write.name]
      [] write.kind = "stock" -> [record EXCEPT !.list = TRUE]

\* A Facebook login ends with its write.
Accept ==
    LET write == Head(writes) IN
    /\ MainFree
    /\ writes # <<>>
    /\ writes' = Tail(writes)
    /\ records' = [records EXCEPT ![write.user] = Apply(write, @)]
    /\ IF write.request = None
       THEN UNCHANGED <<screen, hud, requests>>
       ELSE /\ hud' = HudAfter(write.request)
            /\ Present(write.request, "tabs")
            /\ Finish(write.request)
    /\ UNCHANGED <<blocks, user, name, hasRun, accounts, history>>

\* A refused write is printed; a Facebook login is given up.
Refuse ==
    LET write == Head(writes) IN
    /\ MainFree
    /\ writes # <<>>
    /\ writes' = Tail(writes)
    /\ IF write.request = None THEN UNCHANGED requests ELSE Finish(write.request)
    /\ UNCHANGED <<screen, hud, blocks, user, accounts, held, history>>

-----------------------------------------------------------------------------
\* The tabs.

\* A stock is saved from one of its screens.
SaveStock ==
    /\ screen = "tabs"
    /\ Someone
    /\ Queue("stock", None, None)
    /\ UNCHANGED <<screen, hud, requests, blocks, user, accounts, held, history>>

\* Auth.auth().signOut(); if that throws, nothing changes.
SignOut ==
    /\ screen = "tabs"
    /\ user' = None
    /\ inherited' = None
    /\ screen' = "signingOut"
    /\ UNCHANGED <<hud, requests, blocks, accounts, writes, held, lost, mixed>>

\* (Faulty: the name is left in UserDefaults.)
NameStays == name
NameRemoved == None

\* (Faulty: the settings are closed.)
BackToTabs == "tabs"
AfterSignOut == "onboarding"

\* The rest of its handler.
SignedOut ==
    /\ screen = "signingOut"
    /\ name' = NameRemoved
    /\ screen' = AfterSignOut
    /\ UNCHANGED <<hud, requests, blocks, user, hasRun, accounts, records, writes, history>>

-----------------------------------------------------------------------------
Answer(q) == AuthSucceeds(q) \/ AuthFails(q)
Completion(q) == SignInDone(q) \/ SignUpDone(q) \/ FacebookSignedIn(q)
Graph(q) == GraphFails(q) \/ GraphAnswers(q) \/ GraphAnswersNobody(q)
Decide == Accept \/ Refuse

Next ==
    \/ \E q \in Requests :
          \/ \E u \in EmailUsers : SignInButtonTapped(q, u) \/ SignUpButtonPressed(q, u)
          \/ FacebookButtonPressed(q)
          \/ \E u \in FacebookUsers : FacebookGrants(q, u)
          \/ FacebookCancelled(q)
          \/ FacebookFails(q)
          \/ Answer(q)
          \/ Completion(q)
          \/ Graph(q)
    \/ Decide
    \/ Launch
    \/ PresentOnboarding
    \/ ShowMainMenu
    \/ GetStarted
    \/ ToSignIn
    \/ ToSignUp
    \/ Back
    \/ ConfirmSignUp
    \/ SaveStock
    \/ SignOut
    \/ SignedOut
    \/ LoseSession
    \/ Stop
    \/ Reinstall

Spec == Init /\ [][Next]_vars

-----------------------------------------------------------------------------
\* Properties.

\* The variables' types.
TypeOK ==
    /\ screen \in Screens
    /\ hud \in BOOLEAN
    /\ requests \in [Requests -> RequestStates]
    /\ user \in Users \cup {None}
    /\ name \in Users \cup {None}
    /\ hasRun \in BOOLEAN
    /\ accounts \subseteq Users
    /\ records \in [Users -> [name : Users \cup {None}, list : BOOLEAN]]
    /\ blocks \in Seq(Requests)
    /\ writes \in Seq(Writes)
    /\ inherited \in Users \cup {None}
    /\ lost \in BOOLEAN
    /\ mixed \subseteq Users

(* What updateViews of the settings shows as the name of the user signed in: that of
   UserDefaults if there is one, that of the record or of a write to it otherwise. *)
NamesShown ==
    IF name # None THEN {name}
    ELSE {records[user].name} \cup
         {writes[i].name : i \in {j \in DOMAIN writes : writes[j].user = user}}

(* The name in the settings is that of the user signed in, whatever order logins are
   answered, left, stopped and repeated in.  The exceptions are users whose session
   ended other than by signing out here, and users who logged in over one another:
   their names stay behind, in UserDefaults or in a record. *)
NameIsUsers ==
    user # None =>
        \/ NamesShown \subseteq {None, user} \cup mixed
        \/ user \in mixed

(* A WatchList on the server survives every later login of its user: only a sign-up
   sets a record anew, and it is of a new user.  The exception is a login during which
   another was under way. *)
ListKept ==
    [][\A u \in Users : records[u].list => (records'[u].list \/ u \in mixed)]_vars

(* The tabs are shown to a user who is signed in, unless the session was lost. *)
TabsHaveUser == screen = "tabs" => (user # None \/ lost)

(* Who an earlier installation left signed in is signed out at the first launch, unless
   Firebase could not. *)
InheritedSignedOut == (Alive /\ inherited # None) => inherited \in mixed

(* An indicator waits for a login made on its screen: a sign-in or sign-up screen is
   never blocked with nothing under way.  The welcome screen may be, by a Facebook
   login one of whose steps failed. *)
HudWaits == hud => (screen = "welcome" \/ \E q \in Requests : requests[q].here)

=============================================================================
