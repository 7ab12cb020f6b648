--------------------------- MODULE SessionProofs ---------------------------
(***************************************************************************)
(* Proofs about Session, for any users and any number of logins under way: *)
(* typing, that the tabs have a user, that no login screen is blocked with *)
(* nothing under way, that an earlier installation's user is signed out,   *)
(* whose name the settings show, and that no login takes a user's list.    *)
(***************************************************************************)
EXTENDS Session, TLAPS

\* A login sent to Firebase has a user.
UserInv ==
    \A q \in Requests : UnderWay(requests[q]) => requests[q].user \in Users

\* The screen a login of some kind is made on.
ScreenOf(kind) == IF kind = "facebook" THEN "welcome" ELSE kind

\* A login whose screen has not been left shows its indicator there, and is the only one.
HereInv ==
    /\ \A q \in Requests : requests[q].here => hud /\ screen = ScreenOf(requests[q].kind)
    /\ \A p, q \in Requests : (requests[p].here /\ requests[q].here) => p = q
    /\ \A q \in Requests :
          (requests[q].kind = "facebook" /\ requests[q].phase # "idle") => requests[q].here
    /\ hud => screen \in {"welcome", "signIn", "signUp"}

\* At most one write is a login's, and that waits for it.
WriteInv ==
    /\ \A i \in DOMAIN writes :
          writes[i].request # None =>
              /\ requests[writes[i].request].kind = "facebook"
              /\ requests[writes[i].request].phase = "writing"
    /\ \A i, j \in DOMAIN writes :
          (writes[i].request # None /\ writes[j].request # None) => i = j

\* There is a user, or the session was lost, from a login's answer to the tabs.
HasUser == user # None \/ lost
UserAhead ==
    /\ \A q \in Requests :
          (requests[q].here /\ requests[q].phase \in {"answered", "graph", "writing"})
              => HasUser
    /\ screen \in {"splash", "signedUp", "tabs"} => HasUser

\* Who an earlier installation left is still to be signed out, or could not be.
InheritedInv ==
    inherited # None =>
        \/ hasRun /\ inherited \in mixed
        \/ ~hasRun /\ ~Alive /\ inherited = user

Logins == HereInv /\ WriteInv /\ UserAhead /\ HudWaits
TypeInv == TypeOK /\ UserInv

-----------------------------------------------------------------------------
\* Typing.

LEMMA IdleType == Idle \in RequestStates
BY DEF Idle, RequestStates, Kinds, Phases

(* A request that is replaced keeps the type. *)
LEMMA RequestType ==
  ASSUME TypeInv, NEW q \in Requests, NEW r \in RequestStates,
         requests' = [requests EXCEPT ![q] = r], UnderWay(r) => r.user \in Users
  PROVE  requests' \in [Requests -> RequestStates] /\ UserInv'
BY DEF TypeInv, TypeOK, UserInv, UnderWay

LEMMA FinishType ==
  ASSUME TypeInv, NEW q \in Requests, Finish(q)
  PROVE  requests' \in [Requests -> RequestStates] /\ UserInv'
<1>1. ~UnderWay(Idle)
  BY DEF UnderWay, Idle
<1> QED BY <1>1, IdleType, RequestType DEF Finish

LEMMA QueueType ==
  ASSUME TypeInv, user # None, NEW kind \in {"set", "update", "stock"},
         NEW written \in Users \cup {None}, NEW request \in Requests \cup {None},
         Queue(kind, written, request)
  PROVE  writes' \in Seq(Writes)
<1>1. user \in Users /\ writes \in Seq(Writes)
  BY DEF TypeInv, TypeOK
<1>2. [kind |-> kind, user |-> user, name |-> written, request |-> request] \in Writes
  BY <1>1 DEF Writes
<1> QED BY <1>1, <1>2 DEF Queue

(* Nobody is signed in, nothing is kept and nothing is under way. *)
LEMMA TypeInit == Init => TypeInv
<1> SUFFICES ASSUME Init PROVE TypeInv
  OBVIOUS
<1>1. records \in [Users -> [name : Users \cup {None}, list : BOOLEAN]]
  BY DEF Init
<1>2. /\ requests \in [Requests -> RequestStates]
      /\ blocks \in Seq(Requests) /\ writes \in Seq(Writes)
  BY IdleType DEF Init
<1>3. TypeOK
  BY <1>1, <1>2 DEF Init, TypeOK, Screens
<1>4. UserInv
  BY DEF Init, UserInv, UnderWay, Idle
<1> QED BY <1>3, <1>4 DEF TypeInv

(* Launching, moving between screens and what Firebase does of its own. *)
LEMMA ScreenType ==
  ASSUME TypeInv,
         \/ Launch \/ PresentOnboarding \/ ShowMainMenu \/ GetStarted \/ ToSignIn
         \/ ToSignUp \/ ConfirmSignUp \/ LoseSession \/ Reinstall \/ SignOut \/ SignedOut
  PROVE  TypeInv'
BY DEF TypeInv, TypeOK, UserInv, Launch, FirstLaunch, FirstUser, Known, PresentOnboarding,
   ShowMainMenu, GetStarted, ToSignIn, ToSignUp, ConfirmSignUp, Move, LoseSession, Reinstall,
   SignOut, SignedOut, NameRemoved, AfterSignOut, Screens, held, history

LEMMA StopType == TypeInv /\ Stop => TypeInv'
<1> SUFFICES ASSUME TypeInv, Stop PROVE TypeInv'
  OBVIOUS
<1>1. Asked \subseteq Users
  BY DEF TypeInv, UserInv, UnderWay, Asked, In
<1>2. requests' \in [Requests -> RequestStates] /\ UserInv'
  BY IdleType DEF Stop, UserInv, UnderWay, Idle
<1>3. blocks' \in Seq(Requests) /\ writes' \in Seq(Writes)
  BY DEF Stop
<1>4. accounts' \subseteq Users
  BY <1>1 DEF TypeInv, TypeOK, Stop
<1>5. mixed' \subseteq Users
  BY DEF TypeInv, TypeOK, Stop, Known
<1> QED BY <1>2, <1>3, <1>4, <1>5 DEF TypeInv, TypeOK, Stop, Screens, held

LEMMA BackType == TypeInv /\ Back => TypeInv'
<1> SUFFICES ASSUME TypeInv, Back PROVE TypeInv'
  OBVIOUS
<1>1. ASSUME NEW q \in Requests
      PROVE  /\ requests'[q] \in RequestStates
             /\ UnderWay(requests'[q]) => requests'[q].user \in Users
  BY <1>1 DEF TypeInv, TypeOK, UserInv, Back, RequestStates, UnderWay
<1>2. requests' \in [Requests -> RequestStates] /\ UserInv'
  BY <1>1 DEF Back, UserInv
<1> QED BY <1>2 DEF TypeInv, TypeOK, Back, Screens, held, history

LEMMA AskType ==
  ASSUME TypeInv, NEW q \in Requests,
         \/ \E u \in EmailUsers : SignInButtonTapped(q, u) \/ SignUpButtonPressed(q, u)
         \/ FacebookButtonPressed(q)
  PROVE  TypeInv'
<1>1. PICK kind \in Kinds, u \in Users \cup {None}, phase \in {"sent", "dialog"} :
        Ask(q, kind, u, phase) /\ (phase = "sent" => u \in Users)
  <2>1. ASSUME NEW u \in EmailUsers, SignInButtonTapped(q, u) \/ SignUpButtonPressed(q, u)
        PROVE  \E kind \in {"signIn", "signUp"} : Ask(q, kind, u, "sent")
    BY <2>1 DEF SignInButtonTapped, SignUpButtonPressed
  <2>2. ASSUME FacebookButtonPressed(q) PROVE Ask(q, "facebook", None, "dialog")
    BY <2>2 DEF FacebookButtonPressed
  <2>3. EmailUsers \subseteq Users /\ {"signIn", "signUp", "facebook"} \subseteq Kinds
    BY DEF Users, Kinds
  <2>4. CASE FacebookButtonPressed(q)
    BY <2>2, <2>3, <2>4
  <2>5. CASE \E u \in EmailUsers : SignInButtonTapped(q, u) \/ SignUpButtonPressed(q, u)
    BY <2>1, <2>3, <2>5
  <2> QED BY <2>4, <2>5
<1> DEFINE r == [kind |-> kind, user |-> u, phase |-> phase, here |-> TRUE]
<1>2. r \in RequestStates /\ (UnderWay(r) => r.user \in Users)
  BY <1>1 DEF RequestStates, Phases, UnderWay
<1>3. requests' \in [Requests -> RequestStates] /\ UserInv'
  BY <1>1, <1>2, RequestType DEF Ask
<1> QED BY <1>1, <1>3 DEF TypeInv, TypeOK, Ask, held, history

(* A request that goes on to its next phase keeps its user, or gets one. *)
LEMMA PhaseType ==
  ASSUME TypeInv, NEW q \in Requests, NEW phase \in Phases, NEW u \in Users,
         requests' = [requests EXCEPT ![q] = [requests[q] EXCEPT !.phase = phase, !.user = u]]
  PROVE  requests' \in [Requests -> RequestStates] /\ UserInv'
<1> DEFINE r == [requests[q] EXCEPT !.phase = phase, !.user = u]
<1>1. r \in RequestStates /\ r.user \in Users
  BY DEF TypeInv, TypeOK, RequestStates
<1> QED BY <1>1, RequestType

LEMMA NextPhaseType ==
  ASSUME TypeInv, NEW q \in Requests, NEW phase \in Phases, UnderWay(requests[q]),
         requests' = [requests EXCEPT ![q].phase = phase]
  PROVE  requests' \in [Requests -> RequestStates] /\ UserInv'
<1>1. requests[q].user \in Users /\ requests[q] \in RequestStates
  BY DEF TypeInv, TypeOK, UserInv
<1>2. [requests[q] EXCEPT !.phase = phase]
        = [requests[q] EXCEPT !.phase = phase, !.user = requests[q].user]
  BY <1>1 DEF RequestStates
<1> QED BY <1>1, <1>2, PhaseType

LEMMA AnswerType == ASSUME TypeInv, NEW q \in Requests, Answer(q) PROVE TypeInv'
<1>1. CASE AuthSucceeds(q)
  <2>1. UnderWay(requests[q]) /\ requests[q].user \in Users
    BY <1>1 DEF AuthSucceeds, UnderWay, TypeInv, UserInv
  <2>2. requests' \in [Requests -> RequestStates] /\ UserInv'
    BY <1>1, <2>1, NextPhaseType DEF AuthSucceeds, Phases
  <2>3. Met(q) \subseteq Users
    BY DEF TypeInv, TypeOK, UserInv, Met, Known
  <2>4. mixed' \subseteq Users /\ accounts' \subseteq Users
    BY <1>1, <2>1, <2>3 DEF AuthSucceeds, TypeInv, TypeOK
  <2>5. blocks' \in Seq(Requests)
    BY <1>1 DEF AuthSucceeds, TypeInv, TypeOK
  <2> QED BY <1>1, <2>1, <2>2, <2>4, <2>5 DEF AuthSucceeds, TypeInv, TypeOK, held
<1>2. CASE AuthFails(q)
  <2>1. requests[q].user \in Users
    BY <1>2 DEF AuthFails, UnderWay, TypeInv, UserInv
  <2>2. requests' \in [Requests -> RequestStates] /\ UserInv'
    BY <1>2, FinishType DEF AuthFails
  <2>3. accounts' \subseteq Users
    BY <1>2, <2>1 DEF AuthFails, TypeInv, TypeOK
  <2>4. hud' \in BOOLEAN
    BY <1>2 DEF AuthFails, HudAfter
  <2> QED BY <1>2, <2>2, <2>3, <2>4 DEF AuthFails, TypeInv, TypeOK, held, history
<1> QED BY <1>1, <1>2 DEF Answer

LEMMA TailType ==
  ASSUME NEW S, NEW s \in Seq(S), s # <<>>
  PROVE  Head(s) \in S /\ Tail(s) \in Seq(S)
OBVIOUS

LEMMA CompletionType == ASSUME TypeInv, NEW q \in Requests, Completion(q) PROVE TypeInv'
<1>1. PICK kind \in Kinds : Complete(q, kind)
  BY DEF Completion, SignInDone, SignUpDone, FacebookSignedIn, Kinds
<1>2. blocks' \in Seq(Requests)
  BY <1>1, TailType DEF Complete, TypeInv, TypeOK
<1>3. UnderWay(requests[q]) /\ requests[q].user \in Users
  BY <1>1 DEF Complete, In, UnderWay, TypeInv, UserInv
<1>4. CASE SignInDone(q)
  <2>1. requests' \in [Requests -> RequestStates] /\ UserInv'
    BY <1>4, FinishType DEF SignInDone
  <2> QED BY <1>2, <1>4, <2>1 DEF SignInDone, HudAfter, Present, Screens, TypeInv, TypeOK,
         held, history
<1>5. CASE SignUpDone(q)
  <2>1. requests' \in [Requests -> RequestStates] /\ UserInv'
    BY <1>5, FinishType DEF SignUpDone
  <2>2. writes' \in Seq(Writes)
    BY <1>3, <1>5, QueueType DEF SignUpDone, Someone, TypeInv, TypeOK
  <2> QED BY <1>2, <1>3, <1>5, <2>1, <2>2 DEF SignUpDone, HudAfter, Present, Screens, TypeInv,
         TypeOK, history
<1>6. CASE FacebookSignedIn(q)
  <2>1. requests' \in [Requests -> RequestStates] /\ UserInv'
    BY <1>3, <1>6, NextPhaseType DEF FacebookSignedIn, Phases
  <2> QED BY <1>2, <1>6, <2>1 DEF FacebookSignedIn, TypeInv, TypeOK, held, history
<1> QED BY <1>4, <1>5, <1>6 DEF Completion

LEMMA FacebookType ==
  ASSUME TypeInv, NEW q \in Requests,
         \/ \E u \in FacebookUsers : FacebookGrants(q, u)
         \/ FacebookCancelled(q) \/ FacebookFails(q) \/ Graph(q)
  PROVE  TypeInv'
<1>1. CASE \E u \in FacebookUsers : FacebookGrants(q, u)
  <2>1. PICK u \in Users : FacebookGrants(q, u)
    BY <1>1 DEF Users
  <2>2. requests' \in [Requests -> RequestStates] /\ UserInv'
    <3>1. requests' = [requests EXCEPT ![q] = [requests[q] EXCEPT !.phase = "sent", !.user = u]]
      BY <2>1 DEF FacebookGrants, TypeInv, TypeOK, RequestStates
    <3> QED BY <3>1, PhaseType DEF Phases
  <2> QED BY <2>1, <2>2 DEF FacebookGrants, TypeInv, TypeOK, held, history
<1>2. CASE FacebookCancelled(q)
  <2>1. requests' \in [Requests -> RequestStates] /\ UserInv'
    BY <1>2, FinishType DEF FacebookCancelled
  <2> QED BY <1>2, <2>1 DEF FacebookCancelled, HudAfter, TypeInv, TypeOK, held, history
<1>3. ASSUME GiveUp(q) PROVE TypeInv'
  <2>1. requests' \in [Requests -> RequestStates] /\ UserInv'
    BY <1>3, FinishType DEF GiveUp
  <2> QED BY <1>3, <2>1 DEF GiveUp, TypeInv, TypeOK, held, history
<1>4. CASE GraphAnswers(q)
  <2>1. requests' \in [Requests -> RequestStates] /\ UserInv'
    BY <1>4, NextPhaseType DEF GraphAnswers, In, UnderWay, Phases
  <2>2. writes' \in Seq(Writes)
    BY <1>4, QueueType DEF GraphAnswers, Someone, UpdateKind, DisplayName, TypeInv, TypeOK
  <2> QED BY <1>4, <2>1, <2>2 DEF GraphAnswers, TypeInv, TypeOK, held, history
<1> QED BY <1>1, <1>2, <1>3, <1>4 DEF FacebookFails, Graph, GraphFails, GraphAnswersNobody

LEMMA DecideType == TypeInv /\ Decide => TypeInv'
<1> SUFFICES ASSUME TypeInv, Decide PROVE TypeInv'
  OBVIOUS
<1> DEFINE write == Head(writes)
<1>1. write \in Writes /\ writes' \in Seq(Writes)
  BY TailType DEF Decide, Accept, Refuse, TypeInv, TypeOK
<1>2. write.request = None \/ write.request \in Requests
  BY <1>1 DEF Writes
<1>3. requests' \in [Requests -> RequestStates] /\ UserInv'
  <2>1. CASE UNCHANGED requests
    BY <2>1 DEF TypeInv, TypeOK, UserInv, UnderWay
  <2>2. CASE write.request # None /\ Finish(write.request)
    BY <1>2, <2>2, FinishType
  <2> QED BY <2>1, <2>2 DEF Decide, Accept, Refuse
<1>4. CASE Accept
  <2>1. write.user \in Users /\ records[write.user] \in [name : Users \cup {None}, list : BOOLEAN]
    BY <1>1 DEF Writes, TypeInv, TypeOK
  <2>2. Apply(write, records[write.user]) \in [name : Users \cup {None}, list : BOOLEAN]
    BY <1>1, <2>1 DEF Writes, Apply
  <2>3. records' \in [Users -> [name : Users \cup {None}, list : BOOLEAN]]
    BY <1>4, <2>1, <2>2 DEF Accept, TypeInv, TypeOK
  <2>4. screen' \in Screens /\ hud' \in BOOLEAN
    BY <1>4 DEF Accept, Present, HudAfter, Screens, TypeInv, TypeOK
  <2> QED BY <1>1, <1>3, <1>4, <2>3, <2>4 DEF Accept, TypeInv, TypeOK, history
<1>5. CASE Refuse
  BY <1>1, <1>3, <1>5 DEF Refuse, TypeInv, TypeOK, held, history
<1> QED BY <1>4, <1>5 DEF Decide

LEMMA SaveStockType == TypeInv /\ SaveStock => TypeInv'
<1> SUFFICES ASSUME TypeInv, SaveStock PROVE TypeInv'
  OBVIOUS
<1>1. writes' \in Seq(Writes)
  BY QueueType DEF SaveStock, Someone
<1> QED BY <1>1 DEF SaveStock, TypeInv, TypeOK, UserInv, held, history

(* Every step keeps the types. *)
LEMMA TypeStep == TypeInv /\ [Next]_vars => TypeInv'
<1> SUFFICES ASSUME TypeInv, [Next]_vars PROVE TypeInv'
  OBVIOUS
<1>1. CASE UNCHANGED vars
  BY <1>1 DEF TypeInv, TypeOK, UserInv, UnderWay, vars, held, history
<1>2. CASE \E q \in Requests :
              \/ \E u \in EmailUsers : SignInButtonTapped(q, u) \/ SignUpButtonPressed(q, u)
              \/ FacebookButtonPressed(q)
  BY <1>2, AskType
<1>3. CASE \E q \in Requests :
              \/ \E u \in FacebookUsers : FacebookGrants(q, u)
              \/ FacebookCancelled(q) \/ FacebookFails(q) \/ Graph(q)
  BY <1>3, FacebookType
<1>4. CASE \E q \in Requests : Answer(q) \/ Completion(q)
  BY <1>4, AnswerType, CompletionType
<1> QED BY <1>1, <1>2, <1>3, <1>4, ScreenType, StopType, BackType, DecideType, SaveStockType
       DEF Next

(* Every variable keeps its type. *)
THEOREM TypeCorrect == Spec => []TypeOK
<1>1. TypeInv => TypeOK
  BY DEF TypeInv
<1> QED BY <1>1, TypeInit, TypeStep, PTL DEF Spec

-----------------------------------------------------------------------------
\* The user of an earlier installation.

LEMMA InheritedStep == InheritedInv /\ [Next]_vars => InheritedInv'
<1> SUFFICES ASSUME InheritedInv, [Next]_vars PROVE InheritedInv'
  OBVIOUS
<1> USE DEF InheritedInv, Alive
<1> DEFINE Kept ==
      /\ hasRun' = hasRun
      /\ mixed \subseteq mixed'
      /\ inherited' \in {None, inherited}
<1>1. CASE Launch
  BY <1>1 DEF Launch, FirstLaunch, FirstUser, Known
<1>2. CASE Reinstall
  BY <1>2 DEF Reinstall
<1>3. ASSUME Alive, Kept PROVE InheritedInv'
  BY <1>3
<1>4. CASE UNCHANGED vars
  BY <1>4 DEF vars, held, history
<1>5. CASE Stop \/ Back \/ SaveStock \/ SignOut \/ SignedOut \/ LoseSession \/ Decide
  <2>1. Alive /\ Kept
    BY <1>5 DEF Stop, Back, SaveStock, SignOut, SignedOut, LoseSession, Decide, Accept, Refuse,
       MainFree, held, history
  <2> QED BY <1>3, <2>1
<1>6. CASE \/ PresentOnboarding \/ ShowMainMenu \/ GetStarted \/ ToSignIn \/ ToSignUp
           \/ ConfirmSignUp
  <2>1. Alive /\ Kept
    BY <1>6 DEF PresentOnboarding, ShowMainMenu, GetStarted, ToSignIn, ToSignUp, ConfirmSignUp,
       Move, held, history
  <2> QED BY <1>3, <2>1
<1>7. ASSUME NEW q \in Requests,
             \/ \E u \in EmailUsers : SignInButtonTapped(q, u) \/ SignUpButtonPressed(q, u)
             \/ FacebookButtonPressed(q)
             \/ \E u \in FacebookUsers : FacebookGrants(q, u)
             \/ FacebookCancelled(q) \/ FacebookFails(q)
             \/ Answer(q) \/ Completion(q) \/ Graph(q)
      PROVE  InheritedInv'
  <2>1. Alive /\ Kept
    BY <1>7 DEF SignInButtonTapped, SignUpButtonPressed, FacebookButtonPressed, Ask,
       FacebookGrants, FacebookCancelled, FacebookFails, GiveUp, Answer, AuthSucceeds, AuthFails,
       Completion, SignInDone, SignUpDone, FacebookSignedIn, Complete, Graph, GraphFails,
       GraphAnswers, GraphAnswersNobody, MainFree, held, history
  <2> QED BY <1>3, <2>1
<1> QED BY <1>1, <1>2, <1>4, <1>5, <1>6, <1>7 DEF Next

(* Nobody's session outlives the installation it was made in, if Firebase can end it. *)
THEOREM InheritedSignedOutCorrect == Spec => []InheritedSignedOut
<1>1. Init => InheritedInv
  BY DEF Init, InheritedInv
<1>2. InheritedInv => InheritedSignedOut
  BY DEF InheritedInv, InheritedSignedOut
<1> QED BY <1>1, <1>2, InheritedStep, PTL DEF Spec

-----------------------------------------------------------------------------
\* Logins and their screens.

LEMMA LoginsInit == Init => Logins
BY DEF Init, Logins, HereInv, WriteInv, UserAhead, HasUser, HudWaits, Idle

LEMMA WriteRequests ==
  ASSUME TypeInv
  PROVE  \A i \in DOMAIN writes : writes[i].request \in Requests \cup {None}
<1>1. \A i \in DOMAIN writes : writes[i] \in Writes
  BY DEF TypeInv, TypeOK
<1> QED BY <1>1 DEF Writes

(* Without an indicator no login is on its screen, and none is Facebook's. *)
LEMMA NoneHere ==
  ASSUME Logins, ~hud, NEW q \in Requests
  PROVE  ~requests[q].here /\ (requests[q].kind = "facebook" => requests[q].phase = "idle")
BY DEF Logins, HereInv

LEMMA ScreenLogins ==
  ASSUME Logins,
         \/ Launch \/ PresentOnboarding \/ ShowMainMenu \/ GetStarted \/ ToSignIn
         \/ ToSignUp \/ ConfirmSignUp \/ Reinstall \/ SignOut \/ SignedOut
  PROVE  Logins'
<1>1. ~hud /\ UNCHANGED <<hud, requests, writes>>
  BY DEF Logins, HereInv, Launch, PresentOnboarding, ShowMainMenu, GetStarted, ToSignIn,
     ToSignUp, ConfirmSignUp, Move, Reinstall, SignOut, SignedOut, Alive
<1>2. HereInv' /\ WriteInv' /\ HudWaits'
  BY <1>1, NoneHere DEF Logins, HereInv, WriteInv, HudWaits
<1>3. screen' \in {"splash", "signedUp", "tabs"} => HasUser'
  BY DEF Logins, UserAhead, HasUser, Launch, FirstLaunch, PresentOnboarding, ShowMainMenu,
     GetStarted, ToSignIn, ToSignUp, ConfirmSignUp, Move, Reinstall, SignOut, SignedOut,
     AfterSignOut, Alive, history
<1> QED BY <1>1, <1>2, <1>3, NoneHere DEF Logins, UserAhead

LEMMA LoseLogins == Logins /\ (LoseSession \/ UNCHANGED vars) => Logins'
BY DEF Logins, LoseSession, HereInv, WriteInv, UserAhead, HasUser, HudWaits, ScreenOf, vars,
   held, history

LEMMA StopLogins == Logins /\ Stop => Logins'
BY DEF Logins, Stop, HereInv, WriteInv, UserAhead, HasUser, HudWaits, ScreenOf, Idle

LEMMA BackLogins == TypeInv /\ Logins /\ Back => Logins'
<1> SUFFICES ASSUME TypeInv, Logins, Back PROVE Logins'
  OBVIOUS
<1>1. ASSUME NEW q \in Requests
      PROVE  /\ ~requests'[q].here
             /\ requests'[q].kind = requests[q].kind
             /\ requests'[q].phase = requests[q].phase
  BY <1>1 DEF TypeInv, TypeOK, Back, RequestStates
<1>2. \A q \in Requests : requests[q].kind = "facebook" => requests[q].phase = "idle"
  BY DEF Logins, HereInv, Back, ScreenOf
<1>3. HereInv' /\ HudWaits'
  BY <1>1, <1>2 DEF HereInv, HudWaits, Back
<1>4. WriteInv'
  <2>1. \A i \in DOMAIN writes : writes[i].request \in Requests \cup {None}
    BY WriteRequests
  <2> QED BY <1>1, <2>1 DEF Logins, WriteInv, Back
<1> QED BY <1>1, <1>3, <1>4 DEF Logins, UserAhead, Back

LEMMA AskLogins ==
  ASSUME TypeInv, Logins, NEW q \in Requests,
         \/ \E u \in EmailUsers : SignInButtonTapped(q, u) \/ SignUpButtonPressed(q, u)
         \/ FacebookButtonPressed(q)
  PROVE  Logins'
<1>1. PICK kind \in {"signIn", "signUp", "facebook"}, u \in Users \cup {None},
           phase \in {"sent", "dialog"} :
        Ask(q, kind, u, phase) /\ screen = ScreenOf(kind)
  BY DEF SignInButtonTapped, SignUpButtonPressed, FacebookButtonPressed, ScreenOf, Users
<1> DEFINE r == [kind |-> kind, user |-> u, phase |-> phase, here |-> TRUE]
<1>2. /\ ~hud /\ hud' = TRUE /\ UNCHANGED <<screen, user, writes, lost>>
      /\ requests[q] = Idle
      /\ requests'[q] = r
      /\ \A p \in Requests \ {q} : requests'[p] = requests[p]
  BY <1>1 DEF Ask, history, TypeInv, TypeOK
<1>3. HereInv' /\ HudWaits'
  <2>1. \A p \in Requests \ {q} :
          ~requests[p].here /\ (requests[p].kind = "facebook" => requests[p].phase = "idle")
    BY <1>2, NoneHere
  <2>2. screen \in {"welcome", "signIn", "signUp"}
    BY <1>1 DEF ScreenOf
  <2> QED BY <1>1, <1>2, <2>1, <2>2 DEF HereInv, HudWaits
<1>4. WriteInv'
  <2>1. \A i \in DOMAIN writes : writes[i].request # None => writes[i].request \in Requests \ {q}
    BY <1>2, WriteRequests DEF Logins, WriteInv, Idle
  <2> QED BY <1>2, <2>1 DEF Logins, WriteInv
<1>5. UserAhead'
  BY <1>2 DEF Logins, UserAhead, HasUser
<1> QED BY <1>3, <1>4, <1>5 DEF Logins

LEMMA AuthSucceedsLogins ==
  ASSUME TypeInv, Logins, NEW q \in Requests, AuthSucceeds(q)
  PROVE  Logins'
<1>1. /\ UNCHANGED <<screen, hud, writes>>
      /\ requests[q].phase = "sent"
      /\ requests'[q].phase = "answered"
      /\ \A p \in Requests : /\ requests'[p].kind = requests[p].kind
                             /\ requests'[p].here = requests[p].here
                             /\ p # q => requests'[p] = requests[p]
  BY DEF AuthSucceeds, TypeInv, TypeOK, RequestStates
<1>2. HasUser'
  BY NoneAssumption DEF AuthSucceeds, HasUser, UnderWay, TypeInv, UserInv
<1>3. WriteInv'
  <2>1. \A i \in DOMAIN writes : writes[i].request # None => writes[i].request \in Requests \ {q}
    BY <1>1, WriteRequests DEF Logins, WriteInv
  <2> QED BY <1>1, <2>1 DEF Logins, WriteInv
<1>4. HereInv' /\ HudWaits'
  BY <1>1 DEF Logins, HereInv, HudWaits
<1> QED BY <1>2, <1>3, <1>4 DEF Logins, UserAhead

(* A Facebook login that goes on. *)
LEMMA NextPhaseLogins ==
  ASSUME TypeInv, Logins, NEW q \in Requests, requests[q].phase # "writing",
         UNCHANGED <<screen, hud, user, lost, writes>>,
         requests'[q].kind = requests[q].kind, requests'[q].here = requests[q].here,
         requests[q].phase # "idle",
         requests'[q].phase \in {"answered", "graph", "writing"} =>
           requests[q].phase \in {"answered", "graph", "writing"},
         \A p \in Requests \ {q} : requests'[p] = requests[p]
  PROVE  Logins'
<1>1. WriteInv'
  <2>1. \A i \in DOMAIN writes : writes[i].request # None => writes[i].request \in Requests \ {q}
    BY WriteRequests DEF Logins, WriteInv
  <2> QED BY <2>1 DEF Logins, WriteInv
<1>2. HereInv' /\ HudWaits'
  BY DEF Logins, HereInv, HudWaits
<1>3. UserAhead'
  BY DEF Logins, UserAhead, HasUser
<1> QED BY <1>1, <1>2, <1>3 DEF Logins

(* A write that is no login's leaves the others in their places. *)
LEMMA QueuedWrite ==
  ASSUME TypeInv, UNCHANGED writes \/ \E kind, written : Queue(kind, written, None)
  PROVE  \A i \in DOMAIN writes' :
           writes'[i].request # None => i \in DOMAIN writes /\ writes'[i] = writes[i]
<1>1. CASE UNCHANGED writes
  BY <1>1
<1>2. CASE \E kind, written : Queue(kind, written, None)
  <2>1. PICK kind, written : Queue(kind, written, None)
    BY <1>2
  <2> DEFINE write == [kind |-> kind, user |-> user, name |-> written, request |-> None]
  <2>2. writes' = Append(writes, write) /\ write.request = None /\ writes \in Seq(Writes)
    BY <2>1 DEF Queue, TypeInv, TypeOK
  <2> HIDE DEF write
  <2>3. /\ DOMAIN writes' = DOMAIN writes \cup {Len(writes) + 1}
        /\ writes'[Len(writes) + 1] = write
        /\ \A i \in DOMAIN writes : writes'[i] = writes[i]
    BY <2>2
  <2> QED BY <2>2, <2>3
<1> QED BY <1>1, <1>2

(* A login ends: one on its screen takes its indicator with it, unless it is
   Facebook's, and the next screen has a user. *)
LEMMA FinishLogins ==
  ASSUME TypeInv, Logins, NEW q \in Requests, requests[q].phase # "writing", Finish(q),
         UNCHANGED <<user, lost>>,
         UNCHANGED writes \/ \E kind, written : Queue(kind, written, None),
         \/ hud' = HudAfter(q)
         \/ requests[q].kind = "facebook" /\ requests[q].phase # "idle" /\ UNCHANGED hud,
         \/ UNCHANGED screen
         \/ hud' = HudAfter(q) /\ requests[q].here /\ screen' \in {"tabs", "signedUp"} /\ HasUser
  PROVE  Logins'
<1>1. /\ requests'[q] = Idle
      /\ \A p \in Requests \ {q} : requests'[p] = requests[p]
  BY DEF Finish, TypeInv, TypeOK
<1>2. WriteInv'
  <2>1. \A i \in DOMAIN writes : writes[i].request # None => writes[i].request \in Requests \ {q}
    BY WriteRequests DEF Logins, WriteInv
  <2>2. \A i \in DOMAIN writes' :
          writes'[i].request # None => i \in DOMAIN writes /\ writes'[i] = writes[i]
    BY QueuedWrite
  <2> QED BY <1>1, <2>1, <2>2 DEF Logins, WriteInv
<1>3. CASE requests[q].here
  <2>1. \A p \in Requests :
          ~requests'[p].here /\ (requests'[p].kind = "facebook" => requests'[p].phase = "idle")
    BY <1>1, <1>3 DEF Logins, HereInv, Idle
  <2>2. hud' => UNCHANGED <<hud, screen>> /\ screen = "welcome"
    BY <1>3 DEF HudAfter, Logins, HereInv, ScreenOf
  <2>3. HereInv' /\ HudWaits'
    BY <2>1, <2>2 DEF Logins, HereInv, HudWaits
  <2> QED BY <1>2, <2>1, <2>3 DEF Logins, UserAhead, HasUser
<1>4. CASE ~requests[q].here
  <2>1. UNCHANGED <<screen, hud>>
    BY <1>4 DEF HudAfter, Logins, HereInv, TypeInv, TypeOK
  <2>2. HereInv' /\ HudWaits'
    BY <1>1, <1>4, <2>1 DEF Logins, HereInv, HudWaits, Idle
  <2> QED BY <1>1, <1>2, <2>1, <2>2 DEF Logins, UserAhead, HasUser, Idle
<1> QED BY <1>3, <1>4

LEMMA AnswerLogins == ASSUME TypeInv, Logins, NEW q \in Requests, Answer(q) PROVE Logins'
<1>1. CASE AuthFails(q)
  BY <1>1, FinishLogins DEF AuthFails, history
<1> QED BY <1>1, AuthSucceedsLogins DEF Answer

LEMMA CompletionLogins ==
  ASSUME TypeInv, Logins, NEW q \in Requests, Completion(q)
  PROVE  Logins'
<1>1. requests[q].phase = "answered" /\ (requests[q].here => HasUser)
  BY DEF Completion, SignInDone, SignUpDone, FacebookSignedIn, Complete, In, Logins, UserAhead
<1>2. CASE SignInDone(q)
  <2>1. UNCHANGED screen \/ (requests[q].here /\ screen' \in {"tabs", "signedUp"} /\ HasUser)
    BY <1>1, <1>2 DEF SignInDone, Present
  <2> QED BY <1>1, <1>2, <2>1, FinishLogins DEF SignInDone, history
<1>3. CASE SignUpDone(q)
  <2>1. UNCHANGED screen \/ (requests[q].here /\ screen' \in {"tabs", "signedUp"} /\ HasUser)
    BY <1>1, <1>3 DEF SignUpDone, Present
  <2>2. UNCHANGED writes \/ \E kind, written : Queue(kind, written, None)
    BY <1>3 DEF SignUpDone
  <2> QED BY <1>1, <1>3, <2>1, <2>2, FinishLogins DEF SignUpDone, history
<1>4. CASE FacebookSignedIn(q)
  <2>1. /\ requests'[q].phase = "graph"
        /\ requests'[q].kind = requests[q].kind /\ requests'[q].here = requests[q].here
        /\ \A p \in Requests \ {q} : requests'[p] = requests[p]
        /\ UNCHANGED <<screen, hud, user, lost, writes>>
    BY <1>4 DEF FacebookSignedIn, TypeInv, TypeOK, RequestStates, history
  <2> QED BY <1>1, <2>1, NextPhaseLogins
<1> QED BY <1>2, <1>3, <1>4 DEF Completion

LEMMA GraphAnswersLogins ==
  ASSUME TypeInv, Logins, NEW q \in Requests, GraphAnswers(q)
  PROVE  Logins'
<1>1. /\ requests[q].kind = "facebook" /\ requests[q].phase = "graph"
      /\ requests'[q].kind = "facebook" /\ requests'[q].phase = "writing"
      /\ requests'[q].here = requests[q].here
      /\ \A p \in Requests \ {q} : requests'[p] = requests[p]
      /\ UNCHANGED <<screen, hud, user, lost>>
  BY DEF GraphAnswers, In, TypeInv, TypeOK, RequestStates, history
<1>2. \A i \in DOMAIN writes : writes[i].request = None
  <2>1. ASSUME NEW p \in Requests, requests[p].kind = "facebook", requests[p].phase = "writing"
        PROVE  FALSE
    BY <1>1, <2>1 DEF Logins, HereInv
  <2> QED BY <2>1, WriteRequests DEF Logins, WriteInv
<1>3. PICK write : write.request = q /\ writes' = Append(writes, write)
  BY DEF GraphAnswers, Queue
<1>4. /\ DOMAIN writes' = DOMAIN writes \cup {Len(writes) + 1}
      /\ writes'[Len(writes) + 1] = write
      /\ \A i \in DOMAIN writes : writes'[i] = writes[i]
  BY <1>3 DEF TypeInv, TypeOK
<1>5. WriteInv'
  BY <1>1, <1>2, <1>3, <1>4 DEF WriteInv
<1>6. HereInv' /\ HudWaits'
  BY <1>1 DEF Logins, HereInv, HudWaits
<1>7. UserAhead'
  BY <1>1 DEF Logins, UserAhead, HasUser
<1> QED BY <1>5, <1>6, <1>7 DEF Logins

LEMMA FacebookLogins ==
  ASSUME TypeInv, Logins, NEW q \in Requests,
         \/ \E u \in FacebookUsers : FacebookGrants(q, u)
         \/ FacebookCancelled(q) \/ FacebookFails(q) \/ Graph(q)
  PROVE  Logins'
<1>1. CASE \E u \in FacebookUsers : FacebookGrants(q, u)
  <2>1. PICK u : FacebookGrants(q, u)
    BY <1>1
  <2>2. requests[q].phase = "dialog" /\ UNCHANGED <<screen, hud, user, lost, writes>>
    BY <2>1 DEF FacebookGrants, In, history
  <2>3. /\ requests'[q].phase = "sent"
        /\ requests'[q].kind = requests[q].kind /\ requests'[q].here = requests[q].here
    BY <2>1 DEF FacebookGrants, TypeInv, TypeOK, RequestStates
  <2>4. \A p \in Requests \ {q} : requests'[p] = requests[p]
    BY <2>1 DEF FacebookGrants, TypeInv, TypeOK
  <2> QED BY <2>2, <2>3, <2>4, NextPhaseLogins
<1>2. CASE FacebookCancelled(q)
  BY <1>2, FinishLogins DEF FacebookCancelled, In, history
<1>3. CASE FacebookFails(q) \/ GraphFails(q) \/ GraphAnswersNobody(q)
  BY <1>3, FinishLogins DEF FacebookFails, GraphFails, GraphAnswersNobody, GiveUp, In, history
<1> QED BY <1>1, <1>2, <1>3, GraphAnswersLogins DEF Graph

LEMMA DecideLogins == TypeInv /\ Logins /\ Decide => Logins'
<1> SUFFICES ASSUME TypeInv, Logins, Decide PROVE Logins'
  OBVIOUS
<1> DEFINE q == Head(writes).request
<1>1. /\ writes # <<>> /\ writes' = Tail(writes) /\ writes \in Seq(Writes)
      /\ UNCHANGED <<user, lost>>
  BY DEF Decide, Accept, Refuse, TypeInv, TypeOK, history
<1>2. /\ 1 \in DOMAIN writes /\ q = writes[1].request
      /\ \A i \in DOMAIN writes' :
           i + 1 \in DOMAIN writes /\ i + 1 # 1 /\ writes'[i] = writes[i + 1]
      /\ \A i, j \in DOMAIN writes' : i + 1 = j + 1 => i = j
  BY <1>1
<1> HIDE DEF q
<1>3. CASE q = None
  <2>1. UNCHANGED <<screen, hud, requests>>
    BY <1>3 DEF q, Decide, Accept, Refuse
  <2>2. WriteInv'
    BY <1>2, <2>1 DEF Logins, WriteInv
  <2> QED BY <1>1, <2>1, <2>2 DEF Logins, HereInv, HudWaits, UserAhead, HasUser
<1>4. CASE q # None
  <2>1. /\ q \in Requests
        /\ requests[q].kind = "facebook" /\ requests[q].phase = "writing"
        /\ requests[q].here /\ HasUser /\ screen = "welcome"
    BY <1>2, <1>4, WriteRequests DEF Logins, WriteInv, HereInv, UserAhead, ScreenOf
  <2>2. /\ requests'[q] = Idle
        /\ \A p \in Requests \ {q} : requests'[p] = requests[p]
        /\ \/ UNCHANGED <<screen, hud>>
           \/ screen' = "tabs" /\ hud' = FALSE
    BY <1>4, <2>1 DEF q, Decide, Accept, Refuse, Finish, Present, HudAfter, TypeInv, TypeOK
  <2>3. \A i \in DOMAIN writes' : writes'[i].request = None
    BY <1>2, <1>4 DEF Logins, WriteInv
  <2>4. WriteInv'
    BY <2>3 DEF WriteInv
  <2>5. \A p \in Requests :
          ~requests'[p].here /\ (requests'[p].kind = "facebook" => requests'[p].phase = "idle")
    BY <2>1, <2>2 DEF Logins, HereInv, Idle
  <2>6. HereInv' /\ HudWaits'
    BY <2>1, <2>2, <2>5 DEF Logins, HereInv, HudWaits
  <2> QED BY <1>1, <2>1, <2>2, <2>4, <2>5, <2>6 DEF Logins, UserAhead, HasUser
<1> QED BY <1>3, <1>4

LEMMA SaveStockLogins == TypeInv /\ Logins /\ SaveStock => Logins'
<1> SUFFICES ASSUME TypeInv, Logins, SaveStock PROVE Logins'
  OBVIOUS
<1>1. UNCHANGED <<screen, hud, requests, user, lost>>
  BY DEF SaveStock, history
<1>2. WriteInv'
  <2>1. \A i \in DOMAIN writes' :
          writes'[i].request # None => i \in DOMAIN writes /\ writes'[i] = writes[i]
    BY QueuedWrite DEF SaveStock
  <2> QED BY <1>1, <2>1 DEF Logins, WriteInv
<1> QED BY <1>1, <1>2 DEF Logins, HereInv, HudWaits, UserAhead, HasUser

(* Every step keeps what is known of logins and their screens. *)
LEMMA LoginsStep == TypeInv /\ Logins /\ [Next]_vars => Logins'
<1> SUFFICES ASSUME TypeInv, Logins, [Next]_vars PROVE Logins'
  OBVIOUS
<1>1. CASE \E q \in Requests :
              \/ \E u \in EmailUsers : SignInButtonTapped(q, u) \/ SignUpButtonPressed(q, u)
              \/ FacebookButtonPressed(q)
  BY <1>1, AskLogins
<1>2. CASE \E q \in Requests :
              \/ \E u \in FacebookUsers : FacebookGrants(q, u)
              \/ FacebookCancelled(q) \/ FacebookFails(q) \/ Graph(q)
  BY <1>2, FacebookLogins
<1>3. CASE \E q \in Requests : Answer(q) \/ Completion(q)
  BY <1>3, AnswerLogins, CompletionLogins
<1> QED BY <1>1, <1>2, <1>3, ScreenLogins, LoseLogins, StopLogins, BackLogins, DecideLogins,
       SaveStockLogins DEF Next

(* The tabs are never shown without a user, other than one whose session was lost. *)
THEOREM TabsHaveUserCorrect == Spec => []TabsHaveUser
<1>1. Logins => TabsHaveUser
  BY DEF Logins, UserAhead, HasUser, TabsHaveUser
<1> QED BY <1>1, TypeInit, LoginsInit, TypeStep, LoginsStep, PTL DEF Spec

(* No sign-in or sign-up screen is blocked with nothing under way. *)
THEOREM HudWaitsCorrect == Spec => []HudWaits
<1>1. Logins => HudWaits
  BY DEF Logins
<1> QED BY <1>1, TypeInit, LoginsInit, TypeStep, LoginsStep, PTL DEF Spec

-----------------------------------------------------------------------------
\* Names and lists.

Answered(request) == request.phase \in {"answered", "graph", "writing"}
Unmixed(u) == u \notin mixed

\* Before the login screens nothing is under way, and an installation starts without a name.
RestInv ==
    /\ screen \in {"dead", "splash", "splashOut"} => \A q \in Requests : requests[q] = Idle
    /\ ~hasRun => ~Alive /\ name = None

(* Completions wait in the order of the answers.  A sign-up was answered before any other
   login of its user: it made the account. *)
BlocksInv ==
    /\ \A i \in DOMAIN blocks : requests[blocks[i]].phase = "answered"
    /\ \A q \in Requests :
          requests[q].phase = "answered" => \E i \in DOMAIN blocks : blocks[i] = q
    /\ \A i, j \in DOMAIN blocks : blocks[i] = blocks[j] => i = j
    /\ \A i, j \in DOMAIN blocks :
          (/\ i # j
           /\ requests[blocks[i]].kind = "signUp"
           /\ requests[blocks[j]].user = requests[blocks[i]].user) => i < j

KindInv ==
    /\ \A q \in Requests : UnderWay(requests[q]) =>
          /\ requests[q].kind = "signUp" => requests[q].user \in EmailUsers
          /\ requests[q].kind = "facebook" => requests[q].user \in FacebookUsers
    /\ \A q \in Requests :
          requests[q].phase \in {"graph", "writing"} => requests[q].kind = "facebook"

\* Whoever logged in or stored a list has an account.
AccountInv ==
    /\ \A q \in Requests : Answered(requests[q]) => requests[q].user \in accounts
    /\ \A u \in Users : records[u].list => u \in accounts
    /\ \A i \in DOMAIN writes : writes[i].kind = "stock" => writes[i].user \in accounts
    /\ user # None => user \in accounts

(* A login answered while others were under way met them: the one on its screen is the
   last that was made, and the user of now is that of the last one answered. *)
MetInv ==
    /\ \A p, q \in Requests :
          (p # q /\ requests[p].here /\ Answered(requests[p]) /\ UnderWay(requests[q]))
              => requests[q].user \in mixed \cup {requests[p].user}
    /\ \A q \in Requests :
          Answered(requests[q]) => user \in {None, requests[q].user} \cup mixed

(* A sign-up that met nobody: once answered, its user is signed in and has saved nothing
   yet; and none is answered behind the tabs. *)
NothingSaved(u) ==
    /\ ~records[u].list
    /\ \A i \in DOMAIN writes : writes[i].kind = "stock" => writes[i].user # u
AloneInv ==
    \A q \in Requests :
        (requests[q].kind = "signUp" /\ Unmixed(requests[q].user)) =>
            /\ requests[q].phase = "answered" =>
                  /\ user = requests[q].user
                  /\ screen \notin {"tabs", "signedUp"}
                  /\ NothingSaved(requests[q].user)
            /\ (requests[q].phase = "sent" /\ screen \in {"tabs", "signedUp"}) =>
                  requests[q].user \in accounts

\* A write that sets a record anew finds no list in it.
SetInv ==
    \A i \in DOMAIN writes :
        (writes[i].kind = "set" /\ Unmixed(writes[i].user)) =>
            /\ ~records[writes[i].user].list
            /\ \A j \in DOMAIN writes :
                  (j < i /\ writes[j].kind = "stock") => writes[j].user # writes[i].user

\* A name is that of the user signed in or being signed out, and of its own record.
NameInv ==
    /\ name \in {None, user} \cup mixed \/ (screen = "signingOut" /\ user = None)
    /\ \A u \in Users : Unmixed(u) => records[u].name \in {None, u} \cup mixed
    /\ \A i \in DOMAIN writes :
          Unmixed(writes[i].user) => writes[i].name \in {None, writes[i].user} \cup mixed

NamesInv ==
    /\ RestInv /\ BlocksInv /\ KindInv /\ AccountInv
    /\ MetInv /\ AloneInv /\ SetInv /\ NameInv

LEMMA NamesInit == Init => NamesInv
BY DEF Init, NamesInv, RestInv, BlocksInv, KindInv, AccountInv, MetInv, AloneInv, SetInv,
   NameInv, Answered, UnderWay, Idle, Alive, Unmixed

(* Steps that leave logins and writes alone. *)
LEMMA StillNames ==
  ASSUME TypeInv, NamesInv,
         UNCHANGED vars \/ Launch \/ PresentOnboarding \/ ShowMainMenu \/ GetStarted \/ ToSignIn
         \/ ToSignUp \/ ConfirmSignUp \/ LoseSession \/ Reinstall \/ SignOut \/ SignedOut,
         HereInv
  PROVE  NamesInv'
<1>1. /\ UNCHANGED <<requests, blocks, accounts, records, writes>>
      /\ mixed \subseteq mixed'
      /\ user' \in {user, None}
  BY DEF vars, held, history, Launch, FirstLaunch, FirstUser, Known, PresentOnboarding, ShowMainMenu,
     GetStarted, ToSignIn, ToSignUp, ConfirmSignUp, Move, LoseSession, Reinstall, SignOut,
     SignedOut
<1>2. BlocksInv' /\ KindInv' /\ AccountInv' /\ SetInv'
  BY <1>1 DEF NamesInv, BlocksInv, KindInv, AccountInv, SetInv, Answered, UnderWay, Unmixed
<1>3. RestInv'
  BY <1>1 DEF NamesInv, RestInv, Alive, vars, held, history, Launch, FirstLaunch,
     PresentOnboarding, ShowMainMenu,
     GetStarted, ToSignIn, ToSignUp, ConfirmSignUp, Move, LoseSession, Reinstall, SignOut,
     SignedOut, AfterSignOut, NameRemoved, MainFree
<1>4. MetInv'
  BY <1>1 DEF NamesInv, MetInv, Answered, UnderWay
<1>5. AloneInv'
  <2>1. ASSUME NEW q \in Requests, requests[q].kind = "signUp", requests[q].user \notin mixed',
               requests[q].phase = "answered"
        PROVE  user' = requests[q].user /\ screen' \notin {"tabs", "signedUp"}
    <3>1. user = requests[q].user /\ screen \notin {"tabs", "signedUp"}
      BY <1>1, <2>1 DEF NamesInv, AloneInv, Unmixed
    <3>2. screen \notin {"dead", "splash", "splashOut"}
      BY <2>1 DEF NamesInv, RestInv, Idle
    <3> QED
      BY <2>1, <3>1, <3>2 DEF vars, held, history, Launch, Alive, PresentOnboarding, ShowMainMenu,
         GetStarted, ToSignIn, ToSignUp, ConfirmSignUp, Move, LoseSession, Reinstall, SignOut,
         SignedOut, AfterSignOut
  <2>2. ASSUME NEW q \in Requests, requests[q].phase = "sent", screen' \in {"tabs", "signedUp"}
        PROVE  screen \in {"tabs", "signedUp"}
    <3>1. screen \notin {"dead", "splash", "splashOut"}
      BY <2>2 DEF NamesInv, RestInv, Idle
    <3> QED
      BY <2>2, <3>1 DEF vars, held, history, Launch, Alive, PresentOnboarding, ShowMainMenu,
         GetStarted, ToSignIn, ToSignUp, ConfirmSignUp, Move, LoseSession, Reinstall, SignOut,
         SignedOut, AfterSignOut
  <2> QED BY <1>1, <2>1, <2>2 DEF NamesInv, AloneInv, Unmixed, NothingSaved
<1>6. NameInv'
  <2>1. name' \in {None, user'} \cup mixed' \/ (screen' = "signingOut" /\ user' = None)
    BY <1>1 DEF NamesInv, NameInv, RestInv, Alive, MainFree, vars, held, history, Launch,
       FirstLaunch, FirstUser, Known, PresentOnboarding, ShowMainMenu, GetStarted, ToSignIn,
       ToSignUp, ConfirmSignUp, Move, LoseSession, Reinstall, SignOut, SignedOut, NameRemoved
  <2> QED BY <1>1, <2>1 DEF NamesInv, NameInv, Unmixed
<1> QED BY <1>2, <1>3, <1>4, <1>5, <1>6 DEF NamesInv

LEMMA StopNames == TypeInv /\ NamesInv /\ Stop => NamesInv'
<1> SUFFICES ASSUME TypeInv, NamesInv, Stop PROVE NamesInv'
  OBVIOUS
<1>1. /\ \A q \in Requests : requests'[q] = Idle
      /\ blocks' = <<>> /\ writes' = <<>> /\ screen' = "dead"
      /\ UNCHANGED <<user, name, hasRun, records>>
      /\ accounts \subseteq accounts' /\ mixed \subseteq mixed'
  BY DEF Stop, held
<1>2. \A q \in Requests : requests'[q].phase = "idle"
  BY <1>1 DEF Idle
<1>5. RestInv' /\ BlocksInv'
  BY <1>1, <1>2 DEF NamesInv, RestInv, BlocksInv, Alive, Stop
<1>6. KindInv' /\ MetInv' /\ AloneInv' /\ SetInv'
  BY <1>1, <1>2 DEF KindInv, MetInv, AloneInv, SetInv, Answered, UnderWay
<1>3. AccountInv'
  BY <1>1 DEF NamesInv, AccountInv, Answered, Idle
<1>4. NameInv'
  <2>1. name' \in {None, user'} \cup mixed'
    BY <1>1 DEF NamesInv, NameInv, Stop, Known
  <2> QED BY <1>1, <2>1 DEF NamesInv, NameInv, Unmixed
<1> QED BY <1>3, <1>4, <1>5, <1>6 DEF NamesInv

(* Steps on logins that are not answered: a screen is left, a login is made, or granted. *)
LEMMA AskedNames ==
  ASSUME TypeInv, NamesInv, HereInv,
         \/ Back
         \/ \E q \in Requests :
              \/ \E u \in EmailUsers : SignInButtonTapped(q, u) \/ SignUpButtonPressed(q, u)
              \/ FacebookButtonPressed(q)
              \/ \E u \in FacebookUsers : FacebookGrants(q, u)
  PROVE  NamesInv'
<1>1. /\ UNCHANGED <<blocks, user, accounts, writes, held, history>>
      /\ screen \in {"welcome", "signIn", "signUp"} /\ screen' \in {"welcome", "signIn", "signUp"}
  BY DEF Back, SignInButtonTapped, SignUpButtonPressed, FacebookButtonPressed, Ask,
     FacebookGrants, In, HereInv, ScreenOf
<1> DEFINE Same(q) ==
             /\ requests'[q].kind = requests[q].kind /\ requests'[q].user = requests[q].user
             /\ requests'[q].phase = requests[q].phase
             /\ requests'[q].here => requests[q].here
           Made(q) ==
             /\ requests[q].phase \in {"idle", "dialog"}
             /\ requests'[q].phase \in {"dialog", "sent"}
             /\ requests'[q].kind = "signUp" => requests'[q].user \in EmailUsers
             /\ (requests'[q].kind = "facebook" /\ requests'[q].phase = "sent")
                  => requests'[q].user \in FacebookUsers
             /\ \A p \in Requests \ {q} : requests[p].here => ~Answered(requests[p])
<1>2. ASSUME NEW q \in Requests PROVE Same(q) \/ Made(q)
  <2>1. CASE Back
    BY <1>2, <2>1 DEF Back, TypeInv, TypeOK, RequestStates
  <2>2. ASSUME NEW p \in Requests, NEW kind, NEW u, NEW phase, Ask(p, kind, u, phase),
               phase \in {"sent", "dialog"},
               kind = "signUp" => u \in EmailUsers,
               (kind = "facebook" /\ phase = "sent") => u \in FacebookUsers
        PROVE  Same(q) \/ Made(q)
    <3>1. \A o \in Requests : ~requests[o].here
      BY <2>2 DEF Ask, HereInv
    <3>2. /\ requests[p] = Idle
          /\ requests'[p] = [kind |-> kind, user |-> u, phase |-> phase, here |-> TRUE]
          /\ \A o \in Requests \ {p} : requests'[o] = requests[o]
      BY <2>2 DEF Ask, TypeInv, TypeOK
    <3> QED BY <2>2, <3>1, <3>2 DEF Idle
  <2>3. ASSUME NEW p \in Requests, NEW u \in FacebookUsers, FacebookGrants(p, u)
        PROVE  Same(q) \/ Made(q)
    <3>1. /\ requests[p].kind = "facebook" /\ requests[p].phase = "dialog"
          /\ requests'[p].kind = "facebook" /\ requests'[p].phase = "sent"
          /\ requests'[p].user = u
          /\ \A o \in Requests \ {p} : requests'[o] = requests[o]
      BY <2>3 DEF FacebookGrants, In, TypeInv, TypeOK, RequestStates
    <3>2. \A o \in Requests \ {p} : ~requests[o].here
      BY <3>1 DEF HereInv
    <3> QED BY <3>1, <3>2
  <2>4. ASSUME NEW p \in Requests, NEW u \in EmailUsers,
               SignInButtonTapped(p, u) \/ SignUpButtonPressed(p, u)
        PROVE  Same(q) \/ Made(q)
    <3>1. Ask(p, "signIn", u, "sent") \/ Ask(p, "signUp", u, "sent")
      BY <2>4 DEF SignInButtonTapped, SignUpButtonPressed
    <3> QED BY <2>2, <3>1
  <2>5. ASSUME NEW p \in Requests, FacebookButtonPressed(p)
        PROVE  Same(q) \/ Made(q)
    <3>1. Ask(p, "facebook", None, "dialog")
      BY <2>5 DEF FacebookButtonPressed
    <3> QED BY <2>2, <3>1
  <2> QED BY <2>1, <2>3, <2>4, <2>5
<1>3. RestInv'
  BY <1>1 DEF NamesInv, RestInv, Alive, held
<1>4. BlocksInv'
  <2>1. \A i \in DOMAIN blocks : blocks[i] \in Requests
    BY DEF TypeInv, TypeOK
  <2>2. \A i \in DOMAIN blocks :
          /\ requests'[blocks[i]].kind = requests[blocks[i]].kind
          /\ requests'[blocks[i]].user = requests[blocks[i]].user
          /\ requests'[blocks[i]].phase = requests[blocks[i]].phase
    BY <1>2, <2>1 DEF NamesInv, BlocksInv
  <2>3. \A q \in Requests : requests'[q].phase = "answered" => requests[q].phase = "answered"
    BY <1>2
  <2> QED BY <1>1, <2>2, <2>3 DEF NamesInv, BlocksInv
<1>5. KindInv'
  BY <1>2 DEF NamesInv, KindInv, UnderWay
<1>6. \A q \in Requests : Answered(requests'[q]) =>
        /\ Answered(requests[q]) /\ requests'[q].user = requests[q].user
        /\ requests'[q].kind = requests[q].kind /\ requests'[q].phase = requests[q].phase
        /\ requests'[q].here => requests[q].here
  BY <1>2 DEF Answered
<1>7. AccountInv'
  BY <1>1, <1>6 DEF NamesInv, AccountInv, held
<1>8. MetInv'
  <2>1. ASSUME NEW p \in Requests, NEW q \in Requests, p # q, requests'[p].here,
               Answered(requests'[p]), UnderWay(requests'[q])
        PROVE  requests'[q].user \in mixed \cup {requests'[p].user}
    <3>1. requests[p].here /\ Answered(requests[p]) /\ requests'[p].user = requests[p].user
      BY <1>6, <2>1
    <3>2. requests'[q].user = requests[q].user /\ requests'[q].phase = requests[q].phase
      BY <1>2, <2>1, <3>1
    <3> QED BY <2>1, <3>1, <3>2 DEF NamesInv, MetInv, UnderWay
  <2> QED BY <1>1, <1>6, <2>1 DEF NamesInv, MetInv, history
<1>9. AloneInv'
  BY <1>1, <1>6 DEF NamesInv, AloneInv, NothingSaved, Unmixed, Answered, held, history
<1>10. SetInv' /\ NameInv'
  BY <1>1 DEF NamesInv, SetInv, NameInv, Unmixed, held, history
<1> QED BY <1>3, <1>4, <1>5, <1>7, <1>8, <1>9, <1>10 DEF NamesInv

(* Firebase answers: the login meets whoever is signed in, being signed out or under way. *)
LEMMA AuthSucceedsNames ==
  ASSUME TypeInv, NamesInv, NEW q \in Requests, AuthSucceeds(q)
  PROVE  NamesInv'
<1> DEFINE u == requests[q].user
<1>1. /\ requests[q].phase = "sent" /\ requests'[q].phase = "answered"
      /\ \A p \in Requests : /\ requests'[p].kind = requests[p].kind
                             /\ requests'[p].user = requests[p].user
                             /\ requests'[p].here = requests[p].here
                             /\ p # q => requests'[p] = requests[p]
      /\ user' = u /\ accounts' = accounts \cup {u} /\ mixed \subseteq mixed'
      /\ requests[q].kind = "signUp" => u \notin accounts
      /\ UNCHANGED <<screen, name, hasRun, records, writes>>
  BY DEF AuthSucceeds, TypeInv, TypeOK, RequestStates, held
<1>2. /\ \A p \in Requests \ {q} :
           (UnderWay(requests[p]) /\ requests[p].user # u) => {u, requests[p].user} \subseteq mixed'
      /\ (user # None /\ user # u) => {u, user} \subseteq mixed'
      /\ (screen = "signingOut" /\ name # None /\ name # u) => name \in mixed'
  BY DEF AuthSucceeds, Met, Known
<1>3. \A i \in DOMAIN blocks : blocks[i] \in Requests \ {q}
  BY <1>1 DEF TypeInv, TypeOK, NamesInv, BlocksInv
<1>4. RestInv'
  BY <1>1 DEF NamesInv, RestInv, Idle, Alive
<1>5. BlocksInv'
  <2>1. /\ DOMAIN blocks' = DOMAIN blocks \cup {Len(blocks) + 1}
        /\ blocks'[Len(blocks) + 1] = q
        /\ \A i \in DOMAIN blocks : i < Len(blocks) + 1 /\ blocks'[i] = blocks[i]
    BY DEF AuthSucceeds, TypeInv, TypeOK
  <2>2. ASSUME NEW i \in DOMAIN blocks', NEW j \in DOMAIN blocks', i # j,
               requests'[blocks'[i]].kind = "signUp",
               requests'[blocks'[j]].user = requests'[blocks'[i]].user
        PROVE  i < j
    <3>1. CASE i = Len(blocks) + 1
      <4>1. j \in DOMAIN blocks /\ requests[blocks[j]].user = u /\ requests[q].kind = "signUp"
        BY <1>1, <1>3, <2>1, <2>2, <3>1
      <4>2. u \in accounts
        BY <1>3, <4>1 DEF NamesInv, BlocksInv, AccountInv, Answered
      <4> QED BY <1>1, <4>1, <4>2
    <3>2. CASE i \in DOMAIN blocks /\ j \in DOMAIN blocks
      BY <1>1, <1>3, <2>1, <2>2, <3>2 DEF NamesInv, BlocksInv
    <3> QED BY <2>1, <2>2, <3>1, <3>2
  <2>3. \A i \in DOMAIN blocks' : requests'[blocks'[i]].phase = "answered"
    BY <1>1, <1>3, <2>1 DEF NamesInv, BlocksInv
  <2>4. ASSUME NEW p \in Requests, requests'[p].phase = "answered"
        PROVE  \E i \in DOMAIN blocks' : blocks'[i] = p
    BY <1>1, <2>1, <2>4 DEF NamesInv, BlocksInv
  <2>5. \A i, j \in DOMAIN blocks' : blocks'[i] = blocks'[j] => i = j
    BY <1>3, <2>1 DEF NamesInv, BlocksInv
  <2> QED BY <2>2, <2>3, <2>4, <2>5 DEF BlocksInv
<1>6. KindInv'
  BY <1>1 DEF NamesInv, KindInv, UnderWay
<1>7. AccountInv'
  BY <1>1 DEF NamesInv, AccountInv, Answered
<1>8. MetInv'
  <2>1. ASSUME NEW p \in Requests, NEW o \in Requests, p # o, requests'[p].here,
               Answered(requests'[p]), UnderWay(requests'[o])
        PROVE  requests'[o].user \in mixed' \cup {requests'[p].user}
    <3>1. CASE p = q
      BY <1>1, <1>2, <2>1, <3>1
    <3>2. CASE p # q
      BY <1>1, <2>1, <3>2 DEF NamesInv, MetInv, UnderWay
    <3> QED BY <3>1, <3>2
  <2>2. ASSUME NEW o \in Requests, Answered(requests'[o])
        PROVE  user' \in {None, requests'[o].user} \cup mixed'
    <3>1. o # q => UnderWay(requests[o])
      BY <1>1, <2>2 DEF Answered, UnderWay
    <3> QED BY <1>1, <1>2, <3>1
  <2> QED BY <2>1, <2>2 DEF MetInv
<1>9. AloneInv'
  <2>1. ASSUME NEW p \in Requests, requests'[p].kind = "signUp", requests'[p].user \notin mixed',
               requests'[p].phase = "answered"
        PROVE  /\ user' = requests'[p].user
               /\ screen' \notin {"tabs", "signedUp"}
               /\ NothingSaved(requests'[p].user)
    <3>1. CASE p = q
      <4>1. u \notin accounts /\ u \notin mixed /\ u \in Users
        BY <1>1, <2>1, <3>1 DEF TypeInv, UserInv, UnderWay
      <4>2. NothingSaved(u)
        BY <4>1 DEF NamesInv, AccountInv, NothingSaved
      <4> QED BY <1>1, <2>1, <3>1, <4>1, <4>2 DEF NamesInv, AloneInv, Unmixed
    <3>2. CASE p # q
      <4>1. requests[p].user \notin mixed /\ UnderWay(requests[p]) /\ requests[p].phase = "answered"
        BY <1>1, <2>1, <3>2 DEF UnderWay
      <4>2. requests[p].user = u
        BY <1>1, <1>2, <2>1, <3>2, <4>1
      <4> QED BY <1>1, <2>1, <3>2, <4>1, <4>2 DEF NamesInv, AloneInv, Unmixed
    <3> QED BY <3>1, <3>2
  <2> QED BY <1>1, <2>1 DEF NamesInv, AloneInv, Unmixed, NothingSaved
<1>10. SetInv'
  BY <1>1 DEF NamesInv, SetInv, Unmixed
<1>11. NameInv'
  BY <1>1, <1>2 DEF NamesInv, NameInv, Unmixed
<1> QED BY <1>4, <1>5, <1>6, <1>7, <1>8, <1>9, <1>10, <1>11 DEF NamesInv

(* A login ends, or goes on as Facebook's do; its completion is the next. *)
GoesOn(q) ==
    /\ \A p \in Requests \ {q} : requests'[p] = requests[p]
    /\ \/ requests'[q] = Idle
       \/ /\ requests'[q].kind = requests[q].kind /\ requests[q].kind = "facebook"
          /\ requests'[q].user = requests[q].user
          /\ requests'[q].here = requests[q].here
          /\ requests'[q].phase \in {"graph", "writing"} /\ Answered(requests[q])
    /\ \/ requests[q].phase # "answered" /\ UNCHANGED blocks
       \/ blocks # <<>> /\ q = Head(blocks) /\ blocks' = Tail(blocks)
    /\ accounts \subseteq accounts'
    /\ UNCHANGED <<user, hasRun, mixed>>

LEMMA GoesOnNames ==
  ASSUME TypeInv, NamesInv, NEW q \in Requests, GoesOn(q)
  PROVE  BlocksInv' /\ KindInv' /\ MetInv'
<1>1. \A p \in Requests : requests'[p].phase # "idle" =>
        /\ requests'[p].kind = requests[p].kind /\ requests'[p].user = requests[p].user
        /\ requests'[p].here = requests[p].here
        /\ Answered(requests'[p]) => Answered(requests[p])
        /\ UnderWay(requests'[p]) => UnderWay(requests[p])
        /\ requests'[p].phase = "answered" => p # q
        /\ requests'[p].phase \in {"graph", "writing"} => requests'[p].kind = "facebook"
  BY DEF GoesOn, Idle, Answered, UnderWay, NamesInv, KindInv
<1>2. KindInv' /\ MetInv'
  <2>1. \A p \in Requests : Answered(requests'[p]) \/ UnderWay(requests'[p]) =>
                              requests'[p].phase # "idle"
    BY DEF Answered, UnderWay
  <2>2. UNCHANGED <<user, mixed>>
    BY DEF GoesOn
  <2> QED BY <1>1, <2>1, <2>2 DEF NamesInv, KindInv, MetInv
<1>3. CASE requests[q].phase # "answered" /\ UNCHANGED blocks
  <2>1. \A i \in DOMAIN blocks : blocks[i] \in Requests \ {q}
    BY <1>3 DEF TypeInv, TypeOK, NamesInv, BlocksInv
  <2>2. \A i \in DOMAIN blocks : requests'[blocks[i]] = requests[blocks[i]]
    BY <2>1 DEF GoesOn
  <2>3. \A p \in Requests : requests'[p].phase = "answered" => requests[p].phase = "answered"
    BY <1>1, <1>3 DEF GoesOn
  <2> QED BY <1>2, <1>3, <2>2, <2>3 DEF NamesInv, BlocksInv
<1>4. CASE blocks # <<>> /\ q = Head(blocks) /\ blocks' = Tail(blocks)
  <2>1. /\ 1 \in DOMAIN blocks /\ q = blocks[1]
        /\ \A i \in DOMAIN blocks' :
             i \in Nat /\ i + 1 \in DOMAIN blocks /\ i + 1 # 1 /\ blocks'[i] = blocks[i + 1]
        /\ \A i \in DOMAIN blocks \ {1} : i - 1 \in DOMAIN blocks' /\ blocks'[i - 1] = blocks[i]
        /\ \A i \in DOMAIN blocks : i \in Nat /\ blocks[i] \in Requests
    BY <1>4 DEF TypeInv, TypeOK
  <2>2. \A i \in DOMAIN blocks' : blocks'[i] \in Requests \ {q}
    BY <2>1 DEF NamesInv, BlocksInv
  <2>3. \A i \in DOMAIN blocks' : requests'[blocks'[i]] = requests[blocks[i + 1]]
    BY <2>1, <2>2 DEF GoesOn
  <2>4. \A i \in DOMAIN blocks' : requests'[blocks'[i]].phase = "answered"
    BY <2>1, <2>3 DEF NamesInv, BlocksInv
  <2>5. ASSUME NEW p \in Requests, requests'[p].phase = "answered"
        PROVE  \E i \in DOMAIN blocks' : blocks'[i] = p
    <3>1. p # q /\ requests[p].phase = "answered"
      BY <1>1, <2>5 DEF GoesOn
    <3>2. PICK i \in DOMAIN blocks : blocks[i] = p
      BY <3>1 DEF NamesInv, BlocksInv
    <3> QED BY <2>1, <3>1, <3>2
  <2>6. \A i, j \in DOMAIN blocks' : blocks'[i] = blocks'[j] => i = j
    BY <2>1 DEF NamesInv, BlocksInv
  <2>7. ASSUME NEW i \in DOMAIN blocks', NEW j \in DOMAIN blocks', i # j,
               requests'[blocks'[i]].kind = "signUp",
               requests'[blocks'[j]].user = requests'[blocks'[i]].user
        PROVE  i < j
    <3>1. i + 1 \in DOMAIN blocks /\ j + 1 \in DOMAIN blocks /\ i + 1 # j + 1
      BY <2>1, <2>7
    <3>2. i + 1 < j + 1
      BY <2>3, <2>7, <3>1 DEF NamesInv, BlocksInv
    <3> QED BY <2>1, <3>2
  <2> QED BY <1>2, <2>4, <2>5, <2>6, <2>7 DEF BlocksInv
<1> QED BY <1>3, <1>4 DEF GoesOn

\* After the step there is still nothing of a user.
StillNothing(u) ==
    /\ ~records'[u].list
    /\ \A i \in DOMAIN writes' : writes'[i].kind = "stock" => writes'[i].user # u

(* The next screen: no sign-up that met nobody is behind it. *)
LEMMA GoesOnAlone ==
  ASSUME TypeInv, NamesInv, NEW q \in Requests, GoesOn(q),
         \A u \in Users : Unmixed(u) /\ NothingSaved(u) /\ (screen = "tabs" => user # u)
                            => StillNothing(u),
         \/ screen' = screen
         \/ /\ requests[q].here /\ Answered(requests[q])
            /\ requests[q].phase = "answered" => blocks # <<>> /\ q = Head(blocks)
  PROVE  AloneInv'
<1>1. ASSUME NEW p \in Requests, requests'[p].kind = "signUp", requests'[p].user \notin mixed,
             requests'[p].phase \in {"sent", "answered"}
      PROVE  /\ p # q /\ requests[p] = requests'[p]
             /\ requests[p].user \in Users
             /\ screen' # screen => /\ requests[p].user \in accounts
                                    /\ requests[p].phase = "sent"
  <2>1. p # q /\ requests[p] = requests'[p] /\ UnderWay(requests[p])
    BY <1>1 DEF GoesOn, Idle, UnderWay
  <2>2. requests[p].user \in Users
    BY <2>1 DEF TypeInv, UserInv
  <2>3. CASE screen' # screen
    <3>1. requests[p].user = requests[q].user
      BY <1>1, <2>1, <2>3 DEF NamesInv, MetInv
    <3>2. requests[p].user \in accounts
      BY <2>3, <3>1 DEF NamesInv, AccountInv
    <3>3. ASSUME requests[p].phase = "answered" PROVE FALSE
      <4>1. requests[q].phase = "answered"
        <5>1. requests[p].user \in EmailUsers
          BY <1>1, <2>1 DEF NamesInv, KindInv
        <5>2. requests[q].user \notin FacebookUsers
          BY <3>1, <5>1, UsersAssumption
        <5>3. UnderWay(requests[q])
          BY <2>3 DEF Answered, UnderWay
        <5>4. requests[q].kind # "facebook"
          BY <5>2, <5>3 DEF NamesInv, KindInv
        <5> QED BY <2>3, <5>4 DEF NamesInv, KindInv, Answered
      <4>2. PICK i \in DOMAIN blocks : blocks[i] = p
        BY <3>3 DEF NamesInv, BlocksInv
      <4>3. 1 \in DOMAIN blocks /\ blocks[1] = q /\ i \in 1..Len(blocks)
        BY <2>3, <4>1, <4>2 DEF TypeInv, TypeOK
      <4>4. i < 1
        BY <1>1, <2>1, <3>1, <4>2, <4>3 DEF NamesInv, BlocksInv
      <4> QED BY <4>3, <4>4
    <3> QED BY <1>1, <2>1, <2>2, <3>2, <3>3
  <2> QED BY <2>1, <2>2, <2>3
<1>2. ASSUME NEW p \in Requests, requests'[p].kind = "signUp", requests'[p].user \notin mixed,
             requests'[p].phase = "answered"
      PROVE  /\ user = requests'[p].user
             /\ screen' \notin {"tabs", "signedUp"}
             /\ StillNothing(requests'[p].user)
  <2>1. /\ requests[p] = requests'[p] /\ requests[p].user \in Users /\ screen' = screen
    BY <1>1, <1>2
  <2>2. /\ user = requests[p].user /\ screen \notin {"tabs", "signedUp"}
        /\ NothingSaved(requests[p].user)
    BY <1>2, <2>1 DEF NamesInv, AloneInv, Unmixed
  <2> QED BY <1>2, <2>1, <2>2 DEF Unmixed
<1>3. ASSUME NEW p \in Requests, requests'[p].kind = "signUp", requests'[p].user \notin mixed,
             requests'[p].phase = "sent", screen' \in {"tabs", "signedUp"}
      PROVE  requests'[p].user \in accounts'
  BY <1>1, <1>3 DEF GoesOn, NamesInv, AloneInv, Unmixed
<1>4. UNCHANGED <<user, mixed>>
  BY DEF GoesOn
<1> QED BY <1>2, <1>3, <1>4 DEF AloneInv, Unmixed, NothingSaved, StillNothing

LEMMA GoesOnRest ==
  ASSUME TypeInv, NamesInv, NEW q \in Requests, GoesOn(q), requests[q] # Idle,
         screen' \in {screen, "tabs", "signedUp"}
  PROVE  RestInv'
BY DEF GoesOn, NamesInv, RestInv, Alive

LEMMA GoesOnAccounts ==
  ASSUME TypeInv, NamesInv, NEW q \in Requests, GoesOn(q),
         \A u \in Users : records'[u].list => u \in accounts,
         \A i \in DOMAIN writes' : writes'[i].kind = "stock" => writes'[i].user \in accounts
  PROVE  AccountInv'
BY DEF GoesOn, NamesInv, AccountInv, Answered, Idle

(* A login ends or goes on without a write. *)
LEMMA EndNames ==
  ASSUME TypeInv, NamesInv, NEW q \in Requests, GoesOn(q), requests[q] # Idle, MainFree,
         UNCHANGED <<name, records, writes>>,
         \/ screen' = screen
         \/ /\ screen' = "tabs" /\ requests[q].here /\ Answered(requests[q])
            /\ requests[q].phase = "answered" => blocks # <<>> /\ q = Head(blocks)
  PROVE  NamesInv'
<1>1. BlocksInv' /\ KindInv' /\ MetInv' /\ RestInv'
  BY GoesOnNames, GoesOnRest
<1>2. AccountInv'
  BY GoesOnAccounts DEF NamesInv, AccountInv
<1>3. AloneInv'
  <2>1. \A u \in Users : NothingSaved(u) => StillNothing(u)
    BY DEF NothingSaved, StillNothing
  <2> QED BY <2>1, GoesOnAlone
<1>4. SetInv' /\ NameInv'
  BY DEF GoesOn, NamesInv, SetInv, NameInv, Unmixed, MainFree
<1> QED BY <1>1, <1>2, <1>3, <1>4 DEF NamesInv

LEMMA QueueFacts ==
  ASSUME TypeInv, NEW kind, NEW written, NEW request, Queue(kind, written, request)
  PROVE  /\ DOMAIN writes' = DOMAIN writes \cup {Len(writes) + 1}
         /\ writes'[Len(writes) + 1].kind = kind
         /\ writes'[Len(writes) + 1].user = user
         /\ writes'[Len(writes) + 1].name = written
         /\ \A i \in DOMAIN writes : i < Len(writes) + 1 /\ ~(Len(writes) + 1 < i)
                                      /\ writes'[i] = writes[i]
         /\ ~(Len(writes) + 1 < Len(writes) + 1)
<1> DEFINE write == [kind |-> kind, user |-> user, name |-> written, request |-> request]
<1>1. writes' = Append(writes, write) /\ writes \in Seq(Writes)
  BY DEF Queue, TypeInv, TypeOK
<1>2. write.kind = kind /\ write.user = user /\ write.name = written
  OBVIOUS
<1> HIDE DEF write
<1> QED BY <1>1, <1>2

LEMMA HeadFacts ==
  ASSUME TypeInv, writes # <<>>, writes' = Tail(writes)
  PROVE  /\ 1 \in DOMAIN writes /\ Head(writes) = writes[1]
         /\ \A i \in DOMAIN writes : i \in Nat /\ writes[i] \in Writes
         /\ \A i \in DOMAIN writes' :
              /\ i + 1 \in DOMAIN writes /\ 1 < i + 1 /\ writes'[i] = writes[i + 1]
              /\ i \in Nat
BY DEF TypeInv, TypeOK

(* Nothing of the login's user, but for a write that sets the record. *)
LEMMA SignUpNames ==
  ASSUME TypeInv, NamesInv, NEW q \in Requests, SignUpDone(q)
  PROVE  NamesInv'
<1>1. /\ requests[q].kind = "signUp" /\ requests[q].phase = "answered" /\ MainFree
      /\ blocks # <<>> /\ q = Head(blocks) /\ blocks' = Tail(blocks)
      /\ UNCHANGED <<user, hasRun, accounts, records, history>>
      /\ name' = requests[q].user
  BY DEF SignUpDone, Complete, In
<1>2. GoesOn(q) /\ requests[q] # Idle
  <2>1. /\ requests'[q] = Idle
        /\ \A p \in Requests \ {q} : requests'[p] = requests[p]
    BY DEF SignUpDone, Finish, TypeInv, TypeOK
  <2> QED BY <1>1, <2>1 DEF GoesOn, Idle, history
<1> DEFINE n == Len(writes) + 1
<1>3. \/ UNCHANGED writes
      \/ /\ user # None
         /\ DOMAIN writes' = DOMAIN writes \cup {n}
         /\ writes'[n].kind = "set" /\ writes'[n].user = user
         /\ writes'[n].name = requests[q].user
         /\ \A i \in DOMAIN writes : i < n /\ ~(n < i) /\ writes'[i] = writes[i]
         /\ ~(n < n)
  BY QueueFacts DEF SignUpDone, Someone
<1> HIDE DEF n
<1>4. user \in {None, requests[q].user} \cup mixed
  BY <1>1 DEF NamesInv, MetInv, Answered
<1>5. requests[q].user \notin mixed => user = requests[q].user /\ NothingSaved(user)
  BY <1>1 DEF NamesInv, AloneInv, Unmixed
<1>6. BlocksInv' /\ KindInv' /\ MetInv'
  BY <1>2, GoesOnNames
<1>7. RestInv' /\ AloneInv'
  <2>1. \/ screen' = screen
        \/ requests[q].here /\ Answered(requests[q]) /\ screen' = "signedUp"
    BY <1>1 DEF SignUpDone, Present, Answered
  <2>2. \A u \in Users : NothingSaved(u) => StillNothing(u)
    BY <1>1, <1>3 DEF NothingSaved, StillNothing
  <2> QED BY <1>1, <1>2, <2>1, <2>2, GoesOnAlone, GoesOnRest
<1>8. AccountInv'
  <2>1. \A i \in DOMAIN writes' : writes'[i].kind = "stock" => writes'[i].user \in accounts
    BY <1>3 DEF NamesInv, AccountInv
  <2> QED BY <1>1, <1>2, <2>1, GoesOnAccounts DEF NamesInv, AccountInv
<1>9. SetInv'
  <2>1. ASSUME NEW i \in DOMAIN writes', writes'[i].kind = "set", writes'[i].user \notin mixed
        PROVE  /\ ~records[writes'[i].user].list
               /\ \A j \in DOMAIN writes' :
                     (j < i /\ writes'[j].kind = "stock") => writes'[j].user # writes'[i].user
    <3>1. CASE UNCHANGED writes \/ i \in DOMAIN writes
      BY <1>3, <2>1, <3>1 DEF NamesInv, SetInv, Unmixed
    <3>2. CASE ~UNCHANGED writes /\ i = n
      <4>1. user \notin mixed /\ user # None /\ writes'[i].user = user
        BY <1>3, <2>1, <3>2
      <4>2. user = requests[q].user /\ NothingSaved(user)
        BY <1>4, <1>5, <4>1
      <4> QED BY <1>3, <3>2, <4>1, <4>2 DEF NothingSaved
    <3> QED BY <1>3, <2>1, <3>1, <3>2
  <2> QED BY <1>1, <2>1 DEF SetInv, Unmixed, history
<1>10. NameInv'
  <2>1. name' \in {None, user'} \cup mixed'
    BY <1>1, <1>5 DEF history
  <2>2. ASSUME NEW i \in DOMAIN writes', writes'[i].user \notin mixed
        PROVE  writes'[i].name \in {None, writes'[i].user} \cup mixed
    <3>1. CASE UNCHANGED writes \/ i \in DOMAIN writes
      BY <1>3, <2>2, <3>1 DEF NamesInv, NameInv, Unmixed
    <3>2. CASE ~UNCHANGED writes /\ i = n
      BY <1>3, <1>4, <2>2, <3>2
    <3> QED BY <1>3, <2>2, <3>1, <3>2
  <2> QED BY <1>1, <2>1, <2>2 DEF NamesInv, NameInv, Unmixed, history
<1> QED BY <1>6, <1>7, <1>8, <1>9, <1>10 DEF NamesInv

(* A write that sets nothing anew. *)
LEMMA QueuedNames ==
  ASSUME TypeInv, NamesInv, NEW kind \in {"update", "stock"}, NEW written, NEW request,
         Queue(kind, written, request), user # None, written \in {None, user},
         UNCHANGED <<user, accounts, records, mixed>>
  PROVE  /\ SetInv'
         /\ \A i \in DOMAIN writes' : writes'[i].kind = "stock" => writes'[i].user \in accounts
         /\ \A u \in Users : (NothingSaved(u) /\ (kind = "stock" => user # u)) => StillNothing(u)
         /\ \A i \in DOMAIN writes' :
               writes'[i].user \notin mixed
                 => writes'[i].name \in {None, writes'[i].user} \cup mixed
<1> DEFINE n == Len(writes) + 1
<1>1. /\ DOMAIN writes' = DOMAIN writes \cup {n}
      /\ writes'[n].kind = kind /\ writes'[n].user = user /\ writes'[n].name = written
      /\ \A i \in DOMAIN writes : i < n /\ ~(n < i) /\ writes'[i] = writes[i]
      /\ ~(n < n)
  BY QueueFacts
<1> HIDE DEF n
<1>2. SetInv'
  BY <1>1 DEF NamesInv, SetInv, Unmixed
<1>3. \A i \in DOMAIN writes' : writes'[i].kind = "stock" => writes'[i].user \in accounts
  BY <1>1 DEF NamesInv, AccountInv
<1>4. \A u \in Users : (NothingSaved(u) /\ (kind = "stock" => user # u)) => StillNothing(u)
  BY <1>1 DEF NothingSaved, StillNothing
<1>5. \A i \in DOMAIN writes' :
         writes'[i].user \notin mixed => writes'[i].name \in {None, writes'[i].user} \cup mixed
  BY <1>1 DEF NamesInv, NameInv, Unmixed
<1> QED BY <1>2, <1>3, <1>4, <1>5

LEMMA GraphAnswersNames ==
  ASSUME TypeInv, NamesInv, NEW q \in Requests, GraphAnswers(q)
  PROVE  NamesInv'
<1>1. GoesOn(q) /\ requests[q] # Idle
  <2>1. /\ requests[q].kind = "facebook" /\ requests[q].phase = "graph"
        /\ requests'[q].kind = requests[q].kind /\ requests'[q].user = requests[q].user
        /\ requests'[q].here = requests[q].here /\ requests'[q].phase = "writing"
        /\ \A p \in Requests \ {q} : requests'[p] = requests[p]
    BY DEF GraphAnswers, In, TypeInv, TypeOK, RequestStates
  <2> QED BY <2>1 DEF GraphAnswers, GoesOn, Idle, Answered, held, history
<1>2. /\ user # None /\ Queue("update", DisplayName(user), q)
      /\ UNCHANGED <<screen, user, accounts, name, records, mixed>>
      /\ DisplayName(user) \in {None, user}
  BY DEF GraphAnswers, Someone, UpdateKind, DisplayName, held, history
<1>3. /\ SetInv'
      /\ \A i \in DOMAIN writes' : writes'[i].kind = "stock" => writes'[i].user \in accounts
      /\ \A u \in Users : NothingSaved(u) => StillNothing(u)
      /\ \A i \in DOMAIN writes' :
            writes'[i].user \notin mixed => writes'[i].name \in {None, writes'[i].user} \cup mixed
  BY <1>2, QueuedNames
<1>4. BlocksInv' /\ KindInv' /\ MetInv' /\ RestInv'
  BY <1>1, <1>2, GoesOnNames, GoesOnRest
<1>5. AccountInv'
  BY <1>1, <1>2, <1>3, GoesOnAccounts DEF NamesInv, AccountInv
<1>6. AloneInv'
  BY <1>1, <1>2, <1>3, GoesOnAlone
<1>7. NameInv'
  BY <1>2, <1>3 DEF NamesInv, NameInv, Unmixed
<1> QED BY <1>3, <1>4, <1>5, <1>6, <1>7 DEF NamesInv

LEMMA SaveStockNames == TypeInv /\ NamesInv /\ SaveStock => NamesInv'
<1> SUFFICES ASSUME TypeInv, NamesInv, SaveStock PROVE NamesInv'
  OBVIOUS
<1>1. /\ user # None /\ Queue("stock", None, None) /\ screen = "tabs"
      /\ UNCHANGED <<screen, requests, blocks, user, accounts, name, hasRun, records, mixed>>
  BY DEF SaveStock, Someone, held, history
<1>2. /\ SetInv'
      /\ \A i \in DOMAIN writes' : writes'[i].kind = "stock" => writes'[i].user \in accounts
      /\ \A i \in DOMAIN writes' :
            writes'[i].user \notin mixed => writes'[i].name \in {None, writes'[i].user} \cup mixed
  BY <1>1, QueuedNames
<1>3. RestInv' /\ BlocksInv' /\ KindInv' /\ MetInv'
  BY <1>1 DEF NamesInv, RestInv, BlocksInv, KindInv, MetInv, Alive, Answered, UnderWay
<1>4. AccountInv'
  BY <1>1, <1>2 DEF NamesInv, AccountInv, Answered
<1>5. AloneInv'
  BY <1>1 DEF NamesInv, AloneInv, Unmixed
<1>6. NameInv'
  BY <1>1, <1>2 DEF NamesInv, NameInv, Unmixed
<1> QED BY <1>2, <1>3, <1>4, <1>5, <1>6 DEF NamesInv

(* The client's writes reach their records one by one. *)
LEMMA WrittenNames ==
  ASSUME TypeInv, NamesInv, Decide, UNCHANGED <<user, accounts, name, hasRun, mixed>>
  PROVE  /\ \A u \in Users : records'[u].list => u \in accounts
         /\ \A i \in DOMAIN writes' : writes'[i].kind = "stock" => writes'[i].user \in accounts
         /\ \A u \in Users : Unmixed(u) /\ NothingSaved(u) => StillNothing(u)
         /\ SetInv'
         /\ (NameInv' \/ ~MainFree)
<1> DEFINE write == Head(writes)
<1>1. /\ 1 \in DOMAIN writes /\ write = writes[1]
      /\ \A i \in DOMAIN writes : i \in Nat /\ writes[i] \in Writes
      /\ \A i \in DOMAIN writes' :
           i + 1 \in DOMAIN writes /\ 1 < i + 1 /\ writes'[i] = writes[i + 1] /\ i \in Nat
  BY HeadFacts DEF Decide, Accept, Refuse
<1>2. write.user \in Users /\ write.kind \in {"set", "update", "stock"}
  BY <1>1 DEF Writes
<1>3. \A u \in Users : records[u] \in [name : Users \cup {None}, list : BOOLEAN]
  BY DEF TypeInv, TypeOK
<1>4. \A u \in Users :
        \/ records'[u] = records[u]
        \/ /\ u = write.user
           /\ write.kind = "set" => ~records'[u].list /\ records'[u].name = write.name
           /\ write.kind = "update" =>
                 records'[u].list = records[u].list /\ records'[u].name = write.name
           /\ write.kind = "stock" => records'[u].name = records[u].name
  BY <1>2, <1>3 DEF Decide, Accept, Refuse, Apply, held, TypeInv, TypeOK
<1> HIDE DEF write
<1>5. \A u \in Users : records'[u].list =>
        records[u].list \/ (u = write.user /\ write.kind = "stock")
  BY <1>2, <1>4
<1>6. \A u \in Users : records'[u].list => u \in accounts
  BY <1>1, <1>5 DEF NamesInv, AccountInv
<1>7. \A i \in DOMAIN writes' : writes'[i].kind = "stock" => writes'[i].user \in accounts
  BY <1>1 DEF NamesInv, AccountInv
<1>8. \A u \in Users : NothingSaved(u) => StillNothing(u)
  BY <1>1, <1>5 DEF NothingSaved, StillNothing
<1>9. SetInv'
  <2>1. ASSUME NEW i \in DOMAIN writes', writes'[i].kind = "set", writes'[i].user \notin mixed
        PROVE  /\ ~records'[writes'[i].user].list
               /\ \A j \in DOMAIN writes' :
                     (j < i /\ writes'[j].kind = "stock") => writes'[j].user # writes'[i].user
    <3>1. /\ i + 1 \in DOMAIN writes /\ writes'[i] = writes[i + 1] /\ writes[i + 1].kind = "set"
          /\ writes[i + 1].user \in Users /\ writes[i + 1].user \notin mixed
      BY <1>1, <2>1 DEF Writes
    <3>2. /\ ~records[writes[i + 1].user].list
          /\ \A j \in DOMAIN writes :
               (j < i + 1 /\ writes[j].kind = "stock") => writes[j].user # writes[i + 1].user
      BY <3>1 DEF NamesInv, SetInv, Unmixed
    <3>3. \A j \in DOMAIN writes' : j < i => j + 1 < i + 1
      BY <1>1, <2>1
    <3>4. 1 < i + 1
      BY <1>1, <2>1
    <3> QED BY <1>1, <1>5, <3>1, <3>2, <3>3, <3>4
  <2> QED BY <2>1 DEF SetInv, Unmixed
<1>10. NameInv' \/ ~MainFree
  <2>1. ASSUME NEW u \in Users, Unmixed(u) PROVE records'[u].name \in {None, u} \cup mixed
    BY <1>1, <1>2, <1>4, <2>1 DEF NamesInv, NameInv, Unmixed
  <2>2. \A i \in DOMAIN writes' :
          writes'[i].user \notin mixed => writes'[i].name \in {None, writes'[i].user} \cup mixed
    BY <1>1 DEF NamesInv, NameInv, Unmixed
  <2> QED BY <2>1, <2>2 DEF NamesInv, NameInv, Unmixed, MainFree
<1> QED BY <1>6, <1>7, <1>8, <1>9, <1>10

LEMMA DecideNames == TypeInv /\ Logins /\ NamesInv /\ Decide => NamesInv'
<1> SUFFICES ASSUME TypeInv, Logins, NamesInv, Decide PROVE NamesInv'
  OBVIOUS
<1> DEFINE q == Head(writes).request
<1>1. /\ writes # <<>> /\ writes' = Tail(writes) /\ MainFree
      /\ UNCHANGED <<blocks, user, name, hasRun, accounts, mixed>>
  BY DEF Decide, Accept, Refuse, held, history
<1>2. q \in Requests \cup {None}
        /\ (q # None => requests[q].kind = "facebook" /\ requests[q].phase = "writing")
  BY <1>1, HeadFacts, WriteRequests DEF Logins, WriteInv
<1>3. /\ \A u \in Users : records'[u].list => u \in accounts
      /\ \A i \in DOMAIN writes' : writes'[i].kind = "stock" => writes'[i].user \in accounts
      /\ \A u \in Users : Unmixed(u) /\ NothingSaved(u) => StillNothing(u)
      /\ SetInv' /\ NameInv'
  BY <1>1, WrittenNames
<1>4. CASE q = None
  <2>1. UNCHANGED <<screen, requests>>
    BY <1>4 DEF Decide, Accept, Refuse
  <2> HIDE DEF q
  <2>2. RestInv' /\ BlocksInv' /\ KindInv' /\ MetInv'
    BY <1>1, <2>1 DEF NamesInv, RestInv, BlocksInv, KindInv, MetInv, Alive, Answered, UnderWay
  <2>3. AccountInv'
    BY <1>1, <1>3, <2>1 DEF NamesInv, AccountInv, Answered
  <2>4. AloneInv'
    <3>1. \A p \in Requests : requests[p].phase = "answered" => requests[p].user \in Users
      BY DEF TypeInv, UserInv, UnderWay
    <3> QED
      BY <1>1, <1>3, <2>1, <3>1 DEF NamesInv, AloneInv, Unmixed, NothingSaved, StillNothing
  <2> QED BY <1>3, <2>2, <2>3, <2>4 DEF NamesInv
<1>5. CASE q # None
  <2>1. /\ requests'[q] = Idle
        /\ \A p \in Requests \ {q} : requests'[p] = requests[p]
        /\ screen' = screen \/ (screen' = "tabs" /\ requests[q].here)
    BY <1>2, <1>5 DEF Decide, Accept, Refuse, Finish, Present, TypeInv, TypeOK
  <2> HIDE DEF q
  <2>2. GoesOn(q) /\ q \in Requests /\ requests[q] # Idle /\ Answered(requests[q])
    BY <1>1, <1>2, <1>5, <2>1 DEF GoesOn, Answered, Idle
  <2>3. BlocksInv' /\ KindInv' /\ MetInv' /\ RestInv'
    BY <2>1, <2>2, GoesOnNames, GoesOnRest
  <2>4. AccountInv'
    BY <1>3, <2>2, GoesOnAccounts
  <2>5. AloneInv'
    BY <1>2, <1>3, <1>5, <2>1, <2>2, GoesOnAlone
  <2> QED BY <1>3, <2>3, <2>4, <2>5 DEF NamesInv
<1> QED BY <1>4, <1>5

(* The other ends of a login. *)
LEMMA EndedNames ==
  ASSUME TypeInv, NamesInv, HereInv, NEW q \in Requests,
         \/ AuthFails(q) \/ SignInDone(q) \/ FacebookSignedIn(q)
         \/ FacebookCancelled(q) \/ FacebookFails(q) \/ GraphFails(q) \/ GraphAnswersNobody(q)
  PROVE  NamesInv'
<1>1. CASE SignInDone(q)
  <2>1. /\ requests[q].phase = "answered" /\ requests'[q] = Idle
        /\ \A p \in Requests \ {q} : requests'[p] = requests[p]
        /\ blocks # <<>> /\ q = Head(blocks) /\ blocks' = Tail(blocks) /\ MainFree
        /\ UNCHANGED <<user, accounts, writes, name, hasRun, records, mixed>>
        /\ screen' = screen \/ (screen' = "tabs" /\ requests[q].here)
    BY <1>1 DEF SignInDone, Complete, In, Finish, Present, TypeInv, TypeOK, held, history
  <2>2. GoesOn(q) /\ requests[q] # Idle /\ Answered(requests[q])
    BY <2>1 DEF GoesOn, Idle, Answered
  <2> QED BY <2>1, <2>2, EndNames
<1>2. CASE FacebookSignedIn(q)
  <2>1. /\ requests[q].phase = "answered" /\ requests[q].kind = "facebook"
        /\ requests'[q].kind = requests[q].kind /\ requests'[q].user = requests[q].user
        /\ requests'[q].here = requests[q].here /\ requests'[q].phase = "graph"
        /\ \A p \in Requests \ {q} : requests'[p] = requests[p]
        /\ blocks # <<>> /\ q = Head(blocks) /\ blocks' = Tail(blocks) /\ MainFree
        /\ UNCHANGED <<screen, user, accounts, writes, name, hasRun, records, mixed>>
    BY <1>2 DEF FacebookSignedIn, Complete, In, TypeInv, TypeOK, RequestStates, held, history
  <2>2. GoesOn(q) /\ requests[q] # Idle
    BY <2>1 DEF GoesOn, Idle, Answered
  <2> QED BY <2>1, <2>2, EndNames
<1>3. CASE AuthFails(q) \/ FacebookCancelled(q) \/ FacebookFails(q) \/ GraphFails(q)
           \/ GraphAnswersNobody(q)
  <2>1. /\ requests[q].phase \in {"sent", "dialog", "graph"} /\ requests'[q] = Idle
        /\ \A p \in Requests \ {q} : requests'[p] = requests[p]
        /\ accounts \subseteq accounts' /\ MainFree
        /\ UNCHANGED <<screen, blocks, user, writes, name, hasRun, records, mixed>>
    BY <1>3 DEF AuthFails, FacebookCancelled, FacebookFails, GraphFails, GraphAnswersNobody,
       GiveUp, Finish, In, TypeInv, TypeOK, held, history
  <2>2. GoesOn(q) /\ requests[q] # Idle
    BY <2>1 DEF GoesOn, Idle
  <2> QED BY <2>1, <2>2, EndNames
<1> QED BY <1>1, <1>2, <1>3

(* Every step keeps what is known of names, lists and logins that met. *)
LEMMA NamesStep == TypeInv /\ Logins /\ NamesInv /\ [Next]_vars => NamesInv'
<1> SUFFICES ASSUME TypeInv, Logins, NamesInv, [Next]_vars PROVE NamesInv'
  OBVIOUS
<1>1. HereInv
  BY DEF Logins
<1>2. CASE \E q \in Requests :
              \/ \E u \in EmailUsers : SignInButtonTapped(q, u) \/ SignUpButtonPressed(q, u)
              \/ FacebookButtonPressed(q)
              \/ \E u \in FacebookUsers : FacebookGrants(q, u)
  BY <1>1, <1>2, AskedNames
<1>3. CASE \E q \in Requests :
              FacebookCancelled(q) \/ FacebookFails(q) \/ Answer(q) \/ Completion(q) \/ Graph(q)
  BY <1>1, <1>3, EndedNames, AuthSucceedsNames, SignUpNames, GraphAnswersNames
     DEF Answer, Completion, Graph
<1>4. CASE Back
  BY <1>1, <1>4, AskedNames
<1> QED BY <1>1, <1>2, <1>3, <1>4, StillNames, StopNames, DecideNames, SaveStockNames DEF Next

(* The name in the settings is that of the user signed in, whatever order logins are
   answered, left, stopped and repeated in. *)
THEOREM NameIsUsersCorrect == Spec => []NameIsUsers
<1>1. TypeInv /\ NamesInv => NameIsUsers
  <2> SUFFICES ASSUME TypeInv, NamesInv, user # None, user \notin mixed
               PROVE  NamesShown \subseteq {None, user} \cup mixed
    BY DEF NameIsUsers
  <2>1. user \in Users
    BY DEF TypeInv, TypeOK
  <2> QED BY <2>1 DEF NamesInv, NameInv, Unmixed, NamesShown
<1> QED BY <1>1, TypeInit, LoginsInit, NamesInit, TypeStep, LoginsStep, NamesStep, PTL DEF Spec

(* A step takes no user's list from the server, but by a sign-up that met another login. *)
LEMMA ListStep ==
  ASSUME TypeInv, NamesInv, [Next]_vars, NEW u \in Users, records[u].list
  PROVE  records'[u].list \/ u \in mixed
<1>1. CASE Accept
  <2> DEFINE write == Head(writes)
  <2>1. 1 \in DOMAIN writes /\ write = writes[1] /\ write \in Writes
    BY <1>1, HeadFacts DEF Accept
  <2>2. records'[u] = IF u = write.user THEN Apply(write, records[u]) ELSE records[u]
    BY <1>1, <2>1 DEF Accept, Writes, TypeInv, TypeOK
  <2>3. records[u] \in [name : Users \cup {None}, list : BOOLEAN]
    BY DEF TypeInv, TypeOK
  <2>4. (u = write.user /\ write.kind = "set") => u \in mixed
    BY <2>1 DEF NamesInv, SetInv, Unmixed
  <2> HIDE DEF write
  <2>5. write.kind # "set" => Apply(write, records[u]).list
    BY <2>1, <2>3 DEF Apply, Writes
  <2> QED BY <2>2, <2>4, <2>5
<1>2. ASSUME ~Accept PROVE UNCHANGED records
  <2>1. ASSUME NEW q \in Requests,
               \/ \E v \in EmailUsers : SignInButtonTapped(q, v) \/ SignUpButtonPressed(q, v)
               \/ FacebookButtonPressed(q)
               \/ \E v \in FacebookUsers : FacebookGrants(q, v)
               \/ FacebookCancelled(q) \/ FacebookFails(q)
               \/ Answer(q) \/ Completion(q) \/ Graph(q)
        PROVE  UNCHANGED records
    BY <2>1 DEF SignInButtonTapped, SignUpButtonPressed, FacebookButtonPressed, Ask,
       FacebookGrants, FacebookCancelled, FacebookFails, GiveUp, Answer, AuthSucceeds, AuthFails,
       Completion, SignInDone, SignUpDone, FacebookSignedIn, Graph, GraphFails, GraphAnswers,
       GraphAnswersNobody, held
  <2>2. CASE \/ Refuse \/ Launch \/ PresentOnboarding \/ ShowMainMenu \/ GetStarted \/ ToSignIn
             \/ ToSignUp \/ Back \/ ConfirmSignUp \/ SaveStock \/ SignOut \/ SignedOut
             \/ LoseSession \/ Stop \/ Reinstall \/ UNCHANGED vars
    BY <2>2 DEF Refuse, Launch, PresentOnboarding, ShowMainMenu, GetStarted, ToSignIn, ToSignUp,
       Back, ConfirmSignUp, Move, SaveStock, SignOut, SignedOut, LoseSession, Stop, Reinstall,
       vars, held
  <2> QED BY <1>2, <2>1, <2>2 DEF Next, Decide
<1> QED BY <1>1, <1>2

(* A WatchList on the server survives every later login of its user. *)
THEOREM ListKeptCorrect == Spec => ListKept
<1>1. TypeInv /\ NamesInv /\ [Next]_vars
        => [\A u \in Users : records[u].list => (records'[u].list \/ u \in mixed)]_vars
  BY ListStep
<1> QED BY <1>1, TypeInit, LoginsInit, NamesInit, TypeStep, LoginsStep, NamesStep, PTL
       DEF Spec, ListKept
=============================================================================
