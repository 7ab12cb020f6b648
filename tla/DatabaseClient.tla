--------------------------- MODULE DatabaseClient ---------------------------
(***************************************************************************)
(* The Firebase database client at one location: FRepo and its sync tree,  *)
(* the persistent connection with its listens, its outstanding writes and  *)
(* the answers it holds back, the token it authenticates with, and what it *)
(* sends again when a connection is lost.                                  *)
(*                                                                         *)
(* Every block of the client runs on one queue, so a step is a block.  The *)
(* server and the network, at the end, are external: they take requests in *)
(* order, answer a listen when they get to it, and may go away.            *)
(***************************************************************************)
EXTENDS Integers, FiniteSetsExt, SequencesExt

CONSTANTS
    Writes,     \* the program's writes, numbered in the order it makes them
    Others,     \* the values other devices write
    Budgets     \* bounds: listens, removals of one, connections lost, tokens that expire or
                \* are set, failed fetches, refusals, revocations, other devices' writes,
                \* disconnections the program asks for, visits to the foreground

ASSUME WritesAssumption == IsFiniteSet(Writes) /\ Writes = 1..Cardinality(Writes)
ASSUME OthersAssumption == Others \subseteq Nat /\ Others \cap ({0} \cup Writes) = {}
Troubles == {"listens", "removals", "losses", "tokens", "fetches", "refusals", "revocations",
             "foreign", "interrupts", "foreground"}
ASSUME BudgetsAssumption == Budgets \subseteq [Troubles -> Nat]

VARIABLES
    conn,       \* connectionState
    interrupts, \* interruptReasons
    retry,      \* retryHelper's scheduled block: "none", or the fetch it makes
    fetch,      \* the latest fetchTokenForcingRefresh not called back: "none", "plain", "forced"
    force,      \* forceAuthTokenRefresh
    token,      \* authToken: "nil", "good", or "stale" once the server takes it no more
    listen,     \* the outstanding query in listens, 0 if there is none
    puts,       \* outstandingPuts
    putsToAck,  \* answers held back: <<write, status>>
    unacked,    \* unackedListensCount
    cache,      \* the view's server cache: Unknown unless isFullyInitialized
    up, down,   \* the connection: requests, and answers and pushes
    asked,      \* external: listens the server has not answered
    serving,    \* external: the server sends this client the location's changes
    history,    \* external: the values the location has had
    credential, \* external: the token the app's auth would give
    status,     \* history: what the program's completion blocks were told
    budget

network == <<up, down>>
server == <<asked, serving, history, credential>>
link == <<conn, interrupts, retry, fetch, force, token>>
data == <<puts, putsToAck, cache, status>>
vars == <<link, listen, unacked, data, network, server, budget>>

Unknown == -1
Nothing == 0
Spend(kind) == budget[kind] > 0 /\ budget' = [budget EXCEPT ![kind] = @ - 1]

Msg(kind, ref, value) == [kind |-> kind, ref |-> ref, value |-> value]

Connected == conn \in {"authenticating", "connected"}
CanSendWrites == conn = "connected"
ShouldReconnect == interrupts = {}

Init ==
    /\ conn = "disconnected" /\ interrupts = {} /\ retry = "plain"
    /\ fetch = "none" /\ force = FALSE /\ token = "nil"
    /\ listen = 0 /\ unacked = 0
    /\ puts = {} /\ putsToAck = <<>> /\ cache = Unknown
    /\ up = <<>> /\ down = <<>>
    /\ asked = <<>> /\ serving = FALSE /\ history = <<Nothing>>
    /\ credential \in {"nil", "good"}
    /\ status = [w \in Writes |-> "new"]
    /\ budget \in Budgets

-----------------------------------------------------------------------------
(* What a request is made of.                                              *)

\* simpleHash is that of the view's cache, and of an empty node if there is none.
ListenRequest == Msg("listen", listen, IF cache = Unknown THEN Nothing ELSE cache)
PutRequest(w) == Msg("put", w, 0)

\* The pending writes of the sync tree: ackWrite removes them when the program is told.
AllWrites == {w \in Writes : status[w] = "pending"}

\* What an observer is shown: the latest pending write shadows the server's data.
Shown == IF AllWrites # {} THEN Max(AllWrites) ELSE cache

\* Faulty: the puts are sent again from the latest to the first.
RestoreBackwards ==
    \E order \in [1..Cardinality(puts) -> puts] :
        /\ \A i, j \in DOMAIN order : i < j => order[i] > order[j]
        /\ up' = up \o (IF listen = 0 THEN <<>> ELSE <<ListenRequest>>)
                    \o [i \in DOMAIN order |-> PutRequest(order[i])]
        /\ unacked' = unacked + IF listen = 0 THEN 0 ELSE 1

\* restoreState: listens first, then the puts in the order of their numbers.
RestoreState ==
    \E order \in [1..Cardinality(puts) -> puts] :
        /\ \A i, j \in DOMAIN order : i < j => order[i] < order[j]
        /\ up' = up \o (IF listen = 0 THEN <<>> ELSE <<ListenRequest>>)
                    \o [i \in DOMAIN order |-> PutRequest(order[i])]
        /\ unacked' = unacked + IF listen = 0 THEN 0 ELSE 1

-----------------------------------------------------------------------------
(* Connecting.                                                             *)

\* tryScheduleReconnect, with forceAuthTokenRefresh set or not: a block scheduled before is
\* cancelled.
TryScheduleReconnect(forced) ==
    IF ShouldReconnect
        THEN /\ retry' = IF forced THEN "forced" ELSE "plain"
             /\ force' = FALSE
        ELSE retry' = retry /\ force' = forced

\* What FPersistentConnection keeps when its connection closes; the rest goes with it.
Disconnect ==
    /\ conn' = "disconnected"
    /\ unacked' = 0
    /\ up' = <<>> /\ down' = <<>> /\ asked' = <<>> /\ serving' = FALSE

RunRetry ==
    /\ retry # "none"
    /\ retry' = "none"
    /\ conn' = "gettingToken"
    /\ fetch' = retry
    /\ UNCHANGED <<interrupts, force, token, listen, unacked, data, network, server, budget>>

FetchFails ==
    /\ fetch # "none"
    /\ Spend("fetches")
    /\ fetch' = "none"
    /\ conn' = "disconnected"
    /\ TryScheduleReconnect(force)
    /\ UNCHANGED <<interrupts, token, listen, unacked, data, network, server>>

\* Faulty: the connection is opened although the fetch was interrupted.
OpenAnyway ==
    /\ fetch # "none"
    /\ fetch' = "none"
    /\ credential' = IF fetch = "forced" /\ credential = "stale" THEN "good" ELSE credential
    /\ conn' = "connecting" /\ token' = credential'
    /\ UNCHANGED <<interrupts, retry, force, listen, unacked, data, network, asked, serving,
                   history, budget>>

\* The token of a fetch that was interrupted is dropped.
FetchSucceeds ==
    /\ fetch # "none"
    /\ fetch' = "none"
    /\ credential' = IF fetch = "forced" /\ credential = "stale" THEN "good" ELSE credential
    /\ IF conn = "gettingToken"
        THEN conn' = "connecting" /\ token' = credential'
        ELSE UNCHANGED <<conn, token>>
    /\ UNCHANGED <<interrupts, retry, force, listen, unacked, data, network, asked, serving,
                   history, budget>>

\* onReady: the handshake came.
OnReady ==
    /\ conn = "connecting"
    /\ IF token = "nil"
        THEN conn' = "connected" /\ RestoreState
        ELSE /\ conn' = "authenticating"
             /\ up' = <<Msg("auth", TRUE, token)>>
             /\ UNCHANGED unacked
    /\ UNCHANGED <<interrupts, retry, fetch, force, token, listen, data, down, server, budget>>

OnDisconnect ==
    /\ conn \in {"connecting", "authenticating", "connected"}
    /\ Spend("losses")
    /\ Disconnect
    /\ TryScheduleReconnect(force)
    /\ UNCHANGED <<interrupts, fetch, token, listen, data, history, credential>>

InterruptForReason(reason) ==
    /\ interrupts' = interrupts \cup {reason}
    /\ retry' = "none"
    /\ Disconnect

\* goOffline and goOnline.
Interrupt ==
    /\ Spend("interrupts")
    /\ "repo_interrupt" \notin interrupts
    /\ InterruptForReason("repo_interrupt")
    /\ UNCHANGED <<fetch, force, token, listen, data, history, credential>>

Resume ==
    /\ "repo_interrupt" \in interrupts
    /\ interrupts' = interrupts \ {"repo_interrupt"}
    /\ IF interrupts' = {} /\ conn = "disconnected"
        THEN retry' = (IF force THEN "forced" ELSE "plain") /\ force' = FALSE
        ELSE UNCHANGED <<retry, force>>
    /\ UNCHANGED <<conn, fetch, token, listen, unacked, data, network, server, budget>>

\* Also when the network becomes reachable.
EnteringForeground ==
    /\ Spend("foreground")
    /\ conn = "disconnected"
    /\ TryScheduleReconnect(force)
    /\ UNCHANGED <<conn, interrupts, fetch, token, listen, unacked, data, network, server>>

\* The user signs in or out, or auth has a new token.
RefreshAuthToken ==
    /\ Spend("tokens")
    /\ \E new \in {"nil", "good"} :
        /\ credential' = new
        /\ token' = new
        /\ up' = IF Connected THEN Append(up, Msg("auth", FALSE, new)) ELSE up
    /\ UNCHANGED <<conn, interrupts, retry, fetch, force, listen, unacked, data, down, asked,
                   serving, history>>

-----------------------------------------------------------------------------
(* The program.                                                            *)

\* FRepo's set: shown at once, and put.
SetValue(w) ==
    /\ status[w] = "new"
    /\ \A v \in Writes : v < w => status[v] # "new"
    /\ status' = [status EXCEPT ![w] = "pending"]
    /\ puts' = puts \cup {w}
    /\ up' = IF CanSendWrites THEN Append(up, PutRequest(w)) ELSE up
    /\ UNCHANGED <<link, listen, unacked, putsToAck, cache, down, server, budget>>

\* Faulty: a listen sent at once is not counted.
ObserveUncounted ==
    /\ listen = 0
    /\ Spend("listens")
    /\ listen' = budget["listens"]
    /\ up' = IF Connected THEN Append(up, Msg("listen", listen', Nothing)) ELSE up
    /\ UNCHANGED <<link, unacked, data, down, server>>

\* The first observer of the location: a listen of its own number, and an empty view.
Observe ==
    /\ listen = 0
    /\ Spend("listens")
    /\ listen' = budget["listens"]
    /\ IF Connected
        THEN up' = Append(up, Msg("listen", listen', Nothing)) /\ unacked' = unacked + 1
        ELSE UNCHANGED <<up, unacked>>
    /\ UNCHANGED <<link, data, down, server>>

\* The last observer: the view goes, and what it knew.
RemoveObserver ==
    /\ listen # 0
    /\ Spend("removals")
    /\ listen' = 0 /\ cache' = Unknown
    /\ up' = IF Connected THEN Append(up, Msg("unlisten", 0, 0)) ELSE up
    /\ UNCHANGED <<link, unacked, puts, putsToAck, status, down, server>>

-----------------------------------------------------------------------------
(* What the server sends: answers to requests, and pushes.                 *)

Arrives(kind) == down # <<>> /\ Head(down).kind = kind /\ down' = Tail(down)

\* Completion blocks, for a sequence of answers.
Tell(answers) ==
    status' = [w \in Writes |->
        IF \E i \in DOMAIN answers : answers[i][1] = w
            THEN answers[CHOOSE i \in DOMAIN answers : answers[i][1] = w][2]
            ELSE status[w]]

OnAuth ==
    /\ Arrives("auth")
    /\ Head(down).value = "ok"
    /\ conn' = "connected"
    /\ IF Head(down).ref THEN RestoreState ELSE UNCHANGED <<up, unacked>>
    /\ UNCHANGED <<interrupts, retry, fetch, force, token, listen, data, server, budget>>

\* Faulty: the next connection offers the token it has.
OfferAgain ==
    /\ down # <<>>
    /\ \/ Head(down).kind = "auth" /\ Head(down).value = "refused"
       \/ Head(down).kind = "authRevoked"
    /\ token' = "nil"
    /\ Disconnect
    /\ TryScheduleReconnect(force)
    /\ UNCHANGED <<interrupts, fetch, listen, data, history, credential, budget>>

\* A token refused, or revoked: the next connection is to have a new one.
OnAuthRevoked ==
    /\ down # <<>>
    /\ \/ Head(down).kind = "auth" /\ Head(down).value = "refused"
       \/ Head(down).kind = "authRevoked"
    /\ token' = "nil"
    /\ Disconnect
    /\ TryScheduleReconnect(TRUE)
    /\ UNCHANGED <<interrupts, fetch, listen, data, history, credential, budget>>

\* Faulty: the program is told while listens are not answered.
TellAtOnce ==
    /\ Arrives("put")
    /\ puts' = puts \ {Head(down).ref}
    /\ Tell(<<<<Head(down).ref, Head(down).value>>>>)
    /\ UNCHANGED <<link, listen, unacked, putsToAck, cache, up, server, budget>>

\* Faulty: a put whose answer is held back stays outstanding.
KeepWhileHeld ==
    /\ Arrives("put")
    /\ LET answer == <<Head(down).ref, Head(down).value>>
       IN IF unacked = 0
            THEN Tell(<<answer>>) /\ puts' = puts \ {answer[1]} /\ UNCHANGED putsToAck
            ELSE putsToAck' = Append(putsToAck, answer) /\ UNCHANGED <<puts, status>>
    /\ UNCHANGED <<link, listen, unacked, cache, up, server, budget>>

\* The answer to a put: held back while a listen is not answered.
OnPut ==
    /\ Arrives("put")
    /\ puts' = puts \ {Head(down).ref}
    /\ LET answer == <<Head(down).ref, Head(down).value>>
       IN IF unacked = 0
            THEN Tell(<<answer>>) /\ UNCHANGED putsToAck
            ELSE putsToAck' = Append(putsToAck, answer) /\ UNCHANGED status
    /\ UNCHANGED <<link, listen, unacked, cache, up, server, budget>>

AckPuts == Tell(putsToAck) /\ putsToAck' = <<>>

\* The answer to a listen: one that was removed, and maybe made again, is not this one.
OnListen ==
    /\ Arrives("listen")
    /\ IF Head(down).ref # listen THEN UNCHANGED <<listen, cache>>
       ELSE IF Head(down).value = "ok"
        THEN cache' = (IF cache = Unknown THEN Nothing ELSE cache) /\ UNCHANGED listen
        ELSE listen' = 0 /\ cache' = Unknown
    /\ unacked' = unacked - 1
    /\ IF unacked = 1 THEN AckPuts ELSE UNCHANGED <<putsToAck, status>>
    /\ UNCHANGED <<link, puts, up, server, budget>>

OnDataUpdate ==
    /\ Arrives("data")
    /\ cache' = IF listen = 0 THEN cache ELSE Head(down).value
    /\ UNCHANGED <<link, listen, unacked, puts, putsToAck, status, up, server, budget>>

OnListenRevoked ==
    /\ Arrives("listenRevoked")
    /\ listen' = 0 /\ cache' = Unknown
    /\ UNCHANGED <<link, unacked, puts, putsToAck, status, up, server, budget>>

\* The server's shutdown: there is no reconnection.
OnKill ==
    /\ down # <<>> /\ Head(down).kind = "kill"
    /\ InterruptForReason("server_kill")
    /\ UNCHANGED <<fetch, force, token, listen, data, history, credential, budget>>

-----------------------------------------------------------------------------
(* External: the server, and other devices.                                *)

Receives(kind) == up # <<>> /\ Head(up).kind = kind /\ up' = Tail(up)
Stored == Last(history)
Push(value) == IF serving THEN Append(down, Msg("data", 0, value)) ELSE down

ServerAuthenticates ==
    /\ Receives("auth")
    /\ down' = IF Head(up).value = "nil" THEN down
               ELSE Append(down, Msg("auth", Head(up).ref,
                                     IF Head(up).value = "good" /\ credential # "stale"
                                     THEN "ok" ELSE "refused"))
    /\ UNCHANGED <<link, listen, unacked, data, server, budget>>

ServerTakesListen ==
    /\ Receives("listen")
    /\ asked' = Append(asked, Head(up))
    /\ UNCHANGED <<link, listen, unacked, data, down, serving, history, credential, budget>>

\* Data the client has by its hash is not sent.
ServerAnswersListen ==
    /\ asked # <<>>
    /\ asked' = Tail(asked)
    /\ \/ /\ serving' = TRUE
          /\ down' = down
                \o (IF Head(asked).value = Stored THEN <<>> ELSE <<Msg("data", 0, Stored)>>)
                \o <<Msg("listen", Head(asked).ref, "ok")>>
          /\ UNCHANGED budget
       \/ /\ Spend("refusals")
          /\ serving' = FALSE
          /\ down' = Append(down, Msg("listen", Head(asked).ref, "refused"))
    /\ UNCHANGED <<link, listen, unacked, data, up, history, credential>>

\* The listens it had not answered are answered, and are of no use.
ServerUnlistens ==
    /\ Receives("unlisten")
    /\ serving' = FALSE
    /\ asked' = <<>>
    /\ down' = down \o [i \in DOMAIN asked |-> Msg("listen", asked[i].ref, "ok")]
    /\ UNCHANGED <<link, listen, unacked, data, history, credential, budget>>

\* A change is sent before the answer to the put that made it.
ServerPuts ==
    /\ Receives("put")
    /\ \/ /\ history' = Append(history, Head(up).ref)
          /\ down' = Append(Push(Head(up).ref), Msg("put", Head(up).ref, "ok"))
          /\ UNCHANGED budget
       \/ /\ Spend("refusals")
          /\ down' = Append(down, Msg("put", Head(up).ref, "refused"))
          /\ UNCHANGED history
    /\ UNCHANGED <<link, listen, unacked, data, asked, serving, credential>>

OtherDeviceWrites ==
    /\ Spend("foreign")
    /\ \E value \in Others : history' = Append(history, value) /\ down' = Push(value)
    /\ UNCHANGED <<link, listen, unacked, data, up, asked, serving, credential>>

ServerRevokes ==
    /\ Spend("revocations")
    /\ Connected
    /\ \/ /\ serving
          /\ serving' = FALSE
          /\ down' = Append(down, Msg("listenRevoked", 0, 0))
          /\ UNCHANGED credential
       \/ /\ credential = "good"
          /\ credential' = "stale"
          /\ down' = Append(down, Msg("authRevoked", 0, 0))
          /\ UNCHANGED serving
       \/ /\ down' = Append(down, Msg("kill", 0, 0))
          /\ UNCHANGED <<serving, credential>>
    /\ UNCHANGED <<link, listen, unacked, data, up, asked, history>>

TokenExpires ==
    /\ Spend("tokens")
    /\ credential = "good"
    /\ credential' = "stale"
    /\ UNCHANGED <<link, listen, unacked, data, network, asked, serving, history>>

-----------------------------------------------------------------------------
Client == RunRetry \/ FetchSucceeds \/ OnReady
Receive ==
    \/ OnAuth \/ OnAuthRevoked \/ OnPut \/ OnListen \/ OnDataUpdate \/ OnListenRevoked \/ OnKill
Server ==
    \/ ServerAuthenticates \/ ServerTakesListen \/ ServerAnswersListen \/ ServerUnlistens
    \/ ServerPuts
Program == Observe \/ RemoveObserver \/ Interrupt \/ Resume \/ RefreshAuthToken
           \/ \E w \in Writes : SetValue(w)
Trouble == FetchFails \/ OnDisconnect \/ EnteringForeground \/ OtherDeviceWrites
           \/ ServerRevokes \/ TokenExpires

Next == Client \/ Receive \/ Server \/ Program \/ Trouble

Spec == Init /\ [][Next]_vars

\* The queue runs its blocks, the token service calls back, the network delivers what it
\* does not lose, and the server answers what it has taken.
FairSpec == Spec /\ WF_vars(Client) /\ WF_vars(Receive) /\ WF_vars(Server)

-----------------------------------------------------------------------------
Requests(kind, w) == {i \in DOMAIN up : up[i].kind = kind /\ up[i].ref = w}
Answers(kind, w) == {i \in DOMAIN down : down[i].kind = kind /\ down[i].ref = w}
Count(s, kind) == Cardinality({i \in DOMAIN s : s[i].kind = kind})

TypeOK ==
    /\ conn \in {"disconnected", "gettingToken", "connecting", "authenticating", "connected"}
    /\ interrupts \subseteq {"repo_interrupt", "server_kill"}
    /\ retry \in {"none", "plain", "forced"} /\ fetch \in {"none", "plain", "forced"}
    /\ force \in BOOLEAN /\ token \in {"nil", "good", "stale"}
    /\ listen \in Nat /\ unacked \in Nat
    /\ puts \subseteq Writes
    /\ \A i \in DOMAIN putsToAck : putsToAck[i] \in Writes \X {"ok", "refused"}
    /\ cache \in Nat \cup {Unknown}
    /\ status \in [Writes -> {"new", "pending", "ok", "refused"}]

\* The states the assertions of FPersistentConnection expect: a scheduled block finds the
\* connection disconnected and wanted, an interrupted one stays closed, and an open one waits
\* for no fetch.
StatesAgree ==
    /\ ~ShouldReconnect => conn = "disconnected"
    /\ retry # "none" => conn = "disconnected" /\ ShouldReconnect
    /\ conn = "gettingToken" => fetch # "none"
    /\ conn \in {"connecting", "authenticating", "connected"} => fetch = "none"

(* The connection's fields fit together and with what is on its way: its states agree, the
   count of unanswered listens is that of the answers still to come on this connection, and
   a write has one request or answer on its way while writes can be sent, and else none. *)
ConnectionConsistent ==
    /\ StatesAgree
    /\ unacked = Count(up, "listen") + Count(down, "listen") + Len(asked)
    /\ \A w \in Writes :
        Cardinality(Requests("put", w)) + Cardinality(Answers("put", w))
            = IF w \in puts /\ CanSendWrites THEN 1 ELSE 0

(* The program's latest word stands: once a write was answered with ok, no write made before
   it is stored over it, however often the connection was lost and the puts sent again. *)
NewestWins ==
    \A w \in Writes : status[w] = "ok" =>
        \A i \in DOMAIN history : history[i] \in Writes /\ history[i] < w =>
            \E j \in DOMAIN history : i < j /\ history[j] \in Writes /\ history[j] >= w

(* The value does not jump back when a write is confirmed: what an observer is shown after
   an ok is a later write that is still pending, this write, or something stored later. *)
Since(w) == {history[i] : i \in {i \in DOMAIN history : \E j \in 1..i : history[j] = w}}
ConfirmedStaysShown ==
    [][\A w \in Writes : status[w] = "pending" /\ status'[w] = "ok" /\ listen' # 0
            => Shown' \in Since(w)' \cup AllWrites']_vars

(* The promise made to the program. *)
Promise == INSTANCE AtLeastOnce
KeepsPromise == Promise!Spec

(* A held answer that nothing will release: no listen is there to be answered. *)
Stranded(w) == listen = 0 /\ unacked = 0 /\ \E i \in DOMAIN putsToAck : putsToAck[i][1] = w

(* Every write is answered, unless the connection is interrupted by the program or the
   server, or its answer was held for a listen that is gone. *)
EveryWriteAnswered ==
    \A w \in Writes :
        status[w] = "pending" ~> status[w] # "pending" \/ interrupts # {} \/ Stranded(w)

=============================================================================
