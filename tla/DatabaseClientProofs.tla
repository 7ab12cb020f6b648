------------------------ MODULE DatabaseClientProofs ------------------------
(***************************************************************************)
(* The client's safety for any number of writes, whatever the server, the  *)
(* network, the token service, other devices and the program do: its       *)
(* fields have their types and fit together, the newest confirmed write    *)
(* stands, what the program is told is what AtLeastOnce promises, and what *)
(* an observer is shown does not jump back when a write is confirmed.      *)
(*                                                                         *)
(* AllInv is inductive: TypeInv counts the listens on their way, IInv and  *)
(* AuthInv say when a connection carries messages and authenticates,       *)
(* WireInv that it carries each outstanding put once and in order,         *)
(* StatusInv that puts come after every write that was answered, OkInv     *)
(* that an ok is said of what no earlier write was stored over.            *)
(*                                                                         *)
(* ViewInv adds what the view needs, on the conditions of a connection:    *)
(* NumberInv and RelistInv tell the listen of the view from earlier ones,  *)
(* OrderInv and HashInv make what a listen says of the cache true until it *)
(* is answered, ServedInv has an answered listen served, and FreshInv has  *)
(* the view as new as every ok that is held or heard before listens are.   *)
(***************************************************************************)
EXTENDS DatabaseClient, SequenceTheorems, FiniteSetTheorems, WellFoundedInduction, TLAPS

-----------------------------------------------------------------------------
(* The connection's states.                                                *)

\* Nothing is on its way, and no listen is served, without a connection.
LinkQuiet == ~Connected => up = <<>> /\ down = <<>> /\ asked = <<>> /\ ~serving

\* What is kept of the connection alone.
IInv == StatesAgree /\ LinkQuiet

\* What the actions that close a connection come down to.
LEMMA Closing ==
    ASSUME IInv, Disconnect, NEW forced, TryScheduleReconnect(forced),
           UNCHANGED <<interrupts, fetch>>
    PROVE  IInv'
BY DEF IInv, StatesAgree, LinkQuiet, Disconnect, TryScheduleReconnect, ShouldReconnect

\* What an interruption comes down to.
LEMMA Interrupting ==
    ASSUME IInv, NEW reason, InterruptForReason(reason), UNCHANGED fetch
    PROVE  IInv'
BY DEF IInv, StatesAgree, LinkQuiet, InterruptForReason, Disconnect, ShouldReconnect

\* Steps that leave the connection's states alone: they send nothing without one.
LEMMA Aside ==
    ASSUME IInv, UNCHANGED <<conn, interrupts, retry, fetch>>,
           Connected \/ UNCHANGED <<network, asked, serving>>
    PROVE  IInv'
<1>1. StatesAgree'
  BY DEF IInv, StatesAgree, ShouldReconnect
<1>2. CASE Connected
  <2>1. Connected'
    BY <1>2 DEF Connected
  <2> QED BY <1>1, <2>1 DEF IInv, LinkQuiet
<1>3. CASE ~Connected
  <2>1. up = <<>> /\ down = <<>> /\ asked = <<>> /\ ~serving
    BY <1>3 DEF IInv, LinkQuiet
  <2>2. UNCHANGED <<up, down, asked, serving>>
    BY <1>3 DEF network
  <2> QED BY <1>1, <2>1, <2>2 DEF IInv, LinkQuiet
<1> QED BY <1>2, <1>3

\* They are inductive.
LEMMA IInvInit == Init => IInv
BY DEF Init, IInv, StatesAgree, LinkQuiet, ShouldReconnect

\* No step lets the states disagree, or leaves a message without a connection.
LEMMA IInvNext == IInv /\ [Next]_vars => IInv'
<1> SUFFICES ASSUME IInv, [Next]_vars PROVE IInv'
  OBVIOUS
<1>a. /\ up # <<>> \/ down # <<>> \/ asked # <<>> \/ serving => Connected
      /\ CanSendWrites => Connected
  BY DEF IInv, LinkQuiet, CanSendWrites, Connected
<1> USE DEF IInv
<1>1. CASE Client
  <2>1. CASE RunRetry
    BY <2>1, <1>a DEF RunRetry, StatesAgree, LinkQuiet, Connected, network, server, ShouldReconnect
  <2>2. CASE FetchSucceeds
    <3>1. /\ fetch' = "none" /\ UNCHANGED <<interrupts, retry, network, asked, serving>>
          /\ conn' = IF conn = "gettingToken" THEN "connecting" ELSE conn
      BY <2>2 DEF FetchSucceeds
    <3>2. conn = "gettingToken" => ~Connected
      BY DEF Connected
    <3> QED BY <3>1, <3>2 DEF StatesAgree, LinkQuiet, Connected, network, ShouldReconnect
  <2>3. CASE OnReady
    <3>1. /\ conn = "connecting" /\ conn' \in {"authenticating", "connected"}
          /\ UNCHANGED <<interrupts, retry, fetch>>
      BY <2>3 DEF OnReady
    <3>2. Connected'
      BY <3>1 DEF Connected
    <3>3. StatesAgree'
      BY <3>1 DEF StatesAgree, ShouldReconnect, Connected
    <3> QED BY <3>2, <3>3 DEF LinkQuiet
  <2> QED BY <1>1, <2>1, <2>2, <2>3 DEF Client
<1>2. CASE Receive
  <2>1. CASE OnAuth
    <3>1. Connected /\ conn' = "connected" /\ UNCHANGED <<interrupts, retry, fetch>>
      BY <2>1, <1>a DEF OnAuth, Arrives
    <3>2. Connected'
      BY <3>1 DEF Connected
    <3>3. StatesAgree'
      BY <3>1 DEF StatesAgree, ShouldReconnect, Connected
    <3> QED BY <3>2, <3>3 DEF LinkQuiet
  <2>2. CASE OnPut \/ OnListen \/ OnDataUpdate \/ OnListenRevoked
    <3>1. Connected
      BY <2>2, <1>a DEF OnPut, OnListen, OnDataUpdate, OnListenRevoked, Arrives
    <3>2. UNCHANGED link
      BY <2>2 DEF OnPut, OnListen, OnDataUpdate, OnListenRevoked
    <3> QED BY <3>1, <3>2, Aside DEF link
  <2>3. CASE OnAuthRevoked
    BY <2>3, Closing DEF OnAuthRevoked
  <2>4. CASE OnKill
    BY <2>4, Interrupting DEF OnKill
  <2> QED BY <1>2, <2>1, <2>2, <2>3, <2>4 DEF Receive
<1>3. CASE Server
  <2>1. Connected
    BY <1>3, <1>a DEF Server, ServerAuthenticates, ServerTakesListen, ServerAnswersListen,
        ServerUnlistens, ServerPuts, Receives
  <2>2. UNCHANGED link
    BY <1>3 DEF Server, ServerAuthenticates, ServerTakesListen, ServerAnswersListen,
        ServerUnlistens, ServerPuts
  <2> QED BY <2>1, <2>2, Aside DEF link
<1>4. CASE Program
  <2>1. CASE Observe
    BY <2>1, Aside DEF Observe, link, server, network
  <2>2. CASE RemoveObserver
    BY <2>2, Aside DEF RemoveObserver, link, server, network
  <2>3. CASE RefreshAuthToken
    <3>1. Connected \/ UNCHANGED <<network, asked, serving>>
      BY <2>3 DEF RefreshAuthToken, network
    <3>2. UNCHANGED <<conn, interrupts, retry, fetch>>
      BY <2>3 DEF RefreshAuthToken
    <3> QED BY <3>1, <3>2, Aside
  <2>4. CASE \E w \in Writes : SetValue(w)
    BY <2>4, <1>a, Aside DEF SetValue, link, server, network
  <2>5. CASE Interrupt
    BY <2>5, Interrupting DEF Interrupt
  <2>6. CASE Resume
    BY <2>6 DEF Resume, StatesAgree, LinkQuiet, Connected, ShouldReconnect, network, server
  <2> QED BY <1>4, <2>1, <2>2, <2>3, <2>4, <2>5, <2>6 DEF Program
<1>5. CASE Trouble
  <2>1. CASE FetchFails
    <3>1. ~Connected
      BY <2>1 DEF FetchFails, StatesAgree, Connected
    <3>2. conn' = "disconnected" /\ UNCHANGED <<interrupts, network, asked, serving>>
      BY <2>1 DEF FetchFails, server
    <3>3. TryScheduleReconnect(force)
      BY <2>1 DEF FetchFails
    <3>4. StatesAgree'
      BY <3>2, <3>3 DEF TryScheduleReconnect, StatesAgree, ShouldReconnect
    <3> QED BY <3>1, <3>2, <3>4 DEF LinkQuiet, network
  <2>2. CASE OnDisconnect
    BY <2>2, Closing DEF OnDisconnect
  <2>3. CASE EnteringForeground
    <3>1. /\ conn = "disconnected" /\ UNCHANGED <<conn, interrupts, fetch, network, asked, serving>>
          /\ TryScheduleReconnect(force)
      BY <2>3 DEF EnteringForeground, server
    <3>2. StatesAgree'
      BY <3>1 DEF TryScheduleReconnect, StatesAgree, ShouldReconnect
    <3> QED BY <3>1, <3>2 DEF LinkQuiet, Connected, network
  <2>4. CASE OtherDeviceWrites
    <3>1. Connected \/ UNCHANGED <<network, asked, serving>>
      BY <2>4, <1>a DEF OtherDeviceWrites, Push, network
    <3> QED BY <2>4, <3>1, Aside DEF OtherDeviceWrites, link
  <2>5. CASE ServerRevokes
    BY <2>5, Aside DEF ServerRevokes, link
  <2>6. CASE TokenExpires
    BY <2>6, Aside DEF TokenExpires, link
  <2> QED BY <1>5, <2>1, <2>2, <2>3, <2>4, <2>5, <2>6 DEF Trouble
<1>6. CASE UNCHANGED vars
  BY <1>6, Aside DEF vars, link, server
<1> QED BY <1>1, <1>2, <1>3, <1>4, <1>5, <1>6 DEF Next

(* A block scheduled to connect runs only while the connection is disconnected and wanted,
   a connection that is open or opening waits for no fetch, and one that gets a token
   does. *)
THEOREM StatesAgreeCorrect == Spec => []StatesAgree
<1>1. IInv => StatesAgree
  BY DEF IInv
<1> QED BY <1>1, IInvInit, IInvNext, PTL DEF Spec

-----------------------------------------------------------------------------
(* The puts on a channel.                                                  *)

Puts(s) == {s[i].ref : i \in {i \in DOMAIN s : s[i].kind = "put"}}
InOrder(s) ==
    \A i, j \in DOMAIN s :
        i < j /\ s[i].kind = "put" /\ s[j].kind = "put" => s[i].ref < s[j].ref

\* An empty channel has no puts.
LEMMA PutsOfNone == Puts(<<>>) = {} /\ InOrder(<<>>)
BY DEF Puts, InOrder

\* The put of one message.
LEMMA PutsOfOne ==
    ASSUME NEW m
    PROVE  /\ Puts(<<m>>) = IF m.kind = "put" THEN {m.ref} ELSE {}
           /\ InOrder(<<m>>)
BY DEF Puts, InOrder

\* The puts of two channels, one behind the other, and when they are in order.
LEMMA PutsOfBoth ==
    ASSUME NEW M, NEW s \in Seq(M), NEW t \in Seq(M)
    PROVE  /\ Puts(s \o t) = Puts(s) \cup Puts(t)
           /\ InOrder(s) /\ InOrder(t) /\ (\A v \in Puts(s), w \in Puts(t) : v < w)
                => InOrder(s \o t)
<1> DEFINE n == Len(s)
<1>1. /\ n \in Nat /\ Len(t) \in Nat
      /\ DOMAIN s = 1..n /\ DOMAIN t = 1..Len(t) /\ DOMAIN (s \o t) = 1..(n + Len(t))
      /\ \A i \in 1..(n + Len(t)) : (s \o t)[i] = IF i <= n THEN s[i] ELSE t[i - n]
  BY ConcatProperties, LenProperties
<1> HIDE DEF n
<1>2. \A i \in DOMAIN s : i \in DOMAIN (s \o t) /\ (s \o t)[i] = s[i]
  BY <1>1
<1>3. \A i \in DOMAIN t : n + i \in DOMAIN (s \o t) /\ (s \o t)[n + i] = t[i]
  BY <1>1
<1>4. \A i \in DOMAIN (s \o t) :
        i \in DOMAIN s \/ (i - n \in DOMAIN t /\ i = n + (i - n))
  BY <1>1
<1>5. Puts(s \o t) \subseteq Puts(s) \cup Puts(t)
  BY <1>2, <1>3, <1>4 DEF Puts
<1>6. Puts(s) \cup Puts(t) \subseteq Puts(s \o t)
  BY <1>2, <1>3 DEF Puts
<1>7. ASSUME InOrder(s), InOrder(t), \A v \in Puts(s), w \in Puts(t) : v < w
      PROVE  InOrder(s \o t)
  <2> SUFFICES ASSUME NEW i \in DOMAIN (s \o t), NEW j \in DOMAIN (s \o t), i < j,
                      (s \o t)[i].kind = "put", (s \o t)[j].kind = "put"
               PROVE  (s \o t)[i].ref < (s \o t)[j].ref
    BY DEF InOrder
  <2>1. CASE j <= n
    BY <1>1, <1>7, <2>1 DEF InOrder
  <2>2. CASE i > n
    <3>1. i - n \in DOMAIN t /\ j - n \in DOMAIN t /\ i - n < j - n
      BY <1>1, <2>2
    <3>2. (s \o t)[i] = t[i - n] /\ (s \o t)[j] = t[j - n]
      BY <1>1, <2>2
    <3> QED BY <3>1, <3>2, <1>7 DEF InOrder
  <2>3. CASE i <= n /\ j > n
    <3>1. (s \o t)[i] = s[i] /\ (s \o t)[j] = t[j - n] /\ i \in DOMAIN s /\ j - n \in DOMAIN t
      BY <1>1, <2>3
    <3>2. s[i].ref \in Puts(s) /\ t[j - n].ref \in Puts(t)
      BY <3>1 DEF Puts
    <3> QED BY <3>1, <3>2, <1>7
  <2> QED BY <1>1, <2>1, <2>2, <2>3
<1> QED BY <1>5, <1>6, <1>7

\* Taking the head of a channel in order takes its earliest put, if it takes one.
LEMMA PutsOfTail ==
    ASSUME NEW M, NEW s \in Seq(M), s # <<>>, InOrder(s)
    PROVE  /\ InOrder(Tail(s))
           /\ Puts(s) = Puts(Tail(s)) \cup IF Head(s).kind = "put" THEN {Head(s).ref} ELSE {}
           /\ Head(s).kind = "put" => \A w \in Puts(Tail(s)) : Head(s).ref < w
<1>1. /\ Len(s) \in Nat \ {0} /\ DOMAIN s = 1..Len(s) /\ Head(s) = s[1]
      /\ DOMAIN Tail(s) = 1..(Len(s) - 1)
      /\ \A i \in 1..(Len(s) - 1) : Tail(s)[i] = s[i + 1]
  BY HeadTailProperties, LenProperties, EmptySeq
<1>2. \A i \in DOMAIN Tail(s) : i + 1 \in DOMAIN s /\ 1 \in DOMAIN s /\ 1 < i + 1 /\ Tail(s)[i] = s[i + 1]
  BY <1>1
<1>3. \A i \in DOMAIN s : i = 1 \/ (i - 1 \in DOMAIN Tail(s) /\ Tail(s)[i - 1] = s[i])
  BY <1>1
<1>4. Puts(s) = Puts(Tail(s)) \cup IF Head(s).kind = "put" THEN {Head(s).ref} ELSE {}
  <2>1. Puts(s) \subseteq Puts(Tail(s)) \cup IF Head(s).kind = "put" THEN {Head(s).ref} ELSE {}
    <3> SUFFICES ASSUME NEW i \in DOMAIN s, s[i].kind = "put"
                 PROVE  s[i].ref \in Puts(Tail(s)) \/ (Head(s).kind = "put" /\ s[i].ref = Head(s).ref)
      BY DEF Puts
    <3> QED BY <1>1, <1>3 DEF Puts
  <2>2. Puts(Tail(s)) \subseteq Puts(s)
    BY <1>2 DEF Puts
  <2>3. Head(s).kind = "put" => Head(s).ref \in Puts(s)
    BY <1>1 DEF Puts
  <2> QED BY <2>1, <2>2, <2>3
<1>5. InOrder(Tail(s))
  <2> SUFFICES ASSUME NEW i \in DOMAIN Tail(s), NEW j \in DOMAIN Tail(s), i < j,
                      Tail(s)[i].kind = "put", Tail(s)[j].kind = "put"
               PROVE  Tail(s)[i].ref < Tail(s)[j].ref
    BY DEF InOrder
  <2>1. i + 1 < j + 1
    BY <1>1
  <2> QED BY <1>2, <2>1 DEF InOrder
<1>6. ASSUME Head(s).kind = "put", NEW w \in Puts(Tail(s))
      PROVE  Head(s).ref < w
  <2>1. PICK i \in DOMAIN Tail(s) : Tail(s)[i].kind = "put" /\ w = Tail(s)[i].ref
    BY DEF Puts
  <2> QED BY <1>1, <1>2, <1>6, <2>1 DEF InOrder
<1> QED BY <1>4, <1>5, <1>6

-----------------------------------------------------------------------------
(* The messages of one kind on a channel.                                  *)

Of(s, kind) == {i \in DOMAIN s : s[i].kind = kind}

\* How many messages are of a kind is a number.
LEMMA CountIsNat ==
    ASSUME NEW M, NEW s \in Seq(M), NEW kind
    PROVE  Count(s, kind) \in Nat /\ IsFiniteSet(Of(s, kind)) /\ Count(s, kind) = Cardinality(Of(s, kind))
<1>1. DOMAIN s = 1..Len(s) /\ Len(s) \in Nat
  BY LenProperties
<1>2. IsFiniteSet(1..Len(s))
  BY <1>1, FS_Interval
<1>3. Of(s, kind) \subseteq 1..Len(s)
  BY <1>1 DEF Of
<1>4. IsFiniteSet(Of(s, kind))
  BY <1>2, <1>3, FS_Subset
<1> QED BY <1>4, FS_CardinalityType DEF Count, Of

\* There is none of a kind in an empty channel.
LEMMA CountOfNone == ASSUME NEW kind PROVE Count(<<>>, kind) = 0
BY FS_EmptySet DEF Count

\* One message counts when it is of the kind.
LEMMA CountOfOne ==
    ASSUME NEW m, NEW kind PROVE Count(<<m>>, kind) = IF m.kind = kind THEN 1 ELSE 0
<1>1. {i \in DOMAIN <<m>> : <<m>>[i].kind = kind} = IF m.kind = kind THEN {1} ELSE {}
  OBVIOUS
<1> QED BY <1>1, FS_EmptySet, FS_Singleton DEF Count

\* The messages of a kind in two channels, one behind the other.
LEMMA CountOfBoth ==
    ASSUME NEW M, NEW s \in Seq(M), NEW t \in Seq(M), NEW kind
    PROVE  Count(s \o t, kind) = Count(s, kind) + Count(t, kind)
<1> DEFINE n == Len(s)
           Shifted == {n + i : i \in Of(t, kind)}
           f == [i \in Of(t, kind) |-> n + i]
<1>1. /\ n \in Nat /\ Len(t) \in Nat
      /\ DOMAIN s = 1..n /\ DOMAIN t = 1..Len(t) /\ DOMAIN (s \o t) = 1..(n + Len(t))
      /\ \A i \in 1..(n + Len(t)) : (s \o t)[i] = IF i <= n THEN s[i] ELSE t[i - n]
  BY ConcatProperties, LenProperties
<1>2. Of(t, kind) \subseteq Nat /\ n \in Nat
  BY <1>1 DEF Of
<1>3. Of(s \o t, kind) = Of(s, kind) \cup Shifted
  <2>1. ASSUME NEW i \in Of(s \o t, kind) PROVE i \in Of(s, kind) \cup Shifted
    <3>1. CASE i <= n
      BY <1>1, <2>1, <3>1 DEF Of
    <3>2. CASE i > n
      <4>1. i - n \in Of(t, kind) /\ i = n + (i - n)
        BY <1>1, <2>1, <3>2 DEF Of
      <4> QED BY <4>1
    <3> QED BY <1>1, <2>1, <3>1, <3>2 DEF Of
  <2>2. Of(s, kind) \subseteq Of(s \o t, kind)
    BY <1>1 DEF Of
  <2>3. ASSUME NEW i \in Of(t, kind) PROVE n + i \in Of(s \o t, kind)
    BY <1>1, <2>3 DEF Of
  <2> QED BY <2>1, <2>2, <2>3
<1>4. Of(s, kind) \cap Shifted = {}
  BY <1>1 DEF Of
<1>5. ExistsBijection(Of(t, kind), Shifted)
  <2>1. f \in [Of(t, kind) -> Shifted]
    OBVIOUS
  <2>2. \A i, j \in Of(t, kind) : f[i] = f[j] => i = j
    BY <1>2
  <2>3. \A y \in Shifted : \E i \in Of(t, kind) : f[i] = y
    OBVIOUS
  <2>4. f \in Injection(Of(t, kind), Shifted)
    BY <2>1, <2>2 DEF Injection, IsInjective
  <2>5. f \in Surjection(Of(t, kind), Shifted)
    BY <2>1, <2>3 DEF Surjection
  <2> QED BY <2>4, <2>5 DEF ExistsBijection, Bijection
<1>6. IsFiniteSet(Shifted) /\ Cardinality(Shifted) = Count(t, kind)
  BY <1>5, CountIsNat, FS_Bijection
<1>7. s \o t \in Seq(M)
  BY ConcatProperties
<1> HIDE DEF n, Shifted, f
<1>8. Count(s \o t, kind) = Cardinality(Of(s, kind) \cup Shifted)
  BY <1>3, <1>7, CountIsNat
<1>9. Cardinality(Of(s, kind) \cup Shifted)
        = Cardinality(Of(s, kind)) + Cardinality(Shifted) - Cardinality({})
  BY <1>4, <1>6, CountIsNat, FS_Union
<1> QED BY <1>6, <1>8, <1>9, CountIsNat, FS_EmptySet

\* The messages of a kind after the head was taken.
LEMMA CountOfTail ==
    ASSUME NEW M, NEW s \in Seq(M), s # <<>>, NEW kind
    PROVE  Count(s, kind) = Count(Tail(s), kind) + IF Head(s).kind = kind THEN 1 ELSE 0
<1>1. <<Head(s)>> \in Seq(M) /\ Tail(s) \in Seq(M) /\ Len(<<Head(s)>>) = 1
  BY HeadTailProperties
<1>2. s = <<Head(s)>> \o Tail(s)
  <2>1. <<Head(s)>> \o Tail(s) \in Seq(M) /\ Len(<<Head(s)>> \o Tail(s)) = Len(s)
    BY <1>1, ConcatProperties, HeadTailProperties, LenProperties
  <2>2. \A i \in 1..Len(s) : s[i] = (<<Head(s)>> \o Tail(s))[i]
    <3> TAKE i \in 1..Len(s)
    <3>1. (<<Head(s)>> \o Tail(s))[i] = IF i <= 1 THEN <<Head(s)>>[i] ELSE Tail(s)[i - 1]
      BY <1>1, <2>1, ConcatProperties, HeadTailProperties, LenProperties
    <3>2. CASE i = 1
      BY <3>1, <3>2, HeadTailProperties
    <3>3. CASE i # 1
      <4>1. i - 1 \in 1..Len(Tail(s)) /\ ~(i <= 1) /\ (i - 1) + 1 = i
        BY <3>3, HeadTailProperties, LenProperties
      <4> QED BY <3>1, <4>1, HeadTailProperties
    <3> QED BY <3>2, <3>3
  <2> QED BY <2>1, <2>2, SeqEqual
<1>3. Count(s, kind) = Count(<<Head(s)>>, kind) + Count(Tail(s), kind)
  BY <1>1, <1>2, CountOfBoth
<1>4. Count(Tail(s), kind) \in Nat
  BY <1>1, CountIsNat
<1> QED BY <1>3, <1>4, CountOfOne

-----------------------------------------------------------------------------
(* The parts of the invariant.                                             *)

\* The messages of either direction.
Listens == [kind : {"listen"}, ref : Nat, value : Nat]
UpMessages ==
    Listens \cup [kind : {"auth"}, ref : BOOLEAN, value : {"nil", "good", "stale"}]
            \cup [kind : {"put"}, ref : Writes, value : {0}]
            \cup [kind : {"unlisten"}, ref : {0}, value : {0}]
DownMessages ==
    [kind : {"auth"}, ref : BOOLEAN, value : {"ok", "refused"}]
        \cup [kind : {"listen"}, ref : Nat, value : {"ok", "refused"}]
        \cup [kind : {"put"}, ref : Writes, value : {"ok", "refused"}]
        \cup [kind : {"data"}, ref : {0}, value : Nat]
        \cup [kind : {"listenRevoked", "authRevoked", "kill"}, ref : {0}, value : {0}]

\* What the external parts hold and what is on its way, and the bounds.
OutsideOK ==
    /\ up \in Seq(UpMessages) /\ down \in Seq(DownMessages) /\ asked \in Seq(Listens)
    /\ serving \in BOOLEAN /\ credential \in {"nil", "good", "stale"}
    /\ history \in Seq(Nat) /\ history # <<>>
    /\ putsToAck \in Seq(Writes \X {"ok", "refused"})
    /\ budget \in [Troubles -> Nat]

CountInv == unacked = Count(up, "listen") + Count(down, "listen") + Len(asked)

\* The request that authenticates a connection, or its answer.
IsFirst(m) == m.kind = "auth" /\ m.ref = TRUE

NoAuth(s) == \A m \in Range(s) : m.kind # "auth"
NoFirst(s) == \A m \in Range(s) : ~IsFirst(m)
OneFirst(s) ==
    \E i \in DOMAIN s :
        /\ IsFirst(s[i])
        /\ \A j \in DOMAIN s : j # i => ~IsFirst(s[j])
        /\ \A j \in DOMAIN s : j < i => s[j].kind # "auth"

\* A connection that authenticates has one such request or answer on its way.
AuthInv ==
    /\ \A m \in Range(up) : IsFirst(m) => m.value # "nil"
    /\ IF conn = "authenticating"
         THEN (OneFirst(up) /\ NoAuth(down)) \/ (NoFirst(up) /\ OneFirst(down))
         ELSE NoFirst(up) /\ NoFirst(down)

\* Each outstanding put is on its way once, answers before requests, if puts can be sent.
WireInv ==
    /\ InOrder(up) /\ InOrder(down)
    /\ \A v \in Puts(down), w \in Puts(up) : v < w
    /\ Puts(down) \cup Puts(up) = IF CanSendWrites THEN puts ELSE {}

\* What is outstanding is pending, and later than what is held back or was answered.
StatusInv ==
    /\ \A w \in puts : status[w] = "pending"
    /\ \A v, w \in Writes : v < w /\ status[w] # "new" => status[v] # "new"
    /\ \A i \in DOMAIN putsToAck :
         status[putsToAck[i][1]] = "pending" /\ \A w \in puts : putsToAck[i][1] < w
    /\ \A v \in Writes : status[v] \in {"ok", "refused"} => \A w \in puts : v < w

\* w is among the values h, and nothing earlier is the last of them.
Settled(h, w) ==
    /\ \E i \in DOMAIN h : h[i] = w
    /\ \A i \in DOMAIN h : h[i] \in Writes /\ h[i] < w =>
         \E j \in DOMAIN h : i < j /\ h[j] \in Writes /\ h[j] >= w

\* ok is said, on every part of its way, of a write that is settled.
OkInv ==
    /\ \A w \in Writes : status[w] = "ok" => Settled(history, w)
    /\ \A i \in DOMAIN putsToAck : putsToAck[i][2] = "ok" => Settled(history, putsToAck[i][1])
    /\ \A m \in Range(down) : m.kind = "put" /\ m.value = "ok" => Settled(history, m.ref)

-----------------------------------------------------------------------------
(* What is sent again on a new connection.                                 *)

\* What a message sent adds: to the count of listens, to the puts and their order.
LEMMA Appended ==
    ASSUME NEW M, NEW s \in Seq(M), NEW m \in M
    PROVE  /\ Append(s, m) \in Seq(M)
           /\ Count(Append(s, m), "listen") = Count(s, "listen") + IF m.kind = "listen" THEN 1 ELSE 0
           /\ Puts(Append(s, m)) = Puts(s) \cup IF m.kind = "put" THEN {m.ref} ELSE {}
           /\ InOrder(s) /\ (m.kind = "put" => \A v \in Puts(s) : v < m.ref) => InOrder(Append(s, m))
           /\ DOMAIN Append(s, m) = 1..(Len(s) + 1) /\ DOMAIN s = 1..Len(s) /\ Len(s) \in Nat
           /\ \A i \in DOMAIN s : Append(s, m)[i] = s[i]
           /\ Append(s, m)[Len(s) + 1] = m
<1> DEFINE one == <<m>>
<1>1. Append(s, m) = s \o one /\ one \in Seq(M)
  BY AppendIsConcat
<1>a. /\ Count(one, "listen") = IF m.kind = "listen" THEN 1 ELSE 0
      /\ Puts(one) = IF m.kind = "put" THEN {m.ref} ELSE {}
      /\ InOrder(one)
  BY CountOfOne, PutsOfOne
<1> HIDE DEF one
<1>2. Count(s \o one, "listen") = Count(s, "listen") + IF m.kind = "listen" THEN 1 ELSE 0
  BY <1>1, <1>a, CountOfBoth
<1>3. /\ Puts(s \o one) = Puts(s) \cup IF m.kind = "put" THEN {m.ref} ELSE {}
      /\ InOrder(s) /\ (m.kind = "put" => \A v \in Puts(s) : v < m.ref) => InOrder(s \o one)
  BY <1>1, <1>a, PutsOfBoth
<1>4. /\ Append(s, m) \in Seq(M)
      /\ DOMAIN Append(s, m) = 1..(Len(s) + 1) /\ DOMAIN s = 1..Len(s) /\ Len(s) \in Nat
      /\ \A i \in DOMAIN s : Append(s, m)[i] = s[i]
      /\ Append(s, m)[Len(s) + 1] = m
  BY AppendProperties, LenProperties
<1> QED BY <1>1, <1>2, <1>3, <1>4

\* A bound that is spent was not used up, and stays a bound.
LEMMA Spending ==
    ASSUME budget \in [Troubles -> Nat], NEW kind \in Troubles, Spend(kind)
    PROVE  budget' \in [Troubles -> Nat] /\ budget[kind] \in Nat
BY DEF Spend

\* The outstanding puts are finitely many numbers.
LEMMA PutsFinite ==
    ASSUME puts \subseteq Writes
    PROVE  /\ IsFiniteSet(puts) /\ Cardinality(puts) \in Nat
           /\ Writes \subseteq Nat
<1>1. IsFiniteSet(puts)
  BY WritesAssumption, FS_Subset
<1> QED BY <1>1, WritesAssumption, FS_CardinalityType

(* What is sent on a new connection: a listen, if there is one, then every outstanding put
   once, in order. *)
LEMMA Restored ==
    ASSUME up \in Seq(UpMessages), puts \subseteq Writes, listen \in Nat,
           cache \in Nat \cup {Unknown}, RestoreState
    PROVE  \E sent \in Seq(UpMessages) :
              /\ up' = up \o sent /\ unacked' = unacked + Count(sent, "listen")
              /\ Puts(sent) = puts /\ InOrder(sent)
              /\ \A i \in DOMAIN sent : sent[i].kind # "auth"
              /\ listen # 0 => 1 \in DOMAIN sent /\ sent[1] = ListenRequest
              /\ \A i \in DOMAIN sent : sent[i].kind = "put" \/ (i = 1 /\ listen # 0)
<1> DEFINE n == Cardinality(puts)
           first == IF listen = 0 THEN <<>> ELSE <<ListenRequest>>
<1>1. PICK order \in [1..n -> puts] :
        /\ \A i, j \in DOMAIN order : i < j => order[i] < order[j]
        /\ up' = up \o first \o [i \in DOMAIN order |-> PutRequest(order[i])]
        /\ unacked' = unacked + IF listen = 0 THEN 0 ELSE 1
  BY DEF RestoreState
<1> DEFINE rest == [i \in DOMAIN order |-> PutRequest(order[i])]
<1>2. n \in Nat /\ Writes \subseteq Nat /\ IsFiniteSet(puts)
  BY PutsFinite
<1>3. DOMAIN rest = 1..n /\ \A i \in 1..n : rest[i].kind = "put" /\ rest[i].ref = order[i]
  BY <1>1 DEF PutRequest, Msg
<1>4. rest \in Seq(UpMessages)
  <2>1. \A i \in 1..n : PutRequest(order[i]) \in UpMessages
    BY <1>1 DEF PutRequest, Msg, UpMessages
  <2>2. rest \in [1..n -> UpMessages]
    BY <2>1, <1>1
  <2> QED BY <2>2, <1>2, SeqDef
<1>5. first \in Seq(UpMessages)
  <2>1. listen # 0 => ListenRequest \in UpMessages
    BY DEF ListenRequest, Msg, UpMessages, Listens, Unknown, Nothing
  <2> QED BY <2>1
<1>6. \A w \in puts : \E i \in 1..n : order[i] = w
  <2>1. \A i, j \in 1..n : order[i] = order[j] => i = j
    <3> SUFFICES ASSUME NEW i \in 1..n, NEW j \in 1..n, order[i] = order[j], i # j PROVE FALSE
      OBVIOUS
    <3>1. order[i] \in Nat /\ order[j] \in Nat
      BY <1>1, <1>2
    <3>2. i < j \/ j < i
      BY <1>2
    <3> QED BY <1>1, <3>1, <3>2
  <2>2. order \in Injection(1..n, puts)
    BY <1>1, <2>1 DEF Injection, IsInjective
  <2>3. Cardinality(1..n) = n
    BY <1>2, FS_Interval
  <2>4. order \in Surjection(1..n, puts)
    BY <1>2, <2>2, <2>3, FS_Injection
  <2> QED BY <2>4 DEF Surjection
<1>7. Puts(rest) = puts
  <2>1. Puts(rest) \subseteq puts
    BY <1>1, <1>3 DEF Puts
  <2>2. puts \subseteq Puts(rest)
    <3> SUFFICES ASSUME NEW w \in puts PROVE w \in Puts(rest)
      OBVIOUS
    <3>1. PICK i \in 1..n : order[i] = w
      BY <1>6
    <3>2. i \in DOMAIN rest /\ rest[i].kind = "put" /\ rest[i].ref = w
      BY <1>3, <3>1
    <3> HIDE DEF rest
    <3> QED BY <3>2 DEF Puts
  <2> QED BY <2>1, <2>2
<1>8. InOrder(rest)
  <2>1. \A i, j \in 1..n : i < j => order[i] < order[j]
    BY <1>1
  <2> HIDE DEF rest
  <2> QED BY <1>3, <2>1 DEF InOrder
<1>9. /\ Puts(first) = {} /\ InOrder(first) /\ \A i \in DOMAIN first : first[i].kind = "listen"
      /\ Count(first, "listen") = IF listen = 0 THEN 0 ELSE 1
  <2>1. CASE listen = 0
    BY <2>1, PutsOfNone, CountOfNone
  <2>2. CASE listen # 0
    <3>1. first = <<ListenRequest>> /\ ListenRequest.kind = "listen"
      BY <2>2 DEF ListenRequest, Msg
    <3>2. Puts(<<ListenRequest>>) = {} /\ InOrder(<<ListenRequest>>)
      BY <3>1, PutsOfOne
    <3>3. Count(<<ListenRequest>>, "listen") = 1
      BY <3>1, CountOfOne
    <3>4. \A i \in DOMAIN <<ListenRequest>> : <<ListenRequest>>[i].kind = "listen"
      BY <3>1
    <3> QED BY <2>2, <3>1, <3>2, <3>3, <3>4
  <2> QED BY <2>1, <2>2
<1>10. Count(rest, "listen") = 0
  <2>1. Of(rest, "listen") = {}
    BY <1>3 DEF Of
  <2> QED BY <2>1, <1>4, CountIsNat, FS_EmptySet
<1>11. up' = up \o (first \o rest)
  <2>1. up' = (up \o first) \o rest
    BY <1>1
  <2> HIDE DEF first, rest
  <2> QED BY <1>4, <1>5, <2>1, ConcatAssociative
<1> HIDE DEF first, rest, n
<1>12. /\ first \o rest \in Seq(UpMessages)
       /\ Puts(first \o rest) = puts /\ InOrder(first \o rest)
       /\ Count(first \o rest, "listen") = IF listen = 0 THEN 0 ELSE 1
  <2>1. Count(first \o rest, "listen") = Count(first, "listen") + 0
    BY <1>4, <1>5, <1>10, CountOfBoth
  <2>2. first \o rest \in Seq(UpMessages)
    BY <1>4, <1>5, ConcatProperties
  <2>3. Puts(first \o rest) = puts /\ InOrder(first \o rest)
    <3>1. \A v \in Puts(first), w \in Puts(rest) : v < w
      BY <1>9
    <3>a. InOrder(first)
      BY <1>9
    <3>2. Puts(first \o rest) = Puts(first) \cup Puts(rest) /\ InOrder(first \o rest)
      BY <1>4, <1>5, <1>8, <3>a, <3>1, PutsOfBoth
    <3> QED BY <1>7, <1>9, <3>2
  <2> QED BY <1>9, <2>1, <2>2, <2>3
<1>13. /\ \A i \in DOMAIN (first \o rest) : (first \o rest)[i].kind # "auth"
       /\ listen # 0 => 1 \in DOMAIN (first \o rest) /\ (first \o rest)[1] = ListenRequest
       /\ \A i \in DOMAIN (first \o rest) :
            (first \o rest)[i].kind = "put" \/ (i = 1 /\ listen # 0)
  <2>1. /\ Len(first) \in Nat /\ Len(rest) \in Nat
        /\ DOMAIN first = 1..Len(first) /\ DOMAIN rest = 1..Len(rest)
        /\ DOMAIN (first \o rest) = 1..(Len(first) + Len(rest))
        /\ \A i \in 1..(Len(first) + Len(rest)) :
             (first \o rest)[i] = IF i <= Len(first) THEN first[i] ELSE rest[i - Len(first)]
    BY <1>4, <1>5, <1>12, ConcatProperties, LenProperties
  <2>2. /\ listen = 0 => Len(first) = 0
        /\ listen # 0 => Len(first) = 1 /\ first[1] = ListenRequest
    BY DEF first
  <2>3. listen # 0 => 1 \in DOMAIN (first \o rest) /\ (first \o rest)[1] = ListenRequest
    <3> SUFFICES ASSUME listen # 0
                 PROVE  1 \in DOMAIN (first \o rest) /\ (first \o rest)[1] = ListenRequest
      OBVIOUS
    <3>1. Len(first) = 1 /\ first[1] = ListenRequest
      BY <2>2
    <3>2. 1 \in 1..(Len(first) + Len(rest)) /\ 1 <= Len(first)
      BY <2>1, <3>1
    <3>3. 1 \in DOMAIN (first \o rest)
      BY <2>1, <3>2
    <3>4. (first \o rest)[1] = first[1]
      BY <2>1, <3>2
    <3> QED BY <3>1, <3>3, <3>4
  <2>4. ASSUME NEW i \in DOMAIN (first \o rest)
        PROVE  /\ (first \o rest)[i].kind # "auth"
               /\ (first \o rest)[i].kind = "put" \/ (i = 1 /\ listen # 0)
    <3>1. CASE i <= Len(first)
      <4>1. i \in DOMAIN first /\ (first \o rest)[i] = first[i] /\ i = 1 /\ listen # 0
        BY <2>1, <2>2, <2>4, <3>1
      <4>2. first[i].kind = "listen"
        BY <4>1, <1>9
      <4> QED BY <4>1, <4>2
    <3>2. CASE i > Len(first)
      <4>1. i - Len(first) \in DOMAIN rest /\ (first \o rest)[i] = rest[i - Len(first)]
        BY <2>1, <2>4, <3>2
      <4> QED BY <4>1, <1>3
    <3>3. i <= Len(first) \/ i > Len(first)
      BY <2>1, <2>4
    <3> QED BY <3>1, <3>2, <3>3
  <2> QED BY <2>3, <2>4
<1>14. unacked' = unacked + Count(first \o rest, "listen")
  BY <1>1, <1>12
<1> QED BY <1>11, <1>12, <1>13, <1>14

-----------------------------------------------------------------------------
(* Types, and the listens on their way.                                    *)

\* What is left of a channel when its head is taken.
LEMMA Taken ==
    ASSUME NEW M, NEW s \in Seq(M), s # <<>>
    PROVE  /\ Head(s) \in M /\ Tail(s) \in Seq(M)
           /\ Count(Tail(s), "listen") = Count(s, "listen") - IF Head(s).kind = "listen" THEN 1 ELSE 0
           /\ Count(s, "listen") \in Nat /\ Count(Tail(s), "listen") \in Nat
           /\ Len(s) \in Nat \ {0} /\ DOMAIN s = 1..Len(s) /\ Head(s) = s[1]
           /\ DOMAIN Tail(s) = 1..(Len(s) - 1) /\ Len(Tail(s)) = Len(s) - 1
           /\ \A i \in DOMAIN Tail(s) : i + 1 \in DOMAIN s /\ Tail(s)[i] = s[i + 1]
<1>1. /\ Head(s) \in M /\ Tail(s) \in Seq(M)
      /\ Len(s) \in Nat \ {0} /\ DOMAIN s = 1..Len(s) /\ Head(s) = s[1]
      /\ DOMAIN Tail(s) = 1..(Len(s) - 1) /\ Len(Tail(s)) = Len(s) - 1
      /\ \A i \in DOMAIN Tail(s) : i + 1 \in DOMAIN s /\ Tail(s)[i] = s[i + 1]
  BY HeadTailProperties, LenProperties, EmptySeq
<1>2. Count(s, "listen") \in Nat /\ Count(Tail(s), "listen") \in Nat
  BY <1>1, CountIsNat
<1>3. Count(s, "listen") = Count(Tail(s), "listen") + IF Head(s).kind = "listen" THEN 1 ELSE 0
  BY CountOfTail
<1> QED BY <1>1, <1>2, <1>3

\* A message that is no listen does not change their count.
LEMMA AppendedOther ==
    ASSUME NEW M, NEW s \in Seq(M), NEW m \in M, m.kind # "listen"
    PROVE  Append(s, m) \in Seq(M) /\ Count(Append(s, m), "listen") = Count(s, "listen")
<1>1. Append(s, m) \in Seq(M)
  BY Appended
<1>2. Count(Append(s, m), "listen") = Count(s, "listen") + 0
  BY Appended
<1>3. Count(s, "listen") \in Nat
  BY CountIsNat
<1> QED BY <1>1, <1>2, <1>3

\* Writes are numbers.
LEMMA WritesAreNumbers == Writes \subseteq Nat
BY WritesAssumption, FS_CardinalityType

\* What the messages of each kind carry.
LEMMA MessageTypes ==
    /\ \A m \in UpMessages : m.kind \in {"auth", "listen", "put", "unlisten"}
    /\ \A m \in UpMessages : m.kind = "put" => m.ref \in Writes
    /\ \A m \in UpMessages : m.kind = "auth" => m.ref \in BOOLEAN /\ m.value \in {"nil", "good", "stale"}
    /\ \A m \in UpMessages : m.kind = "listen" => m \in Listens
    /\ \A m \in Listens : m.kind = "listen" /\ m.ref \in Nat /\ m.value \in Nat
    /\ \A m \in DownMessages :
         m.kind \in {"auth", "listen", "put", "data", "listenRevoked", "authRevoked", "kill"}
    /\ \A m \in DownMessages : m.kind = "put" => m.ref \in Writes /\ m.value \in {"ok", "refused"}
    /\ \A m \in DownMessages : m.kind = "data" => m.value \in Nat
    /\ \A m \in DownMessages : m.kind = "auth" => m.ref \in BOOLEAN
    /\ \A m \in DownMessages : m.kind = "listen" => m.ref \in Nat
BY DEF UpMessages, DownMessages, Listens

(* The completion blocks that are called get one of the answers, and no others are. *)
LEMMA Told ==
    ASSUME NEW answers \in Seq(Writes \X {"ok", "refused"}), Tell(answers),
           status \in [Writes -> {"new", "pending", "ok", "refused"}]
    PROVE  /\ status' \in [Writes -> {"new", "pending", "ok", "refused"}]
           /\ \A w \in Writes :
                \/ /\ \A i \in DOMAIN answers : answers[i][1] # w
                   /\ status'[w] = status[w]
                \/ \E i \in DOMAIN answers :
                     answers[i][1] = w /\ status'[w] = answers[i][2] /\ answers[i][2] \in {"ok", "refused"}
<1>1. ASSUME NEW w \in Writes
      PROVE  \/ /\ \A i \in DOMAIN answers : answers[i][1] # w
                /\ status'[w] = status[w]
             \/ \E i \in DOMAIN answers :
                  answers[i][1] = w /\ status'[w] = answers[i][2] /\ answers[i][2] \in {"ok", "refused"}
  <2>1. CASE \A i \in DOMAIN answers : answers[i][1] # w
    BY <2>1 DEF Tell
  <2>2. CASE \E i \in DOMAIN answers : answers[i][1] = w
    <3> DEFINE k == CHOOSE i \in DOMAIN answers : answers[i][1] = w
    <3>1. k \in DOMAIN answers /\ answers[k][1] = w
      BY <2>2
    <3>2. status'[w] = answers[k][2]
      BY <2>2 DEF Tell
    <3>3. answers[k] \in Writes \X {"ok", "refused"}
      BY <3>1, ElementOfSeq, LenProperties
    <3>4. answers[k][2] \in {"ok", "refused"}
      BY <3>3
    <3> HIDE DEF k
    <3> QED BY <3>1, <3>2, <3>4
  <2> QED BY <2>1, <2>2
<1>2. status' = [w \in Writes |-> status'[w]]
  BY DEF Tell
<1>3. \A w \in Writes : status'[w] \in {"new", "pending", "ok", "refused"}
  BY <1>1
<1>4. status' \in [Writes -> {"new", "pending", "ok", "refused"}]
  BY <1>2, <1>3
<1> QED BY <1>1, <1>4

\* The answer to one put, as a sequence of answers.
LEMMA OneAnswer ==
    ASSUME NEW r \in Writes, NEW v \in {"ok", "refused"}
    PROVE  /\ <<<<r, v>>>> \in Seq(Writes \X {"ok", "refused"})
           /\ DOMAIN <<<<r, v>>>> = {1} /\ <<<<r, v>>>>[1][1] = r /\ <<<<r, v>>>>[1][2] = v
OBVIOUS

\* The fields of the client.
FieldsOK ==
    /\ conn \in {"disconnected", "gettingToken", "connecting", "authenticating", "connected"}
    /\ interrupts \subseteq {"repo_interrupt", "server_kill"}
    /\ retry \in {"none", "plain", "forced"} /\ fetch \in {"none", "plain", "forced"}
    /\ force \in BOOLEAN /\ token \in {"nil", "good", "stale"}
    /\ listen \in Nat
    /\ puts \subseteq Writes
    /\ cache \in Nat \cup {Unknown}
    /\ status \in [Writes -> {"new", "pending", "ok", "refused"}]

TypeInv == FieldsOK /\ OutsideOK /\ CountInv

\* The invariant gives the fields their types.
LEMMA TypeInvTypes ==
    ASSUME TypeInv PROVE TypeOK /\ unacked \in Nat
<1>1. unacked \in Nat
  <2>1. Count(up, "listen") \in Nat /\ Count(down, "listen") \in Nat /\ Len(asked) \in Nat
    BY CountIsNat, LenProperties DEF TypeInv, OutsideOK
  <2> QED BY <2>1 DEF TypeInv, CountInv
<1>2. \A i \in DOMAIN putsToAck : putsToAck[i] \in Writes \X {"ok", "refused"}
  BY ElementOfSeq, LenProperties DEF TypeInv, OutsideOK
<1> QED BY <1>1, <1>2 DEF TypeInv, FieldsOK, TypeOK

\* It holds at the start.
LEMMA TypeInit == Init => TypeInv
<1> SUFFICES ASSUME Init PROVE TypeInv
  OBVIOUS
<1>1. status \in [Writes -> {"new", "pending", "ok", "refused"}]
  BY DEF Init
<1>2. FieldsOK
  BY <1>1 DEF Init, FieldsOK, Unknown
<1>3. budget \in [Troubles -> Nat]
  BY BudgetsAssumption DEF Init
<1>4. history \in Seq(Nat) /\ history # <<>>
  BY DEF Init, Nothing
<1>5. up \in Seq(UpMessages) /\ down \in Seq(DownMessages) /\ asked \in Seq(Listens)
      /\ putsToAck \in Seq(Writes \X {"ok", "refused"})
  BY DEF Init
<1>6. OutsideOK
  BY <1>3, <1>4, <1>5 DEF Init, OutsideOK
<1>7. CountInv
  BY CountOfNone, EmptySeq DEF Init, CountInv
<1> QED BY <1>2, <1>6, <1>7 DEF TypeInv

\* Every step keeps the types, and the count of the listens that are not answered.
LEMMA TypeNext == TypeInv /\ LinkQuiet /\ [Next]_vars => TypeInv'
<1> SUFFICES ASSUME TypeInv, LinkQuiet, [Next]_vars PROVE TypeInv'
  OBVIOUS
<1>a. /\ FieldsOK /\ OutsideOK /\ CountInv /\ unacked \in Nat
      /\ Count(up, "listen") \in Nat /\ Count(down, "listen") \in Nat /\ Len(asked) \in Nat
  BY TypeInvTypes, CountIsNat, LenProperties DEF TypeInv, OutsideOK
<1>b. \A kind \in Troubles : Spend(kind) => budget' \in [Troubles -> Nat] /\ budget[kind] \in Nat
  BY <1>a, Spending DEF OutsideOK
\* Nothing on its way changes.
<1>1. ASSUME FieldsOK', UNCHANGED <<network, unacked, asked, serving, history, putsToAck>>,
             credential' \in {"nil", "good", "stale"}, budget' \in [Troubles -> Nat]
      PROVE  TypeInv'
  BY <1>a, <1>1 DEF TypeInv, OutsideOK, CountInv, network
\* A connection closes.
<1>2. ASSUME FieldsOK', Disconnect, UNCHANGED <<history, putsToAck>>,
             credential' \in {"nil", "good", "stale"}, budget' \in [Troubles -> Nat]
      PROVE  TypeInv'
  <2>1. up' = <<>> /\ down' = <<>> /\ asked' = <<>> /\ ~serving' /\ serving' \in BOOLEAN /\ unacked' = 0
    BY <1>2 DEF Disconnect
  <2>2. CountInv'
    BY <2>1, CountOfNone, EmptySeq DEF CountInv
  <2>3. OutsideOK'
    BY <1>a, <1>2, <2>1 DEF OutsideOK
  <2> QED BY <1>2, <2>2, <2>3 DEF TypeInv
\* The client sends a message.
<1>3. ASSUME FieldsOK', NEW m \in UpMessages, up' = Append(up, m),
             unacked' = unacked + (IF m.kind = "listen" THEN 1 ELSE 0),
             UNCHANGED <<down, asked, serving, history, putsToAck>>,
             credential' \in {"nil", "good", "stale"}, budget' \in [Troubles -> Nat]
      PROVE  TypeInv'
  <2>1. /\ up' \in Seq(UpMessages)
        /\ Count(up', "listen") = Count(up, "listen") + IF m.kind = "listen" THEN 1 ELSE 0
    BY <1>a, <1>3, Appended DEF OutsideOK
  <2>2. CountInv'
    BY <1>a, <1>3, <2>1 DEF CountInv
  <2>3. OutsideOK'
    BY <1>a, <1>3, <2>1 DEF OutsideOK
  <2> QED BY <1>3, <2>2, <2>3 DEF TypeInv
\* The client sends again what is outstanding.
<1>4. ASSUME FieldsOK', RestoreState, down' \in Seq(DownMessages),
             Count(down', "listen") = Count(down, "listen"),
             UNCHANGED <<asked, serving, history, putsToAck, credential, budget>>
      PROVE  TypeInv'
  <2>1. PICK sent \in Seq(UpMessages) : up' = up \o sent /\ unacked' = unacked + Count(sent, "listen")
    BY <1>a, <1>4, Restored DEF OutsideOK, FieldsOK
  <2>2. /\ up' \in Seq(UpMessages) /\ Count(sent, "listen") \in Nat
        /\ Count(up', "listen") = Count(up, "listen") + Count(sent, "listen")
    BY <1>a, <2>1, ConcatProperties, CountOfBoth, CountIsNat DEF OutsideOK
  <2>3. CountInv'
    BY <1>a, <1>4, <2>1, <2>2 DEF CountInv
  <2>4. OutsideOK'
    BY <1>a, <1>4, <2>2 DEF OutsideOK
  <2> QED BY <1>4, <2>3, <2>4 DEF TypeInv
\* The client receives a message.
<1>5. ASSUME FieldsOK', down # <<>>, down' = Tail(down),
             unacked' = unacked - (IF Head(down).kind = "listen" THEN 1 ELSE 0),
             UNCHANGED <<up, asked, serving, history, credential, budget>>,
             putsToAck' \in Seq(Writes \X {"ok", "refused"})
      PROVE  TypeInv'
  <2>1. /\ down' \in Seq(DownMessages) /\ Count(down', "listen") \in Nat
        /\ Count(down', "listen") = Count(down, "listen") - IF Head(down).kind = "listen" THEN 1 ELSE 0
    BY <1>a, <1>5, Taken DEF OutsideOK
  <2>2. CountInv'
    BY <1>a, <1>5, <2>1 DEF CountInv
  <2>3. OutsideOK'
    BY <1>a, <1>5, <2>1 DEF OutsideOK
  <2> QED BY <1>5, <2>2, <2>3 DEF TypeInv
\* The server, or another device: the fields of the client stay.
<1>6. ASSUME UNCHANGED <<link, listen, unacked, data>>, up' \in Seq(UpMessages),
             down' \in Seq(DownMessages), asked' \in Seq(Listens), serving' \in BOOLEAN,
             history' \in Seq(Nat) /\ history' # <<>>, credential' \in {"nil", "good", "stale"},
             budget' \in [Troubles -> Nat], CountInv'
      PROVE  TypeInv'
  BY <1>a, <1>6 DEF TypeInv, FieldsOK, OutsideOK, link, data
\* One step per action.
<1>7. CASE Client
  <2>1. CASE RunRetry
    <3>1. FieldsOK'
      BY <1>a, <2>1 DEF RunRetry, FieldsOK, data
    <3> QED BY <1>a, <1>1, <2>1, <3>1 DEF RunRetry, OutsideOK, server, data
  <2>2. CASE FetchSucceeds
    <3>1. credential' \in {"nil", "good", "stale"}
      BY <1>a, <2>2 DEF FetchSucceeds, OutsideOK
    <3>2. FieldsOK'
      BY <1>a, <2>2, <3>1 DEF FetchSucceeds, FieldsOK, data
    <3> QED BY <1>a, <1>1, <2>2, <3>1, <3>2 DEF FetchSucceeds, OutsideOK, data
  <2>3. CASE OnReady
    <3>1. FieldsOK'
      BY <1>a, <2>3 DEF OnReady, FieldsOK, data
    <3>2. CASE token = "nil"
      <4>1. RestoreState /\ UNCHANGED <<down, asked, serving, history, putsToAck, credential, budget>>
        BY <2>3, <3>2 DEF OnReady, server, data
      <4> QED BY <1>a, <1>4, <3>1, <4>1 DEF OutsideOK
    <3>3. CASE token # "nil"
      <4> DEFINE m == Msg("auth", TRUE, token)
      <4>1. up = <<>> /\ up' = <<m>>
        BY <2>3, <3>3 DEF OnReady, LinkQuiet, Connected
      <4>2. m \in UpMessages /\ m.kind = "auth"
        BY <1>a DEF FieldsOK, UpMessages, Msg
      <4>3. up' = Append(up, m)
        BY <4>1
      <4>4. UNCHANGED <<down, asked, serving, history, putsToAck, unacked, credential, budget>>
        BY <2>3, <3>3 DEF OnReady, server, data
      <4> HIDE DEF m
      <4> QED BY <1>a, <1>3, <3>1, <4>2, <4>3, <4>4 DEF OutsideOK
    <3> QED BY <3>2, <3>3
  <2> QED BY <1>7, <2>1, <2>2, <2>3 DEF Client
<1>8. CASE Receive
  <2>a. /\ down \in Seq(DownMessages)
        /\ down # <<>> => /\ Head(down) \in DownMessages
                          /\ Tail(down) \in Seq(DownMessages)
                          /\ Count(Tail(down), "listen") = Count(down, "listen")
                               - IF Head(down).kind = "listen" THEN 1 ELSE 0
    BY <1>a, Taken DEF OutsideOK
  <2>1. CASE OnAuth
    <3>1. FieldsOK'
      BY <1>a, <2>1 DEF OnAuth, FieldsOK, data
    <3>2. /\ down # <<>> /\ Head(down).kind = "auth" /\ down' = Tail(down)
          /\ UNCHANGED <<asked, serving, history, putsToAck, credential, budget>>
      BY <2>1 DEF OnAuth, Arrives, server, data
    <3>3. CASE Head(down).ref
      <4>1. RestoreState
        BY <2>1, <3>3 DEF OnAuth
      <4>2. down' \in Seq(DownMessages) /\ Count(down', "listen") = Count(down, "listen")
        BY <1>a, <2>a, <3>2
      <4> QED BY <1>4, <3>1, <3>2, <4>1, <4>2
    <3>4. CASE ~Head(down).ref
      <4>1. UNCHANGED <<up, unacked>>
        BY <2>1, <3>4 DEF OnAuth
      <4> QED BY <1>a, <1>5, <3>1, <3>2, <4>1 DEF OutsideOK
    <3> QED BY <3>3, <3>4
  <2>2. CASE OnAuthRevoked
    <3>1. FieldsOK'
      BY <1>a, <2>2 DEF OnAuthRevoked, Disconnect, TryScheduleReconnect, FieldsOK, data
    <3> QED BY <1>a, <1>2, <2>2, <3>1 DEF OnAuthRevoked, OutsideOK, data
  <2>3. CASE OnPut
    <3> DEFINE r == Head(down).ref
               v == Head(down).value
    <3>1. /\ down # <<>> /\ Head(down).kind = "put" /\ down' = Tail(down)
          /\ UNCHANGED <<up, unacked, asked, serving, history, credential, budget>>
          /\ r \in Writes /\ v \in {"ok", "refused"}
      BY <2>3, <2>a, MessageTypes DEF OnPut, Arrives, server
    <3>2. UNCHANGED <<link, listen, cache>> /\ puts' \subseteq puts
      BY <2>3 DEF OnPut
    <3>3. CASE unacked = 0
      <4>1. Tell(<<<<r, v>>>>) /\ UNCHANGED putsToAck
        BY <2>3, <3>3 DEF OnPut
      <4>2. status' \in [Writes -> {"new", "pending", "ok", "refused"}]
        BY <1>a, <3>1, <4>1, OneAnswer, Told DEF FieldsOK
      <4>3. FieldsOK'
        BY <1>a, <3>2, <4>2 DEF FieldsOK, link
      <4> QED BY <1>a, <1>5, <3>1, <4>1, <4>3 DEF OutsideOK
    <3>4. CASE unacked # 0
      <4>1. putsToAck' = Append(putsToAck, <<r, v>>) /\ UNCHANGED status
        BY <2>3, <3>4 DEF OnPut
      <4>2. <<r, v>> \in Writes \X {"ok", "refused"}
        BY <3>1
      <4>3. putsToAck' \in Seq(Writes \X {"ok", "refused"})
        BY <1>a, <4>1, <4>2, AppendProperties DEF OutsideOK
      <4>4. FieldsOK'
        BY <1>a, <3>2, <4>1 DEF FieldsOK, link
      <4> QED BY <1>a, <1>5, <3>1, <4>3, <4>4
    <3> QED BY <3>3, <3>4
  <2>4. CASE OnListen
    <3>1. /\ down # <<>> /\ Head(down).kind = "listen" /\ down' = Tail(down)
          /\ unacked' = unacked - 1
          /\ UNCHANGED <<link, puts, up, asked, serving, history, credential, budget>>
          /\ listen' \in {0, listen} /\ cache' \in {cache, Nothing, Unknown}
      BY <2>4 DEF OnListen, Arrives, server
    <3>2. /\ status' \in [Writes -> {"new", "pending", "ok", "refused"}]
          /\ putsToAck' \in Seq(Writes \X {"ok", "refused"})
      <4>1. CASE unacked = 1
        <5>1. Tell(putsToAck) /\ putsToAck' = <<>>
          BY <2>4, <4>1 DEF OnListen, AckPuts
        <5>2. putsToAck \in Seq(Writes \X {"ok", "refused"})
          BY <1>a DEF OutsideOK
        <5>3. status \in [Writes -> {"new", "pending", "ok", "refused"}]
          BY <1>a DEF FieldsOK
        <5>4. status' \in [Writes -> {"new", "pending", "ok", "refused"}]
          BY <5>1, <5>2, <5>3, Told
        <5> QED BY <5>1, <5>4
      <4>2. CASE unacked # 1
        BY <1>a, <2>4, <4>2 DEF OnListen, FieldsOK, OutsideOK
      <4> QED BY <4>1, <4>2
    <3>3. FieldsOK'
      BY <1>a, <3>1, <3>2 DEF FieldsOK, link, Nothing, Unknown
    <3> QED BY <1>5, <3>1, <3>2, <3>3
  <2>5. CASE OnDataUpdate
    <3>1. /\ down # <<>> /\ Head(down).kind = "data" /\ down' = Tail(down)
          /\ UNCHANGED <<link, listen, unacked, puts, status, up, asked, serving, history,
                         credential, budget, putsToAck>>
          /\ cache' \in {cache, Head(down).value}
      BY <2>5 DEF OnDataUpdate, Arrives, server
    <3>2. FieldsOK'
      BY <1>a, <2>a, <3>1, MessageTypes DEF FieldsOK, link
    <3> QED BY <1>a, <1>5, <3>1, <3>2 DEF OutsideOK
  <2>6. CASE OnListenRevoked
    <3>1. /\ down # <<>> /\ Head(down).kind = "listenRevoked" /\ down' = Tail(down)
          /\ UNCHANGED <<link, unacked, puts, status, up, asked, serving, history, credential,
                         budget, putsToAck>>
          /\ listen' = 0 /\ cache' = Unknown
      BY <2>6 DEF OnListenRevoked, Arrives, server
    <3>2. FieldsOK'
      BY <1>a, <3>1 DEF FieldsOK, link
    <3> QED BY <1>a, <1>5, <3>1, <3>2 DEF OutsideOK
  <2>7. CASE OnKill
    <3>1. FieldsOK'
      BY <1>a, <2>7 DEF OnKill, InterruptForReason, Disconnect, FieldsOK, data
    <3> QED BY <1>a, <1>2, <2>7, <3>1 DEF OnKill, InterruptForReason, OutsideOK, data
  <2> QED BY <1>8, <2>1, <2>2, <2>3, <2>4, <2>5, <2>6, <2>7 DEF Receive
<1>9. CASE Server
  <2>a. /\ up \in Seq(UpMessages) /\ down \in Seq(DownMessages) /\ asked \in Seq(Listens)
        /\ up # <<>> => /\ Head(up) \in UpMessages
                        /\ Tail(up) \in Seq(UpMessages)
                        /\ Count(Tail(up), "listen") = Count(up, "listen")
                             - IF Head(up).kind = "listen" THEN 1 ELSE 0
        /\ \A m \in DownMessages :
             /\ Append(down, m) \in Seq(DownMessages)
             /\ Count(Append(down, m), "listen")
                   = Count(down, "listen") + IF m.kind = "listen" THEN 1 ELSE 0
    BY <1>a, Taken, Appended DEF OutsideOK
  <2>1. CASE ServerAuthenticates
    <3> DEFINE m == Msg("auth", Head(up).ref, IF Head(up).value = "good" /\ credential # "stale"
                                               THEN "ok" ELSE "refused")
    <3>1. /\ up # <<>> /\ Head(up).kind = "auth" /\ up' = Tail(up)
          /\ down' = IF Head(up).value = "nil" THEN down ELSE Append(down, m)
          /\ UNCHANGED <<link, listen, unacked, data, server, budget>>
      BY <2>1 DEF ServerAuthenticates, Receives
    <3>2. m \in DownMessages /\ m.kind = "auth"
      BY <2>a, <3>1, MessageTypes DEF DownMessages, Msg
    <3> HIDE DEF m
    <3>3. CountInv'
      BY <1>a, <2>a, <3>1, <3>2 DEF CountInv, server
    <3> QED BY <1>a, <1>6, <2>a, <3>1, <3>2, <3>3 DEF OutsideOK, server
  <2>2. CASE ServerTakesListen
    <3>1. /\ up # <<>> /\ Head(up).kind = "listen" /\ up' = Tail(up)
          /\ asked' = Append(asked, Head(up))
          /\ UNCHANGED <<link, listen, unacked, data, down, serving, history, credential, budget>>
      BY <2>2 DEF ServerTakesListen, Receives
    <3>2. asked' \in Seq(Listens) /\ Len(asked') = Len(asked) + 1
      BY <2>a, <3>1, MessageTypes, AppendProperties
    <3>3. CountInv'
      BY <1>a, <2>a, <3>1, <3>2 DEF CountInv
    <3> QED BY <1>a, <1>6, <2>a, <3>1, <3>2, <3>3 DEF OutsideOK
  <2>3. CASE ServerAnswersListen
    <3>1. /\ asked # <<>> /\ asked' = Tail(asked)
          /\ serving' \in BOOLEAN
          /\ UNCHANGED <<link, listen, unacked, data, up, history, credential>>
      BY <2>3 DEF ServerAnswersListen
    <3>2. /\ Head(asked) \in Listens /\ asked' \in Seq(Listens) /\ Len(asked') = Len(asked) - 1
          /\ Len(asked) \in Nat /\ Head(asked).ref \in Nat
      BY <2>a, <3>1, Taken, MessageTypes
    <3>3. budget' \in [Troubles -> Nat]
      BY <1>a, <1>b, <2>3 DEF ServerAnswersListen, OutsideOK, Troubles
    <3>4. down' \in Seq(DownMessages) /\ Count(down', "listen") = Count(down, "listen") + 1
      <4> DEFINE yes == Msg("listen", Head(asked).ref, "ok")
                 no == Msg("listen", Head(asked).ref, "refused")
                 now == Msg("data", 0, Stored)
      <4>1. /\ yes \in DownMessages /\ no \in DownMessages /\ now \in DownMessages
            /\ yes.kind = "listen" /\ no.kind = "listen" /\ now.kind = "data"
        <5>1. Stored \in Nat
          BY <1>a, ElementOfSeq, EmptySeq, LenProperties DEF OutsideOK, Stored, Last
        <5> QED BY <3>2, <5>1 DEF DownMessages, Msg
      <4>2. \/ down' = down \o <<>> \o <<yes>>
            \/ down' = down \o <<now>> \o <<yes>>
            \/ down' = Append(down, no)
        BY <2>3 DEF ServerAnswersListen
      <4> HIDE DEF yes, no, now
      <4>3. down \o <<>> = down /\ down \o <<now>> = Append(down, now)
        BY <2>a, <4>1, ConcatEmptySeq, AppendIsConcat
      <4>4. Append(down, now) \o <<yes>> = Append(Append(down, now), yes)
            /\ down \o <<yes>> = Append(down, yes)
        BY <2>a, <4>1, AppendIsConcat
      <4>5. \/ down' = Append(down, yes) \/ down' = Append(Append(down, now), yes)
            \/ down' = Append(down, no)
        BY <4>2, <4>3, <4>4
      <4>6. /\ Append(Append(down, now), yes) \in Seq(DownMessages)
            /\ Count(Append(Append(down, now), yes), "listen") = Count(Append(down, now), "listen") + 1
            /\ Count(Append(down, now), "listen") = Count(down, "listen")
        <5>1. /\ Append(down, now) \in Seq(DownMessages)
              /\ Count(Append(down, now), "listen") = Count(down, "listen")
          BY <2>a, <4>1, AppendedOther
        <5> DEFINE pushed == Append(down, now)
        <5>2. pushed \in Seq(DownMessages)
          BY <5>1
        <5> HIDE DEF pushed
        <5>3. /\ Append(pushed, yes) \in Seq(DownMessages)
              /\ Count(Append(pushed, yes), "listen") = Count(pushed, "listen") + 1
          BY <4>1, <5>2, Appended
        <5> QED BY <5>1, <5>3 DEF pushed
      <4> QED BY <2>a, <4>1, <4>5, <4>6
    <3>5. CountInv'
      BY <1>a, <3>1, <3>2, <3>4 DEF CountInv
    <3> QED BY <1>a, <1>6, <3>1, <3>2, <3>3, <3>4, <3>5 DEF OutsideOK
  <2>4. CASE ServerUnlistens
    <3> DEFINE answers == [i \in DOMAIN asked |-> Msg("listen", asked[i].ref, "ok")]
    <3>1. /\ up # <<>> /\ Head(up).kind = "unlisten" /\ up' = Tail(up)
          /\ serving' = FALSE /\ asked' = <<>> /\ down' = down \o answers
          /\ UNCHANGED <<link, listen, unacked, data, history, credential, budget>>
      BY <2>4 DEF ServerUnlistens, Receives
    <3>2. DOMAIN asked = 1..Len(asked) /\ Len(asked) \in Nat /\ \A i \in DOMAIN asked : asked[i] \in Listens
      BY <2>a, LenProperties, ElementOfSeq
    <3>3. /\ answers \in [1..Len(asked) -> DownMessages]
          /\ \A i \in 1..Len(asked) : answers[i].kind = "listen"
      <4>1. \A i \in 1..Len(asked) : Msg("listen", asked[i].ref, "ok") \in DownMessages
        BY <3>2, MessageTypes DEF Msg, DownMessages
      <4> QED BY <3>2, <4>1 DEF Msg
    <3>4. DOMAIN answers = 1..Len(asked)
      BY <3>2
    <3> HIDE DEF answers
    <3>5. answers \in Seq(DownMessages)
      BY <3>2, <3>3, SeqDef
    <3>6. Count(answers, "listen") = Len(asked)
      <4>1. Of(answers, "listen") = 1..Len(asked)
        BY <3>3, <3>4 DEF Of
      <4>2. Cardinality(1..Len(asked)) = Len(asked)
        BY <3>2, FS_Interval
      <4> QED BY <3>5, <4>1, <4>2, CountIsNat
    <3>7. down' \in Seq(DownMessages) /\ Count(down', "listen") = Count(down, "listen") + Len(asked)
      BY <2>a, <3>1, <3>5, <3>6, ConcatProperties, CountOfBoth
    <3>8. asked' \in Seq(Listens) /\ Len(asked') = 0
      BY <3>1, EmptySeq
    <3>9. CountInv'
      BY <1>a, <2>a, <3>1, <3>7, <3>8 DEF CountInv
    <3> QED BY <1>a, <1>6, <2>a, <3>1, <3>7, <3>8, <3>9 DEF OutsideOK
  <2>5. CASE ServerPuts
    <3> DEFINE yes == Msg("put", Head(up).ref, "ok")
               no == Msg("put", Head(up).ref, "refused")
               now == Msg("data", 0, Head(up).ref)
    <3>1. /\ up # <<>> /\ Head(up).kind = "put" /\ up' = Tail(up)
          /\ UNCHANGED <<link, listen, unacked, data, asked, serving, credential>>
          /\ \/ /\ history' = Append(history, Head(up).ref) /\ UNCHANGED budget
                /\ down' = Append(down, yes) \/ down' = Append(Append(down, now), yes)
             \/ /\ UNCHANGED history /\ Spend("refusals") /\ down' = Append(down, no)
      BY <2>5 DEF ServerPuts, Receives, Push
    <3>2. Head(up).ref \in Writes /\ Head(up).ref \in Nat
      <4>1. Head(up) \in UpMessages /\ Head(up).kind = "put"
        BY <2>a, <3>1
      <4>2. Head(up).ref \in Writes
        BY <4>1, MessageTypes
      <4> QED BY <4>2, WritesAreNumbers
    <3>3. /\ yes \in DownMessages /\ no \in DownMessages /\ now \in DownMessages
          /\ yes.kind = "put" /\ no.kind = "put" /\ now.kind = "data"
      BY <3>2 DEF DownMessages, Msg
    <3> HIDE DEF yes, no, now
    <3>4. /\ Append(Append(down, now), yes) \in Seq(DownMessages)
          /\ Count(Append(Append(down, now), yes), "listen") = Count(Append(down, now), "listen")
          /\ Count(Append(down, now), "listen") = Count(down, "listen")
      <4>1. /\ Append(down, now) \in Seq(DownMessages)
            /\ Count(Append(down, now), "listen") = Count(down, "listen")
        BY <2>a, <3>3, AppendedOther
      <4> DEFINE pushed == Append(down, now)
      <4>2. pushed \in Seq(DownMessages)
        BY <4>1
      <4> HIDE DEF pushed
      <4>3. /\ Append(pushed, yes) \in Seq(DownMessages)
            /\ Count(Append(pushed, yes), "listen") = Count(pushed, "listen")
        BY <3>3, <4>2, AppendedOther
      <4> QED BY <4>1, <4>3 DEF pushed
    <3>5. down' \in Seq(DownMessages) /\ Count(down', "listen") = Count(down, "listen")
      BY <1>a, <2>a, <3>1, <3>3, <3>4
    <3>6. history' \in Seq(Nat) /\ history' # <<>>
      <4>1. history \in Seq(Nat) /\ history # <<>>
        BY <1>a DEF OutsideOK
      <4> DEFINE r == Head(up).ref
      <4>2. r \in Nat /\ (history' = history \/ history' = Append(history, r))
        BY <3>1, <3>2
      <4> HIDE DEF r
      <4>3. Append(history, r) \in Seq(Nat) /\ Append(history, r) # <<>>
        BY <4>1, <4>2, AppendProperties
      <4> QED BY <4>1, <4>2, <4>3
    <3>7. budget' \in [Troubles -> Nat]
      BY <1>a, <1>b, <3>1 DEF OutsideOK, Troubles
    <3>8. CountInv'
      BY <1>a, <2>a, <3>1, <3>5 DEF CountInv
    <3> QED BY <1>a, <1>6, <2>a, <3>1, <3>5, <3>6, <3>7, <3>8 DEF OutsideOK
  <2> QED BY <1>9, <2>1, <2>2, <2>3, <2>4, <2>5 DEF Server
<1>10. CASE Program
  <2>1. CASE Observe
    <3> DEFINE m == Msg("listen", listen', Nothing)
    <3>1. /\ listen' \in Nat /\ budget' \in [Troubles -> Nat]
          /\ UNCHANGED <<link, data, down, server>>
      BY <1>b, <2>1 DEF Observe, Troubles
    <3>2. FieldsOK'
      BY <1>a, <3>1 DEF FieldsOK, link, data
    <3>3. CASE Connected
      <4>1. up' = Append(up, m) /\ unacked' = unacked + 1
        BY <2>1, <3>3 DEF Observe
      <4>2. m \in UpMessages /\ m.kind = "listen"
        BY <3>1 DEF UpMessages, Listens, Msg, Nothing
      <4> HIDE DEF m
      <4> QED BY <1>a, <1>3, <3>1, <3>2, <4>1, <4>2 DEF OutsideOK, server, data
    <3>4. CASE ~Connected
      BY <1>a, <1>1, <2>1, <3>1, <3>2, <3>4 DEF Observe, OutsideOK, server, data, network
    <3> QED BY <3>3, <3>4
  <2>2. CASE RemoveObserver
    <3>1. /\ budget' \in [Troubles -> Nat] /\ listen' = 0 /\ cache' = Unknown
          /\ UNCHANGED <<link, unacked, puts, putsToAck, status, down, server>>
      BY <1>b, <2>2 DEF RemoveObserver, Troubles
    <3>2. FieldsOK'
      BY <1>a, <3>1 DEF FieldsOK, link
    <3>3. CASE Connected
      <4>1. up' = Append(up, Msg("unlisten", 0, 0))
        BY <2>2, <3>3 DEF RemoveObserver
      <4>2. Msg("unlisten", 0, 0) \in UpMessages /\ Msg("unlisten", 0, 0).kind = "unlisten"
        BY DEF UpMessages, Msg
      <4> QED BY <1>a, <1>3, <3>1, <3>2, <4>1, <4>2 DEF OutsideOK, server
    <3>4. CASE ~Connected
      BY <1>a, <1>1, <2>2, <3>1, <3>2, <3>4 DEF RemoveObserver, OutsideOK, server, network
    <3> QED BY <3>3, <3>4
  <2>3. CASE Interrupt
    <3>1. FieldsOK'
      BY <1>a, <2>3 DEF Interrupt, InterruptForReason, Disconnect, FieldsOK, data
    <3>2. budget' \in [Troubles -> Nat]
      BY <1>b, <2>3 DEF Interrupt, Troubles
    <3> QED BY <1>a, <1>2, <2>3, <3>1, <3>2 DEF Interrupt, InterruptForReason, OutsideOK, data
  <2>4. CASE Resume
    <3>1. FieldsOK'
      BY <1>a, <2>4 DEF Resume, FieldsOK, data
    <3> QED BY <1>a, <1>1, <2>4, <3>1 DEF Resume, OutsideOK, server, data
  <2>5. CASE RefreshAuthToken
    <3>1. PICK new \in {"nil", "good"} :
            /\ credential' = new /\ token' = new
            /\ up' = IF Connected THEN Append(up, Msg("auth", FALSE, new)) ELSE up
      BY <2>5 DEF RefreshAuthToken
    <3>2. /\ budget' \in [Troubles -> Nat]
          /\ UNCHANGED <<conn, interrupts, retry, fetch, force, listen, unacked, data, down,
                         asked, serving, history>>
      BY <1>b, <2>5 DEF RefreshAuthToken, Troubles
    <3>3. FieldsOK'
      BY <1>a, <3>1, <3>2 DEF FieldsOK, data
    <3>4. CASE Connected
      <4> DEFINE m == Msg("auth", FALSE, new)
      <4>1. m \in UpMessages /\ m.kind = "auth"
        BY <3>1 DEF UpMessages, Msg
      <4>2. up' = Append(up, m)
        BY <3>1, <3>4
      <4>3. UNCHANGED <<unacked, down, asked, serving, history, putsToAck>>
        BY <3>2 DEF data
      <4>4. credential' \in {"nil", "good", "stale"}
        BY <3>1
      <4> HIDE DEF m
      <4> QED BY <1>a, <1>3, <3>2, <3>3, <4>1, <4>2, <4>3, <4>4
    <3>5. CASE ~Connected
      BY <1>a, <1>1, <3>1, <3>2, <3>3, <3>5 DEF data, network
    <3> QED BY <3>4, <3>5
  <2>6. CASE \E w \in Writes : SetValue(w)
    <3>1. PICK w \in Writes : SetValue(w)
      BY <2>6
    <3>2. UNCHANGED <<link, listen, unacked, putsToAck, cache, down, server, budget>>
      BY <3>1 DEF SetValue
    <3>3. FieldsOK'
      BY <1>a, <3>1, <3>2 DEF SetValue, FieldsOK, link
    <3>4. CASE CanSendWrites
      <4>1. PutRequest(w) \in UpMessages /\ PutRequest(w).kind = "put"
        BY DEF UpMessages, PutRequest, Msg
      <4>2. up' = Append(up, PutRequest(w))
        BY <3>1, <3>4 DEF SetValue
      <4> QED BY <1>a, <1>3, <3>2, <3>3, <4>1, <4>2 DEF OutsideOK, server
    <3>5. CASE ~CanSendWrites
      BY <1>a, <1>1, <3>1, <3>2, <3>3, <3>5 DEF SetValue, OutsideOK, server, network
    <3> QED BY <3>4, <3>5
  <2> QED BY <1>10, <2>1, <2>2, <2>3, <2>4, <2>5, <2>6 DEF Program
<1>11. CASE Trouble
  <2>1. CASE FetchFails
    <3>1. FieldsOK'
      BY <1>a, <2>1 DEF FetchFails, TryScheduleReconnect, FieldsOK, data
    <3>2. budget' \in [Troubles -> Nat]
      BY <1>b, <2>1 DEF FetchFails, Troubles
    <3> QED BY <1>a, <1>1, <2>1, <3>1, <3>2 DEF FetchFails, OutsideOK, server, data
  <2>2. CASE OnDisconnect
    <3>1. FieldsOK'
      BY <1>a, <2>2 DEF OnDisconnect, Disconnect, TryScheduleReconnect, FieldsOK, data
    <3>2. budget' \in [Troubles -> Nat]
      BY <1>b, <2>2 DEF OnDisconnect, Troubles
    <3> QED BY <1>a, <1>2, <2>2, <3>1, <3>2 DEF OnDisconnect, OutsideOK, data
  <2>3. CASE EnteringForeground
    <3>1. FieldsOK'
      BY <1>a, <2>3 DEF EnteringForeground, TryScheduleReconnect, FieldsOK, data
    <3>2. budget' \in [Troubles -> Nat]
      BY <1>b, <2>3 DEF EnteringForeground, Troubles
    <3> QED BY <1>a, <1>1, <2>3, <3>1, <3>2 DEF EnteringForeground, OutsideOK, server, data
  <2>4. CASE OtherDeviceWrites
    <3>1. PICK value \in Others : history' = Append(history, value) /\ down' = Push(value)
      BY <2>4 DEF OtherDeviceWrites
    <3>2. /\ budget' \in [Troubles -> Nat]
          /\ UNCHANGED <<link, listen, unacked, data, up, asked, serving, credential>>
      BY <1>b, <2>4 DEF OtherDeviceWrites, Troubles
    <3>3. value \in Nat
      BY OthersAssumption
    <3>4. Msg("data", 0, value) \in DownMessages /\ Msg("data", 0, value).kind = "data"
      BY <3>3 DEF DownMessages, Msg
    <3>5. down' \in Seq(DownMessages) /\ Count(down', "listen") = Count(down, "listen")
      <4> DEFINE m == Msg("data", 0, value)
      <4>1. down' = down \/ down' = Append(down, m)
        BY <3>1 DEF Push
      <4>2. down \in Seq(DownMessages)
        BY <1>a DEF OutsideOK
      <4>3. m \in DownMessages /\ m.kind # "listen"
        BY <3>4
      <4> HIDE DEF m
      <4>4. Append(down, m) \in Seq(DownMessages) /\ Count(Append(down, m), "listen") = Count(down, "listen")
        BY <4>2, <4>3, AppendedOther
      <4> QED BY <4>1, <4>2, <4>4
    <3>6. history' \in Seq(Nat) /\ history' # <<>>
      <4>1. history \in Seq(Nat)
        BY <1>a DEF OutsideOK
      <4> QED BY <3>1, <3>3, <4>1, AppendProperties
    <3>7. CountInv'
      BY <1>a, <3>2, <3>5 DEF CountInv
    <3> QED BY <1>a, <1>6, <3>2, <3>5, <3>6, <3>7 DEF OutsideOK
  <2>5. CASE ServerRevokes
    <3>1. /\ budget' \in [Troubles -> Nat]
          /\ UNCHANGED <<link, listen, unacked, data, up, asked, history>>
          /\ serving' \in BOOLEAN /\ credential' \in {"nil", "good", "stale"}
      BY <1>a, <1>b, <2>5 DEF ServerRevokes, OutsideOK, Troubles
    <3>2. PICK kind \in {"listenRevoked", "authRevoked", "kill"} : down' = Append(down, Msg(kind, 0, 0))
      BY <2>5 DEF ServerRevokes
    <3> DEFINE m == Msg(kind, 0, 0)
    <3>3. m \in DownMessages /\ m.kind # "listen" /\ down' = Append(down, m)
      BY <3>2 DEF DownMessages, Msg
    <3>a. down \in Seq(DownMessages)
      BY <1>a DEF OutsideOK
    <3> HIDE DEF m
    <3>4. down' \in Seq(DownMessages) /\ Count(down', "listen") = Count(down, "listen")
      BY <3>3, <3>a, AppendedOther
    <3>5. CountInv'
      BY <1>a, <3>1, <3>4 DEF CountInv
    <3> QED BY <1>a, <1>6, <3>1, <3>4, <3>5 DEF OutsideOK
  <2>6. CASE TokenExpires
    <3>1. FieldsOK'
      BY <1>a, <2>6 DEF TokenExpires, FieldsOK, link, data
    <3>2. budget' \in [Troubles -> Nat]
      BY <1>b, <2>6 DEF TokenExpires, Troubles
    <3> QED BY <1>a, <1>1, <2>6, <3>1, <3>2 DEF TokenExpires, OutsideOK, data
  <2> QED BY <1>11, <2>1, <2>2, <2>3, <2>4, <2>5, <2>6 DEF Trouble
<1>12. CASE UNCHANGED vars
  <2>1. FieldsOK'
    BY <1>a, <1>12 DEF vars, link, data, FieldsOK
  <2> QED BY <1>a, <1>1, <1>12, <2>1 DEF vars, data, server, OutsideOK
<1> QED BY <1>7, <1>8, <1>9, <1>10, <1>11, <1>12 DEF Next

-----------------------------------------------------------------------------
(* Authentication.                                                         *)

\* What is in a sequence that got an item, another sequence behind it, or lost its head.
LEMMA RangeAfter ==
    ASSUME NEW M, NEW s \in Seq(M)
    PROVE  /\ Range(s) \subseteq M
           /\ \A m \in M : Range(Append(s, m)) = Range(s) \cup {m}
           /\ \A t \in Seq(M) : Range(s \o t) = Range(s) \cup Range(t)
           /\ s # <<>> => /\ Range(s) = Range(Tail(s)) \cup {Head(s)}
<1>1. DOMAIN s = 1..Len(s) /\ Len(s) \in Nat /\ \A i \in 1..Len(s) : s[i] \in M
  BY LenProperties, ElementOfSeq
<1>2. Range(s) \subseteq M
  BY <1>1 DEF Range
<1>3. ASSUME NEW t \in Seq(M) PROVE Range(s \o t) = Range(s) \cup Range(t)
  <2> DEFINE n == Len(s)
             k == Len(t)
  <2>1. /\ k \in Nat /\ DOMAIN t = 1..k
        /\ DOMAIN (s \o t) = 1..(n + k)
        /\ \A i \in 1..(n + k) : (s \o t)[i] = IF i <= n THEN s[i] ELSE t[i - n]
    BY <1>3, ConcatProperties, LenProperties
  <2>2. n \in Nat /\ DOMAIN s = 1..n
    BY <1>1
  <2> HIDE DEF n, k
  <2>3. ASSUME NEW m \in Range(s) PROVE m \in Range(s \o t)
    <3>1. PICK i \in 1..n : s[i] = m
      BY <2>2, <2>3 DEF Range
    <3>2. i \in 1..(n + k) /\ (s \o t)[i] = m
      BY <2>1, <2>2, <3>1
    <3> QED BY <2>1, <3>2 DEF Range
  <2>4. ASSUME NEW m \in Range(t) PROVE m \in Range(s \o t)
    <3>1. PICK i \in 1..k : t[i] = m
      BY <2>1, <2>4 DEF Range
    <3>2. n + i \in 1..(n + k) /\ (s \o t)[n + i] = m
      BY <2>1, <2>2, <3>1
    <3> QED BY <2>1, <3>2 DEF Range
  <2>5. ASSUME NEW m \in Range(s \o t) PROVE m \in Range(s) \cup Range(t)
    <3>1. PICK i \in 1..(n + k) : (s \o t)[i] = m
      BY <2>1, <2>5 DEF Range
    <3>2. CASE i <= n
      <4>1. i \in 1..n /\ s[i] = m
        BY <2>1, <2>2, <3>1, <3>2
      <4> QED BY <2>2, <4>1 DEF Range
    <3>3. CASE i > n
      <4>1. i - n \in 1..k /\ t[i - n] = m
        BY <2>1, <2>2, <3>1, <3>3
      <4> QED BY <2>1, <4>1 DEF Range
    <3> QED BY <2>2, <3>2, <3>3
  <2> QED BY <2>3, <2>4, <2>5
<1>4. ASSUME NEW m \in M PROVE Range(Append(s, m)) = Range(s) \cup {m}
  <2>1. Append(s, m) = s \o <<m>> /\ <<m>> \in Seq(M)
    BY <1>4, AppendIsConcat
  <2>2. Range(<<m>>) = {m}
    BY DEF Range
  <2> DEFINE one == <<m>>
  <2>3. one \in Seq(M) /\ Append(s, m) = s \o one /\ Range(one) = {m}
    BY <2>1, <2>2
  <2> HIDE DEF one
  <2> QED BY <1>3, <2>3
<1>5. s # <<>> => /\ Range(s) = Range(Tail(s)) \cup {Head(s)}
  <2> SUFFICES ASSUME s # <<>> PROVE Range(s) = Range(Tail(s)) \cup {Head(s)}
    OBVIOUS
  <2>1. /\ Len(s) \in Nat \ {0} /\ DOMAIN s = 1..Len(s) /\ Head(s) = s[1]
        /\ DOMAIN Tail(s) = 1..(Len(s) - 1)
        /\ \A i \in DOMAIN Tail(s) : i + 1 \in DOMAIN s /\ Tail(s)[i] = s[i + 1]
    BY Taken
  <2>2. Range(Tail(s)) \cup {Head(s)} \subseteq Range(s)
    BY <2>1 DEF Range
  <2>3. ASSUME NEW m \in Range(s), m # Head(s) PROVE m \in Range(Tail(s))
    <3>1. PICK i \in 1..Len(s) : s[i] = m
      BY <2>1 DEF Range
    <3>2. i - 1 \in DOMAIN Tail(s)
      BY <2>1, <2>3, <3>1
    <3>3. Tail(s)[i - 1] = s[(i - 1) + 1] /\ (i - 1) + 1 = i
      BY <2>1, <3>1, <3>2
    <3> QED BY <3>1, <3>2, <3>3 DEF Range
  <2> QED BY <2>2, <2>3
<1> QED BY <1>2, <1>3, <1>4, <1>5

\* The first answer stays the first when other messages follow it.
LEMMA FirstBefore ==
    ASSUME NEW M, NEW s \in Seq(M), NEW t \in Seq(M), NoFirst(t), OneFirst(s)
    PROVE  OneFirst(s \o t)
<1> DEFINE n == Len(s)
           k == Len(t)
<1>1. /\ k \in Nat /\ DOMAIN t = 1..k /\ n \in Nat /\ DOMAIN s = 1..n
      /\ DOMAIN (s \o t) = 1..(n + k)
      /\ \A i \in 1..(n + k) : (s \o t)[i] = IF i <= n THEN s[i] ELSE t[i - n]
  BY ConcatProperties, LenProperties
<1> HIDE DEF n, k
<1>2. PICK i \in 1..n : /\ IsFirst(s[i])
                        /\ \A j \in 1..n : j # i => ~IsFirst(s[j])
                        /\ \A j \in 1..n : j < i => s[j].kind # "auth"
  BY <1>1 DEF OneFirst
<1>3. i \in 1..(n + k) /\ (s \o t)[i] = s[i]
  BY <1>1
<1>4. ASSUME NEW j \in 1..(n + k), j # i PROVE ~IsFirst((s \o t)[j])
  <2>1. CASE j <= n
    <3>1. j \in 1..n /\ (s \o t)[j] = s[j]
      BY <1>1, <2>1
    <3> QED BY <1>2, <1>4, <3>1
  <2>2. CASE j > n
    <3>1. j - n \in DOMAIN t /\ (s \o t)[j] = t[j - n]
      BY <1>1, <2>2
    <3>2. t[j - n] \in Range(t)
      BY <3>1 DEF Range
    <3> QED BY <3>1, <3>2 DEF NoFirst
  <2> QED BY <1>1, <2>1, <2>2
<1>5. ASSUME NEW j \in 1..(n + k), j < i PROVE (s \o t)[j].kind # "auth"
  <2>1. j \in 1..n /\ (s \o t)[j] = s[j]
    BY <1>1, <1>5
  <2> QED BY <1>2, <1>5, <2>1
<1> QED BY <1>1, <1>2, <1>3, <1>4, <1>5 DEF OneFirst

\* It is the first answer when no message of its kind is before it.
LEMMA FirstAdded ==
    ASSUME NEW M, NEW s \in Seq(M), NEW m \in M, NoAuth(s), IsFirst(m)
    PROVE  OneFirst(Append(s, m))
<1>1. /\ DOMAIN Append(s, m) = 1..(Len(s) + 1) /\ DOMAIN s = 1..Len(s) /\ Len(s) \in Nat
      /\ \A i \in DOMAIN s : Append(s, m)[i] = s[i]
      /\ Append(s, m)[Len(s) + 1] = m
  BY Appended
<1>2. \A i \in DOMAIN s : s[i].kind # "auth"
  BY DEF NoAuth, Range
<1>3. \A i \in 1..(Len(s) + 1) : i # Len(s) + 1 => i \in DOMAIN s
  BY <1>1
<1>4. \A i \in 1..(Len(s) + 1) : i # Len(s) + 1 => Append(s, m)[i].kind # "auth"
  BY <1>1, <1>2, <1>3
<1>5. Len(s) + 1 \in 1..(Len(s) + 1) /\ \A i \in 1..(Len(s) + 1) : i < Len(s) + 1 => i # Len(s) + 1
  BY <1>1
<1> QED BY <1>1, <1>4, <1>5 DEF OneFirst, IsFirst

\* The message that leaves is the first answer, or no answer at all.
LEMMA FirstTaken ==
    ASSUME NEW M, NEW s \in Seq(M), OneFirst(s)
    PROVE  /\ s # <<>>
           /\ IsFirst(Head(s)) => NoFirst(Tail(s))
           /\ ~IsFirst(Head(s)) => OneFirst(Tail(s)) /\ Head(s).kind # "auth"
<1>1. PICK i \in DOMAIN s : /\ IsFirst(s[i])
                            /\ \A j \in DOMAIN s : j # i => ~IsFirst(s[j])
                            /\ \A j \in DOMAIN s : j < i => s[j].kind # "auth"
  BY DEF OneFirst
<1>2. s # <<>>
  BY <1>1
<1>3. /\ Len(s) \in Nat \ {0} /\ DOMAIN s = 1..Len(s) /\ Head(s) = s[1]
      /\ DOMAIN Tail(s) = 1..(Len(s) - 1)
      /\ \A j \in DOMAIN Tail(s) : j + 1 \in DOMAIN s /\ Tail(s)[j] = s[j + 1]
  BY <1>2, Taken
<1>4. ASSUME IsFirst(Head(s)) PROVE NoFirst(Tail(s))
  <2>1. i = 1
    BY <1>1, <1>3, <1>4
  <2>2. \A j \in DOMAIN Tail(s) : ~IsFirst(Tail(s)[j])
    BY <1>1, <1>3, <2>1
  <2> QED BY <2>2 DEF NoFirst, Range
<1>5. ASSUME ~IsFirst(Head(s)) PROVE OneFirst(Tail(s)) /\ Head(s).kind # "auth"
  <2>1. i # 1 /\ 1 < i /\ 1 \in DOMAIN s
    BY <1>1, <1>3, <1>5
  <2>2. i - 1 \in DOMAIN Tail(s) /\ Tail(s)[i - 1] = s[i]
    <3>1. i - 1 \in DOMAIN Tail(s) /\ (i - 1) + 1 = i
      BY <1>3, <2>1
    <3> QED BY <1>3, <3>1
  <2>3. \A j \in DOMAIN Tail(s) : j # i - 1 => j + 1 # i
    BY <1>3
  <2>4. \A j \in DOMAIN Tail(s) : j < i - 1 => j + 1 < i
    BY <1>3
  <2>5. Head(s).kind # "auth"
    BY <1>1, <1>3, <2>1
  <2>6. \A j \in DOMAIN Tail(s) : j # i - 1 => ~IsFirst(Tail(s)[j])
    BY <1>1, <1>3, <2>3
  <2>7. \A j \in DOMAIN Tail(s) : j < i - 1 => Tail(s)[j].kind # "auth"
    BY <1>1, <1>3, <2>4
  <2>8. IsFirst(Tail(s)[i - 1])
    BY <1>1, <2>2
  <2>9. OneFirst(Tail(s))
    BY <2>2, <2>6, <2>7, <2>8 DEF OneFirst
  <2> QED BY <2>5, <2>9
<1> QED BY <1>2, <1>4, <1>5

\* A sequence of one message.
LEMMA Alone ==
    ASSUME NEW M, NEW s \in Seq(M), NEW m \in M
    PROVE  <<m>> \in Seq(M) /\ Range(<<m>>) = {m} /\ Append(s, m) = s \o <<m>>
<1>1. Append(s, m) = s \o <<m>>
  BY AppendIsConcat
<1>2. Range(<<m>>) = {m}
  BY DEF Range
<1> QED BY <1>1, <1>2

\* What the server sends besides the answers to "auth" and to puts.
LEMMA Said ==
    ASSUME TypeInv, ServerAnswersListen \/ ServerUnlistens \/ OtherDeviceWrites \/ ServerRevokes
    PROVE  \E t \in Seq(DownMessages) :
              down' = down \o t /\ \A m \in Range(t) : m.kind # "auth" /\ m.kind # "put"
<1>a. /\ up \in Seq(UpMessages) /\ down \in Seq(DownMessages) /\ asked \in Seq(Listens)
      /\ history \in Seq(Nat) /\ history # <<>>
  BY DEF TypeInv, OutsideOK
<1>1. <<>> \in Seq(DownMessages) /\ Range(<<>>) = {} /\ down = down \o <<>>
  BY <1>a, ConcatEmptySeq DEF Range
<1>2. ASSUME NEW m \in DownMessages, m.kind # "auth", m.kind # "put", down' = Append(down, m)
      PROVE  \E t \in Seq(DownMessages) :
              down' = down \o t /\ \A n \in Range(t) : n.kind # "auth" /\ n.kind # "put"
  <2> DEFINE one == <<m>>
  <2>1. one \in Seq(DownMessages) /\ Range(one) = {m} /\ down' = down \o one
    BY <1>a, <1>2, Alone
  <2> HIDE DEF one
  <2> QED BY <1>2, <2>1
<1>3. CASE ServerAnswersListen
  <2> DEFINE yes == Msg("listen", Head(asked).ref, "ok")
             no == Msg("listen", Head(asked).ref, "refused")
             now == Msg("data", 0, Stored)
  <2>1. Stored \in Nat
    BY <1>a, ElementOfSeq, EmptySeq, LenProperties DEF Stored, Last
  <2>2. asked # <<>> /\ Head(asked) \in Listens
    BY <1>a, <1>3, Taken DEF ServerAnswersListen
  <2>3. Head(asked).ref \in Nat
    BY <2>2, MessageTypes
  <2>4. /\ yes \in DownMessages /\ no \in DownMessages /\ now \in DownMessages
        /\ yes.kind = "listen" /\ no.kind = "listen" /\ now.kind = "data"
    BY <2>1, <2>3 DEF DownMessages, Msg
  <2>5. \/ down' = down \o <<>> \o <<yes>>
        \/ down' = down \o <<now>> \o <<yes>>
        \/ down' = Append(down, no)
    BY <1>3 DEF ServerAnswersListen
  <2> HIDE DEF yes, no, now
  <2>6. CASE down' = down \o <<>> \o <<yes>>
    <3>1. down' = Append(down, yes)
      BY <1>1, <1>a, <2>4, <2>6, Alone
    <3> QED BY <1>2, <2>4, <3>1
  <2>7. CASE down' = down \o <<now>> \o <<yes>>
    <3> DEFINE n == <<now>>
               y == <<yes>>
    <3>1. /\ n \in Seq(DownMessages) /\ Range(n) = {now}
          /\ y \in Seq(DownMessages) /\ Range(y) = {yes}
      BY <1>a, <2>4, Alone
    <3>2. down' = (down \o n) \o y
      BY <2>7
    <3> HIDE DEF n, y
    <3>3. down' = down \o (n \o y) /\ n \o y \in Seq(DownMessages)
      <4>1. down \in Seq(DownMessages) /\ n \in Seq(DownMessages) /\ y \in Seq(DownMessages)
        BY <1>a, <3>1
      <4>2. n \o y \in Seq(DownMessages)
        BY <4>1, ConcatProperties
      <4>3. (down \o n) \o y = down \o (n \o y)
        BY <4>1, ConcatAssociative
      <4> QED BY <3>2, <4>2, <4>3
    <3>4. Range(n \o y) = {now, yes}
      BY <3>1, RangeAfter
    <3> QED BY <2>4, <3>3, <3>4
  <2>8. CASE down' = Append(down, no)
    BY <1>2, <2>4, <2>8
  <2> QED BY <2>5, <2>6, <2>7, <2>8
<1>4. CASE ServerUnlistens
  <2> DEFINE answers == [i \in DOMAIN asked |-> Msg("listen", asked[i].ref, "ok")]
  <2>1. DOMAIN asked = 1..Len(asked) /\ Len(asked) \in Nat /\ \A i \in DOMAIN asked : asked[i] \in Listens
    BY <1>a, LenProperties, ElementOfSeq
  <2>2. \A i \in 1..Len(asked) : Msg("listen", asked[i].ref, "ok") \in DownMessages
    BY <2>1, MessageTypes DEF Msg, DownMessages
  <2>3. /\ answers \in [1..Len(asked) -> DownMessages] /\ DOMAIN answers = 1..Len(asked)
        /\ \A i \in 1..Len(asked) : answers[i].kind = "listen"
    BY <2>1, <2>2 DEF Msg
  <2>4. down' = down \o answers
    BY <1>4 DEF ServerUnlistens
  <2> HIDE DEF answers
  <2>5. answers \in Seq(DownMessages)
    BY <2>1, <2>3, SeqDef
  <2>6. \A m \in Range(answers) : m.kind = "listen"
    BY <2>3 DEF Range
  <2> QED BY <2>4, <2>5, <2>6
<1>5. CASE OtherDeviceWrites
  <2>1. PICK value \in Others : down' = Push(value)
    BY <1>5 DEF OtherDeviceWrites
  <2> DEFINE m == Msg("data", 0, value)
  <2>2. m \in DownMessages /\ m.kind = "data"
    BY OthersAssumption DEF DownMessages, Msg
  <2>3. down' = down \/ down' = Append(down, m)
    BY <2>1 DEF Push
  <2> HIDE DEF m
  <2> QED BY <1>1, <1>2, <2>2, <2>3
<1>6. CASE ServerRevokes
  <2>1. PICK kind \in {"listenRevoked", "authRevoked", "kill"} : down' = Append(down, Msg(kind, 0, 0))
    BY <1>6 DEF ServerRevokes
  <2> DEFINE m == Msg(kind, 0, 0)
  <2>2. m \in DownMessages /\ m.kind # "auth" /\ m.kind # "put" /\ down' = Append(down, m)
    BY <2>1 DEF DownMessages, Msg
  <2> HIDE DEF m
  <2> QED BY <1>2, <2>2
<1> QED BY <1>3, <1>4, <1>5, <1>6

\* What the server sends when it takes a put.
LEMMA PutTaken ==
    ASSUME TypeInv, ServerPuts
    PROVE  \E m \in DownMessages, t \in Seq(DownMessages) :
              /\ up # <<>> /\ up' = Tail(up) /\ Head(up) \in UpMessages /\ Head(up).kind = "put"
              /\ Head(up).ref \in Writes
              /\ m.kind = "put" /\ m.ref = Head(up).ref
              /\ \A n \in Range(t) : n.kind = "data"
              /\ down' = Append(down \o t, m)
              /\ \/ m.value = "ok" /\ history' = Append(history, Head(up).ref)
                 \/ m.value = "refused" /\ UNCHANGED history
<1>a. up \in Seq(UpMessages) /\ down \in Seq(DownMessages)
  BY DEF TypeInv, OutsideOK
<1>1. up # <<>> /\ up' = Tail(up) /\ Head(up).kind = "put"
  BY DEF ServerPuts, Receives
<1>2. Head(up) \in UpMessages
  BY <1>a, <1>1, Taken
<1>3. Head(up).ref \in Writes /\ Head(up).ref \in Nat
  BY <1>1, <1>2, MessageTypes, WritesAreNumbers
<1> DEFINE yes == Msg("put", Head(up).ref, "ok")
           no == Msg("put", Head(up).ref, "refused")
           now == Msg("data", 0, Head(up).ref)
           none == <<>>
           one == <<now>>
<1>4. /\ yes \in DownMessages /\ yes.kind = "put" /\ yes.ref = Head(up).ref /\ yes.value = "ok"
      /\ no \in DownMessages /\ no.kind = "put" /\ no.ref = Head(up).ref /\ no.value = "refused"
      /\ now \in DownMessages /\ now.kind = "data"
  BY <1>3 DEF DownMessages, Msg
<1>5. \/ /\ history' = Append(history, Head(up).ref)
         /\ down' = Append(down, yes) \/ down' = Append(Append(down, now), yes)
      \/ UNCHANGED history /\ down' = Append(down, no)
  BY DEF ServerPuts, Push
<1> HIDE DEF yes, no, now
<1>6. /\ none \in Seq(DownMessages) /\ Range(none) = {} /\ down \o none = down
      /\ one \in Seq(DownMessages) /\ Range(one) = {now} /\ down \o one = Append(down, now)
  BY <1>a, <1>4, Alone, ConcatEmptySeq DEF Range
<1> HIDE DEF none, one
<1>7. CASE history' = Append(history, Head(up).ref) /\ down' = Append(down, yes)
  <2>1. down' = Append(down \o none, yes)
    BY <1>6, <1>7
  <2> QED BY <1>1, <1>2, <1>3, <1>4, <1>6, <1>7, <2>1
<1>8. CASE history' = Append(history, Head(up).ref) /\ down' = Append(Append(down, now), yes)
  <2>1. down' = Append(down \o one, yes)
    BY <1>6, <1>8
  <2> QED BY <1>1, <1>2, <1>3, <1>4, <1>6, <1>8, <2>1
<1>9. CASE UNCHANGED history /\ down' = Append(down, no)
  <2>1. down' = Append(down \o none, no)
    BY <1>6, <1>9
  <2> QED BY <1>1, <1>2, <1>3, <1>4, <1>6, <1>9, <2>1
<1> QED BY <1>5, <1>7, <1>8, <1>9

\* No connection authenticates at the start.
LEMMA AuthInit == Init => AuthInv
BY DEF Init, AuthInv, NoFirst, NoAuth, Range

(* At most one message authenticates a connection, its answer is the first of its kind to come,
   and there is none once the connection is open: OnAuth restores once per connection. *)
LEMMA AuthNext == TypeInv /\ IInv /\ AuthInv /\ [Next]_vars => AuthInv'
<1> SUFFICES ASSUME TypeInv, IInv, AuthInv, [Next]_vars PROVE AuthInv'
  OBVIOUS
<1>a. /\ up \in Seq(UpMessages) /\ down \in Seq(DownMessages) /\ asked \in Seq(Listens)
      /\ StatesAgree /\ LinkQuiet
  BY DEF TypeInv, OutsideOK, IInv
<1>b. /\ \A m \in Range(up) : IsFirst(m) => m.value # "nil"
      /\ conn = "authenticating" => \/ OneFirst(up) /\ NoAuth(down)
                                    \/ NoFirst(up) /\ OneFirst(down)
      /\ conn # "authenticating" => NoFirst(up) /\ NoFirst(down)
  BY DEF AuthInv
\* Nothing moves, and the connection neither begins nor ends to authenticate.
<1>1. ASSUME UNCHANGED <<up, down>>,
             conn' = conn \/ (conn # "authenticating" /\ conn' # "authenticating")
      PROVE  AuthInv'
  BY <1>b, <1>1 DEF AuthInv
\* A connection closes.
<1>2. ASSUME up' = <<>>, down' = <<>>, conn' = "disconnected" PROVE AuthInv'
  BY <1>2 DEF AuthInv, NoFirst, Range
\* The client says something on an open connection.
<1>3. ASSUME NEW m \in UpMessages, ~IsFirst(m), up' = Append(up, m), UNCHANGED <<conn, down>>
      PROVE  AuthInv'
  <2> DEFINE one == <<m>>
  <2>1. one \in Seq(UpMessages) /\ Append(up, m) = up \o one /\ Range(one) = {m}
    BY <1>a, AppendIsConcat DEF Range
  <2> HIDE DEF one
  <2>2. NoFirst(one)
    BY <1>3, <2>1 DEF NoFirst
  <2>3. OneFirst(up) => OneFirst(up')
    BY <1>a, <1>3, <2>1, <2>2, FirstBefore
  <2>4. Range(up') = Range(up) \cup {m}
    BY <1>a, <1>3, RangeAfter
  <2>5. NoFirst(up) => NoFirst(up')
    BY <1>3, <2>4 DEF NoFirst
  <2> QED BY <1>b, <1>3, <2>3, <2>4, <2>5 DEF AuthInv
\* The client hears something else than an answer to "auth".
<1>4. ASSUME down # <<>>, down' = Tail(down), Head(down).kind # "auth", UNCHANGED <<conn, up>>
      PROVE  AuthInv'
  <2>1. Range(down) = Range(down') \cup {Head(down)}
    BY <1>a, <1>4, RangeAfter
  <2>2. (NoAuth(down) => NoAuth(down')) /\ (NoFirst(down) => NoFirst(down'))
    BY <2>1 DEF NoAuth, NoFirst
  <2>3. OneFirst(down) => OneFirst(down')
    BY <1>a, <1>4, FirstTaken DEF IsFirst
  <2> QED BY <1>b, <1>4, <2>2, <2>3 DEF AuthInv
\* The server sends something else than an answer to "auth", and may take something else.
<1>5. ASSUME NEW t \in Seq(DownMessages), NoAuth(t), down' = down \o t, UNCHANGED conn,
             \/ UNCHANGED up
             \/ up # <<>> /\ Head(up).kind # "auth" /\ up' = Tail(up)
      PROVE  AuthInv'
  <2>1. Range(down') = Range(down) \cup Range(t)
    BY <1>a, <1>5, RangeAfter
  <2>2. NoFirst(t)
    BY <1>5 DEF NoFirst, NoAuth, IsFirst
  <2>3. (NoAuth(down) => NoAuth(down')) /\ (NoFirst(down) => NoFirst(down'))
    BY <1>5, <2>1, <2>2 DEF NoAuth, NoFirst
  <2>4. OneFirst(down) => OneFirst(down')
    BY <1>a, <1>5, <2>2, FirstBefore
  <2>5. Range(up') \subseteq Range(up)
    <3>1. up # <<>> => Range(up) = Range(Tail(up)) \cup {Head(up)}
      BY <1>a, RangeAfter
    <3> QED BY <1>5, <3>1
  <2>6. NoFirst(up) => NoFirst(up')
    BY <2>5 DEF NoFirst
  <2>7. OneFirst(up) => OneFirst(up')
    BY <1>a, <1>5, FirstTaken DEF IsFirst
  <2> QED BY <1>b, <1>5, <2>3, <2>4, <2>5, <2>6, <2>7 DEF AuthInv
\* One step per action.
<1>6. CASE Client
  <2>1. CASE RunRetry
    BY <1>a, <1>1, <2>1 DEF RunRetry, network, StatesAgree
  <2>2. CASE FetchSucceeds
    <3>1. UNCHANGED <<up, down>> /\ (conn' = conn \/ (conn = "gettingToken" /\ conn' = "connecting"))
      BY <2>2 DEF FetchSucceeds, network
    <3> QED BY <1>1, <3>1
  <2>3. CASE OnReady
    <3>1. /\ conn = "connecting" /\ up = <<>> /\ down = <<>> /\ down' = down
      BY <1>a, <2>3 DEF OnReady, LinkQuiet, Connected
    <3>2. NoAuth(down') /\ NoFirst(down')
      BY <3>1 DEF NoAuth, NoFirst, Range
    <3>3. CASE token = "nil"
      <4>1. conn' = "connected" /\ RestoreState
        BY <2>3, <3>3 DEF OnReady
      <4>2. PICK sent \in Seq(UpMessages) :
              up' = up \o sent /\ \A i \in DOMAIN sent : sent[i].kind # "auth"
        BY <1>a, <4>1, Restored DEF TypeInv, FieldsOK
      <4>3. Range(up') = Range(up) \cup Range(sent) /\ Range(up) = {}
        BY <1>a, <3>1, <4>2, RangeAfter DEF Range
      <4>4. \A m \in Range(up') : m.kind # "auth"
        BY <4>2, <4>3 DEF Range
      <4> QED BY <3>2, <4>1, <4>4 DEF AuthInv, NoFirst, IsFirst
    <3>4. CASE token # "nil"
      <4> DEFINE m == Msg("auth", TRUE, token)
      <4>1. up' = <<m>> /\ conn' = "authenticating" /\ IsFirst(m) /\ m.value # "nil"
        BY <2>3, <3>4 DEF OnReady, IsFirst, Msg
      <4> HIDE DEF m
      <4>2. OneFirst(up') /\ Range(up') = {m}
        BY <4>1 DEF OneFirst, Range
      <4> QED BY <3>2, <4>1, <4>2 DEF AuthInv
    <3> QED BY <3>3, <3>4
  <2> QED BY <1>6, <2>1, <2>2, <2>3 DEF Client
<1>7. CASE Receive
  <2>1. CASE OnAuth
    <3>1. /\ down # <<>> /\ Head(down).kind = "auth" /\ down' = Tail(down) /\ conn' = "connected"
          /\ Head(down).ref \in BOOLEAN
      BY <1>a, <2>1, Taken, MessageTypes DEF OnAuth, Arrives
    <3>2. Range(down) = Range(down') \cup {Head(down)}
      BY <1>a, <3>1, RangeAfter
    <3>3. ~NoAuth(down)
      BY <3>1, <3>2 DEF NoAuth
    <3>4. NoFirst(up) /\ NoFirst(down')
      <4>1. CASE conn = "authenticating"
        <5>1. NoFirst(up) /\ OneFirst(down)
          BY <1>b, <3>3, <4>1
        <5>2. IsFirst(Head(down)) /\ NoFirst(Tail(down))
          BY <1>a, <3>1, <5>1, FirstTaken
        <5> QED BY <3>1, <5>1, <5>2
      <4>2. CASE conn # "authenticating"
        BY <1>b, <3>2, <4>2 DEF NoFirst
      <4> QED BY <4>1, <4>2
    <3>5. CASE Head(down).ref
      <4>1. RestoreState
        BY <2>1, <3>5 DEF OnAuth
      <4>2. PICK sent \in Seq(UpMessages) :
              up' = up \o sent /\ \A i \in DOMAIN sent : sent[i].kind # "auth"
        BY <1>a, <4>1, Restored DEF TypeInv, FieldsOK
      <4>3. Range(up') = Range(up) \cup Range(sent)
        BY <1>a, <4>2, RangeAfter
      <4>4. NoFirst(up')
        BY <3>4, <4>2, <4>3 DEF NoFirst, IsFirst, Range
      <4> QED BY <3>1, <3>4, <4>4 DEF AuthInv, NoFirst
    <3>6. CASE ~Head(down).ref
      <4>1. UNCHANGED up
        BY <2>1, <3>6 DEF OnAuth
      <4> QED BY <3>1, <3>4, <4>1 DEF AuthInv, NoFirst
    <3> QED BY <3>1, <3>5, <3>6
  <2>2. CASE OnPut \/ OnListen \/ OnDataUpdate \/ OnListenRevoked
    <3>1. /\ down # <<>> /\ down' = Tail(down) /\ Head(down).kind # "auth" /\ UNCHANGED <<conn, up>>
      BY <2>2 DEF OnPut, OnListen, OnDataUpdate, OnListenRevoked, Arrives, link
    <3> QED BY <1>4, <3>1
  <2>3. CASE OnAuthRevoked
    BY <1>2, <2>3 DEF OnAuthRevoked, Disconnect
  <2>4. CASE OnKill
    BY <1>2, <2>4 DEF OnKill, InterruptForReason, Disconnect
  <2> QED BY <1>7, <2>1, <2>2, <2>3, <2>4 DEF Receive
<1>8. CASE Server
  <2>1. CASE ServerAuthenticates
    <3> DEFINE m == Msg("auth", Head(up).ref, IF Head(up).value = "good" /\ credential # "stale"
                                               THEN "ok" ELSE "refused")
    <3>1. /\ up # <<>> /\ Head(up).kind = "auth" /\ up' = Tail(up) /\ UNCHANGED conn
          /\ down' = IF Head(up).value = "nil" THEN down ELSE Append(down, m)
          /\ m.kind = "auth" /\ m.ref = Head(up).ref
      BY <2>1 DEF ServerAuthenticates, Receives, Msg, link
    <3>2. m \in DownMessages
      <4>1. Head(up) \in UpMessages
        BY <1>a, <3>1, Taken
      <4> QED BY <3>1, <4>1, MessageTypes DEF DownMessages, Msg
    <3> HIDE DEF m
    <3>3. IsFirst(m) <=> IsFirst(Head(up))
      BY <3>1 DEF IsFirst
    <3>4. Range(up) = Range(up') \cup {Head(up)}
      BY <1>a, <3>1, RangeAfter
    <3>5. Range(Append(down, m)) = Range(down) \cup {m} /\ Append(down, m) = down \o <<m>>
      BY <1>a, <3>2, RangeAfter, AppendIsConcat
    <3>6. CASE IsFirst(Head(up))
      <4>1. Head(up).value # "nil" /\ ~NoFirst(up)
        BY <1>b, <3>4, <3>6 DEF NoFirst
      <4>2. conn = "authenticating" /\ OneFirst(up) /\ NoAuth(down)
        BY <1>b, <4>1
      <4>3. NoFirst(up')
        BY <1>a, <3>1, <3>6, <4>2, FirstTaken
      <4>4. OneFirst(down')
        BY <1>a, <3>1, <3>2, <3>3, <3>6, <4>1, <4>2, FirstAdded
      <4> QED BY <1>b, <3>1, <3>4, <4>2, <4>3, <4>4 DEF AuthInv
    <3>7. CASE ~IsFirst(Head(up))
      <4>1. ~OneFirst(up)
        BY <1>a, <3>1, <3>7, FirstTaken
      <4>2. NoFirst(up) /\ NoFirst(up')
        BY <1>b, <3>4, <4>1 DEF NoFirst
      <4>3. NoFirst(down) => NoFirst(down')
        BY <3>1, <3>3, <3>5, <3>7 DEF NoFirst
      <4>4. OneFirst(down) => OneFirst(down')
        <5> DEFINE one == <<m>>
        <5>1. one \in Seq(DownMessages) /\ Range(one) = {m} /\ Append(down, m) = down \o one
          BY <3>2, <3>5 DEF Range
        <5> HIDE DEF one
        <5>2. NoFirst(one)
          BY <3>3, <3>7, <5>1 DEF NoFirst
        <5> QED BY <1>a, <3>1, <5>1, <5>2, FirstBefore
      <4> QED BY <1>b, <3>1, <3>4, <4>1, <4>2, <4>3, <4>4 DEF AuthInv
    <3> QED BY <3>6, <3>7
  <2>2. CASE ServerTakesListen
    <3>1. /\ up # <<>> /\ Head(up).kind # "auth" /\ up' = Tail(up) /\ UNCHANGED <<conn, down>>
      BY <2>2 DEF ServerTakesListen, Receives, link
    <3>2. <<>> \in Seq(DownMessages) /\ NoAuth(<<>>) /\ down' = down \o <<>>
      BY <1>a, <3>1, ConcatEmptySeq DEF NoAuth, Range
    <3> QED BY <1>5, <3>1, <3>2
  <2>3. CASE ServerAnswersListen \/ ServerUnlistens
    <3>1. PICK t \in Seq(DownMessages) :
            down' = down \o t /\ \A m \in Range(t) : m.kind # "auth" /\ m.kind # "put"
      BY <2>3, Said
    <3>2. /\ UNCHANGED conn
          /\ UNCHANGED up \/ (up # <<>> /\ Head(up).kind # "auth" /\ up' = Tail(up))
      BY <2>3 DEF ServerAnswersListen, ServerUnlistens, Receives, link
    <3> QED BY <1>5, <3>1, <3>2 DEF NoAuth
  <2>4. CASE ServerPuts
    <3>1. PICK m \in DownMessages, t \in Seq(DownMessages) :
              /\ up # <<>> /\ up' = Tail(up) /\ Head(up).kind = "put" /\ m.kind = "put"
              /\ \A n \in Range(t) : n.kind = "data"
              /\ down' = Append(down \o t, m)
      BY <2>4, PutTaken
    <3> DEFINE one == <<m>>
    <3>2. one \in Seq(DownMessages) /\ Range(one) = {m} /\ down \o t \in Seq(DownMessages)
      BY <1>a, Alone, ConcatProperties
    <3>3. down' = (down \o t) \o one
      BY <3>1, <3>2, Alone
    <3> HIDE DEF one
    <3>4. t \o one \in Seq(DownMessages) /\ down' = down \o (t \o one)
      BY <1>a, <3>2, <3>3, ConcatAssociative, ConcatProperties
    <3>5. Range(t \o one) = Range(t) \cup {m}
      BY <3>2, RangeAfter
    <3>6. NoAuth(t \o one)
      BY <3>1, <3>5 DEF NoAuth
    <3>7. UNCHANGED conn
      BY <2>4 DEF ServerPuts, link
    <3> QED BY <1>5, <3>1, <3>4, <3>6, <3>7
  <2> QED BY <1>8, <2>1, <2>2, <2>3, <2>4 DEF Server
<1>9. CASE Program
  <2>1. CASE Observe
    <3> DEFINE m == Msg("listen", listen', Nothing)
    <3>1. CASE Connected
      <4>1. up' = Append(up, m) /\ UNCHANGED <<conn, down>>
        BY <2>1, <3>1 DEF Observe, link
      <4>2. m \in UpMessages /\ ~IsFirst(m)
        <5>1. listen' \in Nat
          BY <2>1, Spending DEF Observe, TypeInv, OutsideOK, Troubles
        <5> QED BY <5>1 DEF UpMessages, Listens, Msg, Nothing, IsFirst
      <4> HIDE DEF m
      <4> QED BY <1>3, <4>1, <4>2
    <3>2. CASE ~Connected
      BY <1>1, <2>1, <3>2 DEF Observe, link
    <3> QED BY <3>1, <3>2
  <2>2. CASE RemoveObserver
    <3> DEFINE m == Msg("unlisten", 0, 0)
    <3>1. m \in UpMessages /\ ~IsFirst(m)
      BY DEF UpMessages, Msg, IsFirst
    <3>2. UNCHANGED <<conn, down>> /\ (up' = up \/ up' = Append(up, m))
      BY <2>2 DEF RemoveObserver, link
    <3> HIDE DEF m
    <3> QED BY <1>1, <1>3, <3>1, <3>2
  <2>3. CASE Interrupt
    BY <1>2, <2>3 DEF Interrupt, InterruptForReason, Disconnect
  <2>4. CASE Resume
    BY <1>1, <2>4 DEF Resume, network
  <2>5. CASE RefreshAuthToken
    <3>1. PICK new \in {"nil", "good"} :
            up' = IF Connected THEN Append(up, Msg("auth", FALSE, new)) ELSE up
      BY <2>5 DEF RefreshAuthToken
    <3> DEFINE m == Msg("auth", FALSE, new)
    <3>2. m \in UpMessages /\ ~IsFirst(m)
      BY DEF UpMessages, Msg, IsFirst
    <3>3. UNCHANGED <<conn, down>> /\ (up' = up \/ up' = Append(up, m))
      BY <2>5, <3>1 DEF RefreshAuthToken
    <3> HIDE DEF m
    <3> QED BY <1>1, <1>3, <3>2, <3>3
  <2>6. CASE \E w \in Writes : SetValue(w)
    <3>1. PICK w \in Writes : SetValue(w)
      BY <2>6
    <3> DEFINE m == PutRequest(w)
    <3>2. m \in UpMessages /\ ~IsFirst(m)
      BY DEF UpMessages, Msg, PutRequest, IsFirst
    <3>3. UNCHANGED <<conn, down>> /\ (up' = up \/ up' = Append(up, m))
      BY <3>1 DEF SetValue, link
    <3> HIDE DEF m
    <3> QED BY <1>1, <1>3, <3>2, <3>3
  <2> QED BY <1>9, <2>1, <2>2, <2>3, <2>4, <2>5, <2>6 DEF Program
<1>10. CASE Trouble
  <2>1. CASE FetchFails
    <3>1. conn # "authenticating"
      BY <1>a, <2>1 DEF FetchFails, StatesAgree
    <3> QED BY <1>1, <2>1, <3>1 DEF FetchFails, network
  <2>2. CASE OnDisconnect
    BY <1>2, <2>2 DEF OnDisconnect, Disconnect
  <2>3. CASE EnteringForeground \/ TokenExpires
    BY <1>1, <2>3 DEF EnteringForeground, TokenExpires, network, link
  <2>4. CASE OtherDeviceWrites \/ ServerRevokes
    <3>1. PICK t \in Seq(DownMessages) :
            down' = down \o t /\ \A m \in Range(t) : m.kind # "auth" /\ m.kind # "put"
      BY <2>4, Said
    <3>2. UNCHANGED <<conn, up>>
      BY <2>4 DEF OtherDeviceWrites, ServerRevokes, link
    <3> QED BY <1>5, <3>1, <3>2 DEF NoAuth
  <2> QED BY <1>10, <2>1, <2>2, <2>3, <2>4 DEF Trouble
<1>11. CASE UNCHANGED vars
  BY <1>1, <1>11 DEF vars, network, link
<1> QED BY <1>6, <1>7, <1>8, <1>9, <1>10, <1>11 DEF Next

-----------------------------------------------------------------------------
(* Puts and their answers.                                                 *)

\* The put that is answered is the earliest outstanding one.
LEMMA PutAnswered ==
    ASSUME TypeInv, WireInv, OnPut
    PROVE  /\ down # <<>> /\ Head(down) \in Range(down) /\ Head(down).kind = "put" /\ down' = Tail(down)
           /\ Head(down).ref \in puts /\ Head(down).value \in {"ok", "refused"}
           /\ puts' = puts \ {Head(down).ref}
           /\ \A w \in puts' : Head(down).ref < w
           /\ CanSendWrites
           /\ InOrder(down') /\ Puts(down') = Puts(down) \ {Head(down).ref}
           /\ Head(down).ref \notin Puts(up)
<1>1. /\ up \in Seq(UpMessages) /\ down \in Seq(DownMessages) /\ puts \subseteq Nat
  BY WritesAreNumbers DEF TypeInv, OutsideOK, FieldsOK
<1>2. down # <<>> /\ Head(down).kind = "put" /\ down' = Tail(down) /\ puts' = puts \ {Head(down).ref}
  BY DEF OnPut, Arrives
<1>3. /\ InOrder(Tail(down)) /\ Puts(down) = Puts(Tail(down)) \cup {Head(down).ref}
      /\ \A w \in Puts(Tail(down)) : Head(down).ref < w
  BY <1>1, <1>2, PutsOfTail DEF WireInv
<1>4. Head(down) \in DownMessages /\ Head(down) \in Range(down)
  BY <1>1, <1>2, Taken, RangeAfter
<1>5. Head(down).ref \in Writes /\ Head(down).value \in {"ok", "refused"}
  BY <1>2, <1>4, MessageTypes
<1> DEFINE r == Head(down).ref
<1>6. r \in Puts(down) /\ r \in Nat
  BY <1>3, <1>5, WritesAreNumbers
<1>7. CanSendWrites /\ r \in puts /\ Puts(down) \cup Puts(up) = puts
  BY <1>6 DEF WireInv
<1>8. \A w \in Puts(up) : r < w
  BY <1>6 DEF WireInv
<1>9. r \notin Puts(up) /\ r \notin Puts(Tail(down))
  BY <1>3, <1>6, <1>8
<1>10. \A w \in puts' : r < w
  BY <1>2, <1>3, <1>7, <1>8
<1> QED BY <1>2, <1>3, <1>4, <1>5, <1>7, <1>9, <1>10

\* No write was made at the start.
LEMMA StatusInit == Init => StatusInv
BY DEF Init, StatusInv

\* The program's new write is later than every other it made.
LEMMA NewIsLatest ==
    ASSUME StatusInv, puts \subseteq Writes, NEW w \in Writes, SetValue(w)
    PROVE  /\ \A v \in Writes : status[v] # "new" => v < w
           /\ \A v \in puts : v < w
<1>1. status[w] = "new" /\ Writes \subseteq Nat
  BY WritesAreNumbers DEF SetValue
<1>2. ASSUME NEW v \in Writes, status[v] # "new" PROVE v < w
  <2>1. v # w /\ ~(w < v)
    BY <1>1, <1>2 DEF StatusInv
  <2> QED BY <1>1, <2>1
<1>3. \A v \in puts : status[v] # "new"
  BY DEF StatusInv
<1> QED BY <1>2, <1>3

(* Outstanding puts are pending, writes are made in order, and what is answered, or held, is
   earlier than what is outstanding. *)
LEMMA StatusNext == TypeInv /\ WireInv /\ StatusInv /\ [Next]_vars => StatusInv'
<1> SUFFICES ASSUME TypeInv, WireInv, StatusInv, [Next]_vars PROVE StatusInv'
  OBVIOUS
<1>a. /\ puts \subseteq Writes /\ Writes \subseteq Nat
      /\ status \in [Writes -> {"new", "pending", "ok", "refused"}]
      /\ putsToAck \in Seq(Writes \X {"ok", "refused"})
      /\ DOMAIN putsToAck = 1..Len(putsToAck) /\ Len(putsToAck) \in Nat
      /\ \A i \in DOMAIN putsToAck : putsToAck[i] \in Writes \X {"ok", "refused"}
  BY WritesAreNumbers, ElementOfSeq, LenProperties DEF TypeInv, FieldsOK, OutsideOK
<1>b. /\ \A w \in puts : status[w] = "pending"
      /\ \A v, w \in Writes : v < w /\ status[w] # "new" => status[v] # "new"
      /\ \A i \in DOMAIN putsToAck :
           status[putsToAck[i][1]] = "pending" /\ \A w \in puts : putsToAck[i][1] < w
      /\ \A v \in Writes : status[v] \in {"ok", "refused"} => \A w \in puts : v < w
  BY DEF StatusInv
<1>1. CASE UNCHANGED <<puts, putsToAck, status>>
  BY <1>b, <1>1 DEF StatusInv
<1>2. CASE \E w \in Writes : SetValue(w)
  <2>1. PICK w \in Writes : SetValue(w)
    BY <1>2
  <2>2. /\ status' = [status EXCEPT ![w] = "pending"] /\ puts' = puts \cup {w}
        /\ UNCHANGED putsToAck /\ \A v \in Writes : v < w => status[v] # "new"
    BY <2>1 DEF SetValue
  <2>3. /\ \A v \in Writes : status[v] # "new" => v < w
        /\ \A v \in puts : v < w
    BY <1>a, <2>1, NewIsLatest
  <2>4. \A v \in Writes : status'[v] = IF v = w THEN "pending" ELSE status[v]
    BY <1>a, <2>2
  <2>5. \A v \in puts' : status'[v] = "pending"
    BY <1>a, <1>b, <2>2, <2>4
  <2>6. \A u, v \in Writes : u < v /\ status'[v] # "new" => status'[u] # "new"
    BY <1>a, <1>b, <2>2, <2>4
  <2>7. \A i \in DOMAIN putsToAck :
           status'[putsToAck[i][1]] = "pending" /\ \A v \in puts' : putsToAck[i][1] < v
    <3> TAKE i \in DOMAIN putsToAck
    <3>1. putsToAck[i][1] \in Writes
      BY <1>a
    <3>2. status[putsToAck[i][1]] = "pending" /\ \A v \in puts : putsToAck[i][1] < v
      BY <1>b
    <3> QED BY <2>2, <2>3, <2>4, <3>1, <3>2
  <2>8. \A u \in Writes : status'[u] \in {"ok", "refused"} => \A v \in puts' : u < v
    BY <1>a, <1>b, <2>2, <2>3, <2>4
  <2> QED BY <2>2, <2>5, <2>6, <2>7, <2>8 DEF StatusInv
<1>3. CASE OnPut
  <2> DEFINE r == Head(down).ref
             v == Head(down).value
  <2>1. /\ r \in puts /\ r \in Writes /\ v \in {"ok", "refused"} /\ puts' = puts \ {r}
        /\ \A w \in puts' : r < w
    BY <1>3, <1>a, PutAnswered
  <2>2. CASE unacked = 0
    <3>1. Tell(<<<<r, v>>>>) /\ UNCHANGED putsToAck
      BY <1>3, <2>2 DEF OnPut
    <3> HIDE DEF r, v
    <3>2. \A w \in Writes : status'[w] = IF w = r THEN v ELSE status[w]
      BY <2>1, <3>1 DEF Tell
    <3>3. \A w \in puts' : status'[w] = "pending"
      BY <1>a, <1>b, <2>1, <3>2
    <3>4. \A u, w \in Writes : u < w /\ status'[w] # "new" => status'[u] # "new"
      BY <1>a, <1>b, <2>1, <3>2
    <3>5. \A i \in DOMAIN putsToAck :
           status'[putsToAck[i][1]] = "pending" /\ \A w \in puts' : putsToAck[i][1] < w
      <4> TAKE i \in DOMAIN putsToAck
      <4>1. putsToAck[i][1] \in Writes
        BY <1>a
      <4>2. status[putsToAck[i][1]] = "pending" /\ \A w \in puts : putsToAck[i][1] < w
        BY <1>b
      <4>3. putsToAck[i][1] # r
        BY <1>a, <2>1, <4>1, <4>2
      <4> QED BY <2>1, <3>2, <4>1, <4>2, <4>3
    <3>6. \A u \in Writes : status'[u] \in {"ok", "refused"} => \A w \in puts' : u < w
      BY <1>a, <1>b, <2>1, <3>2
    <3> QED BY <3>1, <3>3, <3>4, <3>5, <3>6 DEF StatusInv
  <2>3. CASE unacked # 0
    <3> DEFINE answer == <<r, v>>
    <3>1. putsToAck' = Append(putsToAck, answer) /\ UNCHANGED status
      BY <1>3, <2>3 DEF OnPut
    <3>2. answer \in Writes \X {"ok", "refused"} /\ answer[1] = r
      BY <2>1
    <3> HIDE DEF answer, r
    <3>3. /\ DOMAIN putsToAck' = 1..(Len(putsToAck) + 1)
          /\ \A i \in 1..Len(putsToAck) : putsToAck'[i] = putsToAck[i]
          /\ putsToAck'[Len(putsToAck) + 1] = answer
      BY <1>a, <3>1, <3>2, AppendProperties, LenProperties
    <3>4. \A i \in DOMAIN putsToAck' :
           status[putsToAck'[i][1]] = "pending" /\ \A w \in puts' : putsToAck'[i][1] < w
      <4> TAKE i \in DOMAIN putsToAck'
      <4>1. CASE i = Len(putsToAck) + 1
        BY <1>b, <2>1, <3>2, <3>3, <4>1
      <4>2. CASE i # Len(putsToAck) + 1
        <5>1. i \in DOMAIN putsToAck
          BY <1>a, <3>3, <4>2
        <5>2. putsToAck'[i] = putsToAck[i]
          BY <1>a, <3>3, <5>1
        <5> QED BY <1>b, <2>1, <5>1, <5>2
      <4> QED BY <4>1, <4>2
    <3> QED BY <1>b, <2>1, <3>1, <3>4 DEF StatusInv
  <2> QED BY <2>2, <2>3
<1>4. CASE OnListen
  <2>1. UNCHANGED puts
    BY <1>4 DEF OnListen
  <2>2. CASE unacked = 1
    <3>1. Tell(putsToAck) /\ putsToAck' = <<>>
      BY <1>4, <2>2 DEF OnListen, AckPuts
    <3>2. \A w \in Writes :
                \/ /\ \A i \in DOMAIN putsToAck : putsToAck[i][1] # w
                   /\ status'[w] = status[w]
                \/ \E i \in DOMAIN putsToAck : putsToAck[i][1] = w /\ status'[w] \in {"ok", "refused"}
      BY <1>a, <3>1, Told
    <3>3. \A w \in puts : \A i \in DOMAIN putsToAck : putsToAck[i][1] # w
      <4> TAKE w \in puts
      <4> TAKE i \in DOMAIN putsToAck
      <4>1. putsToAck[i][1] < w /\ putsToAck[i][1] \in Nat
        BY <1>a, <1>b
      <4> QED BY <4>1
    <3>4. \A w \in puts : status'[w] = "pending"
      BY <1>a, <1>b, <3>2, <3>3
    <3>5. \A w \in Writes : status'[w] = "new" <=> status[w] = "new"
      BY <1>a, <1>b, <3>2
    <3>6. \A u, w \in Writes : u < w /\ status'[w] # "new" => status'[u] # "new"
      BY <1>b, <3>5
    <3>7. \A u \in Writes : status'[u] \in {"ok", "refused"} => \A w \in puts : u < w
      BY <1>b, <3>2
    <3>8. DOMAIN putsToAck' = {}
      BY <3>1
    <3> QED BY <2>1, <3>4, <3>6, <3>7, <3>8 DEF StatusInv
  <2>3. CASE unacked # 1
    BY <1>1, <1>4, <2>1, <2>3 DEF OnListen
  <2> QED BY <2>2, <2>3
<1>5. CASE UNCHANGED data
  BY <1>1, <1>5 DEF data
<1>6. CASE RemoveObserver \/ OnDataUpdate \/ OnListenRevoked
  BY <1>1, <1>6 DEF RemoveObserver, OnDataUpdate, OnListenRevoked
<1>7. CASE Client
  BY <1>5, <1>7 DEF Client, RunRetry, FetchSucceeds, OnReady
<1>8. CASE Receive
  BY <1>3, <1>4, <1>5, <1>6, <1>8 DEF Receive, OnAuth, OnAuthRevoked, OnKill
<1>9. CASE Server
  BY <1>5, <1>9 DEF Server, ServerAuthenticates, ServerTakesListen, ServerAnswersListen,
      ServerUnlistens, ServerPuts
<1>10. CASE Program
  BY <1>2, <1>5, <1>6, <1>10 DEF Program, Observe, Interrupt, Resume, RefreshAuthToken
<1>11. CASE Trouble
  BY <1>5, <1>11 DEF Trouble, FetchFails, OnDisconnect, EnteringForeground, OtherDeviceWrites,
      ServerRevokes, TokenExpires
<1>12. CASE UNCHANGED vars
  BY <1>5, <1>12 DEF vars
<1> QED BY <1>7, <1>8, <1>9, <1>10, <1>11, <1>12 DEF Next

\* A channel without puts is in order.
LEMMA NoPuts ==
    ASSUME NEW M, NEW s \in Seq(M), \A m \in Range(s) : m.kind # "put"
    PROVE  Puts(s) = {} /\ InOrder(s)
<1>1. \A i \in DOMAIN s : s[i].kind # "put"
  BY DEF Range
<1> QED BY <1>1 DEF Puts, InOrder

\* Other messages behind a channel leave its puts and their order.
LEMMA PutsBefore ==
    ASSUME NEW M, NEW s \in Seq(M), NEW t \in Seq(M), \A m \in Range(t) : m.kind # "put"
    PROVE  Puts(s \o t) = Puts(s) /\ (InOrder(s) => InOrder(s \o t))
<1>1. Puts(t) = {} /\ InOrder(t)
  BY NoPuts
<1>2. \A v \in Puts(s), w \in Puts(t) : v < w
  BY <1>1
<1>3. Puts(s \o t) = Puts(s) \cup Puts(t)
  BY PutsOfBoth
<1>4. InOrder(s) => InOrder(s \o t)
  BY <1>1, <1>2, PutsOfBoth
<1> QED BY <1>1, <1>3, <1>4

\* A later put sent on a channel keeps it in order.
LEMMA PutAdded ==
    ASSUME NEW M, NEW s \in Seq(M), NEW m \in M, InOrder(s),
           m.kind = "put", \A v \in Puts(s) : v < m.ref
    PROVE  Puts(Append(s, m)) = Puts(s) \cup {m.ref} /\ InOrder(Append(s, m))
<1>1. Puts(Append(s, m)) = Puts(s) \cup IF m.kind = "put" THEN {m.ref} ELSE {}
  BY Appended
<1>2. InOrder(s) /\ (m.kind = "put" => \A v \in Puts(s) : v < m.ref) => InOrder(Append(s, m))
  BY Appended
<1> QED BY <1>1, <1>2

\* Another message sent leaves the puts and their order.
LEMMA OtherAdded ==
    ASSUME NEW M, NEW s \in Seq(M), NEW m \in M, InOrder(s), m.kind # "put"
    PROVE  Puts(Append(s, m)) = Puts(s) /\ InOrder(Append(s, m))
<1>1. Puts(Append(s, m)) = Puts(s) \cup IF m.kind = "put" THEN {m.ref} ELSE {}
  BY Appended
<1>2. InOrder(s) /\ (m.kind = "put" => \A v \in Puts(s) : v < m.ref) => InOrder(Append(s, m))
  BY Appended
<1> QED BY <1>1, <1>2

\* Another message taken leaves the puts and their order.
LEMMA OtherTaken ==
    ASSUME NEW M, NEW s \in Seq(M), s # <<>>, InOrder(s), Head(s).kind # "put"
    PROVE  Puts(Tail(s)) = Puts(s) /\ InOrder(Tail(s))
<1>1. InOrder(Tail(s))
  BY PutsOfTail
<1>2. Puts(s) = Puts(Tail(s)) \cup IF Head(s).kind = "put" THEN {Head(s).ref} ELSE {}
  BY PutsOfTail
<1> QED BY <1>1, <1>2

\* Nothing is on its way at the start.
LEMMA WireInit == Init => WireInv
<1> SUFFICES ASSUME Init PROVE WireInv
  OBVIOUS
<1>1. up = <<>> /\ down = <<>> /\ ~CanSendWrites
  BY DEF Init, CanSendWrites
<1> QED BY <1>1, PutsOfNone DEF WireInv

(* On a connection that can send writes each outstanding put is on its way once, as a request or
   as an answer, in order; on another there is none. *)
LEMMA WireNext ==
    TypeInv /\ IInv /\ AuthInv /\ WireInv /\ StatusInv /\ [Next]_vars => WireInv'
<1> SUFFICES ASSUME TypeInv, IInv, AuthInv, WireInv, StatusInv, [Next]_vars PROVE WireInv'
  OBVIOUS
<1>a. /\ up \in Seq(UpMessages) /\ down \in Seq(DownMessages) /\ asked \in Seq(Listens)
      /\ puts \subseteq Writes /\ puts \subseteq Nat /\ StatesAgree /\ LinkQuiet
  BY WritesAreNumbers DEF TypeInv, OutsideOK, FieldsOK, IInv
<1>b. /\ InOrder(up) /\ InOrder(down)
      /\ \A v \in Puts(down), w \in Puts(up) : v < w
      /\ Puts(down) \cup Puts(up) = IF CanSendWrites THEN puts ELSE {}
  BY DEF WireInv
\* No put moves.
<1>1. ASSUME UNCHANGED puts, InOrder(up'), InOrder(down'), Puts(up') = Puts(up),
             Puts(down') = Puts(down), CanSendWrites' = CanSendWrites
      PROVE  WireInv'
  BY <1>b, <1>1 DEF WireInv
<1>2. ASSUME UNCHANGED <<up, down, puts>>,
             conn' = conn \/ (conn # "connected" /\ conn' # "connected")
      PROVE  WireInv'
  BY <1>b, <1>1, <1>2 DEF CanSendWrites
\* A connection closes.
<1>3. ASSUME up' = <<>>, down' = <<>>, conn' = "disconnected" PROVE WireInv'
  <2>1. ~CanSendWrites'
    BY <1>3 DEF CanSendWrites
  <2> QED BY <1>3, <2>1, PutsOfNone DEF WireInv
\* The client says something else than a put.
<1>4. ASSUME NEW m \in UpMessages, m.kind # "put", up' = Append(up, m), UNCHANGED <<conn, down, puts>>
      PROVE  WireInv'
  <2>1. Puts(up') = Puts(up) /\ InOrder(up')
    BY <1>a, <1>b, <1>4, OtherAdded
  <2> QED BY <1>1, <1>4, <1>b, <2>1 DEF CanSendWrites
\* The client hears something else than the answer to a put.
<1>5. ASSUME down # <<>>, down' = Tail(down), Head(down).kind # "put", UNCHANGED <<conn, up, puts>>
      PROVE  WireInv'
  <2>1. Puts(down') = Puts(down) /\ InOrder(down')
    BY <1>a, <1>b, <1>5, OtherTaken
  <2> QED BY <1>1, <1>5, <1>b, <2>1 DEF CanSendWrites
\* The server sends something else than the answer to a put, and may take something else.
<1>6. ASSUME NEW t \in Seq(DownMessages), \A m \in Range(t) : m.kind # "put", down' = down \o t,
             UNCHANGED <<conn, puts>>,
             UNCHANGED up \/ (up # <<>> /\ Head(up).kind # "put" /\ up' = Tail(up))
      PROVE  WireInv'
  <2>1. Puts(down') = Puts(down) /\ InOrder(down')
    BY <1>a, <1>b, <1>6, PutsBefore
  <2>2. up # <<>> /\ Head(up).kind # "put" => Puts(Tail(up)) = Puts(up) /\ InOrder(Tail(up))
    BY <1>a, <1>b, OtherTaken
  <2>3. Puts(up') = Puts(up) /\ InOrder(up')
    BY <1>6, <1>b, <2>2
  <2> QED BY <1>1, <1>6, <2>1, <2>3 DEF CanSendWrites
\* The client sends again what is outstanding, on a connection without puts.
<1>7. ASSUME ~CanSendWrites, RestoreState, conn' = "connected", UNCHANGED puts,
             down' = down \/ (down # <<>> /\ Head(down).kind # "put" /\ down' = Tail(down))
      PROVE  WireInv'
  <2>1. PICK sent \in Seq(UpMessages) : up' = up \o sent /\ Puts(sent) = puts /\ InOrder(sent)
    BY <1>a, <1>7, Restored DEF TypeInv, FieldsOK
  <2>2. Puts(up) = {} /\ Puts(down) = {}
    BY <1>b, <1>7
  <2>a. Puts(up \o sent) = Puts(up) \cup Puts(sent)
    BY <1>a, PutsOfBoth
  <2>b. InOrder(up \o sent)
    <3>1. \A v \in Puts(up), w \in Puts(sent) : v < w
      BY <2>2
    <3> QED BY <1>a, <1>b, <2>1, <3>1, PutsOfBoth
  <2>3. Puts(up') = puts /\ InOrder(up')
    BY <2>1, <2>2, <2>a, <2>b
  <2>4. down # <<>> /\ Head(down).kind # "put" => Puts(Tail(down)) = Puts(down) /\ InOrder(Tail(down))
    BY <1>a, <1>b, OtherTaken
  <2>5. Puts(down') = {} /\ InOrder(down')
    BY <1>7, <1>b, <2>2, <2>4
  <2>6. CanSendWrites'
    BY <1>7 DEF CanSendWrites
  <2> QED BY <1>7, <2>3, <2>5, <2>6 DEF WireInv
\* One step per action.
<1>8. CASE Client
  <2>1. CASE RunRetry
    BY <1>a, <1>2, <2>1 DEF RunRetry, network, data, StatesAgree
  <2>2. CASE FetchSucceeds
    <3>1. UNCHANGED <<up, down, puts>> /\ (conn' = conn \/ (conn = "gettingToken" /\ conn' = "connecting"))
      BY <2>2 DEF FetchSucceeds, network, data
    <3> QED BY <1>2, <3>1
  <2>3. CASE OnReady
    <3>1. conn = "connecting" /\ UNCHANGED <<down, puts>> /\ ~CanSendWrites
      BY <2>3 DEF OnReady, data, CanSendWrites
    <3>2. CASE token = "nil"
      BY <1>7, <2>3, <3>1, <3>2 DEF OnReady
    <3>3. CASE token # "nil"
      <4> DEFINE m == Msg("auth", TRUE, token)
      <4>1. up' = <<m>> /\ m.kind # "put" /\ conn' = "authenticating" /\ m \in UpMessages
        BY <2>3, <3>3 DEF OnReady, Msg, UpMessages, TypeInv, FieldsOK
      <4>2. up = <<>>
        BY <1>a, <3>1 DEF LinkQuiet, Connected
      <4>3. up' = Append(up, m)
        BY <4>1, <4>2
      <4> HIDE DEF m
      <4>a. m \in UpMessages /\ m.kind # "put"
        BY <4>1
      <4>4. Puts(up') = Puts(up) /\ InOrder(up')
        <5>1. Puts(Append(up, m)) = Puts(up) /\ InOrder(Append(up, m))
          BY <1>a, <1>b, <4>a, OtherAdded
        <5> QED BY <4>3, <5>1
      <4>5. CanSendWrites' = CanSendWrites
        BY <3>1, <4>1 DEF CanSendWrites
      <4> QED BY <1>1, <1>b, <3>1, <4>4, <4>5
    <3> QED BY <3>2, <3>3
  <2> QED BY <1>8, <2>1, <2>2, <2>3 DEF Client
<1>9. CASE Receive
  <2>1. CASE OnAuth
    <3>1. /\ down # <<>> /\ Head(down).kind = "auth" /\ down' = Tail(down) /\ conn' = "connected"
          /\ UNCHANGED puts
      BY <2>1 DEF OnAuth, Arrives, data
    <3>2. Head(down) \in Range(down) /\ Head(down).ref \in BOOLEAN
      BY <1>a, <3>1, Taken, RangeAfter, MessageTypes
    <3>3. CASE Head(down).ref
      <4>1. RestoreState
        BY <2>1, <3>3 DEF OnAuth
      <4>2. conn = "authenticating"
        BY <3>1, <3>2, <3>3 DEF AuthInv, NoFirst, IsFirst
      <4>3. ~CanSendWrites
        BY <4>2 DEF CanSendWrites
      <4> QED BY <1>7, <3>1, <4>1, <4>3
    <3>4. CASE ~Head(down).ref
      <4>1. UNCHANGED up
        BY <2>1, <3>4 DEF OnAuth
      <4>2. conn # "authenticating"
        <5> SUFFICES ASSUME conn = "authenticating" PROVE FALSE
          OBVIOUS
        <5>1. ~NoAuth(down)
          BY <3>1, <3>2 DEF NoAuth
        <5>2. OneFirst(down)
          BY <5>1 DEF AuthInv
        <5>3. IsFirst(Head(down))
          BY <1>a, <3>1, <5>2, FirstTaken
        <5> QED BY <3>4, <5>3 DEF IsFirst
      <4>3. conn = "connected"
        BY <1>a, <3>1, <4>2 DEF LinkQuiet, Connected
      <4> QED BY <1>5, <3>1, <4>1, <4>3
    <3> QED BY <3>2, <3>3, <3>4
  <2>2. CASE OnListen \/ OnDataUpdate \/ OnListenRevoked
    <3>1. /\ down # <<>> /\ down' = Tail(down) /\ Head(down).kind # "put" /\ UNCHANGED <<conn, up, puts>>
      BY <2>2 DEF OnListen, OnDataUpdate, OnListenRevoked, Arrives, link
    <3> QED BY <1>5, <3>1
  <2>3. CASE OnAuthRevoked
    BY <1>3, <2>3 DEF OnAuthRevoked, Disconnect
  <2>4. CASE OnKill
    BY <1>3, <2>4 DEF OnKill, InterruptForReason, Disconnect
  <2>5. CASE OnPut
    <3>1. /\ Head(down).ref \in puts /\ puts' = puts \ {Head(down).ref}
          /\ CanSendWrites
          /\ InOrder(down') /\ Puts(down') = Puts(down) \ {Head(down).ref}
          /\ Head(down).ref \notin Puts(up)
      BY <2>5, PutAnswered
    <3>2. UNCHANGED <<conn, up>> /\ CanSendWrites'
      BY <2>5, <3>1 DEF OnPut, link, CanSendWrites
    <3>3. Puts(down') \cup Puts(up') = puts'
      BY <1>b, <3>1, <3>2
    <3>4. \A v \in Puts(down'), w \in Puts(up') : v < w
      BY <1>b, <3>1, <3>2
    <3> QED BY <1>b, <3>1, <3>2, <3>3, <3>4 DEF WireInv
  <2> QED BY <1>9, <2>1, <2>2, <2>3, <2>4, <2>5 DEF Receive
<1>10. CASE Server
  <2>1. CASE ServerAuthenticates
    <3> DEFINE m == Msg("auth", Head(up).ref, IF Head(up).value = "good" /\ credential # "stale"
                                               THEN "ok" ELSE "refused")
    <3>1. /\ up # <<>> /\ Head(up).kind = "auth" /\ up' = Tail(up) /\ UNCHANGED <<conn, puts>>
          /\ down' = IF Head(up).value = "nil" THEN down ELSE Append(down, m)
          /\ m.kind = "auth"
      BY <2>1 DEF ServerAuthenticates, Receives, Msg, link, data
    <3>2. m \in DownMessages
      <4>1. Head(up) \in UpMessages
        BY <1>a, <3>1, Taken
      <4> QED BY <3>1, <4>1, MessageTypes DEF DownMessages, Msg
    <3> HIDE DEF m
    <3> DEFINE none == <<>>
               one == <<m>>
    <3>3. /\ none \in Seq(DownMessages) /\ Range(none) = {} /\ down \o none = down
          /\ one \in Seq(DownMessages) /\ Range(one) = {m} /\ down \o one = Append(down, m)
      BY <1>a, <3>2, Alone, ConcatEmptySeq DEF Range
    <3> HIDE DEF none, one
    <3>4. \E t \in Seq(DownMessages) : down' = down \o t /\ \A n \in Range(t) : n.kind # "put"
      <4>1. CASE Head(up).value = "nil"
        BY <3>1, <3>3, <4>1
      <4>2. CASE Head(up).value # "nil"
        BY <3>1, <3>3, <4>2
      <4> QED BY <4>1, <4>2
    <3> QED BY <1>6, <3>1, <3>4
  <2>2. CASE ServerTakesListen
    <3>1. /\ up # <<>> /\ Head(up).kind # "put" /\ up' = Tail(up) /\ UNCHANGED <<conn, down, puts>>
      BY <2>2 DEF ServerTakesListen, Receives, link, data
    <3>2. <<>> \in Seq(DownMessages) /\ Range(<<>>) = {} /\ down' = down \o <<>>
      BY <1>a, <3>1, ConcatEmptySeq DEF Range
    <3> QED BY <1>6, <3>1, <3>2
  <2>3. CASE ServerAnswersListen \/ ServerUnlistens
    <3>1. PICK t \in Seq(DownMessages) :
            down' = down \o t /\ \A m \in Range(t) : m.kind # "auth" /\ m.kind # "put"
      BY <2>3, Said
    <3>2. /\ UNCHANGED <<conn, puts>>
          /\ UNCHANGED up \/ (up # <<>> /\ Head(up).kind # "put" /\ up' = Tail(up))
      BY <2>3 DEF ServerAnswersListen, ServerUnlistens, Receives, link, data
    <3> QED BY <1>6, <3>1, <3>2
  <2>4. CASE ServerPuts
    <3>1. PICK m \in DownMessages, t \in Seq(DownMessages) :
              /\ up # <<>> /\ up' = Tail(up) /\ Head(up).kind = "put"
              /\ Head(up).ref \in Writes /\ m.kind = "put" /\ m.ref = Head(up).ref
              /\ \A n \in Range(t) : n.kind = "data"
              /\ down' = Append(down \o t, m)
      BY <2>4, PutTaken
    <3> DEFINE u == Head(up).ref
    <3>2. /\ InOrder(up') /\ Puts(up) = Puts(up') \cup {u}
          /\ \A w \in Puts(up') : u < w
      BY <1>a, <1>b, <3>1, PutsOfTail
    <3>3. u \in Puts(up)
      BY <3>2
    <3> DEFINE pushed == down \o t
    <3>4. pushed \in Seq(DownMessages) /\ Puts(pushed) = Puts(down) /\ InOrder(pushed)
      BY <1>a, <1>b, <3>1, PutsBefore, ConcatProperties
    <3>5. down' = Append(pushed, m)
      BY <3>1
    <3> HIDE DEF pushed, u
    <3>6. \A v \in Puts(pushed) : v < m.ref
      BY <1>b, <3>1, <3>3, <3>4 DEF u
    <3>7. Puts(down') = Puts(down) \cup {u} /\ InOrder(down')
      BY <3>1, <3>4, <3>5, <3>6, Appended DEF u
    <3>8. \A v \in Puts(down'), w \in Puts(up') : v < w
      BY <1>b, <3>2, <3>7
    <3>9. Puts(down') \cup Puts(up') = Puts(down) \cup Puts(up)
      BY <3>2, <3>7
    <3>10. UNCHANGED <<conn, puts>>
      BY <2>4 DEF ServerPuts, link, data
    <3> QED BY <1>b, <3>2, <3>7, <3>8, <3>9, <3>10 DEF WireInv, CanSendWrites
  <2> QED BY <1>10, <2>1, <2>2, <2>3, <2>4 DEF Server
<1>11. CASE Program
  <2>1. CASE Observe
    <3> DEFINE m == Msg("listen", listen', Nothing)
    <3>1. m \in UpMessages /\ m.kind # "put"
      <4>1. listen' \in Nat
        BY <2>1, Spending DEF Observe, TypeInv, OutsideOK, Troubles
      <4> QED BY <4>1 DEF UpMessages, Listens, Msg, Nothing
    <3>2. UNCHANGED <<conn, down, puts>> /\ (up' = up \/ up' = Append(up, m))
      BY <2>1 DEF Observe, link, data
    <3> HIDE DEF m
    <3> QED BY <1>2, <1>4, <3>1, <3>2
  <2>2. CASE RemoveObserver
    <3> DEFINE m == Msg("unlisten", 0, 0)
    <3>1. m \in UpMessages /\ m.kind # "put"
      BY DEF UpMessages, Msg
    <3>2. UNCHANGED <<conn, down, puts>> /\ (up' = up \/ up' = Append(up, m))
      BY <2>2 DEF RemoveObserver, link
    <3> HIDE DEF m
    <3> QED BY <1>2, <1>4, <3>1, <3>2
  <2>3. CASE Interrupt
    BY <1>3, <2>3 DEF Interrupt, InterruptForReason, Disconnect
  <2>4. CASE Resume
    BY <1>2, <2>4 DEF Resume, network, data
  <2>5. CASE RefreshAuthToken
    <3>1. PICK new \in {"nil", "good"} :
            up' = IF Connected THEN Append(up, Msg("auth", FALSE, new)) ELSE up
      BY <2>5 DEF RefreshAuthToken
    <3> DEFINE m == Msg("auth", FALSE, new)
    <3>2. m \in UpMessages /\ m.kind # "put"
      BY DEF UpMessages, Msg
    <3>3. UNCHANGED <<conn, down, puts>> /\ (up' = up \/ up' = Append(up, m))
      BY <2>5, <3>1 DEF RefreshAuthToken, data
    <3> HIDE DEF m
    <3> QED BY <1>2, <1>4, <3>2, <3>3
  <2>6. CASE \E w \in Writes : SetValue(w)
    <3>1. PICK w \in Writes : SetValue(w)
      BY <2>6
    <3>2. UNCHANGED <<conn, down>> /\ puts' = puts \cup {w}
      BY <3>1 DEF SetValue, link
    <3>3. CASE CanSendWrites
      <4> DEFINE m == PutRequest(w)
      <4>1. m \in UpMessages /\ m.kind = "put" /\ m.ref = w /\ up' = Append(up, m)
        BY <3>1, <3>3 DEF SetValue, PutRequest, Msg, UpMessages
      <4> HIDE DEF m
      <4>2. \A v \in puts : v < w
        BY <1>a, <3>1, NewIsLatest
      <4>3. Puts(down) \cup Puts(up) = puts
        BY <1>b, <3>3
      <4>a. \A v \in Puts(up) : v < m.ref
        BY <4>1, <4>2, <4>3
      <4>4. Puts(up') = Puts(up) \cup {w} /\ InOrder(up')
        BY <1>a, <1>b, <4>1, <4>a, PutAdded
      <4>5. \A v \in Puts(down'), u \in Puts(up') : v < u
        BY <1>b, <3>2, <4>2, <4>3, <4>4
      <4>6. CanSendWrites' /\ Puts(down') \cup Puts(up') = puts' /\ InOrder(down')
        BY <1>b, <3>2, <3>3, <4>3, <4>4 DEF CanSendWrites
      <4> QED BY <4>4, <4>5, <4>6 DEF WireInv
    <3>4. CASE ~CanSendWrites
      <4>1. up' = up /\ ~CanSendWrites'
        BY <3>1, <3>2, <3>4 DEF SetValue, CanSendWrites
      <4> QED BY <1>b, <3>2, <3>4, <4>1 DEF WireInv
    <3> QED BY <3>3, <3>4
  <2> QED BY <1>11, <2>1, <2>2, <2>3, <2>4, <2>5, <2>6 DEF Program
<1>12. CASE Trouble
  <2>1. CASE FetchFails
    <3>1. conn # "connected"
      BY <1>a, <2>1 DEF FetchFails, StatesAgree
    <3> QED BY <1>2, <2>1, <3>1 DEF FetchFails, network, data
  <2>2. CASE OnDisconnect
    BY <1>3, <2>2 DEF OnDisconnect, Disconnect
  <2>3. CASE EnteringForeground \/ TokenExpires
    BY <1>2, <2>3 DEF EnteringForeground, TokenExpires, network, link, data
  <2>4. CASE OtherDeviceWrites \/ ServerRevokes
    <3>1. PICK t \in Seq(DownMessages) :
            down' = down \o t /\ \A m \in Range(t) : m.kind # "auth" /\ m.kind # "put"
      BY <2>4, Said
    <3>2. UNCHANGED <<conn, up, puts>>
      BY <2>4 DEF OtherDeviceWrites, ServerRevokes, link, data
    <3> QED BY <1>6, <3>1, <3>2
  <2> QED BY <1>12, <2>1, <2>2, <2>3, <2>4 DEF Trouble
<1>13. CASE UNCHANGED vars
  BY <1>2, <1>13 DEF vars, network, link, data
<1> QED BY <1>8, <1>9, <1>10, <1>11, <1>12, <1>13 DEF Next

-----------------------------------------------------------------------------
(* What was told stands.                                                   *)

\* The answers to puts that are on their way were on their way before, if the server took none.
LEMMA Heard ==
    ASSUME TypeInv, [Next]_vars, ~ServerPuts
    PROVE  \A m \in Range(down') : m.kind = "put" => m \in Range(down)
<1>a. up \in Seq(UpMessages) /\ down \in Seq(DownMessages)
  BY DEF TypeInv, OutsideOK
<1>1. CASE UNCHANGED down
  BY <1>1
<1>2. CASE down' = <<>>
  BY <1>2 DEF Range
<1>3. CASE down # <<>> /\ down' = Tail(down)
  <2>1. Range(down) = Range(Tail(down)) \cup {Head(down)}
    BY <1>a, <1>3, RangeAfter
  <2> QED BY <1>3, <2>1
<1>4. CASE ServerAnswersListen \/ ServerUnlistens \/ OtherDeviceWrites \/ ServerRevokes
  <2>1. PICK t \in Seq(DownMessages) :
          down' = down \o t /\ \A m \in Range(t) : m.kind # "auth" /\ m.kind # "put"
    BY <1>4, Said
  <2>2. Range(down') = Range(down) \cup Range(t)
    BY <1>a, <2>1, RangeAfter
  <2> QED BY <2>1, <2>2
<1>5. CASE ServerAuthenticates
  <2> DEFINE m == Msg("auth", Head(up).ref, IF Head(up).value = "good" /\ credential # "stale"
                                             THEN "ok" ELSE "refused")
  <2>1. /\ up # <<>> /\ Head(up).kind = "auth" /\ m.kind = "auth"
        /\ down' = down \/ down' = Append(down, m)
    BY <1>5 DEF ServerAuthenticates, Receives, Msg
  <2>2. m \in DownMessages
    <3>1. Head(up) \in UpMessages
      BY <1>a, <2>1, Taken
    <3> QED BY <2>1, <3>1, MessageTypes DEF DownMessages, Msg
  <2> HIDE DEF m
  <2>3. Range(Append(down, m)) = Range(down) \cup {m}
    BY <1>a, <2>2, RangeAfter
  <2> QED BY <2>1, <2>3
<1>6. CASE Client
  BY <1>1, <1>6 DEF Client, RunRetry, FetchSucceeds, OnReady, network
<1>7. CASE Receive
  BY <1>2, <1>3, <1>7 DEF Receive, OnAuth, OnAuthRevoked, OnPut, OnListen, OnDataUpdate,
      OnListenRevoked, OnKill, Arrives, InterruptForReason, Disconnect
<1>8. CASE Server
  BY <1>1, <1>4, <1>5, <1>8 DEF Server, ServerTakesListen
<1>9. CASE Program
  BY <1>1, <1>2, <1>9 DEF Program, Observe, RemoveObserver, Interrupt, InterruptForReason, Disconnect,
      Resume, RefreshAuthToken, SetValue, network
<1>10. CASE Trouble
  BY <1>1, <1>2, <1>4, <1>10 DEF Trouble, FetchFails, OnDisconnect, Disconnect, EnteringForeground,
      TokenExpires, network
<1>11. CASE UNCHANGED vars
  BY <1>1, <1>11 DEF vars, network
<1> QED BY <1>6, <1>7, <1>8, <1>9, <1>10, <1>11 DEF Next

\* A settled write stays settled when nothing earlier is stored.
LEMMA SettledKept ==
    ASSUME history \in Seq(Nat), NEW w \in Writes, Settled(history, w), NEW x \in Nat,
           history' = Append(history, x), ~(x \in Writes /\ x < w)
    PROVE  Settled(history', w)
<1>1. /\ DOMAIN history = 1..Len(history) /\ Len(history) \in Nat
      /\ DOMAIN history' = 1..(Len(history) + 1)
      /\ \A i \in 1..Len(history) : history'[i] = history[i]
      /\ history'[Len(history) + 1] = x
  BY AppendProperties, LenProperties
<1>2. \E i \in DOMAIN history' : history'[i] = w
  BY <1>1 DEF Settled
<1>3. ASSUME NEW i \in DOMAIN history', history'[i] \in Writes, history'[i] < w
      PROVE  \E j \in DOMAIN history' : i < j /\ history'[j] \in Writes /\ history'[j] >= w
  <2>1. i # Len(history) + 1
    BY <1>1, <1>3
  <2>2. i \in DOMAIN history /\ history'[i] = history[i]
    BY <1>1, <2>1
  <2>3. PICK j \in DOMAIN history : i < j /\ history[j] \in Writes /\ history[j] >= w
    BY <1>3, <2>2 DEF Settled
  <2>4. j \in DOMAIN history' /\ history'[j] = history[j]
    BY <1>1
  <2> QED BY <2>3, <2>4
<1> QED BY <1>2, <1>3 DEF Settled

\* A write that is stored is settled: nothing earlier is behind it.
LEMMA SettledNew ==
    ASSUME history \in Seq(Nat), NEW w \in Writes, history' = Append(history, w)
    PROVE  Settled(history', w)
<1>0. w \in Nat
  BY WritesAreNumbers
<1>1. /\ DOMAIN history = 1..Len(history) /\ Len(history) \in Nat
      /\ DOMAIN history' = 1..(Len(history) + 1)
      /\ history'[Len(history) + 1] = w
  BY <1>0, AppendProperties, LenProperties
<1>2. Len(history) + 1 \in DOMAIN history'
  BY <1>1
<1>3. \E i \in DOMAIN history' : history'[i] = w
  BY <1>1, <1>2
<1>4. ASSUME NEW i \in DOMAIN history', history'[i] \in Writes, history'[i] < w
      PROVE  i < Len(history) + 1
  <2>1. i # Len(history) + 1
    BY <1>0, <1>1, <1>4
  <2> QED BY <1>1, <2>1
<1> QED BY <1>0, <1>1, <1>2, <1>3, <1>4 DEF Settled

\* Nothing was answered at the start.
LEMMA OkInit == Init => OkInv
BY DEF Init, OkInv, Range

(* What is told, held or on its way as ok stays settled: every put the server may still take is
   later. *)
LEMMA OkNext == TypeInv /\ WireInv /\ StatusInv /\ OkInv /\ [Next]_vars => OkInv'
<1> SUFFICES ASSUME TypeInv, WireInv, StatusInv, OkInv, [Next]_vars PROVE OkInv'
  OBVIOUS
<1>a. /\ up \in Seq(UpMessages) /\ down \in Seq(DownMessages) /\ history \in Seq(Nat)
      /\ puts \subseteq Writes /\ Writes \subseteq Nat
      /\ status \in [Writes -> {"new", "pending", "ok", "refused"}]
      /\ putsToAck \in Seq(Writes \X {"ok", "refused"})
      /\ DOMAIN putsToAck = 1..Len(putsToAck) /\ Len(putsToAck) \in Nat
      /\ \A i \in DOMAIN putsToAck : putsToAck[i] \in Writes \X {"ok", "refused"}
      /\ Range(down) \subseteq DownMessages
  BY WritesAreNumbers, ElementOfSeq, LenProperties, RangeAfter DEF TypeInv, FieldsOK, OutsideOK
<1>b. /\ \A w \in Writes : status[w] = "ok" => Settled(history, w)
      /\ \A i \in DOMAIN putsToAck : putsToAck[i][2] = "ok" => Settled(history, putsToAck[i][1])
      /\ \A m \in Range(down) : m.kind = "put" /\ m.value = "ok" => Settled(history, m.ref)
  BY DEF OkInv
<1>d. ~ServerPuts => \A m \in Range(down') : m.kind = "put" => m \in Range(down)
  BY Heard
<1>1. CASE UNCHANGED <<status, putsToAck, history>> /\ ~ServerPuts
  <2>1. \A w \in Writes : status'[w] = "ok" => Settled(history', w)
    BY <1>1, <1>b
  <2>2. \A i \in DOMAIN putsToAck' : putsToAck'[i][2] = "ok" => Settled(history', putsToAck'[i][1])
    BY <1>1, <1>b
  <2>3. \A m \in Range(down') : m.kind = "put" /\ m.value = "ok" => Settled(history', m.ref)
    BY <1>1, <1>b, <1>d
  <2> QED BY <2>1, <2>2, <2>3 DEF OkInv
<1>2. CASE \E w \in Writes : SetValue(w)
  <2>1. PICK w \in Writes : SetValue(w)
    BY <1>2
  <2>2. status' = [status EXCEPT ![w] = "pending"] /\ UNCHANGED <<putsToAck, down, history>>
    BY <2>1 DEF SetValue, server
  <2>3. \A v \in Writes : status'[v] = "ok" => Settled(history', v)
    BY <1>a, <1>b, <2>2
  <2>4. \A i \in DOMAIN putsToAck' : putsToAck'[i][2] = "ok" => Settled(history', putsToAck'[i][1])
    BY <1>b, <2>2
  <2>5. \A m \in Range(down') : m.kind = "put" /\ m.value = "ok" => Settled(history', m.ref)
    BY <1>b, <2>2
  <2> QED BY <2>3, <2>4, <2>5 DEF OkInv
<1>3. CASE OnPut
  <2> DEFINE r == Head(down).ref
             v == Head(down).value
  <2>1. /\ Head(down) \in Range(down) /\ Head(down).kind = "put"
        /\ r \in puts /\ r \in Writes /\ v \in {"ok", "refused"} /\ down' = Tail(down) /\ down # <<>>
    BY <1>3, <1>a, PutAnswered
  <2>2. v = "ok" => Settled(history', r)
    <3>1. UNCHANGED history
      BY <1>3 DEF OnPut, server
    <3> QED BY <1>b, <2>1, <3>1
  <2>3. UNCHANGED history
    BY <1>3 DEF OnPut, server
  <2>4. \A m \in Range(down') : m.kind = "put" /\ m.value = "ok" => Settled(history', m.ref)
    <3>1. Range(down') \subseteq Range(down)
      BY <1>a, <2>1, RangeAfter
    <3> QED BY <1>b, <2>3, <3>1
  <2>5. CASE unacked = 0
    <3>1. Tell(<<<<r, v>>>>) /\ UNCHANGED putsToAck
      BY <1>3, <2>5 DEF OnPut
    <3> HIDE DEF r, v
    <3>2. \A w \in Writes : status'[w] = IF w = r THEN v ELSE status[w]
      BY <2>1, <3>1 DEF Tell
    <3>3. \A w \in Writes : status'[w] = "ok" => Settled(history', w)
      BY <1>b, <2>2, <2>3, <3>2
    <3>4. \A i \in DOMAIN putsToAck' : putsToAck'[i][2] = "ok" => Settled(history', putsToAck'[i][1])
      BY <1>b, <2>3, <3>1
    <3> QED BY <2>4, <3>3, <3>4 DEF OkInv
  <2>6. CASE unacked # 0
    <3> DEFINE answer == <<r, v>>
    <3>1. putsToAck' = Append(putsToAck, answer) /\ UNCHANGED status
      BY <1>3, <2>6 DEF OnPut
    <3>2. answer \in Writes \X {"ok", "refused"} /\ answer[1] = r /\ answer[2] = v
      BY <2>1
    <3> HIDE DEF answer, r, v
    <3>3. /\ DOMAIN putsToAck' = 1..(Len(putsToAck) + 1)
          /\ \A i \in 1..Len(putsToAck) : putsToAck'[i] = putsToAck[i]
          /\ putsToAck'[Len(putsToAck) + 1] = answer
      BY <1>a, <3>1, <3>2, AppendProperties, LenProperties
    <3>4. \A i \in DOMAIN putsToAck' : putsToAck'[i][2] = "ok" => Settled(history', putsToAck'[i][1])
      <4> SUFFICES ASSUME NEW i \in DOMAIN putsToAck', putsToAck'[i][2] = "ok"
                   PROVE  Settled(history', putsToAck'[i][1])
        OBVIOUS
      <4>1. CASE i = Len(putsToAck) + 1
        BY <2>2, <3>2, <3>3, <4>1
      <4>2. CASE i # Len(putsToAck) + 1
        <5>1. i \in DOMAIN putsToAck
          BY <1>a, <3>3, <4>2
        <5>2. putsToAck'[i] = putsToAck[i]
          BY <1>a, <3>3, <5>1
        <5>3. Settled(history, putsToAck[i][1])
          BY <1>b, <5>1, <5>2
        <5> QED BY <2>3, <5>2, <5>3
      <4> QED BY <4>1, <4>2
    <3>5. \A w \in Writes : status'[w] = "ok" => Settled(history', w)
      BY <1>b, <2>3, <3>1
    <3> QED BY <2>4, <3>4, <3>5 DEF OkInv
  <2> QED BY <2>5, <2>6
<1>4. CASE OnListen /\ unacked = 1
  <2>1. Tell(putsToAck) /\ putsToAck' = <<>> /\ UNCHANGED history
    BY <1>4 DEF OnListen, AckPuts, server
  <2>2. \A w \in Writes : status'[w] = "ok" => Settled(history', w)
    <3> SUFFICES ASSUME NEW w \in Writes, status'[w] = "ok" PROVE Settled(history', w)
      OBVIOUS
    <3>1. \/ status'[w] = status[w]
          \/ \E i \in DOMAIN putsToAck : putsToAck[i][1] = w /\ status'[w] = putsToAck[i][2]
      BY <1>a, <2>1, Told
    <3>2. Settled(history, w)
      BY <1>b, <3>1
    <3> QED BY <2>1, <3>2
  <2>3. ~ServerPuts
    <3>1. UNCHANGED up
      BY <1>4 DEF OnListen
    <3>2. OnListen
      BY <1>4
    <3>3. unacked' = unacked - 1
      BY <1>4 DEF OnListen
    <3> QED BY <1>4, <3>3 DEF ServerPuts
  <2>4. \A m \in Range(down') : m.kind = "put" /\ m.value = "ok" => Settled(history', m.ref)
    BY <1>b, <1>d, <2>1, <2>3
  <2>5. DOMAIN putsToAck' = {}
    BY <2>1
  <2> QED BY <2>2, <2>4, <2>5 DEF OkInv
<1>5. CASE ServerPuts
  <2>1. PICK m \in DownMessages, t \in Seq(DownMessages) :
          /\ up # <<>> /\ Head(up).kind = "put" /\ Head(up).ref \in Writes
          /\ m.kind = "put" /\ m.ref = Head(up).ref
          /\ \A n \in Range(t) : n.kind = "data"
          /\ down' = Append(down \o t, m)
          /\ \/ m.value = "ok" /\ history' = Append(history, Head(up).ref)
             \/ m.value = "refused" /\ UNCHANGED history
    BY <1>5, PutTaken
  <2> DEFINE u == Head(up).ref
  <2>2. Range(down') = Range(down) \cup Range(t) \cup {m}
    <3>1. down \o t \in Seq(DownMessages) /\ Range(down \o t) = Range(down) \cup Range(t)
      BY <1>a, RangeAfter, ConcatProperties
    <3> DEFINE pushed == down \o t
    <3>2. pushed \in Seq(DownMessages) /\ down' = Append(pushed, m)
      BY <2>1, <3>1
    <3> HIDE DEF pushed
    <3>3. Range(Append(pushed, m)) = Range(pushed) \cup {m}
      BY <3>2, RangeAfter
    <3> QED BY <3>1, <3>2, <3>3 DEF pushed
  <2>3. u \in Puts(up)
    BY <1>a, <2>1, PutsOfTail DEF WireInv
  <2>4. u \in puts /\ u \in Writes /\ u \in Nat
    BY <1>a, <2>3 DEF WireInv
  <2>5. UNCHANGED <<status, putsToAck>>
    BY <1>5 DEF ServerPuts, data
  <2>6. CASE m.value = "ok" /\ history' = Append(history, u)
    <3>1. \A w \in Writes : w < u /\ Settled(history, w) => Settled(history', w)
      <4> SUFFICES ASSUME NEW w \in Writes, w < u, Settled(history, w) PROVE Settled(history', w)
        OBVIOUS
      <4>1. ~(u \in Writes /\ u < w)
        BY <1>a, <2>4
      <4> HIDE DEF u
      <4> QED BY <1>a, <2>4, <2>6, <4>1, SettledKept
    <3>2. Settled(history', u)
      BY <1>a, <2>4, <2>6, SettledNew
    <3>3. \A w \in Writes : status'[w] = "ok" => Settled(history', w)
      BY <1>b, <2>4, <2>5, <3>1 DEF StatusInv
    <3>4. \A i \in DOMAIN putsToAck' : putsToAck'[i][2] = "ok" => Settled(history', putsToAck'[i][1])
      <4> SUFFICES ASSUME NEW i \in DOMAIN putsToAck, putsToAck[i][2] = "ok"
                   PROVE  Settled(history', putsToAck[i][1])
        BY <2>5
      <4>1. putsToAck[i][1] \in Writes /\ putsToAck[i][1] < u
        BY <1>a, <2>4 DEF StatusInv
      <4> QED BY <1>b, <3>1, <4>1
    <3>5. \A n \in Range(down') : n.kind = "put" /\ n.value = "ok" => Settled(history', n.ref)
      <4> SUFFICES ASSUME NEW n \in Range(down'), n.kind = "put", n.value = "ok" PROVE Settled(history', n.ref)
        OBVIOUS
      <4>1. CASE n = m
        BY <2>1, <3>2, <4>1
      <4>2. CASE n \in Range(down)
        <5>1. n.ref \in Writes
          BY <1>a, <4>2, MessageTypes
        <5>2. n.ref \in Puts(down)
          BY <4>2 DEF Puts, Range
        <5>3. n.ref < u
          BY <2>3, <5>2 DEF WireInv
        <5> QED BY <1>b, <3>1, <4>2, <5>1, <5>3
      <4> QED BY <2>1, <2>2, <4>1, <4>2
    <3> QED BY <3>3, <3>4, <3>5 DEF OkInv
  <2>7. CASE m.value = "refused" /\ UNCHANGED history
    <3>1. \A w \in Writes : status'[w] = "ok" => Settled(history', w)
      BY <1>b, <2>5, <2>7
    <3>2. \A i \in DOMAIN putsToAck' : putsToAck'[i][2] = "ok" => Settled(history', putsToAck'[i][1])
      BY <1>b, <2>5, <2>7
    <3>3. \A n \in Range(down') : n.kind = "put" /\ n.value = "ok" => Settled(history', n.ref)
      BY <1>b, <2>1, <2>2, <2>7
    <3> QED BY <3>1, <3>2, <3>3 DEF OkInv
  <2> QED BY <2>1, <2>6, <2>7
<1>6. CASE OtherDeviceWrites
  <2>1. PICK value \in Others : history' = Append(history, value)
    BY <1>6 DEF OtherDeviceWrites
  <2>2. value \in Nat /\ value \notin Writes
    BY OthersAssumption
  <2>3. \A w \in Writes : Settled(history, w) => Settled(history', w)
    BY <1>a, <2>1, <2>2, SettledKept
  <2>4. UNCHANGED <<status, putsToAck>> /\ ~ServerPuts
    <3>1. UNCHANGED up
      BY <1>6 DEF OtherDeviceWrites
    <3>2. up # <<>> => up # Tail(up)
      <4>1. up # <<>> => Len(Tail(up)) = Len(up) - 1 /\ Len(up) \in Nat
        BY <1>a, Taken
      <4> QED BY <4>1
    <3> QED BY <1>6, <3>1, <3>2 DEF OtherDeviceWrites, data, ServerPuts, Receives
  <2>5. \A w \in Writes : status'[w] = "ok" => Settled(history', w)
    BY <1>b, <2>3, <2>4
  <2>6. \A i \in DOMAIN putsToAck' : putsToAck'[i][2] = "ok" => Settled(history', putsToAck'[i][1])
    <3>1. \A i \in DOMAIN putsToAck : putsToAck[i][1] \in Writes
      BY <1>a
    <3> QED BY <1>b, <2>3, <2>4, <3>1
  <2>7. \A m \in Range(down') : m.kind = "put" /\ m.value = "ok" => Settled(history', m.ref)
    <3>1. \A m \in Range(down) : m.kind = "put" => m.ref \in Writes
      BY <1>a, MessageTypes
    <3> QED BY <1>b, <1>d, <2>3, <2>4, <3>1
  <2> QED BY <2>5, <2>6, <2>7 DEF OkInv
<1>7. CASE UNCHANGED <<status, putsToAck, history>>
  BY <1>1, <1>5, <1>7
<1>8. CASE Client
  BY <1>7, <1>8 DEF Client, RunRetry, FetchSucceeds, OnReady, data, server
<1>9. CASE Receive
  BY <1>3, <1>4, <1>7, <1>9 DEF Receive, OnAuth, OnAuthRevoked, OnListen, OnDataUpdate,
      OnListenRevoked, OnKill, data, server
<1>10. CASE Server
  BY <1>5, <1>7, <1>10 DEF Server, ServerAuthenticates, ServerTakesListen, ServerAnswersListen,
      ServerUnlistens, data, server
<1>11. CASE Program
  BY <1>2, <1>7, <1>11 DEF Program, Observe, RemoveObserver, Interrupt, Resume, RefreshAuthToken,
      data, server
<1>12. CASE Trouble
  BY <1>6, <1>7, <1>12 DEF Trouble, FetchFails, OnDisconnect, EnteringForeground, ServerRevokes,
      TokenExpires, data, server
<1>13. CASE UNCHANGED vars
  BY <1>7, <1>13 DEF vars, data, server
<1> QED BY <1>8, <1>9, <1>10, <1>11, <1>12, <1>13 DEF Next

\* In a channel in order each put is at most once.
LEMMA OnceEach ==
    ASSUME NEW M, NEW s \in Seq(M), InOrder(s), Puts(s) \subseteq Nat, NEW w
    PROVE  Cardinality({i \in DOMAIN s : s[i].kind = "put" /\ s[i].ref = w})
              = IF w \in Puts(s) THEN 1 ELSE 0
<1> DEFINE Places == {i \in DOMAIN s : s[i].kind = "put" /\ s[i].ref = w}
<1>1. DOMAIN s = 1..Len(s) /\ Len(s) \in Nat
  BY LenProperties
<1>2. CASE w \in Puts(s)
  <2>1. PICK i \in DOMAIN s : s[i].kind = "put" /\ s[i].ref = w
    BY <1>2 DEF Puts
  <2>2. ASSUME NEW j \in DOMAIN s, s[j].kind = "put", s[j].ref = w PROVE j = i
    <3>1. ~(i < j) /\ ~(j < i)
      BY <1>2, <2>1, <2>2 DEF InOrder
    <3> QED BY <1>1, <3>1
  <2>3. Places = {i}
    BY <2>1, <2>2
  <2>4. Cardinality(Places) = 1
    BY <2>3, FS_Singleton
  <2> QED BY <1>2, <2>4
<1>3. CASE w \notin Puts(s)
  <2>1. Places = {}
    BY <1>3 DEF Puts
  <2>2. Cardinality(Places) = 0
    BY <2>1, FS_EmptySet
  <2> QED BY <1>3, <2>2
<1> QED BY <1>2, <1>3

\* The inductive invariant.
AllInv == TypeInv /\ IInv /\ AuthInv /\ WireInv /\ StatusInv /\ OkInv

\* The invariant holds at the start.
LEMMA AllInit == Init => AllInv
BY IInvInit, TypeInit, AuthInit, WireInit, StatusInit, OkInit DEF AllInv

\* Every step keeps it.
LEMMA AllNext == AllInv /\ [Next]_vars => AllInv'
<1>1. IInv => LinkQuiet
  BY DEF IInv
<1> QED BY <1>1, IInvNext, TypeNext, AuthNext, WireNext, StatusNext, OkNext DEF AllInv

\* It holds in every state.
LEMMA AllAlways == Spec => []AllInv
BY AllInit, AllNext, PTL DEF Spec

(* The client's fields have their types, for every number of writes and every budget: the count of
   unanswered listens is never negative, and an answer held back is one of a write. *)
THEOREM TypeCorrect == Spec => []TypeOK
<1>1. AllInv => TypeOK
  BY TypeInvTypes DEF AllInv
<1> QED BY <1>1, AllAlways, PTL

(* The states of FPersistentConnection agree, unackedListensCount is the number of the answers to
   come, and on a connection that can send writes every outstanding put has exactly one request
   or answer on its way, whatever was lost and sent again. *)
THEOREM ConnectionConsistentCorrect == Spec => []ConnectionConsistent
<1>1. AllInv => ConnectionConsistent
  <2> SUFFICES ASSUME AllInv PROVE ConnectionConsistent
    OBVIOUS
  <2>1. /\ up \in Seq(UpMessages) /\ down \in Seq(DownMessages) /\ StatesAgree /\ WireInv
        /\ puts \subseteq Nat /\ unacked = Count(up, "listen") + Count(down, "listen") + Len(asked)
    BY WritesAreNumbers DEF AllInv, TypeInv, OutsideOK, FieldsOK, IInv, CountInv
  <2>2. ASSUME NEW w \in Writes
        PROVE  Cardinality(Requests("put", w)) + Cardinality(Answers("put", w))
                  = IF w \in puts /\ CanSendWrites THEN 1 ELSE 0
    <3>1. /\ InOrder(up) /\ InOrder(down) /\ \A v \in Puts(down), u \in Puts(up) : v < u
          /\ Puts(down) \cup Puts(up) = IF CanSendWrites THEN puts ELSE {}
      BY <2>1 DEF WireInv
    <3>2. Puts(down) \subseteq Nat /\ Puts(up) \subseteq Nat
      BY <2>1, <3>1
    <3>3. Cardinality(Requests("put", w)) = IF w \in Puts(up) THEN 1 ELSE 0
      BY <2>1, <3>1, <3>2, OnceEach DEF Requests
    <3>4. Cardinality(Answers("put", w)) = IF w \in Puts(down) THEN 1 ELSE 0
      BY <2>1, <3>1, <3>2, OnceEach DEF Answers
    <3>5. ~(w \in Puts(up) /\ w \in Puts(down))
      BY <3>1, <3>2
    <3>6. w \in Puts(up) \/ w \in Puts(down) <=> w \in puts /\ CanSendWrites
      BY <3>1
    <3> QED BY <3>3, <3>4, <3>5, <3>6
  <2> QED BY <2>1, <2>2 DEF ConnectionConsistent
<1> QED BY <1>1, AllAlways, PTL

(* The program's latest word stands: no write made before one that was answered ok is stored over
   it, however often putAction's puts were sent again by restoreState. *)
THEOREM NewestWinsCorrect == Spec => []NewestWins
<1>1. AllInv => NewestWins
  BY DEF AllInv, OkInv, Settled, NewestWins
<1> QED BY <1>1, AllAlways, PTL

\* Completion blocks called for pending writes, with ok for stored ones, are an answer.
LEMMA AnswersGiven ==
    ASSUME status \in [Writes -> {"new", "pending", "ok", "refused"}],
           status' \in [Writes -> {"new", "pending", "ok", "refused"}], UNCHANGED history,
           \A w \in Writes : \/ status'[w] = status[w]
                             \/ /\ status[w] = "pending" /\ status'[w] \in {"ok", "refused"}
                                /\ status'[w] = "ok" => Settled(history, w)
    PROVE  Promise!Answer
<1> DEFINE S == {w \in Writes : status'[w] # status[w]}
           a == [w \in Writes |-> IF w \in S THEN status'[w] ELSE "refused"]
<1>1. S \in SUBSET {w \in Writes : status[w] = "pending"}
  OBVIOUS
<1>2. a \in [Writes -> {"ok", "refused"}]
  OBVIOUS
<1>3. \A w \in S : a[w] = "ok" => \E i \in DOMAIN history : history[i] = w
  BY DEF Settled
<1>4. status' = [w \in Writes |-> IF w \in S THEN a[w] ELSE status[w]]
  OBVIOUS
<1> HIDE DEF S, a
<1> QED BY <1>1, <1>2, <1>3, <1>4 DEF Promise!Answer

\* The promise starts as the client does.
LEMMA RefineInit == Init => Promise!Init
BY DEF Init, Promise!Init, Nothing

\* Every step of the client is one of the promise, or none.
LEMMA RefineStep == AllInv /\ [Next]_vars => [Promise!Next]_(Promise!vars)
<1> SUFFICES ASSUME AllInv, [Next]_vars PROVE [Promise!Next]_(Promise!vars)
  OBVIOUS
<1>a. /\ status \in [Writes -> {"new", "pending", "ok", "refused"}]
      /\ status' \in [Writes -> {"new", "pending", "ok", "refused"}]
      /\ TypeInv /\ WireInv /\ StatusInv /\ OkInv /\ up \in Seq(UpMessages)
      /\ putsToAck \in Seq(Writes \X {"ok", "refused"})
      /\ DOMAIN putsToAck = 1..Len(putsToAck)
      /\ \A i \in DOMAIN putsToAck : putsToAck[i] \in Writes \X {"ok", "refused"}
  BY AllNext, ElementOfSeq, LenProperties DEF AllInv, TypeInv, FieldsOK, OutsideOK
<1>1. CASE UNCHANGED <<status, history>>
  BY <1>1 DEF Promise!vars
<1>2. CASE \E w \in Writes : SetValue(w)
  <2>1. PICK w \in Writes : SetValue(w)
    BY <1>2
  <2>2. Promise!Issue(w)
    BY <2>1 DEF SetValue, Promise!Issue, server
  <2> QED BY <2>2 DEF Promise!Next
<1>3. CASE ServerPuts
  <2>1. /\ up # <<>> /\ Head(up).kind = "put" /\ Head(up).ref \in Writes
        /\ history' = Append(history, Head(up).ref) \/ UNCHANGED history
    BY <1>3, <1>a, PutTaken
  <2> DEFINE u == Head(up).ref
  <2>2. u \in puts
    <3>1. u \in Puts(up)
      BY <1>a, <2>1, PutsOfTail DEF WireInv
    <3> QED BY <1>a, <3>1 DEF WireInv
  <2>3. status[u] = "pending" /\ u \in Nat
    BY <1>a, <2>1, <2>2, WritesAreNumbers DEF StatusInv
  <2>4. \A v \in Writes : v > u => status[v] \in {"new", "pending"}
    <3> SUFFICES ASSUME NEW v \in Writes, v > u, status[v] \in {"ok", "refused"} PROVE FALSE
      BY <1>a
    <3>1. v < u /\ v \in Nat
      BY <1>a, <2>2, WritesAreNumbers DEF StatusInv
    <3> QED BY <2>3, <3>1
  <2>5. UNCHANGED status
    BY <1>3 DEF ServerPuts, data
  <2> HIDE DEF u
  <2>6. CASE history' = Append(history, u)
    <3>1. Promise!Store(u)
      BY <2>3, <2>4, <2>5, <2>6 DEF Promise!Store
    <3> QED BY <2>1, <3>1 DEF Promise!Next, u
  <2> QED BY <1>1, <2>1, <2>5, <2>6 DEF u
<1>4. CASE OtherDeviceWrites
  <2>1. Promise!StoreForeign
    BY <1>4 DEF OtherDeviceWrites, Promise!StoreForeign, data
  <2> QED BY <2>1 DEF Promise!Next
<1>5. CASE OnPut /\ unacked = 0
  <2> DEFINE r == Head(down).ref
             v == Head(down).value
  <2>1. /\ Head(down) \in Range(down) /\ Head(down).kind = "put"
        /\ r \in puts /\ v \in {"ok", "refused"}
    BY <1>5, <1>a, PutAnswered
  <2>2. Tell(<<<<r, v>>>>) /\ UNCHANGED history
    BY <1>5 DEF OnPut, server
  <2>3. status[r] = "pending" /\ (v = "ok" => Settled(history, r))
    BY <1>a, <2>1 DEF StatusInv, OkInv
  <2> HIDE DEF r, v
  <2>4. \A w \in Writes : status'[w] = IF w = r THEN v ELSE status[w]
    BY <2>2 DEF Tell
  <2>5. Promise!Answer
    BY <1>a, <2>1, <2>2, <2>3, <2>4, AnswersGiven
  <2> QED BY <2>5 DEF Promise!Next
<1>6. CASE OnListen /\ unacked = 1
  <2>1. Tell(putsToAck) /\ UNCHANGED history
    BY <1>6 DEF OnListen, AckPuts, server
  <2>2. \A w \in Writes : \/ status'[w] = status[w]
                          \/ /\ status[w] = "pending" /\ status'[w] \in {"ok", "refused"}
                             /\ status'[w] = "ok" => Settled(history, w)
    <3>a. putsToAck \in Seq(Writes \X {"ok", "refused"}) /\ Tell(putsToAck)
          /\ status \in [Writes -> {"new", "pending", "ok", "refused"}]
      BY <1>a, <2>1
    <3>1. \A w \in Writes :
          \/ status'[w] = status[w]
          \/ \E i \in DOMAIN putsToAck :
               putsToAck[i][1] = w /\ status'[w] = putsToAck[i][2] /\ putsToAck[i][2] \in {"ok", "refused"}
      BY <3>a, Told
    <3> QED BY <1>a, <3>1 DEF StatusInv, OkInv
  <2>3. Promise!Answer
    BY <1>a, <2>1, <2>2, AnswersGiven
  <2> QED BY <2>3 DEF Promise!Next
<1>7. CASE Client
  BY <1>1, <1>7 DEF Client, RunRetry, FetchSucceeds, OnReady, data, server
<1>8. CASE Receive
  BY <1>1, <1>5, <1>6, <1>8 DEF Receive, OnAuth, OnAuthRevoked, OnPut, OnListen, OnDataUpdate,
      OnListenRevoked, OnKill, data, server
<1>9. CASE Server
  BY <1>1, <1>3, <1>9 DEF Server, ServerAuthenticates, ServerTakesListen, ServerAnswersListen,
      ServerUnlistens, data, server
<1>10. CASE Program
  BY <1>1, <1>2, <1>10 DEF Program, Observe, RemoveObserver, Interrupt, Resume, RefreshAuthToken,
      data, server
<1>11. CASE Trouble
  BY <1>1, <1>4, <1>11 DEF Trouble, FetchFails, OnDisconnect, EnteringForeground, ServerRevokes,
      TokenExpires, data, server
<1>12. CASE UNCHANGED vars
  BY <1>1, <1>12 DEF vars, data, server
<1> QED BY <1>7, <1>8, <1>9, <1>10, <1>11, <1>12 DEF Next

(* The client, with its queue, retries and answers held back, implements AtLeastOnce. *)
THEOREM PromiseKept == Spec => KeepsPromise
BY AllInit, AllNext, RefineInit, RefineStep, PTL DEF Spec, KeepsPromise, Promise!Spec

-----------------------------------------------------------------------------
(* The listens on a channel.                                               *)

\* Data, and the answers to listens.
Loads(m) == m.kind \in {"data", "listen"}

NoListen(s) == \A i \in DOMAIN s : s[i].kind # "listen"
NoLoads(s) == \A i \in DOMAIN s : ~Loads(s[i])

\* The last request about the location is a listen, of number l.
Relisted(s, l) ==
    \A i \in DOMAIN s :
        s[i].kind \in {"listen", "unlisten"} /\ (\A j \in DOMAIN s : i < j => s[j].kind # "listen")
            => s[i].kind = "listen" /\ s[i].ref = l

\* A listen that says what the client has.
Hashed(m) == m.kind = "listen" /\ m.value # Nothing

\* No other listen is before it, and what it says is still so.
Hashes(s, l, c) ==
    \A k \in DOMAIN s : Hashed(s[k]) =>
        /\ \A j \in DOMAIN s : j < k => s[j].kind # "listen"
        /\ s[k].ref = l => c = s[k].value
NoHash(s) == \A k \in DOMAIN s : ~Hashed(s[k])

\* Their numbers are used up.
RefsAbove(s, b) == \A i \in DOMAIN s : s[i].kind = "listen" => s[i].ref > b

\* Nothing of a listen comes before the answer that authenticates.
LoadsAfterFirst(s) ==
    \A i \in DOMAIN s : Loads(s[i]) => \E j \in DOMAIN s : j < i /\ IsFirst(s[j])

\* What is sent is behind what was.
LEMMA Joined ==
    ASSUME NEW M, NEW s \in Seq(M), NEW t \in Seq(M)
    PROVE  /\ s \o t \in Seq(M)
           /\ Len(s) \in Nat /\ Len(t) \in Nat /\ Len(s \o t) = Len(s) + Len(t)
           /\ DOMAIN s = 1..Len(s) /\ DOMAIN t = 1..Len(t)
           /\ DOMAIN (s \o t) = 1..(Len(s) + Len(t))
           /\ \A i \in DOMAIN s : i \in DOMAIN (s \o t) /\ (s \o t)[i] = s[i]
           /\ \A i \in DOMAIN t :
                Len(s) + i \in DOMAIN (s \o t) /\ (s \o t)[Len(s) + i] = t[i]
           /\ \A i \in DOMAIN (s \o t) :
                \/ i \in DOMAIN s /\ (s \o t)[i] = s[i]
                \/ i > Len(s) /\ i - Len(s) \in DOMAIN t /\ (s \o t)[i] = t[i - Len(s)]
<1>1. /\ s \o t \in Seq(M)
      /\ Len(s) \in Nat /\ Len(t) \in Nat /\ Len(s \o t) = Len(s) + Len(t)
      /\ DOMAIN s = 1..Len(s) /\ DOMAIN t = 1..Len(t)
      /\ DOMAIN (s \o t) = 1..(Len(s) + Len(t))
      /\ \A i \in 1..(Len(s) + Len(t)) :
           (s \o t)[i] = IF i <= Len(s) THEN s[i] ELSE t[i - Len(s)]
  BY ConcatProperties, LenProperties
<1> DEFINE r == s \o t
           n == Len(s)
           k == Len(t)
<1>2. /\ n \in Nat /\ k \in Nat /\ DOMAIN s = 1..n /\ DOMAIN t = 1..k /\ DOMAIN r = 1..(n + k)
      /\ \A i \in 1..(n + k) : r[i] = IF i <= n THEN s[i] ELSE t[i - n]
  BY <1>1
<1> HIDE DEF r, n, k
<1>3. ASSUME NEW i \in DOMAIN s PROVE i \in DOMAIN r /\ r[i] = s[i]
  BY <1>2
<1>4. ASSUME NEW i \in DOMAIN t PROVE n + i \in DOMAIN r /\ r[n + i] = t[i]
  BY <1>2
<1>5. ASSUME NEW i \in DOMAIN r
      PROVE  \/ i \in DOMAIN s /\ r[i] = s[i]
             \/ i > n /\ i - n \in DOMAIN t /\ r[i] = t[i - n]
  BY <1>2
<1> QED BY <1>1, <1>3, <1>4, <1>5 DEF r, n, k

\* What that does to the listens.
LEMMA ListensJoined ==
    ASSUME NEW M, NEW s \in Seq(M), NEW t \in Seq(M), NEW l, NEW c, NEW b
    PROVE  /\ NoListen(s \o t) <=> NoListen(s) /\ NoListen(t)
           /\ NoLoads(s \o t) <=> NoLoads(s) /\ NoLoads(t)
           /\ NoHash(s \o t) <=> NoHash(s) /\ NoHash(t)
           /\ RefsAbove(s \o t, b) <=> RefsAbove(s, b) /\ RefsAbove(t, b)
           /\ Relisted(t, l) /\ (Relisted(s, l) \/ ~NoListen(t)) => Relisted(s \o t, l)
           /\ Hashes(s, l, c) /\ Hashes(t, l, c) /\ (NoListen(s) \/ NoHash(t))
                => Hashes(s \o t, l, c)
           /\ LoadsAfterFirst(s) /\ (NoLoads(t) \/ OneFirst(s)) => LoadsAfterFirst(s \o t)
<1> DEFINE r == s \o t
           n == Len(s)
<1>1. /\ n \in Nat /\ DOMAIN s = 1..n /\ DOMAIN t = 1..Len(t) /\ Len(t) \in Nat
      /\ DOMAIN r = 1..(n + Len(t))
      /\ \A i \in DOMAIN s : i \in DOMAIN r /\ r[i] = s[i]
      /\ \A i \in DOMAIN t : n + i \in DOMAIN r /\ r[n + i] = t[i]
      /\ \A i \in DOMAIN r : \/ i \in DOMAIN s /\ r[i] = s[i]
                             \/ i > n /\ i - n \in DOMAIN t /\ r[i] = t[i - n]
  BY Joined
<1> HIDE DEF r, n
<1>2. NoListen(r) <=> NoListen(s) /\ NoListen(t)
  BY <1>1 DEF NoListen
<1>3. NoLoads(r) <=> NoLoads(s) /\ NoLoads(t)
  BY <1>1 DEF NoLoads
<1>4. NoHash(r) <=> NoHash(s) /\ NoHash(t)
  BY <1>1 DEF NoHash
<1>5. RefsAbove(r, b) <=> RefsAbove(s, b) /\ RefsAbove(t, b)
  BY <1>1 DEF RefsAbove
<1>6. ASSUME Relisted(t, l), Relisted(s, l) \/ ~NoListen(t) PROVE Relisted(r, l)
  <2> SUFFICES ASSUME NEW i \in DOMAIN r, r[i].kind \in {"listen", "unlisten"},
                      \A j \in DOMAIN r : i < j => r[j].kind # "listen"
               PROVE  r[i].kind = "listen" /\ r[i].ref = l
    BY DEF Relisted
  <2>1. CASE i \in DOMAIN s /\ r[i] = s[i]
    <3>1. NoListen(t)
      <4> SUFFICES ASSUME NEW j \in DOMAIN t PROVE t[j].kind # "listen"
        BY DEF NoListen
      <4>1. n + j \in DOMAIN r /\ r[n + j] = t[j] /\ i < n + j
        BY <1>1, <2>1
      <4> QED BY <4>1
    <3>2. \A j \in DOMAIN s : i < j => s[j].kind # "listen"
      BY <1>1
    <3> QED BY <1>6, <2>1, <3>1, <3>2 DEF Relisted
  <2>2. CASE i > n /\ i - n \in DOMAIN t /\ r[i] = t[i - n]
    <3>1. ASSUME NEW j \in DOMAIN t, i - n < j PROVE t[j].kind # "listen"
      <4>1. n + j \in DOMAIN r /\ r[n + j] = t[j] /\ i < n + j
        BY <1>1, <2>2, <3>1
      <4> QED BY <4>1
    <3> QED BY <1>6, <2>2, <3>1 DEF Relisted
  <2> QED BY <1>1, <2>1, <2>2
<1>7. ASSUME Hashes(s, l, c), Hashes(t, l, c), NoListen(s) \/ NoHash(t) PROVE Hashes(r, l, c)
  <2> SUFFICES ASSUME NEW k \in DOMAIN r, Hashed(r[k])
               PROVE  /\ \A j \in DOMAIN r : j < k => r[j].kind # "listen"
                      /\ r[k].ref = l => c = r[k].value
    BY DEF Hashes
  <2>1. CASE k \in DOMAIN s /\ r[k] = s[k]
    <3>1. \A j \in DOMAIN r : j < k => j \in DOMAIN s /\ r[j] = s[j]
      BY <1>1, <2>1
    <3> QED BY <1>7, <2>1, <3>1 DEF Hashes
  <2>2. CASE k > n /\ k - n \in DOMAIN t /\ r[k] = t[k - n]
    <3>1. NoListen(s)
      BY <1>7, <2>2 DEF NoHash
    <3>2. ASSUME NEW j \in DOMAIN r, j < k PROVE r[j].kind # "listen"
      <4>1. CASE j \in DOMAIN s /\ r[j] = s[j]
        BY <3>1, <4>1 DEF NoListen
      <4>2. CASE j > n /\ j - n \in DOMAIN t /\ r[j] = t[j - n]
        <5>1. j - n < k - n
          BY <1>1, <2>2, <3>2, <4>2
        <5> QED BY <1>7, <2>2, <4>2, <5>1 DEF Hashes
      <4> QED BY <1>1, <4>1, <4>2
    <3> QED BY <1>7, <2>2, <3>2 DEF Hashes
  <2> QED BY <1>1, <2>1, <2>2
<1>8. ASSUME LoadsAfterFirst(s), NoLoads(t) \/ OneFirst(s) PROVE LoadsAfterFirst(r)
  <2> SUFFICES ASSUME NEW i \in DOMAIN r, Loads(r[i])
               PROVE  \E j \in DOMAIN r : j < i /\ IsFirst(r[j])
    BY DEF LoadsAfterFirst
  <2>1. CASE i \in DOMAIN s /\ r[i] = s[i]
    <3>1. PICK j \in DOMAIN s : j < i /\ IsFirst(s[j])
      BY <1>8, <2>1 DEF LoadsAfterFirst
    <3> QED BY <1>1, <3>1
  <2>2. CASE i > n /\ i - n \in DOMAIN t /\ r[i] = t[i - n]
    <3>1. OneFirst(s)
      BY <1>8, <2>2 DEF NoLoads
    <3>2. PICK j \in DOMAIN s : IsFirst(s[j])
      BY <3>1 DEF OneFirst
    <3>3. j \in DOMAIN r /\ r[j] = s[j] /\ j \in 1..n /\ i \in Int
      BY <1>1, <2>2, <3>2
    <3>4. j < i
      BY <1>1, <2>2, <3>3
    <3> QED BY <3>2, <3>3, <3>4
  <2> QED BY <1>1, <2>1, <2>2
<1> QED BY <1>2, <1>3, <1>4, <1>5, <1>6, <1>7, <1>8 DEF r

\* The same of one message.
LEMMA ListenAdded ==
    ASSUME NEW M, NEW s \in Seq(M), NEW m \in M, NEW l, NEW c, NEW b
    PROVE  /\ NoListen(Append(s, m)) <=> NoListen(s) /\ m.kind # "listen"
           /\ NoLoads(Append(s, m)) <=> NoLoads(s) /\ ~Loads(m)
           /\ NoHash(Append(s, m)) <=> NoHash(s) /\ ~Hashed(m)
           /\ RefsAbove(Append(s, m), b) <=> RefsAbove(s, b) /\ (m.kind = "listen" => m.ref > b)
           /\ m.kind = "listen" /\ m.ref = l => Relisted(Append(s, m), l)
           /\ Relisted(s, l) /\ m.kind \notin {"listen", "unlisten"} => Relisted(Append(s, m), l)
           /\ Hashes(s, l, c) /\ ~Hashed(m) => Hashes(Append(s, m), l, c)
           /\ Hashes(s, l, c) /\ NoListen(s) /\ (m.ref = l => c = m.value)
                => Hashes(Append(s, m), l, c)
           /\ LoadsAfterFirst(s) /\ (~Loads(m) \/ OneFirst(s)) => LoadsAfterFirst(Append(s, m))
<1> DEFINE one == <<m>>
<1>1. one \in Seq(M) /\ Append(s, m) = s \o one
  BY Alone
<1>2. DOMAIN one = {1} /\ one[1] = m
  OBVIOUS
<1> HIDE DEF one
<1>3. /\ NoListen(one) <=> m.kind # "listen"
      /\ NoLoads(one) <=> ~Loads(m)
      /\ NoHash(one) <=> ~Hashed(m)
      /\ RefsAbove(one, b) <=> (m.kind = "listen" => m.ref > b)
      /\ m.kind = "listen" /\ m.ref = l => Relisted(one, l)
      /\ m.kind \notin {"listen", "unlisten"} => Relisted(one, l)
      /\ ~Hashed(m) \/ (m.ref = l => c = m.value) => Hashes(one, l, c)
  BY <1>2 DEF NoListen, NoLoads, NoHash, RefsAbove, Relisted, Hashes
<1>4. /\ NoListen(s \o one) <=> NoListen(s) /\ NoListen(one)
      /\ NoLoads(s \o one) <=> NoLoads(s) /\ NoLoads(one)
      /\ NoHash(s \o one) <=> NoHash(s) /\ NoHash(one)
      /\ RefsAbove(s \o one, b) <=> RefsAbove(s, b) /\ RefsAbove(one, b)
      /\ Relisted(one, l) /\ (Relisted(s, l) \/ ~NoListen(one)) => Relisted(s \o one, l)
      /\ Hashes(s, l, c) /\ Hashes(one, l, c) /\ (NoListen(s) \/ NoHash(one))
           => Hashes(s \o one, l, c)
      /\ LoadsAfterFirst(s) /\ (NoLoads(one) \/ OneFirst(s)) => LoadsAfterFirst(s \o one)
  BY <1>1, ListensJoined
<1> QED BY <1>1, <1>3, <1>4

\* And of one that leaves.
LEMMA ListenTaken ==
    ASSUME NEW M, NEW s \in Seq(M), s # <<>>, NEW l, NEW c, NEW b
    PROVE  /\ NoListen(s) <=> NoListen(Tail(s)) /\ Head(s).kind # "listen"
           /\ NoLoads(s) <=> NoLoads(Tail(s)) /\ ~Loads(Head(s))
           /\ NoHash(s) <=> NoHash(Tail(s)) /\ ~Hashed(Head(s))
           /\ RefsAbove(s, b) <=>
                RefsAbove(Tail(s), b) /\ (Head(s).kind = "listen" => Head(s).ref > b)
           /\ Relisted(s, l) => Relisted(Tail(s), l)
           /\ Relisted(s, l) /\ NoListen(Tail(s)) =>
                Head(s).kind # "unlisten" /\ (Head(s).kind = "listen" => Head(s).ref = l)
           /\ Hashes(s, l, c) => Hashes(Tail(s), l, c)
           /\ Hashes(s, l, c) /\ Head(s).kind = "listen" => NoHash(Tail(s))
           /\ Hashes(s, l, c) /\ Hashed(Head(s)) /\ Head(s).ref = l => c = Head(s).value
           /\ LoadsAfterFirst(s) => ~Loads(Head(s))
           /\ LoadsAfterFirst(s) /\ ~IsFirst(Head(s)) => LoadsAfterFirst(Tail(s))
<1> DEFINE t == Tail(s)
           h == Head(s)
           n == Len(s)
<1>1. /\ n \in Nat \ {0} /\ DOMAIN s = 1..n /\ h = s[1]
      /\ DOMAIN t = 1..(n - 1)
      /\ \A i \in DOMAIN t : i + 1 \in DOMAIN s /\ t[i] = s[i + 1]
  BY Taken
<1> HIDE DEF t, h, n
<1>2. \A i \in DOMAIN s : \/ i = 1 /\ s[i] = h
                          \/ i > 1 /\ i - 1 \in DOMAIN t /\ t[i - 1] = s[i]
  <2> TAKE i \in DOMAIN s
  <2>1. CASE i # 1
    <3>1. i - 1 \in DOMAIN t /\ (i - 1) + 1 = i /\ i > 1
      BY <1>1, <2>1
    <3> QED BY <1>1, <3>1
  <2> QED BY <1>1, <2>1
<1>3. 1 \in DOMAIN s
  BY <1>1
<1>4. NoListen(s) <=> NoListen(t) /\ h.kind # "listen"
  BY <1>1, <1>2, <1>3 DEF NoListen
<1>5. NoLoads(s) <=> NoLoads(t) /\ ~Loads(h)
  BY <1>1, <1>2, <1>3 DEF NoLoads
<1>6. NoHash(s) <=> NoHash(t) /\ ~Hashed(h)
  BY <1>1, <1>2, <1>3 DEF NoHash
<1>7. RefsAbove(s, b) <=> RefsAbove(t, b) /\ (h.kind = "listen" => h.ref > b)
  BY <1>1, <1>2, <1>3 DEF RefsAbove
<1>8. ASSUME Relisted(s, l) PROVE Relisted(t, l)
  <2> SUFFICES ASSUME NEW i \in DOMAIN t, t[i].kind \in {"listen", "unlisten"},
                      \A j \in DOMAIN t : i < j => t[j].kind # "listen"
               PROVE  t[i].kind = "listen" /\ t[i].ref = l
    BY DEF Relisted
  <2>1. ASSUME NEW j \in DOMAIN s, i + 1 < j PROVE s[j].kind # "listen"
    <3>1. j - 1 \in DOMAIN t /\ t[j - 1] = s[j] /\ i < j - 1
      BY <1>1, <1>2, <2>1
    <3> QED BY <3>1
  <2>2. i + 1 \in DOMAIN s /\ t[i] = s[i + 1]
    BY <1>1
  <2> QED BY <1>8, <2>1, <2>2 DEF Relisted
<1>9. ASSUME Relisted(s, l), NoListen(t)
      PROVE  h.kind # "unlisten" /\ (h.kind = "listen" => h.ref = l)
  <2>1. \A j \in DOMAIN s : 1 < j => s[j].kind # "listen"
    BY <1>1, <1>2, <1>9 DEF NoListen
  <2> QED BY <1>1, <1>3, <1>9, <2>1 DEF Relisted
<1>10. ASSUME Hashes(s, l, c) PROVE Hashes(t, l, c)
  <2> SUFFICES ASSUME NEW k \in DOMAIN t, Hashed(t[k])
               PROVE  /\ \A j \in DOMAIN t : j < k => t[j].kind # "listen"
                      /\ t[k].ref = l => c = t[k].value
    BY DEF Hashes
  <2>1. k + 1 \in DOMAIN s /\ t[k] = s[k + 1]
    BY <1>1
  <2>2. ASSUME NEW j \in DOMAIN t, j < k PROVE t[j].kind # "listen"
    <3>1. j + 1 \in DOMAIN s /\ t[j] = s[j + 1] /\ j + 1 < k + 1
      BY <1>1, <2>2
    <3> QED BY <1>10, <2>1, <3>1 DEF Hashes
  <2> QED BY <1>10, <2>1, <2>2 DEF Hashes
<1>11. ASSUME Hashes(s, l, c), h.kind = "listen" PROVE NoHash(t)
  <2> SUFFICES ASSUME NEW k \in DOMAIN t, Hashed(t[k]) PROVE FALSE
    BY DEF NoHash
  <2>1. k + 1 \in DOMAIN s /\ t[k] = s[k + 1] /\ 1 < k + 1
    BY <1>1
  <2> QED BY <1>1, <1>3, <1>11, <2>1 DEF Hashes
<1>12. Hashes(s, l, c) /\ Hashed(h) /\ h.ref = l => c = h.value
  BY <1>1, <1>3 DEF Hashes
<1>13. LoadsAfterFirst(s) => ~Loads(h)
  BY <1>1, <1>3 DEF LoadsAfterFirst
<1>14. ASSUME LoadsAfterFirst(s), ~IsFirst(h) PROVE LoadsAfterFirst(t)
  <2> SUFFICES ASSUME NEW i \in DOMAIN t, Loads(t[i])
               PROVE  \E j \in DOMAIN t : j < i /\ IsFirst(t[j])
    BY DEF LoadsAfterFirst
  <2>1. i + 1 \in DOMAIN s /\ t[i] = s[i + 1]
    BY <1>1
  <2>2. PICK j \in DOMAIN s : j < i + 1 /\ IsFirst(s[j])
    BY <1>14, <2>1 DEF LoadsAfterFirst
  <2>3. j # 1
    BY <1>1, <1>14, <2>2
  <2>4. j - 1 \in DOMAIN t /\ t[j - 1] = s[j] /\ j - 1 < i
    BY <1>1, <1>2, <2>2, <2>3
  <2> QED BY <2>2, <2>4
<1> QED BY <1>4, <1>5, <1>6, <1>7, <1>8, <1>9, <1>10, <1>11, <1>12, <1>13, <1>14 DEF t, h

-----------------------------------------------------------------------------
(* What the steps of an open connection do.                                *)

\* A request is sent that is not about the location's listens, or none.
Asks ==
    /\ UNCHANGED <<listen, cache, down, asked, serving, history, putsToAck>>
    /\ up' = up \/ \E m \in UpMessages :
                     m.kind \in {"auth", "put"} /\ ~IsFirst(m) /\ up' = Append(up, m)

\* An answer to a token of later than the connection's first is heard.
HearsLater ==
    /\ conn = "connected"
    /\ down # <<>> /\ Head(down).kind = "auth" /\ ~IsFirst(Head(down)) /\ down' = Tail(down)
    /\ UNCHANGED <<listen, cache, up, asked, serving, history, putsToAck>>

\* The connection's first token is answered: it starts to be used.
Begins ==
    /\ conn = "authenticating" /\ conn' = "connected"
    /\ down # <<>> /\ Head(down).kind = "auth" /\ IsFirst(Head(down)) /\ down' = Tail(down)
    /\ OneFirst(down) /\ NoFirst(up)
    /\ RestoreState
    /\ UNCHANGED <<listen, cache, asked, serving, history, putsToAck>>

\* What is heard, and done, on an open connection.
Hears == OnPut \/ OnListen \/ OnDataUpdate \/ OnListenRevoked
Serves ==
    \/ ServerAuthenticates \/ ServerTakesListen \/ ServerAnswersListen \/ ServerUnlistens
    \/ ServerPuts \/ OtherDeviceWrites \/ ServerRevokes

\* The bound on listens.
LEMMA ListensLeft ==
    ASSUME TypeInv, [Next]_vars
    PROVE  /\ budget["listens"] \in Nat
           /\ ~Observe => budget'["listens"] = budget["listens"]
           /\ Observe => budget["listens"] > 0 /\ budget'["listens"] = budget["listens"] - 1
<1>a. budget \in [Troubles -> Nat]
  BY DEF TypeInv, OutsideOK
<1>b. "listens" \in Troubles
  BY DEF Troubles
<1>1. budget["listens"] \in Nat
  BY <1>a, <1>b
<1>2. ASSUME NEW kind \in Troubles, Spend(kind)
      PROVE  budget'["listens"] = IF kind = "listens" THEN budget["listens"] - 1 ELSE budget["listens"]
  <2>1. budget' = [budget EXCEPT ![kind] = @ - 1]
    BY <1>2 DEF Spend
  <2> QED BY <1>a, <1>b, <1>2, <2>1
<1>c. {"losses", "tokens", "fetches", "refusals", "revocations", "foreign", "interrupts",
       "foreground", "removals", "listens"} \subseteq Troubles
  BY DEF Troubles
<1>3. CASE Observe
  <2>1. Spend("listens")
    BY <1>3 DEF Observe
  <2>2. budget["listens"] > 0
    BY <2>1 DEF Spend
  <2> QED BY <1>1, <1>2, <1>b, <1>3, <2>1, <2>2
<1>4. CASE ~Observe
  <2>1. budget' = budget \/ \E kind \in Troubles \ {"listens"} : Spend(kind)
    <3>1. CASE Client
      BY <3>1 DEF Client, RunRetry, FetchSucceeds, OnReady
    <3>2. CASE Receive
      BY <3>2 DEF Receive, OnAuth, OnAuthRevoked, OnPut, OnListen, OnDataUpdate, OnListenRevoked,
          OnKill
    <3>3. CASE Server
      BY <3>3, <1>c DEF Server, ServerAuthenticates, ServerTakesListen, ServerAnswersListen,
          ServerUnlistens, ServerPuts
    <3>4. CASE Program
      BY <3>4, <1>4, <1>c DEF Program, RemoveObserver, Interrupt, Resume, RefreshAuthToken, SetValue
    <3>5. CASE Trouble
      BY <3>5, <1>c DEF Trouble, FetchFails, OnDisconnect, EnteringForeground, OtherDeviceWrites,
          ServerRevokes, TokenExpires
    <3>6. CASE UNCHANGED vars
      BY <3>6 DEF vars
    <3> QED BY <3>1, <3>2, <3>3, <3>4, <3>5, <3>6 DEF Next
  <2>2. ASSUME NEW kind \in Troubles \ {"listens"}, Spend(kind)
        PROVE  budget'["listens"] = budget["listens"]
    BY <1>2, <2>2
  <2> QED BY <1>1, <1>4, <2>1, <2>2
<1> QED BY <1>3, <1>4

\* What the network listens on and what it holds.
LEMMA Channels ==
    ASSUME TypeInv
    PROVE  /\ up \in Seq(UpMessages) /\ down \in Seq(DownMessages) /\ asked \in Seq(Listens)
           /\ history \in Seq(Nat) /\ history # <<>> /\ serving \in BOOLEAN
           /\ listen \in Nat /\ cache \in Nat \cup {Unknown} /\ puts \subseteq Writes
           /\ conn \in {"disconnected", "gettingToken", "connecting", "authenticating", "connected"}
BY DEF TypeInv, OutsideOK, FieldsOK

(* A step that leaves a connection open begins with the handshake or the answer that
   authenticates, or is one of the program, of the server or of what the server sent. *)
LEMMA Linked ==
    ASSUME TypeInv, IInv, AuthInv, [Next]_vars, Connected'
    PROVE  \/ OnReady
           \/ Begins
           \/ /\ Connected /\ UNCHANGED conn
              /\ Asks \/ HearsLater \/ Observe \/ RemoveObserver \/ Hears \/ Serves
<1>a. up \in Seq(UpMessages) /\ down \in Seq(DownMessages)
  BY Channels
<1>b. /\ ~Connected => up = <<>> /\ down = <<>> /\ asked = <<>> /\ ~serving
      /\ Connected => fetch = "none"
      /\ ~ShouldReconnect => ~Connected
      /\ CanSendWrites => Connected
  BY DEF IInv, LinkQuiet, StatesAgree, Connected, CanSendWrites
<1>1. CASE Client
  <2>1. ASSUME RunRetry PROVE FALSE
    BY <2>1 DEF RunRetry, Connected
  <2>2. ASSUME FetchSucceeds PROVE FALSE
    <3>1. ~Connected /\ conn' \in {"connecting", conn}
      BY <2>2, <1>b DEF FetchSucceeds
    <3> QED BY <3>1 DEF Connected
  <2> QED BY <1>1, <2>1, <2>2 DEF Client
<1>2. CASE Receive
  <2>1. CASE OnAuth
    <3>1. /\ down # <<>> /\ Head(down).kind = "auth" /\ down' = Tail(down) /\ conn' = "connected"
          /\ IF Head(down).ref THEN RestoreState ELSE UNCHANGED <<up, unacked>>
          /\ UNCHANGED <<listen, cache, asked, serving, history, putsToAck>>
      BY <2>1 DEF OnAuth, Arrives, data, server
    <3>2. Head(down) \in Range(down) /\ Head(down) \in DownMessages /\ Head(down).ref \in BOOLEAN
      BY <1>a, <3>1, RangeAfter, MessageTypes
    <3>3. CASE Head(down).ref = TRUE
      <4>1. IsFirst(Head(down))
        BY <3>1, <3>3 DEF IsFirst
      <4>2. conn = "authenticating" /\ OneFirst(down) /\ NoFirst(up)
        BY <3>1, <3>2, <4>1 DEF AuthInv, NoFirst, NoAuth
      <4> QED BY <3>1, <3>3, <4>1, <4>2 DEF Begins
    <3>4. CASE Head(down).ref = FALSE
      <4>1. ~IsFirst(Head(down))
        BY <3>4 DEF IsFirst
      <4>2. conn # "authenticating"
        <5>1. ~NoAuth(down)
          BY <3>1, <3>2 DEF NoAuth
        <5>2. ~OneFirst(down)
          BY <1>a, <3>1, <4>1, FirstTaken
        <5> QED BY <5>1, <5>2 DEF AuthInv
      <4>3. Connected /\ conn = "connected"
        BY <1>b, <3>1, <4>2 DEF Connected
      <4> QED BY <3>1, <3>4, <4>1, <4>3 DEF HearsLater
    <3> QED BY <3>2, <3>3, <3>4
  <2>2. CASE Hears
    <3>1. UNCHANGED conn
      BY <2>2 DEF Hears, OnPut, OnListen, OnDataUpdate, OnListenRevoked, link
    <3> QED BY <2>2, <3>1 DEF Connected
  <2>3. ASSUME OnAuthRevoked \/ OnKill PROVE FALSE
    BY <2>3 DEF OnAuthRevoked, OnKill, InterruptForReason, Disconnect, Connected
  <2> QED BY <1>2, <2>1, <2>2, <2>3 DEF Receive, Hears
<1>3. CASE Server \/ OtherDeviceWrites \/ ServerRevokes
  <2>1. UNCHANGED conn
    BY <1>3 DEF Server, ServerAuthenticates, ServerTakesListen, ServerAnswersListen,
        ServerUnlistens, ServerPuts, OtherDeviceWrites, ServerRevokes, link
  <2> QED BY <1>3, <2>1 DEF Server, Serves, Connected
<1>4. CASE Program
  <2>1. CASE Observe \/ RemoveObserver
    <3>1. UNCHANGED conn
      BY <2>1 DEF Observe, RemoveObserver, link
    <3> QED BY <2>1, <3>1 DEF Connected
  <2>2. CASE RefreshAuthToken
    <3>1. PICK new \in {"nil", "good"} :
            up' = IF Connected THEN Append(up, Msg("auth", FALSE, new)) ELSE up
      BY <2>2 DEF RefreshAuthToken
    <3> DEFINE m == Msg("auth", FALSE, new)
    <3>2. m \in UpMessages /\ m.kind = "auth" /\ ~IsFirst(m)
      BY DEF Msg, UpMessages, IsFirst
    <3>3. up' = up \/ up' = Append(up, m)
      BY <3>1
    <3>4. UNCHANGED <<conn, listen, cache, down, asked, serving, history, putsToAck>>
      BY <2>2 DEF RefreshAuthToken, data
    <3> HIDE DEF m
    <3> QED BY <3>2, <3>3, <3>4 DEF Asks, Connected
  <2>3. CASE \E w \in Writes : SetValue(w)
    <3>1. PICK w \in Writes : SetValue(w)
      BY <2>3
    <3> DEFINE m == PutRequest(w)
    <3>2. m \in UpMessages /\ m.kind = "put" /\ ~IsFirst(m)
      BY DEF Msg, UpMessages, IsFirst, PutRequest
    <3>3. /\ up' = up \/ up' = Append(up, m)
          /\ UNCHANGED <<conn, listen, cache, down, asked, serving, history, putsToAck>>
      BY <3>1 DEF SetValue, server, link
    <3> HIDE DEF m
    <3> QED BY <3>2, <3>3 DEF Asks, Connected
  <2>4. ASSUME Interrupt PROVE FALSE
    BY <2>4 DEF Interrupt, InterruptForReason, Disconnect, Connected
  <2>5. ASSUME Resume PROVE FALSE
    <3>1. UNCHANGED conn /\ ~ShouldReconnect
      BY <2>5 DEF Resume, ShouldReconnect
    <3> QED BY <3>1, <1>b DEF Connected
  <2> QED BY <1>4, <2>1, <2>2, <2>3, <2>4, <2>5 DEF Program
<1>5. CASE TokenExpires \/ UNCHANGED vars
  <2>1. UNCHANGED <<conn, listen, cache, up, down, asked, serving, history, putsToAck>>
    BY <1>5 DEF TokenExpires, vars, link, data, network, server
  <2> QED BY <2>1 DEF Asks, Connected
<1>6. ASSUME FetchFails \/ OnDisconnect \/ EnteringForeground PROVE FALSE
  BY <1>6 DEF FetchFails, OnDisconnect, EnteringForeground, Disconnect, Connected
<1> QED BY <1>1, <1>2, <1>3, <1>4, <1>5, <1>6 DEF Next, Client, Trouble

(* What the server takes, and what it sends for it. *)
LEMMA AuthTaken ==
    ASSUME TypeInv, AuthInv, ServerAuthenticates
    PROVE  /\ up # <<>> /\ Head(up).kind = "auth" /\ up' = Tail(up)
           /\ UNCHANGED <<conn, listen, cache, asked, serving, history, putsToAck>>
           /\ \/ down' = down /\ ~IsFirst(Head(up))
              \/ \E m \in DownMessages :
                   m.kind = "auth" /\ (IsFirst(m) <=> IsFirst(Head(up))) /\ down' = Append(down, m)
<1>a. up \in Seq(UpMessages) /\ down \in Seq(DownMessages)
  BY Channels
<1>1. /\ up # <<>> /\ Head(up).kind = "auth" /\ up' = Tail(up)
      /\ UNCHANGED <<conn, listen, cache, asked, serving, history, putsToAck>>
  BY DEF ServerAuthenticates, Receives, link, data, server
<1>2. Head(up) \in UpMessages /\ Head(up) \in Range(up) /\ Head(up).ref \in BOOLEAN
  BY <1>a, <1>1, Taken, RangeAfter, MessageTypes
<1>3. CASE Head(up).value = "nil"
  <2>1. down' = down
    BY <1>3 DEF ServerAuthenticates
  <2>2. ~IsFirst(Head(up))
    BY <1>2, <1>3 DEF AuthInv
  <2> QED BY <1>1, <2>1, <2>2
<1>4. CASE Head(up).value # "nil"
  <2> DEFINE answer == IF Head(up).value = "good" /\ credential # "stale" THEN "ok" ELSE "refused"
             m == Msg("auth", Head(up).ref, answer)
  <2>1. down' = Append(down, m)
    BY <1>4 DEF ServerAuthenticates
  <2>2. m \in DownMessages /\ m.kind = "auth" /\ m.ref = Head(up).ref
    BY <1>2 DEF Msg, DownMessages
  <2> HIDE DEF m
  <2>3. IsFirst(m) <=> IsFirst(Head(up))
    BY <1>1, <2>2 DEF IsFirst
  <2> QED BY <1>1, <2>1, <2>2, <2>3
<1> QED BY <1>3, <1>4

\* A listen waits for the server to answer it.
LEMMA ListenTakenUp ==
    ASSUME TypeInv, ServerTakesListen
    PROVE  /\ up # <<>> /\ Head(up).kind = "listen" /\ up' = Tail(up)
           /\ Head(up) \in Listens /\ asked' = Append(asked, Head(up))
           /\ UNCHANGED <<conn, listen, cache, down, serving, history, putsToAck>>
<1>a. up \in Seq(UpMessages)
  BY Channels
<1>1. /\ up # <<>> /\ Head(up).kind = "listen" /\ up' = Tail(up)
      /\ asked' = Append(asked, Head(up))
      /\ UNCHANGED <<conn, listen, cache, down, serving, history, putsToAck>>
  BY DEF ServerTakesListen, Receives, link, data
<1>2. Head(up) \in UpMessages
  BY <1>a, <1>1, Taken
<1> QED BY <1>1, <1>2, MessageTypes

\* The server answers a listen, after the data if the client has not got it.
LEMMA ListenAnswered ==
    ASSUME TypeInv, ServerAnswersListen
    PROVE  /\ asked # <<>> /\ Head(asked) \in Listens /\ asked' = Tail(asked)
           /\ UNCHANGED <<conn, listen, cache, up, history, putsToAck>>
           /\ \E m \in DownMessages, d \in Seq(DownMessages) :
                /\ m.kind = "listen" /\ m.ref = Head(asked).ref /\ down' = Append(d, m)
                /\ \/ /\ serving' = TRUE /\ m.value = "ok"
                      /\ \/ d = down /\ Head(asked).value = Stored
                         \/ d = Append(down, Msg("data", 0, Stored))
                   \/ serving' = FALSE /\ m.value = "refused" /\ d = down
<1>a. down \in Seq(DownMessages) /\ asked \in Seq(Listens) /\ history \in Seq(Nat) /\ history # <<>>
  BY Channels
<1>1. /\ asked # <<>> /\ asked' = Tail(asked)
      /\ UNCHANGED <<conn, listen, cache, up, history, putsToAck>>
  BY DEF ServerAnswersListen, link, data
<1>2. Head(asked) \in Listens /\ Head(asked).ref \in Nat
  BY <1>a, <1>1, Taken, MessageTypes
<1>3. Stored \in Nat
  BY <1>a, ElementOfSeq, EmptySeq, LenProperties DEF Stored, Last
<1> DEFINE yes == Msg("listen", Head(asked).ref, "ok")
           no == Msg("listen", Head(asked).ref, "refused")
           now == Msg("data", 0, Stored)
<1>4. /\ yes \in DownMessages /\ yes.kind = "listen" /\ yes.ref = Head(asked).ref
      /\ yes.value = "ok"
      /\ no \in DownMessages /\ no.kind = "listen" /\ no.ref = Head(asked).ref
      /\ no.value = "refused"
      /\ now \in DownMessages
  BY <1>2, <1>3 DEF DownMessages, Msg
<1>5. \/ /\ serving' = TRUE /\ Head(asked).value = Stored /\ down' = down \o <<>> \o <<yes>>
      \/ /\ serving' = TRUE /\ down' = down \o <<now>> \o <<yes>>
      \/ /\ serving' = FALSE /\ down' = Append(down, no)
  BY DEF ServerAnswersListen
<1> HIDE DEF yes, no
<1>6. CASE serving' = TRUE /\ Head(asked).value = Stored /\ down' = down \o <<>> \o <<yes>>
  <2>1. down' = Append(down, yes)
    BY <1>a, <1>4, <1>6, Alone, ConcatEmptySeq
  <2> QED BY <1>a, <1>1, <1>2, <1>4, <1>6, <2>1
<1>7. CASE serving' = TRUE /\ down' = down \o <<now>> \o <<yes>>
  <2> DEFINE d == Append(down, now)
  <2>1. d \in Seq(DownMessages) /\ d = down \o <<now>>
    BY <1>a, <1>4, Alone, AppendProperties
  <2>2. down' = d \o <<yes>>
    BY <1>7, <2>1
  <2>3. down' = Append(d, yes)
    <3> HIDE DEF d
    <3> QED BY <1>4, <2>1, <2>2, Alone
  <2> QED BY <1>1, <1>2, <1>4, <1>7, <2>1, <2>3
<1>8. CASE serving' = FALSE /\ down' = Append(down, no)
  BY <1>a, <1>1, <1>2, <1>4, <1>8
<1> QED BY <1>5, <1>6, <1>7, <1>8

\* The listens the server had not answered are answered.
LEMMA UnlistenTaken ==
    ASSUME TypeInv, ServerUnlistens
    PROVE  /\ up # <<>> /\ Head(up).kind = "unlisten" /\ up' = Tail(up)
           /\ asked' = <<>> /\ serving' = FALSE
           /\ UNCHANGED <<conn, listen, cache, history, putsToAck>>
           /\ \E t \in Seq(DownMessages) :
                /\ down' = down \o t /\ DOMAIN t = DOMAIN asked
                /\ \A i \in DOMAIN t : t[i].kind = "listen" /\ t[i].ref = asked[i].ref
<1>a. asked \in Seq(Listens)
  BY Channels
<1>1. /\ up # <<>> /\ Head(up).kind = "unlisten" /\ up' = Tail(up)
      /\ asked' = <<>> /\ serving' = FALSE
      /\ UNCHANGED <<conn, listen, cache, history, putsToAck>>
  BY DEF ServerUnlistens, Receives, link, data
<1> DEFINE t == [i \in DOMAIN asked |-> Msg("listen", asked[i].ref, "ok")]
<1>2. DOMAIN asked = 1..Len(asked) /\ Len(asked) \in Nat /\ \A i \in DOMAIN asked : asked[i] \in Listens
  BY <1>a, LenProperties, ElementOfSeq
<1>3. \A i \in 1..Len(asked) : Msg("listen", asked[i].ref, "ok") \in DownMessages
  BY <1>2, MessageTypes DEF Msg, DownMessages
<1>4. /\ t \in [1..Len(asked) -> DownMessages] /\ DOMAIN t = 1..Len(asked)
      /\ \A i \in 1..Len(asked) : t[i].kind = "listen" /\ t[i].ref = asked[i].ref
  BY <1>2, <1>3 DEF Msg
<1>5. down' = down \o t
  BY DEF ServerUnlistens
<1> HIDE DEF t
<1>6. t \in Seq(DownMessages)
  BY <1>2, <1>4, SeqDef
<1> QED BY <1>1, <1>2, <1>4, <1>5, <1>6

\* The server takes a put, or refuses it.
LEMMA PutTakenUp ==
    ASSUME TypeInv, ServerPuts
    PROVE  /\ up # <<>> /\ Head(up).kind = "put" /\ up' = Tail(up)
           /\ Head(up).ref \in Writes
           /\ UNCHANGED <<conn, listen, cache, asked, serving, putsToAck>>
           /\ \E m \in DownMessages :
                /\ m.kind = "put" /\ m.ref = Head(up).ref
                /\ \/ /\ history' = Append(history, Head(up).ref) /\ m.value = "ok"
                      /\ down' = Append(Push(Head(up).ref), m)
                   \/ /\ history' = history /\ m.value = "refused"
                      /\ down' = Append(down, m)
<1>a. up \in Seq(UpMessages)
  BY Channels
<1>1. /\ up # <<>> /\ Head(up).kind = "put" /\ up' = Tail(up)
      /\ UNCHANGED <<conn, listen, cache, asked, serving, putsToAck>>
  BY DEF ServerPuts, Receives, link, data
<1>2. Head(up) \in UpMessages
  BY <1>a, <1>1, Taken
<1>3. Head(up).ref \in Writes
  BY <1>1, <1>2, MessageTypes
<1> DEFINE yes == Msg("put", Head(up).ref, "ok")
           no == Msg("put", Head(up).ref, "refused")
<1>4. /\ yes \in DownMessages /\ yes.kind = "put" /\ yes.ref = Head(up).ref /\ yes.value = "ok"
      /\ no \in DownMessages /\ no.kind = "put" /\ no.ref = Head(up).ref /\ no.value = "refused"
  BY <1>3 DEF DownMessages, Msg
<1>5. \/ /\ history' = Append(history, Head(up).ref)
         /\ down' = Append(Push(Head(up).ref), yes)
      \/ /\ history' = history /\ down' = Append(down, no)
  BY DEF ServerPuts
<1> HIDE DEF yes, no
<1> QED BY <1>1, <1>3, <1>4, <1>5

\* Other devices' values are no writes of the program's, and never the empty value.
LEMMA ForeignStored ==
    ASSUME TypeInv, OtherDeviceWrites
    PROVE  /\ UNCHANGED <<conn, listen, cache, up, asked, serving, putsToAck>>
           /\ \E value \in Nat \ {0} : history' = Append(history, value) /\ down' = Push(value)
BY OthersAssumption DEF OtherDeviceWrites, link, data

\* The server ends a listen, the token or the connection.
LEMMA Revoked ==
    ASSUME TypeInv, ServerRevokes
    PROVE  /\ UNCHANGED <<conn, listen, cache, up, asked, history, putsToAck>>
           /\ \E m \in DownMessages :
                /\ m.kind \in {"listenRevoked", "authRevoked", "kill"} /\ down' = Append(down, m)
                /\ \/ m.kind = "listenRevoked" /\ serving' = FALSE
                   \/ m.kind # "listenRevoked" /\ serving' = serving
<1>1. UNCHANGED <<conn, listen, cache, up, asked, history, putsToAck>>
  BY DEF ServerRevokes, link, data
<1>2. PICK kind \in {"listenRevoked", "authRevoked", "kill"} :
        /\ down' = Append(down, Msg(kind, 0, 0))
        /\ \/ kind = "listenRevoked" /\ serving' = FALSE
           \/ kind # "listenRevoked" /\ serving' = serving
  BY DEF ServerRevokes
<1> DEFINE m == Msg(kind, 0, 0)
<1>3. m \in DownMessages /\ m.kind = kind /\ down' = Append(down, m)
  BY <1>2 DEF DownMessages, Msg
<1> HIDE DEF m
<1> QED BY <1>1, <1>2, <1>3

\* What is pushed to a client that is served.
LEMMA Pushed ==
    ASSUME TypeInv, NEW value \in Nat
    PROVE  /\ Push(value) \in Seq(DownMessages)
           /\ ~serving => Push(value) = down
           /\ serving => \E m \in DownMessages :
                m.kind = "data" /\ m.value = value /\ Push(value) = Append(down, m)
<1>a. down \in Seq(DownMessages)
  BY Channels
<1> DEFINE m == Msg("data", 0, value)
<1>1. m \in DownMessages /\ m.kind = "data" /\ m.value = value
  BY DEF Msg, DownMessages
<1>2. Push(value) = IF serving THEN Append(down, m) ELSE down
  BY DEF Push
<1> HIDE DEF m
<1>3. Append(down, m) \in Seq(DownMessages)
  BY <1>a, <1>1, AppendProperties
<1> QED BY <1>a, <1>1, <1>2, <1>3

\* What the client hears.
LEMMA HeardHead ==
    ASSUME TypeInv, Hears
    PROVE  /\ down # <<>> /\ down' = Tail(down) /\ Head(down) \in DownMessages
           /\ Head(down).kind \in {"put", "listen", "data", "listenRevoked"}
           /\ UNCHANGED <<conn, up, asked, serving, history>>
           /\ Head(down).kind = "put" => UNCHANGED <<listen, cache>>
           /\ Head(down).kind = "listen" =>
                \/ UNCHANGED <<listen, cache>>
                \/ /\ Head(down).ref = listen /\ listen' = listen /\ Head(down).value = "ok"
                   /\ cache' = IF cache = Unknown THEN Nothing ELSE cache
                \/ /\ listen' = 0 /\ cache' = Unknown
           /\ Head(down).kind = "listen" /\ Head(down).ref = listen /\ Head(down).value = "refused"
                => listen' = 0
           /\ Head(down).kind = "data" =>
                listen' = listen /\ cache' = IF listen = 0 THEN cache ELSE Head(down).value
           /\ Head(down).kind = "listenRevoked" => listen' = 0 /\ cache' = Unknown
<1>a. down \in Seq(DownMessages)
  BY Channels
<1>1. /\ down # <<>> /\ down' = Tail(down)
      /\ Head(down).kind \in {"put", "listen", "data", "listenRevoked"}
      /\ UNCHANGED <<conn, up, asked, serving, history>>
  BY DEF Hears, OnPut, OnListen, OnDataUpdate, OnListenRevoked, Arrives, link, server
<1>2. Head(down) \in DownMessages
  BY <1>a, <1>1, Taken
<1>3. CASE Head(down).kind = "put"
  BY <1>1, <1>2, <1>3 DEF Hears, OnPut, OnListen, OnDataUpdate, OnListenRevoked, Arrives
<1>4. CASE Head(down).kind = "listen"
  <2>1. OnListen
    BY <1>4 DEF Hears, OnPut, OnDataUpdate, OnListenRevoked, Arrives
  <2> QED BY <1>1, <1>2, <1>4, <2>1 DEF OnListen
<1>5. CASE Head(down).kind = "data"
  <2>1. OnDataUpdate
    BY <1>5 DEF Hears, OnPut, OnListen, OnListenRevoked, Arrives
  <2> QED BY <1>1, <1>2, <1>5, <2>1 DEF OnDataUpdate
<1>6. CASE Head(down).kind = "listenRevoked"
  <2>1. OnListenRevoked
    BY <1>6 DEF Hears, OnPut, OnListen, OnDataUpdate, Arrives
  <2> QED BY <1>1, <1>2, <1>6, <2>1 DEF OnListenRevoked
<1> QED BY <1>1, <1>2, <1>3, <1>4, <1>5, <1>6

\* What is sent again starts with the listen.
LEMMA ListenRestored ==
    ASSUME TypeInv, NEW b, listen # 0 => listen > b, RestoreState
    PROVE  \E sent \in Seq(UpMessages) :
              /\ up' = up \o sent
              /\ listen = 0 <=> NoListen(sent)
              /\ listen # 0 => Relisted(sent, listen)
              /\ Hashes(sent, listen, cache) /\ RefsAbove(sent, b)
              /\ listen = 0 \/ cache \in {Unknown, Nothing} => NoHash(sent)
<1>a. up \in Seq(UpMessages) /\ puts \subseteq Writes /\ listen \in Nat /\ cache \in Nat \cup {Unknown}
  BY Channels
<1>1. PICK sent \in Seq(UpMessages) :
        /\ up' = up \o sent
        /\ listen # 0 => 1 \in DOMAIN sent /\ sent[1] = ListenRequest
        /\ \A i \in DOMAIN sent : sent[i].kind = "put" \/ (i = 1 /\ listen # 0)
  BY <1>a, Restored
<1>2. /\ ListenRequest.kind = "listen" /\ ListenRequest.ref = listen
      /\ ListenRequest.value = IF cache = Unknown THEN Nothing ELSE cache
  BY DEF ListenRequest, Msg
<1>3. DOMAIN sent = 1..Len(sent) /\ Len(sent) \in Nat
  BY <1>1, LenProperties
<1>4. listen = 0 <=> NoListen(sent)
  BY <1>1, <1>2 DEF NoListen
<1>5. listen # 0 => Relisted(sent, listen)
  BY <1>1, <1>2 DEF Relisted
<1>6. Hashes(sent, listen, cache)
  <2> SUFFICES ASSUME NEW k \in DOMAIN sent, Hashed(sent[k])
               PROVE  /\ \A j \in DOMAIN sent : j < k => sent[j].kind # "listen"
                      /\ sent[k].ref = listen => cache = sent[k].value
    BY DEF Hashes
  <2>1. k = 1 /\ listen # 0 /\ sent[k] = ListenRequest
    BY <1>1 DEF Hashed
  <2>2. \A j \in DOMAIN sent : ~(j < k)
    BY <1>3, <2>1
  <2> QED BY <1>2, <2>1, <2>2 DEF Hashed
<1>7. RefsAbove(sent, b)
  BY <1>1, <1>2 DEF RefsAbove
<1>8. listen = 0 \/ cache \in {Unknown, Nothing} => NoHash(sent)
  BY <1>1, <1>2 DEF NoHash, Hashed
<1> QED BY <1>1, <1>4, <1>5, <1>6, <1>7, <1>8

-----------------------------------------------------------------------------
(* The numbers of listens.                                                 *)

\* Listens on their way and the one that is outstanding have numbers that are used up.
NumberInv ==
    /\ listen = 0 => cache = Unknown
    /\ listen # 0 => listen > budget["listens"]
    /\ RefsAbove(up, budget["listens"]) /\ RefsAbove(asked, budget["listens"])
    /\ RefsAbove(down, budget["listens"])

\* The empty value is the first.
HistoryInv == \A i \in DOMAIN history : history[i] = Nothing => i = 1

\* No number is used at the start.
LEMMA NumberInit == Init => NumberInv /\ HistoryInv
BY DEF Init, NumberInv, HistoryInv, RefsAbove, Unknown

\* A bound that gets smaller is still above.
LEMMA AboveLess ==
    ASSUME NEW M, NEW s \in Seq(M), NEW b \in Nat, NEW d \in Nat, d <= b,
           \A m \in M : m.kind = "listen" => m.ref \in Nat, RefsAbove(s, b)
    PROVE  RefsAbove(s, d)
<1>1. \A i \in DOMAIN s : s[i] \in M
  BY LenProperties, ElementOfSeq
<1> QED BY <1>1 DEF RefsAbove

\* Steps that are no listen keep the numbers below.
LEMMA NumberNext == TypeInv /\ IInv /\ AuthInv /\ NumberInv /\ [Next]_vars => NumberInv'
<1> SUFFICES ASSUME TypeInv, IInv, AuthInv, NumberInv, [Next]_vars PROVE NumberInv'
  OBVIOUS
<1> DEFINE b == budget["listens"]
           d == budget'["listens"]
<1>a. /\ up \in Seq(UpMessages) /\ down \in Seq(DownMessages) /\ asked \in Seq(Listens)
      /\ listen \in Nat /\ cache \in Nat \cup {Unknown}
  BY Channels
<1>b. /\ b \in Nat /\ (~Observe => d = b) /\ (Observe => b > 0 /\ d = b - 1)
  BY ListensLeft
<1>c. d \in Nat /\ d <= b
  BY <1>b
<1>d. /\ listen = 0 => cache = Unknown
      /\ listen # 0 => listen > b
      /\ RefsAbove(up, b) /\ RefsAbove(asked, b) /\ RefsAbove(down, b)
  BY DEF NumberInv
<1>e. \A m \in UpMessages \cup Listens \cup DownMessages : m.kind = "listen" => m.ref \in Nat
  BY MessageTypes
<1> HIDE DEF b, d
<1>f. /\ listen # 0 => listen > d
      /\ RefsAbove(up, d) /\ RefsAbove(asked, d) /\ RefsAbove(down, d)
  BY <1>a, <1>b, <1>c, <1>d, <1>e, AboveLess
<1> SUFFICES /\ listen' = 0 => cache' = Unknown
             /\ listen' # 0 => listen' > d
             /\ RefsAbove(up', d) /\ RefsAbove(asked', d) /\ RefsAbove(down', d)
  BY DEF NumberInv, d
<1>g. RefsAbove(<<>>, d)
  BY DEF RefsAbove
<1>1. CASE ~Connected'
  <2>1. IInv'
    BY IInvNext
  <2>2. up' = <<>> /\ asked' = <<>> /\ down' = <<>>
    BY <1>1, <2>1 DEF IInv, LinkQuiet
  <2>3. \/ UNCHANGED <<listen, cache>>
        \/ listen' = 0 /\ cache' = Unknown
        \/ listen' = b /\ b # 0 /\ d = b - 1
    <3>1. CASE Client
      BY <3>1 DEF Client, RunRetry, FetchSucceeds, OnReady, data
    <3>2. CASE Receive
      <4>1. ASSUME OnListen \/ OnDataUpdate PROVE FALSE
        <5>1. down # <<>> /\ UNCHANGED conn
          BY <4>1 DEF OnListen, OnDataUpdate, Arrives, link
        <5>2. Connected
          BY <5>1 DEF IInv, LinkQuiet
        <5> QED BY <1>1, <5>1, <5>2 DEF Connected
      <4> QED BY <3>2, <4>1 DEF Receive, OnAuth, OnAuthRevoked, OnPut, OnListenRevoked, OnKill, data
    <3>3. CASE Server
      BY <3>3 DEF Server, ServerAuthenticates, ServerTakesListen, ServerAnswersListen,
          ServerUnlistens, ServerPuts, data
    <3>4. CASE Program
      <4>1. CASE Observe
        BY <1>b, <4>1 DEF Observe, b
      <4> QED BY <3>4, <4>1 DEF Program, RemoveObserver, Interrupt, Resume, RefreshAuthToken,
              SetValue, data
    <3>5. CASE Trouble
      BY <3>5 DEF Trouble, FetchFails, OnDisconnect, EnteringForeground, OtherDeviceWrites,
          ServerRevokes, TokenExpires, data
    <3>6. CASE UNCHANGED vars
      BY <3>6 DEF vars, data
    <3> QED BY <3>1, <3>2, <3>3, <3>4, <3>5, <3>6 DEF Next
  <2>4. CASE listen' = b /\ b # 0 /\ d = b - 1
    BY <1>b, <1>f, <1>g, <2>2, <2>4
  <2> QED BY <1>d, <1>f, <1>g, <2>2, <2>3, <2>4
<1>2. CASE OnReady
  <2>1. /\ up = <<>> /\ down = <<>> /\ asked = <<>>
    BY <1>2 DEF OnReady, IInv, LinkQuiet, Connected
  <2>2. UNCHANGED <<listen, cache, down, asked>>
    BY <1>2 DEF OnReady, data, server
  <2>3. CASE token = "nil"
    <3>1. RestoreState
      BY <1>2, <2>3 DEF OnReady
    <3>2. PICK sent \in Seq(UpMessages) : up' = up \o sent /\ RefsAbove(sent, d)
      BY <1>f, <3>1, ListenRestored
    <3>3. RefsAbove(up', d)
      BY <1>a, <1>f, <3>2, ListensJoined
    <3> QED BY <1>d, <1>f, <2>2, <3>3
  <2>4. CASE token # "nil"
    <3>1. up' = <<Msg("auth", TRUE, token)>>
      BY <1>2, <2>4 DEF OnReady
    <3>2. RefsAbove(up', d)
      BY <3>1 DEF RefsAbove, Msg
    <3> QED BY <1>d, <1>f, <2>2, <3>2
  <2> QED BY <2>3, <2>4
<1>3. CASE Begins
  <2>1. PICK sent \in Seq(UpMessages) : up' = up \o sent /\ RefsAbove(sent, d)
    BY <1>f, <1>3, ListenRestored DEF Begins
  <2>2. RefsAbove(up', d)
    BY <1>a, <1>f, <2>1, ListensJoined
  <2>3. RefsAbove(down', d)
    BY <1>a, <1>f, <1>3, ListenTaken DEF Begins
  <2> QED BY <1>d, <1>f, <1>3, <2>2, <2>3 DEF Begins
<1>4. CASE Asks
  <2>1. RefsAbove(up', d)
    <3>1. CASE \E m \in UpMessages : m.kind \in {"auth", "put"} /\ up' = Append(up, m)
      BY <1>a, <1>f, <3>1, ListenAdded
    <3> QED BY <1>4, <1>f, <3>1 DEF Asks
  <2> QED BY <1>4, <1>d, <1>f, <2>1 DEF Asks
<1>5. CASE HearsLater
  <2>1. RefsAbove(down', d)
    BY <1>a, <1>f, <1>5, ListenTaken DEF HearsLater
  <2> QED BY <1>5, <1>d, <1>f, <2>1 DEF HearsLater
<1>6. CASE Observe
  <2>1. /\ listen' = b /\ listen' > d /\ listen' # 0
        /\ up' = up \/ up' = Append(up, Msg("listen", b, Nothing))
        /\ UNCHANGED <<down, asked>>
    BY <1>6, <1>b DEF Observe, b, server
  <2> DEFINE m == Msg("listen", b, Nothing)
  <2>2. m \in UpMessages /\ m.ref > d
    BY <1>b, <2>1 DEF Msg, UpMessages, Listens, Nothing
  <2> HIDE DEF m
  <2>3. RefsAbove(Append(up, m), d)
    BY <1>a, <1>f, <2>2, ListenAdded
  <2> QED BY <1>f, <2>1, <2>3 DEF m
<1>7. CASE RemoveObserver
  <2>1. /\ listen' = 0 /\ cache' = Unknown /\ UNCHANGED <<down, asked>>
        /\ up' = up \/ up' = Append(up, Msg("unlisten", 0, 0))
    BY <1>7 DEF RemoveObserver, server
  <2> DEFINE m == Msg("unlisten", 0, 0)
  <2>2. m \in UpMessages /\ m.kind = "unlisten"
    BY DEF Msg, UpMessages
  <2> HIDE DEF m
  <2>3. RefsAbove(Append(up, m), d)
    BY <1>a, <1>f, <2>2, ListenAdded
  <2> QED BY <1>f, <2>1, <2>3 DEF m
<1>8. CASE Hears
  <2>1. down # <<>> /\ down' = Tail(down) /\ UNCHANGED <<up, asked>>
    BY <1>8, HeardHead
  <2>2. RefsAbove(down', d) /\ (Head(down).kind = "listen" => Head(down).ref > b)
    BY <1>a, <1>d, <1>f, <2>1, ListenTaken
  <2>3. \/ UNCHANGED <<listen, cache>>
        \/ Head(down).kind = "listen" /\ Head(down).ref = listen /\ listen' = listen
        \/ Head(down).kind = "data" /\ listen' = listen
             /\ cache' = IF listen = 0 THEN cache ELSE Head(down).value
        \/ listen' = 0 /\ cache' = Unknown
    BY <1>8, HeardHead
  <2> QED BY <1>b, <1>d, <1>f, <2>1, <2>2, <2>3
<1>9. CASE Serves
  <2>1. CASE ServerAuthenticates
    <3>1. /\ up # <<>> /\ up' = Tail(up) /\ UNCHANGED <<listen, cache, asked>>
          /\ \/ down' = down
             \/ \E m \in DownMessages : m.kind = "auth" /\ down' = Append(down, m)
      BY <2>1, AuthTaken
    <3>2. RefsAbove(up', d)
      BY <1>a, <1>f, <3>1, ListenTaken
    <3>3. RefsAbove(down', d)
      BY <1>a, <1>f, <3>1, ListenAdded
    <3> QED BY <1>d, <1>f, <3>1, <3>2, <3>3
  <2>2. CASE ServerTakesListen
    <3>1. /\ up # <<>> /\ up' = Tail(up) /\ UNCHANGED <<listen, cache, down>>
          /\ Head(up) \in Listens /\ asked' = Append(asked, Head(up)) /\ Head(up).kind = "listen"
      BY <2>2, ListenTakenUp
    <3>2. RefsAbove(up', d) /\ Head(up).ref > d
      BY <1>a, <1>f, <3>1, ListenTaken
    <3>3. RefsAbove(asked', d)
      BY <1>a, <1>f, <3>1, <3>2, ListenAdded
    <3> QED BY <1>d, <1>f, <3>1, <3>2, <3>3
  <2>3. CASE ServerAnswersListen
    <3>1. /\ asked # <<>> /\ Head(asked) \in Listens /\ asked' = Tail(asked)
          /\ UNCHANGED <<listen, cache, up>>
      BY <2>3, ListenAnswered
    <3>2. PICK m \in DownMessages, e \in Seq(DownMessages) :
             /\ m.kind = "listen" /\ m.ref = Head(asked).ref /\ down' = Append(e, m)
             /\ e = down \/ e = Append(down, Msg("data", 0, Stored))
      BY <2>3, ListenAnswered
    <3>3. RefsAbove(asked', d) /\ Head(asked).ref > d
      <4>1. Head(asked).kind = "listen"
        BY <3>1, MessageTypes
      <4> QED BY <1>a, <1>f, <3>1, <4>1, ListenTaken
    <3>4. RefsAbove(e, d)
      <4>1. CASE e = Append(down, Msg("data", 0, Stored))
        <5> DEFINE n == Msg("data", 0, Stored)
        <5>1. Stored \in Nat
          BY Channels, ElementOfSeq, EmptySeq, LenProperties DEF Stored, Last
        <5>2. n \in DownMessages /\ n.kind = "data"
          BY <5>1 DEF Msg, DownMessages
        <5> HIDE DEF n
        <5>3. RefsAbove(Append(down, n), d)
          BY <1>a, <1>f, <5>2, ListenAdded
        <5> QED BY <4>1, <5>3 DEF n
      <4> QED BY <1>f, <3>2, <4>1
    <3>5. RefsAbove(down', d)
      BY <3>2, <3>3, <3>4, ListenAdded
    <3> QED BY <1>d, <1>f, <3>1, <3>3, <3>5
  <2>4. CASE ServerUnlistens
    <3>1. up # <<>> /\ up' = Tail(up) /\ asked' = <<>> /\ UNCHANGED <<listen, cache>>
      BY <2>4, UnlistenTaken
    <3>2. PICK t \in Seq(DownMessages) :
            /\ down' = down \o t /\ DOMAIN t = DOMAIN asked
            /\ \A i \in DOMAIN t : t[i].kind = "listen" /\ t[i].ref = asked[i].ref
      BY <2>4, UnlistenTaken
    <3>3. \A i \in DOMAIN asked : asked[i].kind = "listen"
      BY <1>a, LenProperties, ElementOfSeq, MessageTypes
    <3>4. RefsAbove(t, d)
      BY <1>f, <3>2, <3>3 DEF RefsAbove
    <3>5. RefsAbove(down', d)
      BY <1>a, <1>f, <3>2, <3>4, ListensJoined
    <3>6. RefsAbove(up', d)
      BY <1>a, <1>f, <3>1, ListenTaken
    <3> QED BY <1>d, <1>f, <1>g, <3>1, <3>5, <3>6
  <2>5. CASE ServerPuts
    <3>1. /\ up # <<>> /\ up' = Tail(up) /\ UNCHANGED <<listen, cache, asked>>
          /\ Head(up).ref \in Writes
      BY <2>5, PutTakenUp
    <3>2. PICK m \in DownMessages : m.kind = "put" /\ down' \in {Append(Push(Head(up).ref), m), Append(down, m)}
      BY <2>5, PutTakenUp
    <3> DEFINE e == Push(Head(up).ref)
    <3>3. Head(up).ref \in Nat
      BY <3>1, WritesAreNumbers
    <3>4. e \in Seq(DownMessages) /\ (e = down \/ \E n \in DownMessages : n.kind = "data" /\ e = Append(down, n))
      BY <3>3, Pushed
    <3> HIDE DEF e
    <3>5. RefsAbove(e, d)
      BY <1>a, <1>f, <3>4, ListenAdded
    <3>6. RefsAbove(Append(e, m), d) /\ RefsAbove(Append(down, m), d)
      BY <1>a, <1>f, <3>2, <3>4, <3>5, ListenAdded
    <3>7. RefsAbove(up', d)
      BY <1>a, <1>f, <3>1, ListenTaken
    <3> QED BY <1>d, <1>f, <3>1, <3>2, <3>6, <3>7 DEF e
  <2>6. CASE OtherDeviceWrites
    <3>1. UNCHANGED <<listen, cache, up, asked>>
      BY <2>6, ForeignStored
    <3>2. PICK value \in Nat \ {0} : down' = Push(value)
      BY <2>6, ForeignStored
    <3>3. down' = down \/ \E n \in DownMessages : n.kind = "data" /\ down' = Append(down, n)
      BY <3>2, Pushed
    <3>4. RefsAbove(down', d)
      BY <1>a, <1>f, <3>3, ListenAdded
    <3> QED BY <1>d, <1>f, <3>1, <3>4
  <2>7. CASE ServerRevokes
    <3>1. UNCHANGED <<listen, cache, up, asked>>
      BY <2>7, Revoked
    <3>2. PICK m \in DownMessages : m.kind # "listen" /\ down' = Append(down, m)
      BY <2>7, Revoked
    <3>4. RefsAbove(down', d)
      BY <1>a, <1>f, <3>2, ListenAdded
    <3> QED BY <1>d, <1>f, <3>1, <3>4
  <2> QED BY <1>9, <2>1, <2>2, <2>3, <2>4, <2>5, <2>6, <2>7 DEF Serves
<1> QED BY <1>1, <1>2, <1>3, <1>4, <1>5, <1>6, <1>7, <1>8, <1>9, Linked

-----------------------------------------------------------------------------
(* The order of listens and their answers.                                 *)

\* Without a connection nothing is on its way.
LEMMA Unlinked ==
    ASSUME IInv, [Next]_vars, ~Connected'
    PROVE  up' = <<>> /\ down' = <<>> /\ asked' = <<>> /\ serving' = FALSE
BY IInvNext DEF IInv, LinkQuiet

\* What the empty channel satisfies.
LEMMA NoneListens ==
    ASSUME NEW l, NEW c
    PROVE  /\ NoListen(<<>>) /\ NoLoads(<<>>) /\ NoHash(<<>>) /\ NoFirst(<<>>)
           /\ Relisted(<<>>, l) /\ Hashes(<<>>, l, c) /\ LoadsAfterFirst(<<>>)
BY DEF NoListen, NoLoads, NoHash, NoFirst, Relisted, Hashes, LoadsAfterFirst, Range

\* The start of a connection.
LEMMA Ready ==
    ASSUME TypeInv, IInv, OnReady
    PROVE  /\ up = <<>> /\ down = <<>> /\ asked = <<>> /\ ~serving
           /\ UNCHANGED <<listen, cache, down, asked, serving, history, putsToAck>>
           /\ \/ conn' = "connected" /\ RestoreState
              \/ /\ conn' = "authenticating"
                 /\ \E m \in UpMessages : IsFirst(m) /\ up' = <<m>>
<1>1. up = <<>> /\ down = <<>> /\ asked = <<>> /\ ~serving
  BY DEF OnReady, IInv, LinkQuiet, Connected
<1>2. UNCHANGED <<listen, cache, down, asked, serving, history, putsToAck>>
  BY DEF OnReady, data, server
<1>3. CASE token = "nil"
  BY <1>1, <1>2, <1>3 DEF OnReady
<1>4. CASE token # "nil"
  <2> DEFINE m == Msg("auth", TRUE, token)
  <2>1. token \in {"nil", "good", "stale"}
    BY DEF TypeInv, FieldsOK
  <2>2. m \in UpMessages /\ IsFirst(m)
    BY <2>1 DEF Msg, UpMessages, IsFirst
  <2>3. conn' = "authenticating" /\ up' = <<m>>
    BY <1>4 DEF OnReady
  <2> HIDE DEF m
  <2> QED BY <1>1, <1>2, <2>2, <2>3
<1> QED BY <1>3, <1>4

\* The location is listened to, last of all by the listen that is outstanding.
RelistInv ==
    Connected /\ listen # 0 =>
        /\ Relisted(up, listen)
        /\ NoListen(up) /\ asked # <<>> => Last(asked).ref = listen

\* There is no connection at the start.
LEMMA RelistInit == Init => RelistInv
BY DEF Init, RelistInv

\* Every step keeps the last listen the one that is outstanding.
LEMMA RelistNext == TypeInv /\ IInv /\ AuthInv /\ RelistInv /\ [Next]_vars => RelistInv'
<1> SUFFICES ASSUME TypeInv, IInv, AuthInv, RelistInv, [Next]_vars, Connected', listen' # 0
             PROVE  /\ Relisted(up', listen')
                    /\ NoListen(up') /\ asked' # <<>> => Last(asked').ref = listen'
  BY DEF RelistInv
<1>a. /\ up \in Seq(UpMessages) /\ down \in Seq(DownMessages) /\ asked \in Seq(Listens)
      /\ listen \in Nat
  BY Channels
<1>b. Connected /\ listen # 0 => /\ Relisted(up, listen)
                                 /\ NoListen(up) /\ asked # <<>> => Last(asked).ref = listen
  BY DEF RelistInv
<1>1. ASSUME RestoreState, listen' = listen
      PROVE  Relisted(up', listen) /\ ~NoListen(up')
  <2>1. PICK sent \in Seq(UpMessages) :
          up' = up \o sent /\ ~NoListen(sent) /\ Relisted(sent, listen)
    <3>1. listen # 0 => listen > 0
      BY <1>a
    <3> QED BY <1>1, <3>1, ListenRestored
  <2> QED BY <1>a, <2>1, ListensJoined
<1>2. CASE OnReady
  <2>1. CASE RestoreState
    BY <1>1, <1>2, <2>1, Ready
  <2>2. CASE \E m \in UpMessages : IsFirst(m) /\ up' = <<m>>
    <3>1. PICK m \in UpMessages : IsFirst(m) /\ up' = <<m>>
      BY <2>2
    <3>2. m.kind = "auth" /\ DOMAIN <<m>> = {1} /\ <<m>>[1] = m
      BY <3>1 DEF IsFirst
    <3>3. Relisted(up', listen')
      BY <3>1, <3>2 DEF Relisted
    <3> QED BY <1>2, <3>3, Ready
  <2> QED BY <1>2, <2>1, <2>2, Ready
<1>3. CASE Begins
  BY <1>1, <1>3 DEF Begins
<1>4. CASE Connected /\ Asks
  <2>1. CASE \E m \in UpMessages : m.kind \in {"auth", "put"} /\ up' = Append(up, m)
    <3>1. PICK m \in UpMessages : m.kind \in {"auth", "put"} /\ up' = Append(up, m)
      BY <2>1
    <3>2. /\ Relisted(up, listen) => Relisted(up', listen)
          /\ NoListen(up') => NoListen(up)
      BY <1>a, <3>1, ListenAdded
    <3> QED BY <1>b, <1>4, <3>2 DEF Asks
  <2> QED BY <1>b, <1>4, <2>1 DEF Asks
<1>5. CASE Connected /\ HearsLater
  BY <1>b, <1>5 DEF HearsLater
<1>6. CASE Connected /\ Observe
  <2> DEFINE m == Msg("listen", listen', Nothing)
  <2>1. up' = Append(up, m) /\ m.kind = "listen" /\ m.ref = listen'
    BY <1>6 DEF Observe, Msg
  <2>2. m \in UpMessages
    <3>1. budget["listens"] \in Nat /\ listen' = budget["listens"]
      BY <1>6, ListensLeft DEF Observe
    <3> QED BY <3>1 DEF Msg, UpMessages, Listens, Nothing
  <2> HIDE DEF m
  <2> QED BY <1>a, <2>1, <2>2, ListenAdded
<1>7. ASSUME RemoveObserver PROVE FALSE
  BY <1>7 DEF RemoveObserver
<1>8. CASE Connected /\ Hears
  <2>1. listen' = listen /\ UNCHANGED <<up, asked>>
    BY <1>8, HeardHead
  <2> QED BY <1>b, <1>8, <2>1
<1>9. CASE Connected /\ Serves
  <2>1. CASE ServerAuthenticates \/ ServerPuts
    <3>1. up # <<>> /\ up' = Tail(up) /\ UNCHANGED <<listen, asked>> /\ Head(up).kind # "listen"
      BY <2>1, AuthTaken, PutTakenUp
    <3>2. /\ Relisted(up, listen) => Relisted(up', listen)
          /\ NoListen(up') => NoListen(up)
      BY <1>a, <3>1, ListenTaken
    <3> QED BY <1>b, <1>9, <3>1, <3>2
  <2>2. CASE ServerTakesListen
    <3>1. /\ up # <<>> /\ up' = Tail(up) /\ UNCHANGED listen /\ Head(up).kind = "listen"
          /\ Head(up) \in Listens /\ asked' = Append(asked, Head(up))
      BY <2>2, ListenTakenUp
    <3>2. /\ Relisted(up, listen) => Relisted(up', listen)
          /\ Relisted(up, listen) /\ NoListen(up') => Head(up).ref = listen
      BY <1>a, <3>1, ListenTaken
    <3>3. Last(asked') = Head(up)
      BY <1>a, <3>1, AppendProperties DEF Last
    <3> QED BY <1>b, <1>9, <3>1, <3>2, <3>3
  <2>3. CASE ServerAnswersListen
    <3>1. asked # <<>> /\ asked' = Tail(asked) /\ UNCHANGED <<listen, up>>
      BY <2>3, ListenAnswered
    <3>2. asked' # <<>> => Last(asked') = Last(asked)
      <4>1. /\ Len(asked) \in Nat \ {0} /\ Len(Tail(asked)) = Len(asked) - 1
            /\ DOMAIN Tail(asked) = 1..(Len(asked) - 1) /\ Tail(asked) \in Seq(Listens)
            /\ \A i \in DOMAIN Tail(asked) : Tail(asked)[i] = asked[i + 1]
        BY <1>a, <3>1, Taken
      <4>2. ASSUME asked' # <<>> PROVE Len(asked) - 1 \in DOMAIN Tail(asked)
        BY <3>1, <4>1, <4>2, EmptySeq
      <4>3. ASSUME asked' # <<>> PROVE Tail(asked)[Len(asked) - 1] = asked[(Len(asked) - 1) + 1]
        BY <4>1, <4>2, <4>3
      <4> QED BY <3>1, <4>1, <4>3 DEF Last
    <3> QED BY <1>b, <1>9, <3>1, <3>2
  <2>4. CASE ServerUnlistens
    <3>1. up # <<>> /\ up' = Tail(up) /\ asked' = <<>> /\ UNCHANGED listen
      BY <2>4, UnlistenTaken
    <3>2. Relisted(up, listen) => Relisted(up', listen)
      BY <1>a, <3>1, ListenTaken
    <3> QED BY <1>b, <1>9, <3>1, <3>2
  <2>5. CASE OtherDeviceWrites \/ ServerRevokes
    <3>1. UNCHANGED <<listen, up, asked>>
      BY <2>5, ForeignStored, Revoked
    <3> QED BY <1>b, <1>9, <3>1
  <2> QED BY <1>9, <2>1, <2>2, <2>3, <2>4, <2>5 DEF Serves
<1> QED BY <1>2, <1>3, <1>4, <1>5, <1>6, <1>7, <1>8, <1>9, Linked

\* The empty value is the first that was stored.
LEMMA HistoryNext == TypeInv /\ IInv /\ AuthInv /\ HistoryInv /\ [Next]_vars => HistoryInv'
<1> SUFFICES ASSUME TypeInv, IInv, AuthInv, HistoryInv, [Next]_vars PROVE HistoryInv'
  OBVIOUS
<1>a. history \in Seq(Nat)
  BY Channels
<1>1. CASE UNCHANGED history
  BY <1>1 DEF HistoryInv
<1>2. CASE \E x \in Nat \ {0} : history' = Append(history, x)
  <2>1. PICK x \in Nat \ {0} : history' = Append(history, x)
    BY <1>2
  <2>2. /\ Len(history) \in Nat /\ DOMAIN history' = 1..(Len(history) + 1)
        /\ \A i \in 1..Len(history) : history'[i] = history[i]
        /\ history'[Len(history) + 1] = x /\ DOMAIN history = 1..Len(history)
    BY <1>a, <2>1, AppendProperties, LenProperties
  <2> QED BY <2>1, <2>2 DEF HistoryInv, Nothing
<1>3. CASE ServerPuts
  <2>1. Writes \subseteq Nat \ {0}
    BY WritesAssumption, FS_CardinalityType
  <2> QED BY <1>1, <1>2, <1>3, <2>1, PutTakenUp
<1>4. CASE OtherDeviceWrites
  BY <1>2, <1>4, ForeignStored
<1>5. CASE ~ServerPuts /\ ~OtherDeviceWrites
  <2>1. UNCHANGED history
    BY <1>5 DEF Next, vars, server, Client, RunRetry, FetchSucceeds, OnReady, Receive, OnAuth,
        OnAuthRevoked, OnPut, OnListen, OnDataUpdate, OnListenRevoked, OnKill, Server,
        ServerAuthenticates, ServerTakesListen, ServerAnswersListen, ServerUnlistens, Program,
        Observe, RemoveObserver, Interrupt, Resume, RefreshAuthToken, SetValue, Trouble, FetchFails,
        OnDisconnect, EnteringForeground, ServerRevokes, TokenExpires
  <2> QED BY <1>1, <2>1
<1> QED BY <1>3, <1>4, <1>5

(* While a connection authenticates, the request for it is the first, and nothing of a listen
   comes before its answer: not at all if the view has data of an earlier connection, since a
   listen of that view is sent after the answer. *)
OrderInv ==
    conn = "authenticating" =>
        /\ LoadsAfterFirst(down)
        /\ ~NoFirst(up) => IsFirst(Head(up)) /\ asked = <<>> /\ serving = FALSE
        /\ listen # 0 /\ cache \notin {Unknown, Nothing} =>
             NoListen(up) /\ asked = <<>> /\ serving = FALSE /\ NoLoads(down)

\* Nothing authenticates at the start.
LEMMA OrderInit == Init => OrderInv
BY DEF Init, OrderInv

\* Requests that follow it leave the first request the first.
LEMMA FirstKept ==
    ASSUME NEW M, NEW s \in Seq(M), NEW m \in M, ~IsFirst(m)
    PROVE  /\ NoFirst(Append(s, m)) <=> NoFirst(s)
           /\ ~NoFirst(s) => Head(Append(s, m)) = Head(s)
<1>1. Range(Append(s, m)) = Range(s) \cup {m}
  BY RangeAfter
<1>2. ASSUME ~NoFirst(s) PROVE Head(Append(s, m)) = Head(s)
  <2>1. s # <<>>
    BY <1>2 DEF NoFirst, Range
  <2>2. /\ DOMAIN s = 1..Len(s) /\ Len(s) \in Nat \ {0} /\ Head(s) = s[1]
    BY <2>1, Taken
  <2>3. Append(s, m) \in Seq(M) /\ Append(s, m)[1] = s[1] /\ Append(s, m) # <<>>
    BY <2>2, AppendProperties
  <2>4. Head(Append(s, m)) = Append(s, m)[1]
    BY <2>3, Taken
  <2> QED BY <2>2, <2>3, <2>4
<1> QED BY <1>1, <1>2 DEF NoFirst

\* Every step keeps the first request first, and what is of listens after its answer.
LEMMA OrderNext ==
    TypeInv /\ IInv /\ AuthInv /\ NumberInv /\ OrderInv /\ [Next]_vars => OrderInv'
<1> DEFINE Loaded == listen # 0 /\ cache \notin {Unknown, Nothing}
<1> SUFFICES ASSUME TypeInv, IInv, AuthInv, NumberInv, OrderInv, [Next]_vars,
                    conn' = "authenticating"
             PROVE  /\ LoadsAfterFirst(down')
                    /\ ~NoFirst(up') => IsFirst(Head(up')) /\ asked' = <<>> /\ serving' = FALSE
                    /\ listen' # 0 /\ cache' \notin {Unknown, Nothing} =>
                         NoListen(up') /\ asked' = <<>> /\ serving' = FALSE /\ NoLoads(down')
  BY DEF OrderInv
<1>a. /\ up \in Seq(UpMessages) /\ down \in Seq(DownMessages) /\ asked \in Seq(Listens)
      /\ listen \in Nat /\ serving \in BOOLEAN
  BY Channels
<1>b. Connected'
  BY DEF Connected
<1>c. conn = "authenticating" =>
        /\ LoadsAfterFirst(down)
        /\ ~NoFirst(up) => IsFirst(Head(up)) /\ asked = <<>> /\ serving = FALSE
        /\ Loaded => NoListen(up) /\ asked = <<>> /\ serving = FALSE /\ NoLoads(down)
  BY DEF OrderInv
<1>d. conn = "authenticating" =>
        /\ ~NoFirst(up) => OneFirst(up) /\ NoAuth(down)
        /\ NoFirst(up) => OneFirst(down)
  BY <1>a, FirstTaken DEF AuthInv, OneFirst, NoFirst, Range
<1>1. CASE OnReady
  <2>1. /\ down = <<>> /\ asked = <<>> /\ ~serving /\ UNCHANGED <<listen, cache, down, asked, serving>>
        /\ \E m \in UpMessages : IsFirst(m) /\ up' = <<m>>
    BY <1>1, Ready
  <2>2. PICK m \in UpMessages : IsFirst(m) /\ up' = <<m>>
    BY <2>1
  <2>3. Head(<<m>>) = m /\ NoListen(<<m>>)
    BY <2>2 DEF NoListen, IsFirst
  <2> QED BY <2>1, <2>2, <2>3, NoneListens
<1>2. CASE Begins
  BY <1>2 DEF Begins
<1> SUFFICES ASSUME UNCHANGED conn, Connected,
                    Asks \/ HearsLater \/ Observe \/ RemoveObserver \/ Hears \/ Serves
             PROVE  /\ LoadsAfterFirst(down')
                    /\ ~NoFirst(up') => IsFirst(Head(up')) /\ asked' = <<>> /\ serving' = FALSE
                    /\ listen' # 0 /\ cache' \notin {Unknown, Nothing} =>
                         NoListen(up') /\ asked' = <<>> /\ serving' = FALSE /\ NoLoads(down')
  BY <1>b, <1>1, <1>2, Linked
<1>e. conn = "authenticating"
  OBVIOUS
<1>f. /\ LoadsAfterFirst(down)
      /\ ~NoFirst(up) => IsFirst(Head(up)) /\ asked = <<>> /\ serving = FALSE
      /\ Loaded => NoListen(up) /\ asked = <<>> /\ serving = FALSE /\ NoLoads(down)
      /\ ~NoFirst(up) => OneFirst(up) /\ NoAuth(down)
      /\ NoFirst(up) => OneFirst(down)
  BY <1>c, <1>d, <1>e
<1>g. ASSUME up # <<>>, up' = Tail(up)
      PROVE  /\ NoFirst(up') /\ (NoListen(up) => NoListen(up'))
             /\ Head(up).kind # "auth" => NoFirst(up)
  <2>1. ~NoFirst(up) => NoFirst(Tail(up))
    BY <1>a, <1>f, FirstTaken
  <2>2. Range(Tail(up)) \subseteq Range(up)
    BY <1>a, <1>g, RangeAfter
  <2>3. NoFirst(up) => NoFirst(Tail(up))
    BY <2>2 DEF NoFirst
  <2>4. NoListen(up) => NoListen(Tail(up))
    BY <1>a, <1>g, ListenTaken
  <2>5. Head(up).kind # "auth" => NoFirst(up)
    BY <1>f DEF IsFirst
  <2> QED BY <1>g, <2>1, <2>3, <2>4, <2>5
<1>3. CASE Asks
  <2>1. CASE \E m \in UpMessages :
               m.kind \in {"auth", "put"} /\ ~IsFirst(m) /\ up' = Append(up, m)
    <3>1. PICK m \in UpMessages :
               m.kind \in {"auth", "put"} /\ ~IsFirst(m) /\ up' = Append(up, m)
      BY <2>1
    <3>2. /\ NoFirst(up') <=> NoFirst(up)
          /\ ~NoFirst(up) => Head(up') = Head(up)
      BY <1>a, <3>1, FirstKept
    <3>3. NoListen(up) => NoListen(up')
      BY <1>a, <3>1, ListenAdded
    <3> QED BY <1>3, <1>f, <3>2, <3>3 DEF Asks
  <2> QED BY <1>3, <1>f, <2>1 DEF Asks
<1>4. ASSUME HearsLater PROVE FALSE
  BY <1>4, <1>e DEF HearsLater
<1>5. CASE Observe
  <2> DEFINE m == Msg("listen", listen', Nothing)
  <2>1. /\ up' = Append(up, m) /\ UNCHANGED <<cache, down, asked, serving>> /\ listen = 0
    BY <1>5 DEF Observe, data, server
  <2>2. m \in UpMessages /\ ~IsFirst(m)
    <3>1. budget["listens"] \in Nat /\ listen' = budget["listens"]
      BY <1>5, ListensLeft DEF Observe
    <3> QED BY <3>1 DEF Msg, UpMessages, Listens, Nothing, IsFirst
  <2>3. cache' = Unknown
    BY <2>1 DEF NumberInv
  <2> HIDE DEF m
  <2>4. /\ NoFirst(up') <=> NoFirst(up)
        /\ ~NoFirst(up) => Head(up') = Head(up)
    BY <1>a, <2>1, <2>2, FirstKept
  <2> QED BY <1>f, <2>1, <2>3, <2>4
<1>6. CASE RemoveObserver
  <2> DEFINE m == Msg("unlisten", 0, 0)
  <2>1. /\ up' = Append(up, m) /\ UNCHANGED <<down, asked, serving>> /\ listen' = 0
    BY <1>6 DEF RemoveObserver, server
  <2>2. m \in UpMessages /\ ~IsFirst(m)
    BY DEF Msg, UpMessages, IsFirst
  <2> HIDE DEF m
  <2>4. /\ NoFirst(up') <=> NoFirst(up)
        /\ ~NoFirst(up) => Head(up') = Head(up)
    BY <1>a, <2>1, <2>2, FirstKept
  <2> QED BY <1>f, <2>1, <2>4
<1>7. CASE Hears
  <2>1. /\ down # <<>> /\ down' = Tail(down) /\ UNCHANGED <<up, asked, serving>>
        /\ Head(down).kind \in {"put", "listen", "data", "listenRevoked"}
        /\ Head(down).kind = "put" => UNCHANGED <<listen, cache>>
        /\ Head(down).kind = "listenRevoked" => listen' = 0
    BY <1>7, HeardHead
  <2>2. ~IsFirst(Head(down))
    BY <2>1 DEF IsFirst
  <2>3. LoadsAfterFirst(down') /\ ~Loads(Head(down)) /\ (NoLoads(down) => NoLoads(down'))
    BY <1>a, <1>f, <2>1, <2>2, ListenTaken
  <2>4. UNCHANGED <<listen, cache>> \/ listen' = 0
    BY <2>1, <2>3 DEF Loads
  <2> QED BY <1>f, <2>1, <2>3, <2>4
<1>8. CASE Serves
  <2>1. CASE ServerAuthenticates
    <3>1. /\ up # <<>> /\ up' = Tail(up) /\ UNCHANGED <<listen, cache, asked, serving>>
          /\ \/ down' = down
             \/ \E m \in DownMessages : m.kind = "auth" /\ down' = Append(down, m)
      BY <2>1, AuthTaken
    <3>2. LoadsAfterFirst(down') /\ (NoLoads(down) => NoLoads(down'))
      <4>1. CASE \E m \in DownMessages : m.kind = "auth" /\ down' = Append(down, m)
        <5>1. PICK m \in DownMessages : m.kind = "auth" /\ down' = Append(down, m)
          BY <4>1
        <5>2. ~Loads(m)
          BY <5>1 DEF Loads
        <5> QED BY <1>a, <1>f, <5>1, <5>2, ListenAdded
      <4> QED BY <1>f, <3>1, <4>1
    <3> QED BY <1>f, <1>g, <3>1, <3>2
  <2>2. CASE ServerTakesListen
    <3>1. /\ up # <<>> /\ up' = Tail(up) /\ UNCHANGED <<listen, cache, down>> /\ Head(up).kind = "listen"
      BY <2>2, ListenTakenUp
    <3>2. ~NoListen(up)
      BY <1>a, <3>1, ListenTaken
    <3> QED BY <1>f, <1>g, <3>1, <3>2
  <2>3. CASE ServerAnswersListen
    <3>1. asked # <<>> /\ UNCHANGED <<listen, cache, up>>
      BY <2>3, ListenAnswered
    <3>2. NoFirst(up) /\ OneFirst(down)
      BY <1>f, <3>1
    <3>3. PICK t \in Seq(DownMessages) : down' = down \o t
      BY <2>3, Said
    <3>4. LoadsAfterFirst(down')
      BY <1>a, <1>f, <3>2, <3>3, ListensJoined
    <3> QED BY <1>f, <3>1, <3>2, <3>4
  <2>4. CASE ServerUnlistens
    <3>1. /\ up # <<>> /\ up' = Tail(up) /\ UNCHANGED <<listen, cache>> /\ Head(up).kind = "unlisten"
          /\ asked' = <<>> /\ serving' = FALSE
      BY <2>4, UnlistenTaken
    <3>2. NoFirst(up) /\ OneFirst(down)
      BY <1>f, <1>g, <3>1
    <3>3. PICK t \in Seq(DownMessages) : down' = down \o t /\ DOMAIN t = DOMAIN asked
      BY <2>4, UnlistenTaken
    <3>4. LoadsAfterFirst(down') /\ (NoLoads(down') <=> NoLoads(down) /\ NoLoads(t))
      BY <1>a, <1>f, <3>2, <3>3, ListensJoined
    <3>5. asked = <<>> => NoLoads(t)
      BY <3>3 DEF NoLoads
    <3> QED BY <1>f, <1>g, <3>1, <3>4, <3>5
  <2>5. CASE ServerPuts
    <3>1. /\ up # <<>> /\ up' = Tail(up) /\ UNCHANGED <<listen, cache, asked, serving>>
          /\ Head(up).kind = "put" /\ Head(up).ref \in Writes
      BY <2>5, PutTakenUp
    <3> DEFINE e == Push(Head(up).ref)
    <3>2. PICK m \in DownMessages : m.kind = "put" /\ (down' = Append(e, m) \/ down' = Append(down, m))
      BY <2>5, PutTakenUp
    <3>3. OneFirst(down)
      BY <1>f, <1>g, <3>1
    <3>4. /\ e \in Seq(DownMessages) /\ (~serving => e = down)
          /\ serving => \E n \in DownMessages : e = Append(down, n)
      BY <3>1, WritesAreNumbers, Pushed
    <3> HIDE DEF e
    <3>5. LoadsAfterFirst(e)
      BY <1>a, <1>f, <3>3, <3>4, ListenAdded
    <3>6. ~Loads(m)
      BY <3>2 DEF Loads
    <3>7. /\ LoadsAfterFirst(Append(e, m)) /\ LoadsAfterFirst(Append(down, m))
          /\ NoLoads(down) => NoLoads(Append(down, m))
      BY <1>a, <1>f, <3>2, <3>4, <3>5, <3>6, ListenAdded
    <3> QED BY <1>f, <1>g, <3>1, <3>2, <3>4, <3>7
  <2>6. CASE OtherDeviceWrites
    <3>1. UNCHANGED <<listen, cache, up, asked, serving>>
      BY <2>6, ForeignStored
    <3>2. PICK value \in Nat \ {0} : down' = Push(value)
      BY <2>6, ForeignStored
    <3>3. /\ ~serving => down' = down
          /\ serving => \E n \in DownMessages : down' = Append(down, n)
      BY <3>2, Pushed
    <3>4. LoadsAfterFirst(down')
      <4>1. CASE serving
        <5>1. OneFirst(down)
          BY <1>f, <4>1
        <5> QED BY <1>a, <1>f, <3>3, <4>1, <5>1, ListenAdded
      <4> QED BY <1>f, <3>3, <4>1
    <3> QED BY <1>f, <3>1, <3>3, <3>4
  <2>7. CASE ServerRevokes
    <3>1. UNCHANGED <<listen, cache, up, asked>> /\ (serving' = serving \/ serving' = FALSE)
      BY <2>7, Revoked
    <3>2. PICK m \in DownMessages :
            m.kind \in {"listenRevoked", "authRevoked", "kill"} /\ down' = Append(down, m)
      BY <2>7, Revoked
    <3>3. ~Loads(m)
      BY <3>2 DEF Loads
    <3>4. LoadsAfterFirst(down') /\ (NoLoads(down) => NoLoads(down'))
      BY <1>a, <1>f, <3>2, <3>3, ListenAdded
    <3> QED BY <1>f, <3>1, <3>4
  <2> QED BY <1>8, <2>1, <2>2, <2>3, <2>4, <2>5, <2>6, <2>7 DEF Serves
<1> QED BY <1>3, <1>4, <1>5, <1>6, <1>7, <1>8

(* A listen that says what the client has is the connection's first, the server is not
   serving, nothing of a listen is under way to the client, and what it says is so. *)
HashInv ==
    /\ Hashes(up, listen, cache) /\ Hashes(asked, listen, cache)
    /\ ~NoHash(up) => asked = <<>>
    /\ ~NoHash(up) \/ ~NoHash(asked) => serving = FALSE /\ NoLoads(down)

\* Nothing is listened to at the start.
LEMMA HashInit == Init => HashInv
BY NoneListens DEF Init, HashInv

\* What other listens say is no claim about this one.
LEMMA HashesOther ==
    ASSUME NEW M, NEW s \in Seq(M), NEW l, NEW c, NEW k, NEW e, NEW b \in Nat,
           \A m \in M : m.kind = "listen" => m.ref \in Nat,
           Hashes(s, l, c), RefsAbove(s, b), k \in Nat /\ k <= b
    PROVE  Hashes(s, k, e)
<1>1. \A i \in DOMAIN s : s[i] \in M
  BY LenProperties, ElementOfSeq
<1> QED BY <1>1 DEF Hashes, RefsAbove, Hashed

\* Listens that say nothing say nothing false.
LEMMA HashesNone ==
    ASSUME NEW s, NEW l, NEW c, NoHash(s)
    PROVE  Hashes(s, l, c)
BY DEF NoHash, Hashes

\* Every step keeps true what a listen says of the view.
LEMMA HashNext ==
    TypeInv /\ IInv /\ AuthInv /\ NumberInv /\ OrderInv /\ HashInv /\ [Next]_vars => HashInv'
<1> SUFFICES ASSUME TypeInv, IInv, AuthInv, NumberInv, OrderInv, HashInv, [Next]_vars
             PROVE  /\ Hashes(up', listen', cache') /\ Hashes(asked', listen', cache')
                    /\ ~NoHash(up') => asked' = <<>>
                    /\ ~NoHash(up') \/ ~NoHash(asked') => serving' = FALSE /\ NoLoads(down')
  BY DEF HashInv
<1> DEFINE b == budget["listens"]
<1>a. /\ up \in Seq(UpMessages) /\ down \in Seq(DownMessages) /\ asked \in Seq(Listens)
      /\ listen \in Nat /\ cache \in Nat \cup {Unknown} /\ serving \in BOOLEAN
  BY Channels
<1>b. b \in Nat /\ RefsAbove(up, b) /\ RefsAbove(asked, b)
  BY ListensLeft DEF NumberInv
<1>c. /\ Hashes(up, listen, cache) /\ Hashes(asked, listen, cache)
      /\ ~NoHash(up) => asked = <<>>
      /\ ~NoHash(up) \/ ~NoHash(asked) => serving = FALSE /\ NoLoads(down)
  BY DEF HashInv
<1>d. \A m \in UpMessages \cup Listens : m.kind = "listen" => m.ref \in Nat
  BY MessageTypes
<1> HIDE DEF b
<1>e. ASSUME NEW l \in Nat, l <= b, NEW c PROVE Hashes(up, l, c) /\ Hashes(asked, l, c)
  <2>1. Hashes(up, l, c)
    BY <1>a, <1>b, <1>c, <1>d, <1>e, HashesOther
  <2>2. Hashes(asked, l, c)
    BY <1>a, <1>b, <1>c, <1>d, <1>e, HashesOther
  <2> QED BY <2>1, <2>2
<1>1. CASE ~Connected'
  BY <1>1, Unlinked, NoneListens
<1>2. CASE OnReady
  <2>1. /\ up = <<>> /\ down = <<>> /\ asked = <<>> /\ ~serving
        /\ UNCHANGED <<listen, cache, down, asked, serving>>
    BY <1>2, Ready
  <2>2. CASE RestoreState
    <3>1. PICK sent \in Seq(UpMessages) : up' = up \o sent /\ Hashes(sent, listen, cache)
      <4>1. listen # 0 => listen > 0
        BY <1>a
      <4> QED BY <2>2, <4>1, ListenRestored
    <3>2. Hashes(up', listen, cache)
      <4>1. NoListen(up) /\ Hashes(up, listen, cache)
        BY <2>1, NoneListens
      <4> QED BY <1>a, <3>1, <4>1, ListensJoined
    <3> QED BY <2>1, <3>2, NoneListens
  <2>3. CASE \E m \in UpMessages : IsFirst(m) /\ up' = <<m>>
    <3>1. PICK m \in UpMessages : IsFirst(m) /\ up' = <<m>>
      BY <2>3
    <3>2. NoHash(<<m>>)
      BY <3>1 DEF NoHash, Hashed, IsFirst
    <3> QED BY <2>1, <3>1, <3>2, NoneListens, HashesNone
  <2> QED BY <1>2, <2>2, <2>3, Ready
<1>3. CASE Begins
  <2>1. /\ RestoreState /\ UNCHANGED <<listen, cache, asked, serving>> /\ conn = "authenticating"
        /\ down # <<>> /\ down' = Tail(down)
    BY <1>3 DEF Begins
  <2>2. PICK sent \in Seq(UpMessages) :
          /\ up' = up \o sent /\ Hashes(sent, listen, cache)
          /\ listen = 0 \/ cache \in {Unknown, Nothing} => NoHash(sent)
    <3>1. listen # 0 => listen > 0
      BY <1>a
    <3> QED BY <2>1, <3>1, ListenRestored
  <2>3. NoLoads(down) => NoLoads(down')
    BY <1>a, <2>1, ListenTaken
  <2>4. NoHash(sent) \/ (NoListen(up) /\ asked = <<>> /\ serving = FALSE /\ NoLoads(down))
    BY <2>1, <2>2 DEF OrderInv
  <2>5. Hashes(up', listen, cache)
    BY <1>a, <1>c, <2>2, <2>4, ListensJoined
  <2>6. NoHash(up') <=> NoHash(up) /\ NoHash(sent)
    BY <1>a, <2>2, ListensJoined
  <2> QED BY <1>c, <2>1, <2>3, <2>4, <2>5, <2>6
<1>4. CASE Asks
  <2>1. CASE \E m \in UpMessages : m.kind \in {"auth", "put"} /\ up' = Append(up, m)
    <3>1. PICK m \in UpMessages : m.kind \in {"auth", "put"} /\ up' = Append(up, m)
      BY <2>1
    <3>2. ~Hashed(m)
      BY <3>1 DEF Hashed
    <3>3. Hashes(up', listen, cache) /\ (NoHash(up') <=> NoHash(up))
      BY <1>a, <1>c, <3>1, <3>2, ListenAdded
    <3> QED BY <1>4, <1>c, <3>3 DEF Asks
  <2> QED BY <1>4, <1>c, <2>1 DEF Asks
<1>5. CASE HearsLater
  <2>1. NoLoads(down) => NoLoads(down')
    BY <1>a, <1>5, ListenTaken DEF HearsLater
  <2> QED BY <1>5, <1>c, <2>1 DEF HearsLater
<1>6. CASE Observe
  <2> DEFINE m == Msg("listen", listen', Nothing)
  <2>1. /\ up' = up \/ up' = Append(up, m)
        /\ UNCHANGED <<cache, down, asked, serving>> /\ listen' = b
    BY <1>6 DEF Observe, data, server, b
  <2>2. m \in UpMessages /\ ~Hashed(m)
    BY <1>b, <2>1 DEF Msg, UpMessages, Listens, Nothing, Hashed
  <2> HIDE DEF m
  <2>3. Hashes(up, listen', cache') /\ Hashes(asked, listen', cache')
    BY <1>b, <1>e, <2>1
  <2>4. Hashes(Append(up, m), listen', cache') /\ (NoHash(Append(up, m)) <=> NoHash(up))
    BY <1>a, <2>2, <2>3, ListenAdded
  <2> QED BY <1>c, <2>1, <2>3, <2>4
<1>7. CASE RemoveObserver
  <2> DEFINE m == Msg("unlisten", 0, 0)
  <2>1. /\ up' = up \/ up' = Append(up, m)
        /\ UNCHANGED <<down, asked, serving>> /\ listen' = 0
    BY <1>7 DEF RemoveObserver, server
  <2>2. m \in UpMessages /\ ~Hashed(m)
    BY DEF Msg, UpMessages, Hashed
  <2> HIDE DEF m
  <2>3. Hashes(up, listen', cache') /\ Hashes(asked, listen', cache')
    BY <1>b, <1>e, <2>1
  <2>4. Hashes(Append(up, m), listen', cache') /\ (NoHash(Append(up, m)) <=> NoHash(up))
    BY <1>a, <2>2, <2>3, ListenAdded
  <2> QED BY <1>c, <2>1, <2>3, <2>4
<1>8. CASE Hears
  <2>1. /\ down # <<>> /\ down' = Tail(down) /\ UNCHANGED <<up, asked, serving>>
        /\ Head(down).kind \in {"put", "listen", "data", "listenRevoked"}
        /\ Head(down).kind = "put" => UNCHANGED <<listen, cache>>
        /\ Head(down).kind = "listenRevoked" => listen' = 0
    BY <1>8, HeardHead
  <2>2. NoLoads(down) => NoLoads(down') /\ ~Loads(Head(down))
    BY <1>a, <2>1, ListenTaken
  <2>3. CASE Loads(Head(down))
    <3>1. NoHash(up) /\ NoHash(asked)
      BY <1>c, <2>2, <2>3
    <3> QED BY <2>1, <3>1, HashesNone
  <2>4. CASE ~Loads(Head(down))
    <3>1. UNCHANGED <<listen, cache>> \/ listen' = 0
      BY <2>1, <2>4 DEF Loads
    <3>2. Hashes(up, listen', cache') /\ Hashes(asked, listen', cache')
      BY <1>b, <1>c, <1>e, <3>1
    <3> QED BY <1>c, <2>1, <2>2, <3>2
  <2> QED BY <2>3, <2>4
<1>9. ASSUME up # <<>>, up' = Tail(up)
      PROVE  Hashes(up', listen, cache) /\ (NoHash(up) => NoHash(up'))
  BY <1>a, <1>c, <1>9, ListenTaken
<1>10. CASE Serves
  <2>1. CASE ServerAuthenticates
    <3>1. /\ up # <<>> /\ up' = Tail(up) /\ UNCHANGED <<listen, cache, asked, serving>>
          /\ \/ down' = down
             \/ \E m \in DownMessages : m.kind = "auth" /\ down' = Append(down, m)
      BY <2>1, AuthTaken
    <3>2. NoLoads(down) => NoLoads(down')
      <4>1. CASE \E m \in DownMessages : m.kind = "auth" /\ down' = Append(down, m)
        <5>1. PICK m \in DownMessages : m.kind = "auth" /\ down' = Append(down, m)
          BY <4>1
        <5>2. ~Loads(m)
          BY <5>1 DEF Loads
        <5> QED BY <1>a, <5>1, <5>2, ListenAdded
      <4> QED BY <3>1, <4>1
    <3> QED BY <1>9, <1>c, <3>1, <3>2
  <2>2. CASE ServerTakesListen
    <3>1. /\ up # <<>> /\ up' = Tail(up) /\ UNCHANGED <<listen, cache, down, serving>>
          /\ Head(up).kind = "listen" /\ Head(up) \in Listens /\ asked' = Append(asked, Head(up))
      BY <2>2, ListenTakenUp
    <3>2. /\ NoHash(up') /\ (NoHash(up) => ~Hashed(Head(up)))
          /\ Hashed(Head(up)) /\ Head(up).ref = listen => cache = Head(up).value
      BY <1>a, <1>c, <3>1, ListenTaken
    <3>3. CASE Hashed(Head(up))
      <4>1. asked = <<>> /\ serving = FALSE /\ NoLoads(down)
        BY <1>c, <3>2, <3>3
      <4>2. NoListen(asked) /\ Hashes(asked, listen, cache)
        BY <1>c, <4>1, NoneListens
      <4>3. Hashes(asked', listen, cache)
        BY <1>a, <3>1, <3>2, <3>3, <4>2, ListenAdded
      <4> QED BY <3>1, <3>2, <4>1, <4>3, HashesNone
    <3>4. CASE ~Hashed(Head(up))
      <4>1. Hashes(asked', listen, cache) /\ (NoHash(asked') <=> NoHash(asked))
        BY <1>a, <1>c, <3>1, <3>4, ListenAdded
      <4> QED BY <1>c, <3>1, <3>2, <4>1, HashesNone
    <3> QED BY <3>3, <3>4
  <2>3. CASE ServerAnswersListen
    <3>1. asked # <<>> /\ asked' = Tail(asked) /\ Head(asked) \in Listens /\ UNCHANGED <<listen, cache, up>>
      BY <2>3, ListenAnswered
    <3>2. Head(asked).kind = "listen"
      BY <3>1, MessageTypes
    <3>3. NoHash(asked')
      BY <1>a, <1>c, <3>1, <3>2, ListenTaken
    <3> QED BY <1>c, <3>1, <3>3, HashesNone
  <2>4. CASE ServerUnlistens
    <3>1. /\ up # <<>> /\ up' = Tail(up) /\ UNCHANGED <<listen, cache>>
          /\ asked' = <<>> /\ serving' = FALSE
      BY <2>4, UnlistenTaken
    <3>2. PICK t \in Seq(DownMessages) : down' = down \o t /\ DOMAIN t = DOMAIN asked
      BY <2>4, UnlistenTaken
    <3>3. NoLoads(down') <=> NoLoads(down) /\ NoLoads(t)
      BY <1>a, <3>2, ListensJoined
    <3>4. asked = <<>> => NoLoads(t)
      BY <3>2 DEF NoLoads
    <3> QED BY <1>9, <1>c, <3>1, <3>3, <3>4, NoneListens
  <2>5. CASE ServerPuts
    <3>1. /\ up # <<>> /\ up' = Tail(up) /\ UNCHANGED <<listen, cache, asked, serving>>
          /\ Head(up).ref \in Writes
      BY <2>5, PutTakenUp
    <3>2. PICK m \in DownMessages :
            m.kind = "put" /\ (down' = Append(Push(Head(up).ref), m) \/ down' = Append(down, m))
      BY <2>5, PutTakenUp
    <3>3. ~serving => Push(Head(up).ref) = down
      BY DEF Push
    <3>4. ~Loads(m)
      BY <3>2 DEF Loads
    <3>5. NoLoads(down) => NoLoads(Append(down, m))
      BY <1>a, <3>2, <3>4, ListenAdded
    <3> QED BY <1>9, <1>c, <3>1, <3>2, <3>3, <3>5
  <2>6. CASE OtherDeviceWrites
    <3>1. UNCHANGED <<listen, cache, up, asked, serving>>
      BY <2>6, ForeignStored
    <3>2. serving = FALSE => down' = down
      BY <2>6 DEF OtherDeviceWrites, Push
    <3> QED BY <1>c, <3>1, <3>2
  <2>7. CASE ServerRevokes
    <3>1. UNCHANGED <<listen, cache, up, asked>> /\ (serving' = serving \/ serving' = FALSE)
      BY <2>7, Revoked
    <3>2. PICK m \in DownMessages :
            m.kind \in {"listenRevoked", "authRevoked", "kill"} /\ down' = Append(down, m)
      BY <2>7, Revoked
    <3>3. ~Loads(m)
      BY <3>2 DEF Loads
    <3>4. NoLoads(down) => NoLoads(down')
      BY <1>a, <3>2, <3>3, ListenAdded
    <3> QED BY <1>c, <3>1, <3>4
  <2> QED BY <1>10, <2>1, <2>2, <2>3, <2>4, <2>5, <2>6, <2>7 DEF Serves
<1> QED BY <1>1, <1>2, <1>3, <1>4, <1>5, <1>6, <1>7, <1>8, <1>10, Linked

-----------------------------------------------------------------------------
(* The view of the location.                                               *)

\* The listen l of the view is on the server, and nothing asks for another.
Listening(u, a, l) == l # 0 /\ a = <<>> /\ NoListen(u)

\* A message that ends the listen l.
Ends(m, l) == m.kind = "listenRevoked" \/ (m.kind = "listen" /\ m.value = "refused" /\ m.ref = l)
NoEnd(s, l) == \A i \in DOMAIN s : ~Ends(s[i], l)

\* Unless the end of it is under way, the server serves it.
ServedInv ==
    conn = "connected" /\ Listening(up, asked, listen) /\ NoEnd(down, listen) => serving = TRUE

\* There is no connection at the start.
LEMMA ServedInit == Init => ServedInv
BY DEF Init, ServedInv

\* A message sent may end the listen.
LEMMA EndAdded ==
    ASSUME NEW M, NEW s \in Seq(M), NEW m \in M, NEW l
    PROVE  NoEnd(Append(s, m), l) <=> NoEnd(s, l) /\ ~Ends(m, l)
<1>1. /\ Len(s) \in Nat /\ DOMAIN s = 1..Len(s) /\ DOMAIN Append(s, m) = 1..(Len(s) + 1)
      /\ \A i \in 1..Len(s) : Append(s, m)[i] = s[i]
      /\ Append(s, m)[Len(s) + 1] = m
  BY AppendProperties, LenProperties
<1> QED BY <1>1 DEF NoEnd

\* One that did not leaves the end of it under way, or not.
LEMMA EndTaken ==
    ASSUME NEW M, NEW s \in Seq(M), s # <<>>, NEW l, ~Ends(Head(s), l)
    PROVE  NoEnd(Tail(s), l) <=> NoEnd(s, l)
<1> DEFINE t == Tail(s)
<1>1. /\ Len(s) \in Nat \ {0} /\ DOMAIN s = 1..Len(s) /\ Head(s) = s[1]
      /\ DOMAIN t = 1..(Len(s) - 1)
      /\ \A i \in DOMAIN t : i + 1 \in DOMAIN s /\ t[i] = s[i + 1]
  BY Taken
<1> HIDE DEF t
<1>2. NoEnd(s, l) => NoEnd(t, l)
  BY <1>1 DEF NoEnd
<1>3. ASSUME NoEnd(t, l), NEW i \in DOMAIN s PROVE ~Ends(s[i], l)
  <2>1. CASE i # 1
    <3>1. i - 1 \in DOMAIN t /\ (i - 1) + 1 = i
      BY <1>1, <2>1
    <3>2. t[i - 1] = s[i]
      BY <1>1, <3>1
    <3> QED BY <1>3, <3>1, <3>2 DEF NoEnd
  <2> QED BY <1>1, <2>1
<1> QED BY <1>2, <1>3 DEF NoEnd, t

\* Every step keeps the listen served until the end of it is under way.
LEMMA ServedNext ==
    TypeInv /\ IInv /\ AuthInv /\ RelistInv /\ ServedInv /\ [Next]_vars => ServedInv'
<1> SUFFICES ASSUME TypeInv, IInv, AuthInv, RelistInv, ServedInv, [Next]_vars,
                    conn' = "connected", listen' # 0, asked' = <<>>, NoListen(up'),
                    NoEnd(down', listen')
             PROVE  serving' = TRUE
  BY DEF ServedInv, Listening
<1>a. /\ up \in Seq(UpMessages) /\ down \in Seq(DownMessages) /\ asked \in Seq(Listens)
      /\ listen \in Nat
  BY Channels
<1>b. Connected'
  BY DEF Connected
<1>1. ASSUME RestoreState, listen' = listen PROVE FALSE
  <2>1. PICK sent \in Seq(UpMessages) : up' = up \o sent /\ ~NoListen(sent)
    <3>1. listen # 0 => listen > 0
      BY <1>a
    <3> QED BY <1>1, <3>1, ListenRestored
  <2> QED BY <1>a, <2>1, ListensJoined
<1>2. ASSUME OnReady PROVE FALSE
  BY <1>1, <1>2, Ready
<1>3. ASSUME Begins PROVE FALSE
  BY <1>1, <1>3 DEF Begins
<1> SUFFICES ASSUME UNCHANGED conn, Connected,
                    Asks \/ HearsLater \/ Observe \/ RemoveObserver \/ Hears \/ Serves
             PROVE  serving' = TRUE
  BY <1>b, <1>2, <1>3, Linked
<1>c. /\ listen # 0 /\ asked = <<>> /\ NoListen(up) /\ NoEnd(down, listen) => serving = TRUE
      /\ listen # 0 => /\ Relisted(up, listen)
                       /\ NoListen(up) /\ asked # <<>> => Last(asked).ref = listen
  BY DEF ServedInv, Listening, RelistInv
<1>4. CASE Asks
  <2>1. NoListen(up)
    BY <1>4, <1>a, ListenAdded DEF Asks
  <2> QED BY <1>4, <1>c, <2>1 DEF Asks
<1>5. CASE HearsLater
  <2>1. down # <<>> /\ down' = Tail(down) /\ ~Ends(Head(down), listen)
    BY <1>5 DEF HearsLater, Ends
  <2>2. NoEnd(down, listen)
    BY <1>5, <1>a, <2>1, EndTaken DEF HearsLater
  <2> QED BY <1>5, <1>c, <2>2 DEF HearsLater
<1>6. ASSUME Observe PROVE FALSE
  <2> DEFINE m == Msg("listen", listen', Nothing)
  <2>1. up' = Append(up, m) /\ m.kind = "listen"
    BY <1>6 DEF Observe, Msg
  <2>2. m \in UpMessages
    <3>1. budget["listens"] \in Nat /\ listen' = budget["listens"]
      BY <1>6, ListensLeft DEF Observe
    <3> QED BY <3>1 DEF Msg, UpMessages, Listens, Nothing
  <2> HIDE DEF m
  <2> QED BY <1>a, <2>1, <2>2, ListenAdded
<1>7. ASSUME RemoveObserver PROVE FALSE
  BY <1>7 DEF RemoveObserver
<1>8. CASE Hears
  <2>1. /\ down # <<>> /\ down' = Tail(down) /\ UNCHANGED <<up, asked, serving>> /\ listen' = listen
        /\ ~Ends(Head(down), listen)
    BY <1>8, HeardHead DEF Ends
  <2>2. NoEnd(down, listen)
    BY <1>a, <2>1, EndTaken
  <2> QED BY <1>c, <2>1, <2>2
<1>9. CASE Serves
  <2>1. CASE ServerAuthenticates
    <3>1. /\ up # <<>> /\ up' = Tail(up) /\ UNCHANGED <<listen, asked, serving>> /\ Head(up).kind = "auth"
          /\ \/ down' = down
             \/ \E m \in DownMessages : m.kind = "auth" /\ down' = Append(down, m)
      BY <2>1, AuthTaken
    <3>2. NoListen(up)
      BY <1>a, <3>1, ListenTaken
    <3>3. NoEnd(down, listen)
      BY <1>a, <3>1, EndAdded
    <3> QED BY <1>c, <3>1, <3>2, <3>3
  <2>2. ASSUME ServerTakesListen PROVE FALSE
    <3>1. asked' = Append(asked, Head(up)) /\ Head(up) \in Listens
      BY <2>2, ListenTakenUp
    <3> QED BY <1>a, <3>1, AppendProperties
  <2>3. CASE ServerAnswersListen
    <3>1. asked # <<>> /\ asked' = Tail(asked) /\ UNCHANGED <<listen, up>>
      BY <2>3, ListenAnswered
    <3>2. CASE serving' # TRUE
      <4>1. PICK m \in DownMessages : /\ m.kind = "listen" /\ m.ref = Head(asked).ref
                                      /\ m.value = "refused" /\ down' = Append(down, m)
        BY <2>3, <3>2, ListenAnswered
      <4>2. Last(asked) = Head(asked)
        <5> DEFINE t == Tail(asked)
        <5>1. /\ Len(asked) \in Nat \ {0} /\ Len(t) = Len(asked) - 1 /\ Head(asked) = asked[1]
          BY <1>a, <3>1, Taken
        <5>2. t = <<>>
          BY <3>1
        <5> HIDE DEF t
        <5>3. Len(asked) = 1
          BY <5>1, <5>2
        <5> QED BY <5>1, <5>3 DEF Last
      <4>3. Ends(m, listen')
        BY <1>c, <3>1, <4>1, <4>2 DEF Ends
      <4> QED BY <1>a, <4>1, <4>3, EndAdded
    <3> QED BY <3>2
  <2>4. ASSUME ServerUnlistens PROVE FALSE
    <3>1. up # <<>> /\ up' = Tail(up) /\ Head(up).kind = "unlisten" /\ UNCHANGED listen
      BY <2>4, UnlistenTaken
    <3> QED BY <1>a, <1>c, <3>1, ListenTaken
  <2>5. CASE ServerPuts
    <3>1. /\ up # <<>> /\ up' = Tail(up) /\ UNCHANGED <<listen, asked, serving>>
          /\ Head(up).kind = "put" /\ Head(up).ref \in Nat
      BY <2>5, PutTakenUp, WritesAreNumbers
    <3> DEFINE e == Push(Head(up).ref)
    <3>2. PICK m \in DownMessages : down' = Append(e, m) \/ down' = Append(down, m)
      BY <2>5, PutTakenUp
    <3>3. e \in Seq(DownMessages) /\ (e = down \/ \E n \in DownMessages : e = Append(down, n))
      BY <3>1, Pushed, <1>a
    <3> HIDE DEF e
    <3>4. NoEnd(e, listen) => NoEnd(down, listen)
      BY <1>a, <3>3, EndAdded
    <3>5. NoEnd(down, listen)
      BY <1>a, <3>1, <3>2, <3>3, <3>4, EndAdded
    <3>6. NoListen(up)
      BY <1>a, <3>1, ListenTaken
    <3> QED BY <1>c, <3>1, <3>5, <3>6
  <2>6. CASE OtherDeviceWrites
    <3>1. UNCHANGED <<listen, up, asked, serving>>
      BY <2>6, ForeignStored
    <3>2. PICK value \in Nat \ {0} : down' = Push(value)
      BY <2>6, ForeignStored
    <3>3. down' = down \/ \E n \in DownMessages : down' = Append(down, n)
      BY <3>2, Pushed
    <3>4. NoEnd(down, listen)
      BY <1>a, <3>1, <3>3, EndAdded
    <3> QED BY <1>c, <3>1, <3>4
  <2>7. CASE ServerRevokes
    <3>1. UNCHANGED <<listen, up, asked>>
      BY <2>7, Revoked
    <3>2. PICK m \in DownMessages :
            /\ down' = Append(down, m)
            /\ \/ m.kind = "listenRevoked"
               \/ serving' = serving
      BY <2>7, Revoked
    <3>3. NoEnd(down, listen) /\ ~Ends(m, listen)
      BY <1>a, <3>1, <3>2, EndAdded
    <3> QED BY <1>c, <3>1, <3>2, <3>3 DEF Ends
  <2> QED BY <1>9, <2>1, <2>2, <2>3, <2>4, <2>5, <2>6, <2>7 DEF Serves
<1> QED BY <1>4, <1>5, <1>6, <1>7, <1>8, <1>9

-----------------------------------------------------------------------------
(* What the observer will be shown.                                        *)

\* v was stored with w or after it.
StoredSince(h, w, v) == \E i, j \in DOMAIN h : j <= i /\ h[j] = w /\ h[i] = v

\* The server's data once the first i messages of d are heard.
IsView(d, c, i, v) ==
    \/ v = c /\ \A j \in 1..i : d[j].kind # "data"
    \/ \E k \in 1..i :
         d[k].kind = "data" /\ d[k].value = v /\ \A j \in 1..i : k < j => d[j].kind # "data"

\* Then no listen is unanswered, and none of the messages ended the listen l.
AllHeard(d, i, l) ==
    /\ \A j \in DOMAIN d : i < j => d[j].kind # "listen"
    /\ \A j \in 1..i : ~Ends(d[j], l)

\* An answer ok to the put w; one is held in K, or among the first i messages.
OkPut(m, w) == m.kind = "put" /\ m.value = "ok" /\ m.ref = w
OkSaid(d, i, K, w) == w \in K \/ \E j \in 1..i : OkPut(d[j], w)

\* When the program may be told of a write, the view has it, or something stored later.
Fresh(d, l, c, K, h) ==
    \A i \in 0..Len(d) : AllHeard(d, i, l) =>
        \A w, v : OkSaid(d, i, K, w) /\ IsView(d, c, i, v) => StoredSince(h, w, v)

\* The writes whose ok is held back.
Held == {w \in Writes : \E i \in DOMAIN putsToAck : putsToAck[i] = <<w, "ok">>}

FreshInv ==
    conn = "connected" /\ Listening(up, asked, listen)
        => Fresh(down, listen, cache, Held, history)

\* There is no connection at the start.
LEMMA FreshInit == Init => FreshInv
BY DEF Init, FreshInv

\* A message is heard: data are the view's, and an ok is held back.
LEMMA FreshTaken ==
    ASSUME NEW M, NEW s \in Seq(M), s # <<>>, NEW l, NEW c, NEW K, NEW h \in Seq(Nat),
           Fresh(s, l, c, K, h), ~Ends(Head(s), l),
           NEW e, IF Head(s).kind = "data" THEN e = Head(s).value ELSE e = c \/ c = Unknown,
           NEW J, \A w \in J : w \in K \/ OkPut(Head(s), w)
    PROVE  Fresh(Tail(s), l, e, J, h)
<1> DEFINE t == Tail(s)
           m == Head(s)
           n == Len(s)
<1>1. /\ n \in Nat \ {0} /\ DOMAIN s = 1..n /\ m = s[1]
      /\ DOMAIN t = 1..(n - 1) /\ Len(t) = n - 1
      /\ \A i \in DOMAIN t : i + 1 \in DOMAIN s /\ t[i] = s[i + 1]
  BY Taken
<1>2. /\ \A w \in J : w \in K \/ OkPut(m, w)
      /\ IF m.kind = "data" THEN e = m.value ELSE e = c \/ c = Unknown
      /\ ~Ends(m, l) /\ Fresh(s, l, c, K, h)
  OBVIOUS
<1> HIDE DEF t, m, n
<1> SUFFICES ASSUME NEW i \in 0..Len(t), AllHeard(t, i, l), NEW w, NEW v,
                    OkSaid(t, i, J, w), IsView(t, e, i, v)
             PROVE  StoredSince(h, w, v)
  BY DEF Fresh, t
<1>3. i + 1 \in 0..n /\ i \in Nat /\ i <= n - 1
  BY <1>1
<1>4. \A j \in 1..(i + 1) : j = 1 \/ (j - 1 \in 1..i /\ j - 1 \in DOMAIN t /\ t[j - 1] = s[j])
  <2> SUFFICES ASSUME NEW j \in 1..(i + 1), j # 1
               PROVE  j - 1 \in 1..i /\ j - 1 \in DOMAIN t /\ t[j - 1] = s[j]
    OBVIOUS
  <2>1. j - 1 \in 1..i /\ j - 1 \in DOMAIN t /\ (j - 1) + 1 = j
    BY <1>1, <1>3
  <2> QED BY <1>1, <2>1
<1>5. \A j \in 1..i : j + 1 \in 1..(i + 1) /\ s[j + 1] = t[j]
  BY <1>1, <1>3
<1>6. AllHeard(s, i + 1, l)
  <2>1. ASSUME NEW j \in DOMAIN s, i + 1 < j PROVE s[j].kind # "listen"
    <3>1. j - 1 \in DOMAIN t /\ (j - 1) + 1 = j /\ i < j - 1
      BY <1>1, <1>3, <2>1
    <3>2. t[j - 1] = s[j]
      BY <1>1, <3>1
    <3> QED BY <3>1, <3>2 DEF AllHeard
  <2>2. ASSUME NEW j \in 1..(i + 1) PROVE ~Ends(s[j], l)
    BY <1>1, <1>2, <1>4, <2>2 DEF AllHeard
  <2> QED BY <2>1, <2>2 DEF AllHeard
<1>7. OkSaid(s, i + 1, K, w)
  <2>1. CASE w \in J
    <3>1. 1 \in 1..(i + 1)
      BY <1>3
    <3> QED BY <1>1, <1>2, <2>1, <3>1 DEF OkSaid
  <2>2. CASE \E j \in 1..i : OkPut(t[j], w)
    BY <1>5, <2>2 DEF OkSaid
  <2> QED BY <2>1, <2>2 DEF OkSaid
<1>8. ASSUME NEW u, IsView(s, c, i + 1, u) PROVE StoredSince(h, w, u)
  BY <1>2, <1>3, <1>6, <1>7, <1>8 DEF Fresh, n
<1>9. CASE \E k \in 1..i :
             t[k].kind = "data" /\ t[k].value = v /\ \A j \in 1..i : k < j => t[j].kind # "data"
  <2>1. PICK k \in 1..i :
          t[k].kind = "data" /\ t[k].value = v /\ \A j \in 1..i : k < j => t[j].kind # "data"
    BY <1>9
  <2>2. ASSUME NEW j \in 1..(i + 1), k + 1 < j PROVE s[j].kind # "data"
    <3>1. j - 1 \in 1..i /\ k < j - 1 /\ t[j - 1] = s[j]
      BY <1>4, <2>2
    <3> QED BY <2>1, <3>1
  <2>3. k + 1 \in 1..(i + 1) /\ s[k + 1].kind = "data" /\ s[k + 1].value = v
    BY <1>5, <2>1
  <2>4. IsView(s, c, i + 1, v)
    BY <2>2, <2>3 DEF IsView
  <2> QED BY <1>8, <2>4
<1>10. CASE v = e /\ \A j \in 1..i : t[j].kind # "data"
  <2>1. CASE m.kind = "data"
    <3>1. ASSUME NEW j \in 1..(i + 1), 1 < j PROVE s[j].kind # "data"
      BY <1>4, <1>10, <3>1
    <3>2. 1 \in 1..(i + 1) /\ s[1].kind = "data" /\ s[1].value = v
      BY <1>1, <1>2, <1>3, <1>10, <2>1
    <3>3. IsView(s, c, i + 1, v)
      BY <3>1, <3>2 DEF IsView
    <3> QED BY <1>8, <3>3
  <2>2. CASE m.kind # "data"
    <3>1. IsView(s, c, i + 1, c)
      BY <1>1, <1>4, <1>10, <2>2 DEF IsView
    <3>2. StoredSince(h, w, c)
      BY <1>8, <3>1
    <3>3. c \in Nat
      <4>1. \A k \in DOMAIN h : h[k] \in Nat
        BY ElementOfSeq, LenProperties
      <4> QED BY <3>2, <4>1 DEF StoredSince
    <3> QED BY <1>2, <1>10, <2>2, <3>2, <3>3 DEF Unknown
  <2> QED BY <2>1, <2>2
<1> QED BY <1>9, <1>10 DEF IsView

\* A message is sent, and the view will be as new as it must.
LEMMA FreshAdded ==
    ASSUME NEW M, NEW s \in Seq(M), NEW m \in M, NEW l, NEW c, NEW K, NEW h,
           \/ Fresh(s, l, c, K, h)
           \/ m.kind = "listen",
           AllHeard(Append(s, m), Len(s) + 1, l) =>
             \A w, v : OkSaid(Append(s, m), Len(s) + 1, K, w) /\ IsView(Append(s, m), c, Len(s) + 1, v)
                         => StoredSince(h, w, v)
    PROVE  Fresh(Append(s, m), l, c, K, h)
<1> DEFINE t == Append(s, m)
           n == Len(s)
<1>1. /\ n \in Nat /\ DOMAIN s = 1..n /\ DOMAIN t = 1..(n + 1) /\ Len(t) = n + 1
      /\ \A i \in 1..n : t[i] = s[i]
      /\ t[n + 1] = m
  BY AppendProperties, LenProperties
<1>2. /\ Fresh(s, l, c, K, h) \/ m.kind = "listen"
      /\ AllHeard(t, n + 1, l) =>
           \A w, v : OkSaid(t, n + 1, K, w) /\ IsView(t, c, n + 1, v) => StoredSince(h, w, v)
  OBVIOUS
<1> HIDE DEF t, n
<1> SUFFICES ASSUME NEW i \in 0..Len(t), AllHeard(t, i, l), NEW w, NEW v,
                    OkSaid(t, i, K, w), IsView(t, c, i, v)
             PROVE  StoredSince(h, w, v)
  BY DEF Fresh, t
<1>3. CASE i = n + 1
  BY <1>2, <1>3
<1>4. CASE i # n + 1
  <2>1. i \in 0..n /\ n + 1 \in DOMAIN t /\ i < n + 1
    BY <1>1, <1>4
  <2>2. m.kind # "listen"
    BY <1>1, <2>1 DEF AllHeard
  <2>3. \A j \in 1..i : t[j] = s[j]
    BY <1>1, <2>1
  <2>4. AllHeard(s, i, l)
    BY <1>1, <2>3 DEF AllHeard
  <2>5. OkSaid(s, i, K, w)
    BY <2>3 DEF OkSaid
  <2>6. IsView(s, c, i, v)
    BY <2>3 DEF IsView
  <2>7. i \in 0..Len(s) /\ Fresh(s, l, c, K, h)
    BY <1>2, <2>1, <2>2 DEF n
  <2> QED BY <2>4, <2>5, <2>6, <2>7 DEF Fresh
<1> QED BY <1>3, <1>4

\* What the last message changes.
LEMMA LastHeard ==
    ASSUME NEW M, NEW s \in Seq(M), NEW m \in M, NEW l, NEW c, NEW K, NEW w, NEW v
    PROVE  /\ AllHeard(Append(s, m), Len(s) + 1, l) =>
                /\ ~Ends(m, l)
                /\ NoEnd(s, l)
           /\ AllHeard(Append(s, m), Len(s) + 1, l) /\ m.kind # "listen" => AllHeard(s, Len(s), l)
           /\ OkSaid(Append(s, m), Len(s) + 1, K, w) => OkSaid(s, Len(s), K, w) \/ OkPut(m, w)
           /\ IsView(Append(s, m), c, Len(s) + 1, v) =>
                IF m.kind = "data" THEN v = m.value ELSE IsView(s, c, Len(s), v)
<1> DEFINE t == Append(s, m)
           n == Len(s)
<1>1. /\ n \in Nat /\ DOMAIN s = 1..n /\ DOMAIN t = 1..(n + 1)
      /\ \A i \in 1..n : t[i] = s[i]
      /\ t[n + 1] = m /\ n + 1 \in 1..(n + 1)
  BY AppendProperties, LenProperties
<1> HIDE DEF t, n
<1>2. AllHeard(t, n + 1, l) => ~Ends(m, l) /\ NoEnd(s, l)
  BY <1>1 DEF AllHeard, NoEnd
<1>3. AllHeard(t, n + 1, l) => AllHeard(s, n, l)
  BY <1>1 DEF AllHeard
<1>4. OkSaid(t, n + 1, K, w) => OkSaid(s, n, K, w) \/ OkPut(m, w)
  BY <1>1 DEF OkSaid
<1>5. ASSUME IsView(t, c, n + 1, v)
      PROVE  IF m.kind = "data" THEN v = m.value ELSE IsView(s, c, n, v)
  <2>1. CASE m.kind = "data"
    <3>1. PICK k \in 1..(n + 1) :
            t[k].value = v /\ \A j \in 1..(n + 1) : k < j => t[j].kind # "data"
      BY <1>1, <1>5, <2>1 DEF IsView
    <3>2. k = n + 1
      BY <1>1, <2>1, <3>1
    <3> QED BY <1>1, <2>1, <3>1, <3>2
  <2>2. CASE m.kind # "data"
    <3>1. \A k \in 1..(n + 1) : t[k].kind = "data" => k \in 1..n
      BY <1>1, <2>2
    <3>2. \A k \in 1..n : k \in 1..(n + 1)
      BY <1>1
    <3>3. CASE v = c /\ \A j \in 1..(n + 1) : t[j].kind # "data"
      BY <1>1, <2>2, <3>2, <3>3 DEF IsView
    <3>4. CASE \E k \in 1..(n + 1) : /\ t[k].kind = "data" /\ t[k].value = v
                                     /\ \A j \in 1..(n + 1) : k < j => t[j].kind # "data"
      BY <1>1, <2>2, <3>1, <3>2, <3>4 DEF IsView
    <3> QED BY <1>5, <3>3, <3>4 DEF IsView
  <2> QED BY <2>1, <2>2
<1> QED BY <1>2, <1>3, <1>4, <1>5 DEF t, n

\* What was stored stays so.
LEMMA SinceKept ==
    ASSUME NEW h \in Seq(Nat), NEW x \in Nat
    PROVE  /\ \A w, v : StoredSince(h, w, v) => StoredSince(Append(h, x), w, v)
           /\ \A w : (\E i \in DOMAIN h : h[i] = w) => StoredSince(Append(h, x), w, x)
           /\ StoredSince(Append(h, x), x, x)
<1> DEFINE g == Append(h, x)
           n == Len(h)
<1>1. /\ n \in Nat /\ DOMAIN h = 1..n /\ DOMAIN g = 1..(n + 1)
      /\ \A i \in 1..n : g[i] = h[i]
      /\ g[n + 1] = x /\ n + 1 \in 1..(n + 1)
  BY AppendProperties, LenProperties
<1> HIDE DEF g, n
<1>2. \A i \in 1..n : i \in 1..(n + 1) /\ i <= n + 1
  BY <1>1
<1>3. \A w, v : StoredSince(h, w, v) => StoredSince(g, w, v)
  BY <1>1, <1>2 DEF StoredSince
<1>4. \A w : (\E i \in DOMAIN h : h[i] = w) => StoredSince(g, w, x)
  BY <1>1, <1>2 DEF StoredSince
<1>5. n + 1 <= n + 1
  BY <1>1
<1>6. StoredSince(g, x, x)
  BY <1>1, <1>5 DEF StoredSince
<1> QED BY <1>3, <1>4, <1>6 DEF g

\* A view that is new enough stays so when something is stored.
LEMMA FreshLater ==
    ASSUME NEW d, NEW l, NEW c, NEW K, NEW h \in Seq(Nat), NEW x \in Nat, Fresh(d, l, c, K, h)
    PROVE  Fresh(d, l, c, K, Append(h, x))
<1>1. \A w, v : StoredSince(h, w, v) => StoredSince(Append(h, x), w, v)
  BY SinceKept
<1> QED BY <1>1 DEF Fresh

\* A message that says nothing new leaves the view as new as it must be.
LEMMA FreshOther ==
    ASSUME NEW M, NEW s \in Seq(M), NEW m \in M, NEW l, NEW c, NEW K, NEW h,
           Fresh(s, l, c, K, h), m.kind \notin {"data", "listen"}, \A w : ~OkPut(m, w)
    PROVE  Fresh(Append(s, m), l, c, K, h)
<1>1. Len(s) \in Nat /\ Len(s) \in 0..Len(s)
  BY LenProperties
<1>2. ASSUME AllHeard(Append(s, m), Len(s) + 1, l), NEW w, NEW v,
             OkSaid(Append(s, m), Len(s) + 1, K, w), IsView(Append(s, m), c, Len(s) + 1, v)
      PROVE  StoredSince(h, w, v)
  <2>1. AllHeard(s, Len(s), l) /\ OkSaid(s, Len(s), K, w) /\ IsView(s, c, Len(s), v)
    BY <1>2, LastHeard
  <2> QED BY <1>1, <2>1 DEF Fresh
<1> QED BY <1>2, FreshAdded

\* So does a value that is stored and sent.
LEMMA FreshData ==
    ASSUME NEW M, NEW s \in Seq(M), NEW m \in M, NEW l, NEW c, NEW K, NEW h \in Seq(Nat),
           Fresh(s, l, c, K, h), m.kind = "data", m.value \in Nat,
           \A w : OkSaid(s, Len(s), K, w) => \E j \in DOMAIN h : h[j] = w
    PROVE  Fresh(Append(s, m), l, c, K, Append(h, m.value))
<1> DEFINE x == m.value
           g == Append(h, x)
<1>1. Fresh(s, l, c, K, g) /\ \A w : (\E i \in DOMAIN h : h[i] = w) => StoredSince(g, w, x)
  BY FreshLater, SinceKept
<1> HIDE DEF g
<1>2. ASSUME NEW w, NEW v,
             OkSaid(Append(s, m), Len(s) + 1, K, w), IsView(Append(s, m), c, Len(s) + 1, v)
      PROVE  StoredSince(g, w, v)
  <2>1. v = x /\ (OkSaid(s, Len(s), K, w) \/ OkPut(m, w))
    BY <1>2, LastHeard
  <2>2. ~OkPut(m, w)
    BY DEF OkPut
  <2> QED BY <1>1, <2>1, <2>2
<1>3. Fresh(Append(s, m), l, c, K, g)
  BY <1>1, <1>2, FreshAdded
<1> QED BY <1>3 DEF g

\* What is held back once a message is heard.
LEMMA HeldThen ==
    ASSUME TypeInv, Hears
    PROVE  \A w \in Held' : w \in Held \/ OkPut(Head(down), w)
<1>a. putsToAck \in Seq(Writes \X {"ok", "refused"})
  BY DEF TypeInv, OutsideOK
<1> SUFFICES ASSUME NEW w \in Writes, NEW i \in DOMAIN putsToAck', putsToAck'[i] = <<w, "ok">>
             PROVE  w \in Held \/ OkPut(Head(down), w)
  BY DEF Held
<1>1. CASE UNCHANGED putsToAck
  BY <1>1 DEF Held
<1>2. CASE putsToAck' = <<>>
  BY <1>2
<1>3. CASE OnPut /\ ~UNCHANGED putsToAck
  <2> DEFINE a == <<Head(down).ref, Head(down).value>>
  <2>1. Head(down).kind = "put" /\ putsToAck' = Append(putsToAck, a)
    BY <1>3 DEF OnPut, Arrives
  <2>2. down \in Seq(DownMessages) /\ down # <<>>
    BY <1>3, Channels DEF OnPut, Arrives
  <2>3. Head(down) \in DownMessages
    BY <2>2, Taken
  <2>4. a \in Writes \X {"ok", "refused"}
    BY <2>1, <2>3, MessageTypes
  <2>5. a[1] = Head(down).ref /\ a[2] = Head(down).value
    OBVIOUS
  <2> HIDE DEF a
  <2>6. (i \in DOMAIN putsToAck /\ putsToAck[i] = putsToAck'[i]) \/ putsToAck'[i] = a
    <3> DEFINE n == Len(putsToAck)
               q == putsToAck'
    <3>1. DOMAIN putsToAck = 1..n /\ n \in Nat
      BY <1>a, LenProperties
    <3>2. /\ DOMAIN q = 1..(n + 1) /\ q[n + 1] = a
          /\ \A k \in 1..n : q[k] = putsToAck[k]
      BY <1>a, <2>1, <2>4, <3>1, AppendProperties
    <3>3. i \in DOMAIN q
      OBVIOUS
    <3> HIDE DEF n, q
    <3>4. i = n + 1 \/ i \in 1..n
      BY <3>1, <3>2, <3>3
    <3>5. q[i] = a \/ (i \in DOMAIN putsToAck /\ putsToAck[i] = q[i])
      BY <3>1, <3>2, <3>4
    <3> QED BY <3>5 DEF q
  <2>7. putsToAck'[i] = a => OkPut(Head(down), w)
    BY <2>1, <2>5 DEF OkPut
  <2> QED BY <2>6, <2>7 DEF Held
<1> QED BY <1>1, <1>2, <1>3 DEF Hears, OnPut, OnListen, AckPuts, OnDataUpdate, OnListenRevoked

\* An ok is of a write that was stored.
LEMMA SaidStored ==
    ASSUME TypeInv, OkInv, NEW w, OkSaid(down, Len(down), Held, w)
    PROVE  w \in Writes /\ \E j \in DOMAIN history : history[j] = w
<1>1. CASE w \in Held
  <2>1. PICK i \in DOMAIN putsToAck : putsToAck[i] = <<w, "ok">> /\ w \in Writes
    BY <1>1 DEF Held
  <2>2. putsToAck[i][1] = w /\ putsToAck[i][2] = "ok"
    BY <2>1
  <2>3. Settled(history, w)
    BY <2>1, <2>2 DEF OkInv
  <2> QED BY <2>1, <2>3 DEF Settled
<1>2. CASE \E j \in 1..Len(down) : OkPut(down[j], w)
  <2>1. PICK j \in 1..Len(down) : OkPut(down[j], w)
    BY <1>2
  <2>2. down[j] \in Range(down) /\ down[j] \in DownMessages
    BY Channels, LenProperties, ElementOfSeq DEF Range
  <2>3. Settled(history, w) /\ w \in Writes
    BY <2>1, <2>2, MessageTypes DEF OkInv, OkPut
  <2> QED BY <2>3 DEF Settled
<1> QED BY <1>1, <1>2 DEF OkSaid

\* The only one of a sequence is its last.
LEMMA OnlyOne ==
    ASSUME NEW M, NEW s \in Seq(M), s # <<>>, Tail(s) = <<>>
    PROVE  Last(s) = Head(s)
<1> DEFINE t == Tail(s)
<1>1. Len(s) \in Nat \ {0} /\ Len(t) = Len(s) - 1 /\ Head(s) = s[1]
  BY Taken
<1>2. t = <<>>
  OBVIOUS
<1> HIDE DEF t
<1>3. Len(s) = 1
  BY <1>1, <1>2
<1> QED BY <1>1, <1>3 DEF Last

\* The latest value is as new as any.
LEMMA LatestIsNew ==
    ASSUME TypeInv, NEW w, \E j \in DOMAIN history : history[j] = w
    PROVE  StoredSince(history, w, Stored)
<1>1. history \in Seq(Nat) /\ history # <<>>
  BY Channels
<1>2. DOMAIN history = 1..Len(history) /\ Len(history) \in Nat \ {0}
  BY <1>1, Taken
<1>3. Len(history) \in DOMAIN history /\ \A j \in DOMAIN history : j <= Len(history)
  BY <1>2
<1> QED BY <1>3 DEF StoredSince, Stored, Last

\* A listen that is answered makes the view the location's value.
LEMMA FreshListen ==
    ASSUME TypeInv, OkInv, HistoryInv, RelistInv, HashInv, ServerAnswersListen,
           conn = "connected", listen # 0, asked' = <<>>, NoListen(up)
    PROVE  Fresh(down', listen, cache, Held, history)
<1>a. /\ down \in Seq(DownMessages) /\ asked \in Seq(Listens) /\ history \in Seq(Nat)
      /\ history # <<>>
  BY Channels
<1>1. asked # <<>> /\ Head(asked) \in Listens /\ asked' = Tail(asked)
  BY ListenAnswered
<1>2. PICK m \in DownMessages, d \in Seq(DownMessages) :
        /\ m.kind = "listen" /\ m.ref = Head(asked).ref /\ down' = Append(d, m)
        /\ \/ m.value = "ok" /\ d = down /\ Head(asked).value = Stored
           \/ m.value = "ok" /\ d = Append(down, Msg("data", 0, Stored))
           \/ m.value = "refused"
  BY ListenAnswered
<1>3. Head(asked).ref = listen
  <2>1. Last(asked) = Head(asked)
    BY <1>a, <1>1, OnlyOne
  <2> QED BY <1>1, <2>1 DEF RelistInv, Connected
<1> SUFFICES ASSUME AllHeard(Append(d, m), Len(d) + 1, listen), NEW w, NEW v,
                    OkSaid(Append(d, m), Len(d) + 1, Held, w), IsView(Append(d, m), cache, Len(d) + 1, v)
             PROVE  StoredSince(history, w, v)
  BY <1>2, FreshAdded
<1>4. ~Ends(m, listen) /\ OkSaid(d, Len(d), Held, w) /\ IsView(d, cache, Len(d), v)
  <2>1. ~OkPut(m, w) /\ m.kind # "data"
    BY <1>2 DEF OkPut
  <2> QED BY <2>1, LastHeard
<1>5. m.value # "refused"
  BY <1>2, <1>3, <1>4 DEF Ends
<1>6. CASE d = down /\ Head(asked).value = Stored
  <2>1. w \in Writes /\ \E j \in DOMAIN history : history[j] = w
    BY <1>4, <1>6, SaidStored
  <2>2. Hashed(Head(asked))
    <3> SUFFICES ASSUME Stored = Nothing PROVE FALSE
      BY <1>1, <1>6, MessageTypes DEF Hashed
    <3>1. DOMAIN history = 1..Len(history) /\ Len(history) \in Nat \ {0}
      BY <1>a, Taken
    <3>2. Len(history) = 1
      BY <3>1 DEF HistoryInv, Stored, Last
    <3>3. w = Nothing
      BY <2>1, <3>1, <3>2 DEF Stored, Last
    <3>4. w \in 1..Cardinality(Writes)
      BY <2>1, WritesAssumption
    <3> QED BY <3>3, <3>4 DEF Nothing
  <2>3. cache = Stored /\ NoLoads(down)
    <3>1. Hashes(asked, listen, cache)
      BY DEF HashInv
    <3>2. cache = Stored
      BY <1>a, <1>1, <1>3, <1>6, <2>2, <3>1, ListenTaken
    <3>3. ~NoHash(asked)
      BY <1>a, <1>1, <2>2, ListenTaken
    <3> QED BY <3>2, <3>3 DEF HashInv
  <2>4. v = Stored
    <3>1. DOMAIN down = 1..Len(down)
      BY <1>a, LenProperties
    <3>2. \A j \in 1..Len(down) : down[j].kind # "data"
      BY <2>3, <3>1 DEF NoLoads, Loads
    <3> QED BY <1>4, <1>6, <2>3, <3>2 DEF IsView
  <2> QED BY <2>1, <2>4, LatestIsNew
<1>7. CASE d = Append(down, Msg("data", 0, Stored))
  <2> DEFINE n == Msg("data", 0, Stored)
  <2>1. Stored \in Nat
    BY <1>a, ElementOfSeq, EmptySeq, LenProperties DEF Stored, Last
  <2>2. n \in DownMessages /\ n.kind = "data" /\ n.value = Stored
    BY <2>1 DEF Msg, DownMessages
  <2>3. d = Append(down, n)
    BY <1>7
  <2> HIDE DEF n
  <2>4. Len(d) = Len(down) + 1
    BY <1>a, <2>2, <2>3, AppendProperties
  <2>5. v = Stored /\ (OkSaid(down, Len(down), Held, w) \/ OkPut(n, w))
    BY <1>a, <1>4, <2>2, <2>3, <2>4, LastHeard
  <2>6. OkSaid(down, Len(down), Held, w)
    BY <2>2, <2>5 DEF OkPut
  <2> QED BY <2>5, <2>6, SaidStored, LatestIsNew
<1> QED BY <1>2, <1>5, <1>6, <1>7

\* A put the server takes.
LEMMA FreshPut ==
    ASSUME TypeInv, OkInv, ServedInv, ServerPuts, conn = "connected",
           Listening(up, asked, listen), Fresh(down, listen, cache, Held, history)
    PROVE  Fresh(down', listen, cache, Held, history')
<1>a. down \in Seq(DownMessages) /\ history \in Seq(Nat) /\ Writes \subseteq Nat
  BY Channels, WritesAreNumbers
<1> DEFINE x == Head(up).ref
           e == Push(x)
<1>1. PICK m \in DownMessages :
        /\ m.kind = "put" /\ m.ref = x
        /\ \/ history' = Append(history, x) /\ m.value = "ok" /\ down' = Append(e, m)
           \/ history' = history /\ m.value = "refused" /\ down' = Append(down, m)
  BY PutTakenUp
<1>2. x \in Nat
  BY <1>a, PutTakenUp
<1>3. /\ e \in Seq(DownMessages)
      /\ ~serving => e = down
      /\ serving => \E n \in DownMessages : n.kind = "data" /\ n.value = x /\ e = Append(down, n)
  BY <1>2, Pushed
<1> HIDE DEF x, e
<1>4. CASE history' = history /\ m.value = "refused" /\ down' = Append(down, m)
  <2>1. \A w : ~OkPut(m, w)
    BY <1>4 DEF OkPut
  <2> QED BY <1>a, <1>1, <1>4, <2>1, FreshOther
<1>5. CASE history' = Append(history, x) /\ m.value = "ok" /\ down' = Append(e, m)
  <2> DEFINE h == Append(history, x)
  <2>1. Fresh(e, listen, cache, Held, h)
    <3>1. CASE ~serving
      BY <1>a, <1>2, <1>3, <3>1, FreshLater
    <3>2. CASE serving
      <4>1. PICK n \in DownMessages : n.kind = "data" /\ n.value = x /\ e = Append(down, n)
        BY <1>3, <3>2
      <4>2. \A w : OkSaid(down, Len(down), Held, w) => \E j \in DOMAIN history : history[j] = w
        BY SaidStored
      <4>3. Fresh(Append(down, n), listen, cache, Held, Append(history, n.value))
        BY <1>a, <1>2, <4>1, <4>2, FreshData
      <4> QED BY <4>1, <4>3
    <3> QED BY <3>1, <3>2
  <2>2. StoredSince(h, x, x)
    BY <1>a, <1>2, SinceKept
  <2> HIDE DEF h
  <2>3. Len(e) \in 0..Len(e)
    BY <1>3, LenProperties
  <2>4. ASSUME AllHeard(Append(e, m), Len(e) + 1, listen), NEW w, NEW v,
               OkSaid(Append(e, m), Len(e) + 1, Held, w), IsView(Append(e, m), cache, Len(e) + 1, v)
        PROVE  StoredSince(h, w, v)
    <3>1. /\ NoEnd(e, listen) /\ AllHeard(e, Len(e), listen) /\ IsView(e, cache, Len(e), v)
          /\ OkSaid(e, Len(e), Held, w) \/ OkPut(m, w)
      BY <1>1, <1>3, <2>4, LastHeard
    <3>2. CASE OkSaid(e, Len(e), Held, w)
      BY <2>1, <2>3, <3>1, <3>2 DEF Fresh
    <3>3. CASE OkPut(m, w)
      <4>1. w = x
        BY <1>1, <3>3 DEF OkPut
      <4>2. serving = TRUE
        <5>1. CASE serving # TRUE
          <6>1. ~serving
            BY <5>1, Channels
          <6>2. NoEnd(down, listen)
            BY <1>3, <3>1, <6>1
          <6> QED BY <6>2 DEF ServedInv
        <5> QED BY <5>1
      <4>3. PICK n \in DownMessages : n.kind = "data" /\ n.value = x /\ e = Append(down, n)
        BY <1>3, <4>2
      <4>4. Len(e) = Len(down) + 1
        BY <1>a, <4>3, AppendProperties
      <4>5. v = x
        BY <1>a, <3>1, <4>3, <4>4, LastHeard
      <4> QED BY <2>2, <4>1, <4>5
    <3> QED BY <3>1, <3>2, <3>3
  <2>5. Fresh(Append(e, m), listen, cache, Held, h)
    BY <1>3, <2>1, <2>4, FreshAdded
  <2> QED BY <1>5, <2>5 DEF h
<1> QED BY <1>1, <1>4, <1>5

\* Every step keeps the view as new as what the program may be told of.
LEMMA FreshNext ==
    /\ TypeInv /\ IInv /\ AuthInv /\ OkInv /\ HistoryInv /\ RelistInv /\ HashInv /\ ServedInv
    /\ FreshInv /\ [Next]_vars
    => FreshInv'
<1> SUFFICES ASSUME TypeInv, IInv, AuthInv, OkInv, HistoryInv, RelistInv, HashInv, ServedInv,
                    FreshInv, [Next]_vars,
                    conn' = "connected", listen' # 0, asked' = <<>>, NoListen(up')
             PROVE  Fresh(down', listen', cache', Held', history')
  BY DEF FreshInv, Listening
<1>a. /\ up \in Seq(UpMessages) /\ down \in Seq(DownMessages) /\ asked \in Seq(Listens)
      /\ listen \in Nat /\ history \in Seq(Nat)
  BY Channels
<1>b. Connected'
  BY DEF Connected
<1>1. ASSUME RestoreState, listen' = listen PROVE FALSE
  <2>1. PICK sent \in Seq(UpMessages) : up' = up \o sent /\ ~NoListen(sent)
    <3>1. listen # 0 => listen > 0
      BY <1>a
    <3> QED BY <1>1, <3>1, ListenRestored
  <2> QED BY <1>a, <2>1, ListensJoined
<1>2. ASSUME OnReady PROVE FALSE
  BY <1>1, <1>2, Ready
<1>3. ASSUME Begins PROVE FALSE
  BY <1>1, <1>3 DEF Begins
<1> SUFFICES ASSUME UNCHANGED conn, Connected,
                    Asks \/ HearsLater \/ Observe \/ RemoveObserver \/ Hears \/ Serves
             PROVE  Fresh(down', listen', cache', Held', history')
  BY <1>b, <1>2, <1>3, Linked
<1>c. /\ listen # 0 /\ asked = <<>> /\ NoListen(up)
           => Listening(up, asked, listen) /\ Fresh(down, listen, cache, Held, history)
      /\ listen # 0 => Relisted(up, listen)
  BY DEF FreshInv, Listening, RelistInv
<1>d. UNCHANGED putsToAck => Held' = Held
  BY DEF Held
<1>4. CASE Asks
  <2>1. NoListen(up)
    BY <1>4, <1>a, ListenAdded DEF Asks
  <2> QED BY <1>4, <1>c, <1>d, <2>1 DEF Asks
<1>5. CASE HearsLater
  <2>1. /\ down # <<>> /\ down' = Tail(down) /\ ~Ends(Head(down), listen)
        /\ Head(down).kind # "data" /\ UNCHANGED <<listen, cache, history>>
        /\ Held' = Held /\ Fresh(down, listen, cache, Held, history)
    BY <1>5, <1>c, <1>d DEF HearsLater, Ends
  <2> HIDE DEF Held
  <2>2. Fresh(Tail(down), listen, cache, Held, history)
    BY <1>a, <2>1, FreshTaken
  <2> QED BY <2>1, <2>2
<1>6. ASSUME Observe PROVE FALSE
  <2> DEFINE m == Msg("listen", listen', Nothing)
  <2>1. up' = Append(up, m) /\ m.kind = "listen"
    BY <1>6 DEF Observe, Msg
  <2>2. m \in UpMessages
    <3>1. budget["listens"] \in Nat /\ listen' = budget["listens"]
      BY <1>6, ListensLeft DEF Observe
    <3> QED BY <3>1 DEF Msg, UpMessages, Listens, Nothing
  <2> HIDE DEF m
  <2> QED BY <1>a, <2>1, <2>2, ListenAdded
<1>7. ASSUME RemoveObserver PROVE FALSE
  BY <1>7 DEF RemoveObserver
<1>8. CASE Hears
  <2>1. /\ down # <<>> /\ down' = Tail(down) /\ UNCHANGED <<up, asked, history>> /\ listen' = listen
        /\ ~Ends(Head(down), listen)
    BY <1>8, HeardHead DEF Ends
  <2>2. IF Head(down).kind = "data" THEN cache' = Head(down).value
                                    ELSE cache' = cache \/ cache = Unknown
    BY <1>8, <2>1, HeardHead
  <2>3. \A w \in Held' : w \in Held \/ OkPut(Head(down), w)
    BY <1>8, HeldThen
  <2>4. Fresh(down, listen, cache, Held, history)
    BY <1>c, <2>1
  <2>5. Fresh(Tail(down), listen, cache', Held', history)
    BY <1>a, <2>1, <2>2, <2>3, <2>4, FreshTaken
  <2> QED BY <2>1, <2>5
<1>9. CASE Serves
  <2>1. CASE ServerAuthenticates
    <3>1. /\ up # <<>> /\ up' = Tail(up) /\ UNCHANGED <<listen, cache, asked, history, putsToAck>>
          /\ Head(up).kind = "auth"
          /\ \/ down' = down
             \/ \E m \in DownMessages : m.kind = "auth" /\ down' = Append(down, m)
      BY <2>1, AuthTaken
    <3>2. NoListen(up)
      BY <1>a, <3>1, ListenTaken
    <3>3. Fresh(down, listen, cache, Held, history)
      BY <1>c, <3>1, <3>2
    <3>4. Fresh(down', listen, cache, Held, history)
      <4>1. CASE \E m \in DownMessages : m.kind = "auth" /\ down' = Append(down, m)
        <5>1. PICK m \in DownMessages : m.kind = "auth" /\ down' = Append(down, m)
          BY <4>1
        <5>2. \A w : ~OkPut(m, w)
          BY <5>1 DEF OkPut
        <5> QED BY <1>a, <3>3, <5>1, <5>2, FreshOther
      <4> QED BY <3>1, <3>3, <4>1
    <3> QED BY <1>d, <3>1, <3>4
  <2>2. ASSUME ServerTakesListen PROVE FALSE
    <3>1. asked' = Append(asked, Head(up)) /\ Head(up) \in Listens
      BY <2>2, ListenTakenUp
    <3> QED BY <1>a, <3>1, AppendProperties
  <2>3. CASE ServerAnswersListen
    <3>1. UNCHANGED <<listen, cache, up, history, putsToAck>>
      BY <2>3, ListenAnswered
    <3>2. Fresh(down', listen, cache, Held, history)
      BY <2>3, <3>1, FreshListen
    <3> QED BY <1>d, <3>1, <3>2
  <2>4. ASSUME ServerUnlistens PROVE FALSE
    <3>1. up # <<>> /\ up' = Tail(up) /\ Head(up).kind = "unlisten" /\ UNCHANGED listen
      BY <2>4, UnlistenTaken
    <3> QED BY <1>a, <1>c, <3>1, ListenTaken
  <2>5. CASE ServerPuts
    <3>1. /\ up # <<>> /\ up' = Tail(up) /\ UNCHANGED <<listen, cache, asked, putsToAck>>
          /\ Head(up).kind = "put"
      BY <2>5, PutTakenUp
    <3>2. NoListen(up)
      BY <1>a, <3>1, ListenTaken
    <3>3. Listening(up, asked, listen) /\ Fresh(down, listen, cache, Held, history)
      BY <1>c, <3>1, <3>2
    <3>4. Fresh(down', listen, cache, Held, history')
      BY <2>5, <3>3, FreshPut
    <3> QED BY <1>d, <3>1, <3>4
  <2>6. CASE OtherDeviceWrites
    <3>1. UNCHANGED <<listen, cache, up, asked, putsToAck>>
      BY <2>6, ForeignStored
    <3>2. PICK value \in Nat \ {0} : history' = Append(history, value) /\ down' = Push(value)
      BY <2>6, ForeignStored
    <3>3. Fresh(down, listen, cache, Held, history)
      BY <1>c, <3>1
    <3>4. Fresh(down', listen, cache, Held, Append(history, value))
      <4>1. CASE ~serving
        <5>1. down' = down
          BY <3>2, <4>1, Pushed
        <5> QED BY <1>a, <3>2, <3>3, <5>1, FreshLater
      <4>2. CASE serving
        <5>1. PICK n \in DownMessages : n.kind = "data" /\ n.value = value /\ down' = Append(down, n)
          BY <3>2, <4>2, Pushed
        <5>2. \A w : OkSaid(down, Len(down), Held, w) => \E j \in DOMAIN history : history[j] = w
          BY SaidStored
        <5>3. Fresh(Append(down, n), listen, cache, Held, Append(history, n.value))
          BY <1>a, <3>3, <5>1, <5>2, FreshData
        <5> QED BY <5>1, <5>3
      <4> QED BY <4>1, <4>2
    <3> QED BY <1>d, <3>1, <3>2, <3>4
  <2>7. CASE ServerRevokes
    <3>1. UNCHANGED <<listen, cache, up, asked, history, putsToAck>>
      BY <2>7, Revoked
    <3>2. PICK m \in DownMessages :
            m.kind \in {"listenRevoked", "authRevoked", "kill"} /\ down' = Append(down, m)
      BY <2>7, Revoked
    <3>3. \A w : ~OkPut(m, w)
      BY <3>2 DEF OkPut
    <3>4. Fresh(down, listen, cache, Held, history)
      BY <1>c, <3>1
    <3>5. Fresh(down', listen, cache, Held, history)
      BY <1>a, <3>2, <3>3, <3>4, FreshOther
    <3> QED BY <1>d, <3>1, <3>5
  <2> QED BY <1>9, <2>1, <2>2, <2>3, <2>4, <2>5, <2>6, <2>7 DEF Serves
<1> QED BY <1>4, <1>5, <1>6, <1>7, <1>8, <1>9

\* A set of writes has a largest.
LEMMA LatestWrite ==
    ASSUME NEW S \in SUBSET Writes, S # {}
    PROVE  Max(S) \in S
<1> DEFINE n == Cardinality(Writes)
           Above == {T \in SUBSET S : T # {} /\ \A x \in T, y \in S \ T : x >= y}
<1>a. n \in Nat /\ Writes = 1..n /\ IsFiniteSet(Writes)
  BY WritesAssumption, FS_CardinalityType
<1> HIDE DEF n
<1>1. S \in Above
  OBVIOUS
<1>2. \A T \in Above : IsFiniteSet(T)
  BY <1>a, FS_Subset
<1>3. PICK T \in Above : \A R \in Above : R \subseteq T => R = T
  <2> DEFINE U == UNION Above
  <2>1. Above \subseteq FiniteSubsetsOf(U)
    BY <1>2 DEF FiniteSubsetsOf
  <2>2. IsWellFoundedOn(StrictSubsetOrdering(U), FiniteSubsetsOf(U))
    BY FS_StrictSubsetOrderingWellFounded
  <2>3. PICK T \in Above : \A R \in Above : <<R, T>> \notin StrictSubsetOrdering(U)
    <3> HIDE DEF Above, U
    <3> QED BY <1>1, <2>1, <2>2, WFMin
  <2>4. \A R \in Above : R \in SUBSET U
    OBVIOUS
  <2> HIDE DEF Above, U
  <2> QED BY <2>3, <2>4 DEF StrictSubsetOrdering
<1>b. T \subseteq S /\ T # {} /\ \A y \in S : y \in Nat
  BY WritesAreNumbers
<1>4. PICK x \in T : x \in S /\ x \in Nat
  BY <1>b
<1>5. \A y \in S : x >= y
  <2> SUFFICES ASSUME NEW y \in S, ~(x >= y) PROVE FALSE
    OBVIOUS
  <2> DEFINE R == {z \in T : z >= y}
  <2>1. y \in Nat /\ y \in T /\ x < y
    BY <1>a, <1>3, <1>4
  <2>2. R \in Above
    <3>1. ASSUME NEW z \in R, NEW u \in S \ R PROVE z >= u
      <4>1. z \in Nat /\ u \in Nat
        BY <1>a
      <4>2. CASE u \in T
        BY <2>1, <3>1, <4>1, <4>2
      <4>3. CASE u \notin T
        BY <1>3, <3>1, <4>3
      <4> QED BY <4>2, <4>3
    <3>2. R \in SUBSET S
      BY <1>b
    <3>3. y >= y
      BY <2>1
    <3>4. y \in R
      BY <2>1, <3>3
    <3> QED BY <3>1, <3>2, <3>4
  <2>3. x \notin R
    BY <1>4, <2>1
  <2> HIDE DEF Above
  <2> QED BY <1>3, <1>4, <2>2, <2>3
<1>6. \E m \in S : \A y \in S : m >= y
  BY <1>4, <1>5
<1> QED BY <1>6 DEF Max

\* No listen is on a channel that counts none.
LEMMA CountsNone ==
    ASSUME NEW M, NEW s \in Seq(M), Count(s, "listen") = 0
    PROVE  NoListen(s)
<1>1. IsFiniteSet(Of(s, "listen")) /\ Cardinality(Of(s, "listen")) = 0
  BY CountIsNat
<1>2. Of(s, "listen") = {}
  BY <1>1, FS_EmptySet
<1> QED BY <1>2 DEF Of, NoListen

\* What holds of the view, besides.
ViewInv ==
    AllInv /\ NumberInv /\ HistoryInv /\ RelistInv /\ OrderInv /\ HashInv /\ ServedInv /\ FreshInv

\* It holds in every state.
LEMMA ViewAlways == Spec => []ViewInv
<1>1. Init => ViewInv
  BY AllInit, NumberInit, RelistInit, OrderInit, HashInit, ServedInit, FreshInit DEF ViewInv
<1>2. ViewInv /\ [Next]_vars => ViewInv'
  BY AllNext, NumberNext, HistoryNext, RelistNext, OrderNext, HashNext, ServedNext, FreshNext
     DEF ViewInv, AllInv
<1> QED BY <1>1, <1>2, PTL DEF Spec

\* Only answers to puts and listens are followed by completion blocks.
LEMMA WhoTells ==
    ASSUME [Next]_vars, NEW w \in Writes, TypeInv, status[w] = "pending", status'[w] = "ok"
    PROVE  (OnPut /\ unacked = 0) \/ (OnListen /\ unacked = 1)
<1>1. ~UNCHANGED status
  OBVIOUS
<1>2. CASE Client
  BY <1>1, <1>2 DEF Client, RunRetry, FetchSucceeds, OnReady, data
<1>3. CASE Receive
  BY <1>1, <1>3 DEF Receive, OnAuth, OnAuthRevoked, OnPut, OnListen, OnDataUpdate, OnListenRevoked,
      OnKill, data
<1>4. CASE Server
  BY <1>1, <1>4 DEF Server, ServerAuthenticates, ServerTakesListen, ServerAnswersListen,
      ServerUnlistens, ServerPuts, data
<1>5. CASE Trouble
  BY <1>1, <1>5 DEF Trouble, FetchFails, OnDisconnect, EnteringForeground, OtherDeviceWrites,
      ServerRevokes, TokenExpires, data
<1>6. CASE Program
  <2>1. ASSUME NEW x \in Writes, SetValue(x) PROVE FALSE
    <3>1. status \in [Writes -> {"new", "pending", "ok", "refused"}]
      BY DEF TypeInv, FieldsOK
    <3>2. status' = [status EXCEPT ![x] = "pending"]
      BY <2>1 DEF SetValue
    <3> QED BY <3>1, <3>2
  <2> QED BY <1>1, <1>6, <2>1 DEF Program, Observe, RemoveObserver, Interrupt, Resume, RefreshAuthToken,
      data
<1>7. CASE UNCHANGED vars
  BY <1>1, <1>7 DEF vars, data
<1> QED BY <1>2, <1>3, <1>4, <1>5, <1>6, <1>7 DEF Next

\* Then the view is as new as the write.
LEMMA ViewThen ==
    ASSUME ViewInv, [Next]_vars, NEW w \in Writes, status[w] = "pending", status'[w] = "ok",
           listen' # 0
    PROVE  StoredSince(history, w, cache) /\ UNCHANGED <<history, cache>>
<1>a. /\ up \in Seq(UpMessages) /\ down \in Seq(DownMessages) /\ asked \in Seq(Listens)
      /\ history \in Seq(Nat) /\ listen \in Nat /\ TypeInv
      /\ status \in [Writes -> {"new", "pending", "ok", "refused"}]
      /\ putsToAck \in Seq(Writes \X {"ok", "refused"})
  BY Channels DEF ViewInv, AllInv, TypeInv, OutsideOK, FieldsOK
<1>b. /\ Count(up, "listen") \in Nat /\ Count(down, "listen") \in Nat /\ Len(asked) \in Nat
      /\ unacked = Count(up, "listen") + Count(down, "listen") + Len(asked)
  BY <1>a, CountIsNat, LenProperties DEF TypeInv, CountInv
<1>c. Len(asked) = 0 => asked = <<>>
  BY <1>a, EmptySeq
<1>1. CASE OnPut /\ unacked = 0
  <2>1. /\ down # <<>> /\ Head(down).kind = "put" /\ conn = "connected" /\ Head(down).ref \in Writes
        /\ Head(down).value \in {"ok", "refused"}
    <3>1. WireInv /\ puts \subseteq Writes
      BY <1>a, Channels DEF ViewInv, AllInv
    <3> QED BY <1>1, <1>a, <3>1, PutAnswered DEF CanSendWrites
  <2>2. UNCHANGED <<listen, cache, history>>
    BY <1>1 DEF OnPut, server
  <2>3. NoListen(up) /\ NoListen(down) /\ asked = <<>>
    BY <1>1, <1>a, <1>b, <1>c, CountsNone
  <2>4. Fresh(down, listen, cache, Held, history)
    BY <2>1, <2>2, <2>3 DEF ViewInv, FreshInv, Listening
  <2>5. Len(down) \in Nat \ {0} /\ Head(down) = down[1]
    BY <1>a, <2>1, Taken
  <2>6. Head(down).ref = w /\ Head(down).value = "ok"
    <3> DEFINE answers == <<<<Head(down).ref, Head(down).value>>>>
    <3>1. Tell(answers)
      BY <1>1 DEF OnPut
    <3>2. /\ answers \in Seq(Writes \X {"ok", "refused"}) /\ DOMAIN answers = {1}
          /\ answers[1][1] = Head(down).ref /\ answers[1][2] = Head(down).value
      BY <2>1, OneAnswer
    <3> HIDE DEF answers
    <3>3. status \in [Writes -> {"new", "pending", "ok", "refused"}]
      BY <1>a
    <3>4. \A x \in Writes :
            \/ /\ \A i \in DOMAIN answers : answers[i][1] # x
               /\ status'[x] = status[x]
            \/ \E i \in DOMAIN answers :
                 answers[i][1] = x /\ status'[x] = answers[i][2] /\ answers[i][2] \in {"ok", "refused"}
      BY <3>1, <3>2, <3>3, Told
    <3> QED BY <3>2, <3>4
  <2>7. AllHeard(down, 1, listen) /\ OkSaid(down, 1, Held, w) /\ IsView(down, cache, 1, cache)
    <3>1. 1 \in 1..1 /\ \A j \in 1..1 : j = 1
      OBVIOUS
    <3> QED BY <2>1, <2>3, <2>5, <2>6, <3>1 DEF AllHeard, OkSaid, IsView, NoListen, OkPut, Ends
  <2>8. 1 \in 0..Len(down)
    BY <2>5
  <2> QED BY <2>2, <2>4, <2>7, <2>8 DEF Fresh
<1>2. CASE OnListen /\ unacked = 1
  <2>1. /\ down # <<>> /\ Head(down).kind = "listen" /\ Tell(putsToAck) /\ UNCHANGED <<conn, history>>
        /\ IF Head(down).ref # listen THEN UNCHANGED <<listen, cache>>
           ELSE IF Head(down).value = "ok"
             THEN cache' = (IF cache = Unknown THEN Nothing ELSE cache) /\ UNCHANGED listen
             ELSE listen' = 0 /\ cache' = Unknown
    BY <1>2 DEF OnListen, Arrives, AckPuts, link, server
  <2>2. /\ Len(down) \in Nat \ {0} /\ Head(down) = down[1] /\ DOMAIN down = 1..Len(down)
        /\ Count(down, "listen") = Count(Tail(down), "listen") + 1 /\ Count(Tail(down), "listen") \in Nat
        /\ Tail(down) \in Seq(DownMessages) /\ Head(down) \in DownMessages
    BY <1>a, <1>b, <2>1, Taken
  <2>3. NoListen(up) /\ NoListen(Tail(down)) /\ asked = <<>>
    <3>1. Count(up, "listen") = 0 /\ Count(Tail(down), "listen") = 0 /\ Len(asked) = 0
      <4> DEFINE u == Count(up, "listen")
                 t == Count(Tail(down), "listen")
                 d == Count(down, "listen")
                 n == Len(asked)
      <4>1. u \in Nat /\ t \in Nat /\ n \in Nat /\ d = t + 1 /\ 1 = u + d + n
        BY <1>2, <1>b, <2>2
      <4> HIDE DEF u, t, d, n
      <4>2. u = 0 /\ t = 0 /\ n = 0
        BY <4>1
      <4> QED BY <4>2 DEF u, t, n
    <3> QED BY <1>a, <1>c, <2>2, <3>1, CountsNone
  <2>4. conn = "connected"
    <3>1. Connected
      BY <2>1 DEF ViewInv, AllInv, IInv, LinkQuiet
    <3>2. conn # "authenticating"
      <4>1. Loads(Head(down))
        BY <2>1 DEF Loads
      <4>2. ~LoadsAfterFirst(down)
        BY <1>a, <2>1, <4>1, ListenTaken
      <4> QED BY <4>2 DEF ViewInv, OrderInv
    <3> QED BY <3>1, <3>2 DEF Connected
  <2>5. listen # 0 /\ ~Ends(Head(down), listen)
    <3>1. Head(down).ref = listen => Head(down).value = "ok"
      BY <2>1
    <3> QED BY <2>1, <3>1 DEF Ends
  <2>6. Fresh(down, listen, cache, Held, history)
    BY <2>3, <2>4, <2>5 DEF ViewInv, FreshInv, Listening
  <2>7. w \in Held
    <3>a. /\ putsToAck \in Seq(Writes \X {"ok", "refused"}) /\ Tell(putsToAck)
          /\ status \in [Writes -> {"new", "pending", "ok", "refused"}]
      BY <1>a, <2>1
    <3>b. \A x \in Writes :
            \/ /\ \A i \in DOMAIN putsToAck : putsToAck[i][1] # x
               /\ status'[x] = status[x]
            \/ \E i \in DOMAIN putsToAck : /\ putsToAck[i][1] = x /\ status'[x] = putsToAck[i][2]
                                           /\ putsToAck[i][2] \in {"ok", "refused"}
      BY <3>a, Told
    <3>1. PICK i \in DOMAIN putsToAck : putsToAck[i][1] = w /\ status'[w] = putsToAck[i][2]
      BY <3>b
    <3>2. putsToAck[i] \in Writes \X {"ok", "refused"}
      BY <1>a, ElementOfSeq, LenProperties
    <3>3. putsToAck[i] = <<w, "ok">>
      BY <3>1, <3>2
    <3> QED BY <3>3 DEF Held
  <2>8. AllHeard(down, 1, listen) /\ OkSaid(down, 1, Held, w) /\ IsView(down, cache, 1, cache)
    <3>1. 1 \in 1..1 /\ \A j \in 1..1 : j = 1
      OBVIOUS
    <3>2. ASSUME NEW j \in DOMAIN down, 1 < j PROVE down[j].kind # "listen"
      <4> DEFINE t == Tail(down)
      <4>1. /\ DOMAIN t = 1..(Len(down) - 1) /\ \A i \in DOMAIN t : t[i] = down[i + 1]
            /\ NoListen(t)
        BY <1>a, <2>1, <2>3, Taken
      <4> HIDE DEF t
      <4>2. j - 1 \in DOMAIN t /\ (j - 1) + 1 = j
        BY <2>2, <3>2, <4>1
      <4>3. t[j - 1] = down[j]
        BY <4>1, <4>2
      <4> QED BY <4>1, <4>2, <4>3 DEF NoListen
    <3> QED BY <2>1, <2>2, <2>5, <2>7, <3>1, <3>2 DEF AllHeard, OkSaid, IsView
  <2>9. 1 \in 0..Len(down)
    BY <2>2
  <2>10. StoredSince(history, w, cache)
    BY <2>6, <2>8, <2>9 DEF Fresh
  <2>11. cache # Unknown
    <3>1. \A k \in DOMAIN history : history[k] \in Nat
      BY <1>a, ElementOfSeq, LenProperties
    <3> QED BY <2>10, <3>1 DEF StoredSince, Unknown
  <2>12. UNCHANGED cache
    BY <2>1, <2>11
  <2> QED BY <2>1, <2>10, <2>12
<1> QED BY <1>1, <1>2, <1>a, WhoTells

(* The value does not jump back when a write is confirmed: the answers of puts are held back while
   a listen is unanswered (putsToAck), so that the view is as new as the write when the program
   is told, whatever was lost and whatever the server and other devices do. *)
THEOREM ConfirmedStaysShownCorrect == Spec => ConfirmedStaysShown
<1>1. ASSUME ViewInv, [Next]_vars, NEW w \in Writes, status[w] = "pending", status'[w] = "ok",
             listen' # 0
      PROVE  Shown' \in Since(w)' \cup AllWrites'
  <2>1. StoredSince(history, w, cache) /\ UNCHANGED <<history, cache>>
    BY <1>1, ViewThen
  <2>2. history \in Seq(Nat)
    BY <1>1, Channels DEF ViewInv, AllInv
  <2>3. DOMAIN history = 1..Len(history) /\ Len(history) \in Nat
    BY <2>2, LenProperties
  <2>4. cache \in {history[i] : i \in {i \in DOMAIN history : \E j \in 1..i : history[j] = w}}
    <3>1. PICK i, j \in DOMAIN history : j <= i /\ history[j] = w /\ history[i] = cache
      BY <2>1 DEF StoredSince
    <3>2. j \in 1..i
      BY <2>3, <3>1
    <3> QED BY <3>1, <3>2
  <2>5. cache' \in Since(w)'
    BY <2>1, <2>4 DEF Since
  <2>6. AllWrites' # {} => Max(AllWrites') \in AllWrites'
    <3>1. AllWrites' \subseteq Writes
      BY DEF AllWrites
    <3> QED BY <3>1, LatestWrite
  <2> QED BY <2>5, <2>6 DEF Shown
<1>2. ViewInv /\ [Next]_vars =>
        [\A w \in Writes : status[w] = "pending" /\ status'[w] = "ok" /\ listen' # 0
            => Shown' \in Since(w)' \cup AllWrites']_vars
  BY <1>1
<1> QED BY <1>2, ViewAlways, PTL DEF Spec, ConfirmedStaysShown

=============================================================================
