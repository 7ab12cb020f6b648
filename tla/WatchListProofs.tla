-------------------------- MODULE WatchListProofs --------------------------
(***************************************************************************)
(* Proofs about WatchList, for every value of its constants.               *)
(*                                                                         *)
(* Three arguments, over the same typing invariant.  One follows fireTimer's *)
(* dispatch group: it is entered for every leave to come, so that whatever *)
(* changes the rows' model also leaves a reload pending, and at rest the   *)
(* table agrees with it.  Another follows the value events: the newest one *)
(* queued carries the stored list, and handling it starts a timer.  The    *)
(* last one counts: with one refresh at a time, every row stands for a key *)
(* of the list whose request was answered.                                 *)
(***************************************************************************)
EXTENDS WatchList, FiniteSetTheorems, SequenceTheorems, TLAPS

USE DEF Observe, Refill, ScheduleTimer, Invalidate, Enters, ClearRows, Reload, DismissHud

-----------------------------------------------------------------------------
\* The invariants.

(* The typing invariant: what TypeOK needs beside itself. *)
TypeInv ==
    /\ TypeOK
    /\ timerValid => timers > 0
    /\ IsFiniteSet(appending)
    /\ \A b \in Batches : batches[b].pending \subseteq DOMAIN batches[b].wanted

(* The newest value event queued carries the stored list. *)
NewestIsStored ==
    \A i \in DOMAIN mainQueue :
        (/\ mainQueue[i].kind = "value"
         /\ \A j \in DOMAIN mainQueue : j > i => mainQueue[j].kind # "value")
            => mainQueue[i].snapshot = db

(* What the symbols and the timer rest on: a client that holds the list has an
   observer, so that every change queues an event. *)
EventInv ==
    /\ primed => observers > 0
    /\ primed => NewestIsStored
    /\ SymbolListFresh
    /\ RefreshRuns

-----------------------------------------------------------------------------
\* Lists and their keys.

(* The keys of stored lists are finitely many. *)
LEMMA KeysFinite == IsFiniteSet(Keys)
<1> DEFINE f == [k \in Keys |-> k[2]]
<1>1. IsFiniteSet(1..MaxSaves)
  BY FS_Interval, BoundsAssumption
<1>2. f \in Injection(Keys, 1..MaxSaves)
  <2>1. f \in [Keys -> 1..MaxSaves]
    BY DEF Keys, AutoId
  <2>2. \A j, k \in Keys : f[j] = f[k] => j = k
    BY DEF Keys, AutoId
  <2> QED BY <2>1, <2>2 DEF Injection, IsInjective
<1> QED BY <1>1, <1>2, FS_Injection

(* A list's keys are a finite set of keys. *)
LEMMA ListDomain ==
  ASSUME NEW list \in Lists
  PROVE  /\ DOMAIN list \in SUBSET Keys
         /\ list \in [DOMAIN list -> Symbols]
         /\ Cardinality(DOMAIN list) \in Nat
<1>1. DOMAIN list \in SUBSET Keys /\ list \in [DOMAIN list -> Symbols]
  BY DEF Lists
<1>2. IsFiniteSet(DOMAIN list)
  BY <1>1, KeysFinite, FS_Subset
<1> QED BY <1>1, <1>2, FS_CardinalityType

(* The empty list is a list. *)
LEMMA NoListIsList == NoList \in Lists /\ DOMAIN NoList = {}
<1>1. NoList \in [{} -> Symbols] /\ DOMAIN NoList = {}
  BY DEF NoList
<1>2. {} \in SUBSET Keys
  OBVIOUS
<1> QED BY <1>1, <1>2 DEF Lists

(* Storing a child gives a list. *)
LEMMA WithIsList ==
  ASSUME NEW list \in Lists, NEW key \in Keys, NEW symbol \in Symbols
  PROVE  With(list, key, symbol) \in Lists
<1> DEFINE K == DOMAIN list \cup {key}
<1>1. K \in SUBSET Keys /\ list \in [DOMAIN list -> Symbols]
  BY ListDomain
<1>2. With(list, key, symbol) \in [K -> Symbols]
  BY <1>1 DEF With
<1> QED BY <1>1, <1>2 DEF Lists

(* A quote's symbol is no key of a stored list: removing it changes nothing. *)
LEMMA WithoutSymbol ==
  ASSUME NEW list \in Lists, NEW s
  PROVE  Without(list, SymbolId(s)) = list
<1>1. DOMAIN list \in SUBSET Keys /\ list \in [DOMAIN list -> Symbols]
  BY ListDomain
<1>2. SymbolId(s) \notin Keys
  BY DEF SymbolId, Keys, AutoId
<1>3. DOMAIN list \ {SymbolId(s)} = DOMAIN list
  BY <1>1, <1>2
<1>4. Without(list, SymbolId(s)) = [k \in DOMAIN list |-> list[k]]
  BY <1>3 DEF Without
<1> QED BY <1>1, <1>4

(* Value events are blocks of the main queue. *)
LEMMA EventsType ==
  ASSUME NEW list \in Lists, NEW raised \in BOOLEAN, observers \in Nat
  PROVE  /\ Events(list, raised) \in Seq(Blocks)
         /\ Len(Events(list, raised)) = IF raised THEN observers ELSE 0
         /\ \A i \in 1..Len(Events(list, raised)) :
                Events(list, raised)[i] = ValueBlock(list)
<1>1. ValueBlock(list) \in Blocks
  BY DEF ValueBlock, Blocks
<1>2. CASE raised
  <2>1. Events(list, raised) = [i \in 1..observers |-> ValueBlock(list)]
    BY <1>2 DEF Events
  <2>2. [i \in 1..observers |-> ValueBlock(list)] \in Seq(Blocks)
    BY <1>1, IsASeq
  <2>3. Len(Events(list, raised)) = observers
    BY <2>1, <2>2, LenProperties
  <2> QED BY <1>2, <2>1, <2>2, <2>3
<1>3. CASE ~raised
  BY <1>3, EmptySeq DEF Events
<1> QED BY <1>2, <1>3

(* Removing one row of a sequence gives a sequence with one row less. *)
LEMMA RemoveAtType ==
  ASSUME NEW S, NEW s \in Seq(S), NEW i \in 1..Len(s)
  PROVE  /\ RemoveAt(s, i) \in Seq(S)
         /\ Len(RemoveAt(s, i)) = Len(s) - 1
<1>1. /\ Len(s) \in Nat
      /\ \A j \in 1..Len(s) : s[j] \in S
  BY LenProperties, ElementOfSeq
<1>2. /\ SubSeq(s, 1, i - 1) \in Seq(S)
      /\ Len(SubSeq(s, 1, i - 1)) = i - 1
  <2>1. \A j \in 1..(i - 1) : s[j] \in S
    BY <1>1
  <2>2. Len(SubSeq(s, 1, i - 1)) = IF 1 <= i - 1 THEN (i - 1) - 1 + 1 ELSE 0
    BY <2>1, SubSeqProperties
  <2> QED BY <1>1, <2>1, <2>2, SubSeqProperties
<1>3. /\ SubSeq(s, i + 1, Len(s)) \in Seq(S)
      /\ Len(SubSeq(s, i + 1, Len(s))) = Len(s) - i
  <2>1. \A j \in (i + 1)..Len(s) : s[j] \in S
    BY <1>1
  <2>2. Len(SubSeq(s, i + 1, Len(s)))
          = IF i + 1 <= Len(s) THEN Len(s) - (i + 1) + 1 ELSE 0
    BY <1>1, <2>1, SubSeqProperties
  <2> QED BY <1>1, <2>1, <2>2, SubSeqProperties
<1>4. /\ SubSeq(s, 1, i - 1) \o SubSeq(s, i + 1, Len(s)) \in Seq(S)
      /\ Len(SubSeq(s, 1, i - 1) \o SubSeq(s, i + 1, Len(s))) = (i - 1) + (Len(s) - i)
  <2>1. \A u, v \in Seq(S) : u \o v \in Seq(S) /\ Len(u \o v) = Len(u) + Len(v)
    BY ConcatProperties
  <2> QED BY <1>2, <1>3, <2>1
<1>5. (i - 1) + (Len(s) - i) = Len(s) - 1
  BY <1>1
<1>6. RemoveAt(s, i) = SubSeq(s, 1, i - 1) \o SubSeq(s, i + 1, Len(s))
  BY DEF RemoveAt
<1> QED BY <1>4, <1>5, <1>6

(* Facts about Range, for a sequence and for its sorted forms. *)
LEMMA SortType ==
  ASSUME NEW S, NEW s \in Seq(S), NEW t \in [DOMAIN s -> Range(s)]
  PROVE  t \in Seq(S) /\ Len(t) = Len(s)
<1>1. /\ Len(s) \in Nat
      /\ DOMAIN s = 1..Len(s)
      /\ \A i \in 1..Len(s) : s[i] \in S
  BY LenProperties, ElementOfSeq
<1>2. Range(s) \subseteq S
  BY <1>1 DEF Range
<1>3. t \in [1..Len(s) -> S]
  BY <1>1, <1>2
<1>4. t \in Seq(S)
  <2>1. \A i \in 1..Len(s) : t[i] \in S
    BY <1>3
  <2>2. t = [i \in 1..Len(s) |-> t[i]]
    BY <1>3
  <2>3. [i \in 1..Len(s) |-> t[i]] \in Seq(S)
    BY <1>1, <2>1, IsASeq
  <2> QED BY <2>2, <2>3
<1>5. Len(t) = Len(s)
  BY <1>1, <1>3, <1>4, LenProperties
<1> QED BY <1>4, <1>5

(* The helper Enqueue keeps the queue well typed. *)
LEMMA EnqueueType ==
  ASSUME TypeOK, NEW block \in Blocks, Enqueue(block)
  PROVE  mainQueue' \in Seq(Blocks)
BY AppendProperties DEF TypeOK, Enqueue

-----------------------------------------------------------------------------
\* The dispatch group.

(* A refresh's requests and appends are finitely many. *)
LEMMA OutstandingFinite ==
  ASSUME TypeInv, NEW b \in Batches
  PROVE  /\ IsFiniteSet(batches[b].pending)
         /\ Cardinality(batches[b].pending) \in Nat
         /\ IsFiniteSet(AppendsOf(b))
         /\ Cardinality(AppendsOf(b)) \in Nat
<1>1. batches[b].pending \in SUBSET Keys
  BY DEF TypeInv, TypeOK
<1>2. IsFiniteSet(batches[b].pending)
  BY <1>1, KeysFinite, FS_Subset
<1>3. AppendsOf(b) \in SUBSET appending
  BY DEF AppendsOf
<1>4. IsFiniteSet(AppendsOf(b))
  BY <1>3, FS_Subset DEF TypeInv
<1> QED BY <1>2, <1>4, FS_CardinalityType

(* An append still owes its group a leave. *)
LEMMA CountPositive ==
  ASSUME TypeInv, GroupBalanced, NEW a \in appending
  PROVE  a.batch \in Batches /\ batches[a.batch].count > 0
<1>1. a.batch \in Batches /\ batches[a.batch].count \in Nat
  BY DEF TypeInv, TypeOK, Appends
<1>2. a \in AppendsOf(a.batch)
  BY DEF AppendsOf
<1>3. Cardinality(AppendsOf(a.batch)) # 0
  BY <1>1, <1>2, OutstandingFinite, FS_EmptySet
<1> QED BY <1>1, <1>3, OutstandingFinite DEF GroupBalanced

(* So does a request. *)
LEMMA PendingPositive ==
  ASSUME TypeInv, GroupBalanced, NEW b \in Batches, batches[b].pending # {}
  PROVE  batches[b].count > 0
<1>1. batches[b].count \in Nat
  BY DEF TypeInv, TypeOK
<1>2. Cardinality(batches[b].pending) # 0
  BY OutstandingFinite, FS_EmptySet
<1> QED BY <1>1, <1>2, OutstandingFinite DEF GroupBalanced

(* Only a refresh's own steps touch its requests, its group and its appends. *)
LEMMA GroupSteps ==
  ASSUME [Next]_vars
  PROVE  \/ UNCHANGED <<batches, appending>>
         \/ \E b \in Batches : FireTimer(b)
         \/ \E b \in Batches : \E k \in batches[b].pending : BeginAppend(b, k)
         \/ EndAppend
         \/ \E b \in Batches : \E k \in batches[b].pending : FetchFails(b, k)
<1> DEFINE Same == UNCHANGED <<batches, appending>>
<1>1. ASSUME Appear PROVE Same
  BY <1>1 DEF Appear
<1>2. ASSUME Disappear \/ DismissAlert \/ SignOut PROVE Same
  BY <1>2 DEF Disappear, DismissAlert, SignOut
<1>3. ASSUME ServerData PROVE Same
  BY <1>3 DEF ServerData
<1>4. ASSUME NEW symbol \in Symbols, Save(symbol) PROVE Same
  BY <1>4 DEF Save
<1>5. ASSUME HandleValue PROVE Same
  BY <1>5 DEF HandleValue
<1>6. ASSUME HandleNotify PROVE Same
  BY <1>6 DEF HandleNotify
<1>7. ASSUME HandleAlert PROVE Same
  BY <1>7 DEF HandleAlert
<1>8. ASSUME RaceTrap \/ ScrollTraps \/ DeletePastEnd PROVE Same
  BY <1>8 DEF RaceTrap, ScrollTraps, DeletePastEnd
<1>9. ASSUME NEW i \in DOMAIN watchList, DeleteRow(i) PROVE Same
  BY <1>9 DEF DeleteRow
<1>10. ASSUME RemovalAnswered PROVE Same
  BY <1>10 DEF RemovalAnswered
<1>11. ASSUME UNCHANGED vars PROVE Same
  BY <1>11 DEF vars
<1> HIDE DEF Same
<1>12. \/ Same
       \/ \E b \in Batches : FireTimer(b)
       \/ \E b \in Batches : \E k \in batches[b].pending : BeginAppend(b, k)
       \/ EndAppend
       \/ \E b \in Batches : \E k \in batches[b].pending : FetchFails(b, k)
  BY <1>1, <1>2, <1>3, <1>4, <1>5, <1>6, <1>7, <1>8, <1>9, <1>10, <1>11
     DEF Next, Answer
<1> QED BY <1>12 DEF Same

(* fireTimer enters once per request; an answer turns a request into an append,
   an append's end gives up both itself and one count, a failure only the
   request. *)
LEMMA BalancedStep == TypeInv /\ GroupBalanced /\ [Next]_vars => GroupBalanced'
<1> SUFFICES ASSUME TypeInv, GroupBalanced, [Next]_vars, NEW c \in Batches
             PROVE  Cardinality(batches'[c].pending) + Cardinality(AppendsOf(c)')
                      <= batches'[c].count
  BY DEF GroupBalanced
<1> DEFINE Goal == Cardinality(batches'[c].pending) + Cardinality(AppendsOf(c)')
                      <= batches'[c].count
<1>1. /\ Cardinality(batches[c].pending) + Cardinality(AppendsOf(c)) <= batches[c].count
      /\ batches[c].count \in Nat
  BY DEF GroupBalanced, TypeInv, TypeOK
<1>2. /\ IsFiniteSet(batches[c].pending)
      /\ Cardinality(batches[c].pending) \in Nat
      /\ IsFiniteSet(AppendsOf(c))
      /\ Cardinality(AppendsOf(c)) \in Nat
  BY OutstandingFinite
<1>3. ASSUME UNCHANGED <<batches, appending>> PROVE Goal
  <2>1. AppendsOf(c)' = AppendsOf(c)
    BY <1>3 DEF AppendsOf
  <2> QED BY <1>1, <1>3, <2>1
<1>4. ASSUME NEW b \in Batches, FireTimer(b) PROVE Goal
  <2>1. batches' = [batches EXCEPT ![b] = [wanted |-> symbolList,
                      pending |-> DOMAIN symbolList,
                      count |-> Enters(symbolList)]]
    BY <1>4 DEF FireTimer, Leave
  <2>2. AppendsOf(c)' = AppendsOf(c)
    BY <1>4 DEF FireTimer, AppendsOf
  <2>3. CASE c = b
    <3>1. AppendsOf(c)' = {}
      BY <1>4, <2>2, <2>3 DEF FireTimer
    <3>2. Cardinality(AppendsOf(c)') = 0
      BY <3>1, FS_EmptySet
    <3>3. /\ batches'[c].pending = DOMAIN symbolList
          /\ batches'[c].count = Cardinality(DOMAIN symbolList)
      BY <2>1, <2>3 DEF TypeInv, TypeOK
    <3>4. Cardinality(DOMAIN symbolList) \in Nat
      BY ListDomain DEF TypeInv, TypeOK
    <3> QED BY <3>2, <3>3, <3>4
  <2>4. CASE c # b
    BY <1>1, <2>1, <2>2, <2>4 DEF TypeInv, TypeOK
  <2> QED BY <2>3, <2>4
<1>5. ASSUME NEW b \in Batches, NEW k \in batches[b].pending, BeginAppend(b, k)
      PROVE  Goal
  <2>1. batches' = [batches EXCEPT ![b].pending = @ \ {k}]
    BY <1>5 DEF BeginAppend
  <2>2. CASE c = b
    <3>1. /\ batches'[c].pending = batches[c].pending \ {k}
          /\ batches'[c].count = batches[c].count
      BY <2>1, <2>2 DEF TypeInv, TypeOK
    <3>2. Cardinality(batches'[c].pending) = Cardinality(batches[c].pending) - 1
      <4>1. k \in batches[c].pending /\ IsFiniteSet(batches[c].pending)
        BY <1>2, <1>5, <2>2
      <4>2. Cardinality(batches[c].pending \ {k}) = Cardinality(batches[c].pending) - 1
        BY <4>1, FS_RemoveElement
      <4> QED BY <3>1, <4>2
    <3>3. AppendsOf(c) = {}
      BY <1>5 DEF BeginAppend, AppendsOf
    <3>4. AppendsOf(c)' = appending'
      BY <1>5, <2>2 DEF BeginAppend, AppendsOf
    <3>5. Cardinality(AppendsOf(c)') = 1 /\ Cardinality(AppendsOf(c)) = 0
      BY <1>5, <3>3, <3>4, FS_Singleton, FS_EmptySet DEF BeginAppend
    <3> QED BY <1>1, <1>2, <3>1, <3>2, <3>5
  <2>3. CASE c # b
    <3>1. AppendsOf(c) = {} /\ AppendsOf(c)' = {}
      BY <1>5, <2>3 DEF BeginAppend, AppendsOf
    <3> QED BY <1>1, <2>1, <2>3, <3>1 DEF TypeInv, TypeOK
  <2> QED BY <2>2, <2>3
<1>6. ASSUME EndAppend PROVE Goal
  <2> PICK a \in appending :
        Leave(a.batch, [batches[a.batch] EXCEPT !.count = @ - 1])
    BY <1>6 DEF EndAppend
  <2>1. a.batch \in Batches
    BY CountPositive
  <2>2. batches' = [batches EXCEPT ![a.batch] = [batches[a.batch] EXCEPT !.count = @ - 1]]
    BY DEF Leave
  <2>3. AppendsOf(c)' = {}
    BY <1>6 DEF EndAppend, AppendsOf
  <2>4. Cardinality(AppendsOf(c)') = 0
    BY <2>3, FS_EmptySet
  <2>5. CASE c = a.batch
    <3>1. /\ batches'[c].pending = batches[c].pending
          /\ batches'[c].count = batches[c].count - 1
      BY <2>1, <2>2, <2>5 DEF TypeInv, TypeOK
    <3>2. a \in AppendsOf(c)
      BY <2>5 DEF AppendsOf
    <3>3. Cardinality(AppendsOf(c)) # 0
      BY <1>2, <3>2, FS_EmptySet
    <3> QED BY <1>1, <1>2, <2>4, <3>1, <3>3
  <2>6. CASE c # a.batch
    <3>1. batches'[c] = batches[c]
      BY <2>1, <2>2, <2>6 DEF TypeInv, TypeOK
    <3> QED BY <1>1, <1>2, <2>4, <3>1
  <2> QED BY <2>5, <2>6
<1>7. ASSUME NEW b \in Batches, NEW k \in batches[b].pending, FetchFails(b, k)
      PROVE  Goal
  <2>1. batches' = [batches EXCEPT ![b].pending = @ \ {k}]
    BY <1>7 DEF FetchFails
  <2>2. AppendsOf(c)' = AppendsOf(c)
    BY <1>7 DEF FetchFails, AppendsOf
  <2>3. CASE c = b
    <3>1. /\ batches'[c].pending = batches[c].pending \ {k}
          /\ batches'[c].count = batches[c].count
      BY <2>1, <2>3 DEF TypeInv, TypeOK
    <3>2. Cardinality(batches'[c].pending) = Cardinality(batches[c].pending) - 1
      <4>1. k \in batches[c].pending /\ IsFiniteSet(batches[c].pending)
        BY <1>2, <1>7, <2>3
      <4>2. Cardinality(batches[c].pending \ {k}) = Cardinality(batches[c].pending) - 1
        BY <4>1, FS_RemoveElement
      <4> QED BY <3>1, <4>2
    <3> QED BY <1>1, <1>2, <2>2, <3>1, <3>2
  <2>4. CASE c # b
    BY <1>1, <2>1, <2>2, <2>4 DEF TypeInv, TypeOK
  <2> QED BY <2>3, <2>4
<1>8. \/ UNCHANGED <<batches, appending>>
      \/ \E b \in Batches : FireTimer(b)
      \/ \E b \in Batches : \E k \in batches[b].pending : BeginAppend(b, k)
      \/ EndAppend
      \/ \E b \in Batches : \E k \in batches[b].pending : FetchFails(b, k)
  BY GroupSteps
<1> QED BY <1>3, <1>4, <1>5, <1>6, <1>7, <1>8

-----------------------------------------------------------------------------
\* Typing.

BatchType == [wanted : Lists, pending : SUBSET Keys, count : Nat]

(* Leaving a group keeps the refreshes and the queue well typed. *)
LEMMA LeaveType ==
  ASSUME TypeOK, NEW b \in Batches, NEW batch \in BatchType, Leave(b, batch)
  PROVE  /\ batches' \in [Batches -> BatchType]
         /\ mainQueue' \in Seq(Blocks)
<1>1. batches' \in [Batches -> BatchType]
  BY DEF TypeOK, Leave, BatchType
<1>2. NotifyBlock(b) \in Blocks
  BY DEF NotifyBlock, Blocks
<1>3. CASE batch.count = 0
  BY <1>1, <1>2, <1>3, EnqueueType DEF Leave
<1>4. CASE batch.count # 0
  BY <1>1, <1>4 DEF Leave, TypeOK
<1> QED BY <1>3, <1>4

(* The initial states are well typed. *)
LEMMA TypeInit == Init => TypeInv
<1> SUFFICES ASSUME Init PROVE TypeInv
  OBVIOUS
<1>1. db \in Lists
  <2>1. {AutoId(n) : n \in 1..saves} \in SUBSET Keys
    BY BoundsAssumption DEF Init, Keys
  <2> QED BY <2>1 DEF Init, Lists
<1>2. batches \in [Batches -> BatchType]
  BY NoListIsList DEF Init, Idle, BatchType
<1>3. /\ <<>> \in Seq(Blocks)
      /\ <<>> \in Seq(UserStocks)
  BY EmptySeq
<1>4. IsFiniteSet({})
  BY FS_EmptySet
<1>5. \A b \in Batches : batches[b].pending \subseteq DOMAIN batches[b].wanted
  BY DEF Init, Idle
<1> QED BY <1>1, <1>2, <1>3, <1>4, <1>5, NoListIsList DEF Init, TypeInv, TypeOK, BatchType

(* One step of the screen, the list, a refresh or the user keeps the types. *)
LEMMA TypeStep == TypeInv /\ GroupBalanced /\ [Next]_vars => TypeInv'
<1> SUFFICES ASSUME TypeInv, GroupBalanced, [Next]_vars PROVE TypeInv'
  OBVIOUS
<1> USE DEF TypeInv, BatchType
<1>0. TypeOK
  OBVIOUS
<1>1. CASE Appear
  <2>1. mainQueue' \in Seq(Blocks)
    <3>1. ValueBlock(db) \in Blocks
      BY DEF TypeOK, ValueBlock, Blocks
    <3> QED BY <1>0, <1>1, <3>1, EnqueueType DEF Appear, TypeOK
  <2> QED BY <1>1, <2>1 DEF Appear, TypeOK
<1>2. CASE Disappear
  <2>1. timers' \in Nat
    BY <1>2 DEF Disappear, TypeOK
  <2>2. timerValid' = FALSE /\ visible' = FALSE
    BY <1>2 DEF Disappear
  <2> QED BY <1>2, <2>1, <2>2 DEF Disappear, TypeOK
<1>3. CASE DismissAlert
  BY <1>3 DEF DismissAlert, TypeOK
<1>4. CASE SignOut
  BY <1>4 DEF SignOut, TypeOK
<1>5. CASE ServerData
  <2>1. mainQueue' \in Seq(Blocks)
    BY <1>5, EventsType, ConcatProperties DEF ServerData, TypeOK
  <2> QED BY <1>5, <2>1 DEF ServerData, TypeOK
<1>6. ASSUME NEW symbol \in Symbols, Save(symbol) PROVE TypeInv'
  <2>1. db' \in Lists
    <3>1. AutoId(saves + 1) \in Keys
      <4>1. saves + 1 \in 1..MaxSaves
        BY <1>6, BoundsAssumption DEF Save, TypeOK
      <4> QED BY <4>1 DEF Keys
    <3> QED BY <1>6, <3>1, WithIsList DEF Save, TypeOK
  <2>2. mainQueue' \in Seq(Blocks)
    <3>1. Events(db', primed) \in Seq(Blocks)
      BY <2>1, EventsType DEF TypeOK
    <3> QED BY <1>6, <3>1, ConcatProperties DEF Save, TypeOK
  <2>3. saves' \in 0..MaxSaves
    BY <1>6, BoundsAssumption DEF Save, TypeOK
  <2> QED BY <1>6, <2>1, <2>2, <2>3 DEF Save, TypeOK
<1>7. CASE HandleValue
  <2>1. /\ Head(mainQueue) \in Blocks
        /\ mainQueue' \in Seq(Blocks)
    BY <1>7, HeadTailProperties DEF HandleValue, TypeOK
  <2>2. Head(mainQueue).snapshot \in Lists
    BY <1>7, <2>1 DEF HandleValue, Blocks
  <2>3. /\ symbolList' \in Lists
        /\ hud' \in BOOLEAN
    BY <1>7, <2>2 DEF HandleValue, TypeOK
  <2>4. timers' \in Nat
    BY <1>7 DEF HandleValue, TypeOK
  <2>5. timerValid' \in BOOLEAN /\ (timerValid' => timers' > 0)
    <3>1. CASE DOMAIN Head(mainQueue).snapshot # {}
      <4>1. timers' = timers + 1 /\ timerValid' = TRUE
        BY <1>7, <3>1 DEF HandleValue
      <4> QED BY <4>1 DEF TypeOK
    <3>2. CASE DOMAIN Head(mainQueue).snapshot = {}
      <4>1. timers' = timers /\ timerValid' = timerValid
        BY <1>7, <3>2 DEF HandleValue
      <4> QED BY <4>1 DEF TypeOK
    <3> QED BY <3>1, <3>2
  <2> QED BY <1>7, <2>1, <2>3, <2>4, <2>5 DEF HandleValue, TypeOK
<1>8. ASSUME NEW b \in Batches, FireTimer(b) PROVE TypeInv'
  <2>1. [wanted |-> symbolList, pending |-> DOMAIN symbolList,
         count |-> Enters(symbolList)] \in BatchType
    BY ListDomain DEF TypeOK
  <2>2. /\ batches' \in [Batches -> BatchType]
        /\ mainQueue' \in Seq(Blocks)
    BY <1>0, <1>8, <2>1, LeaveType DEF FireTimer
  <2>3. watchList' \in Seq(UserStocks)
    BY <1>8, EmptySeq DEF FireTimer
  <2>4. \A c \in Batches : batches'[c].pending \subseteq DOMAIN batches'[c].wanted
    BY <1>8 DEF FireTimer, Leave, TypeOK
  <2> QED BY <1>8, <2>2, <2>3, <2>4 DEF FireTimer, TypeOK
<1>9. ASSUME NEW b \in Batches, NEW k \in batches[b].pending, BeginAppend(b, k)
      PROVE  TypeInv'
  <2>1. batches' \in [Batches -> BatchType]
    BY <1>9 DEF BeginAppend, TypeOK
  <2>2. UserStockFor(k, batches[b].wanted[k]) \in UserStocks
    <3>1. batches[b].wanted \in Lists /\ k \in DOMAIN batches[b].wanted
      BY <1>9 DEF TypeOK
    <3>2. batches[b].wanted[k] \in Symbols
      BY <3>1, ListDomain
    <3> QED BY <3>2 DEF UserStockFor, UserStocks
  <2>3. appending' \subseteq Appends /\ IsFiniteSet(appending')
    <3>1. [batch |-> b, row |-> UserStockFor(k, batches[b].wanted[k]),
           base |-> watchList] \in Appends
      BY <2>2 DEF TypeOK, Appends
    <3> QED BY <1>9, <3>1, FS_Singleton DEF BeginAppend
  <2>4. \A c \in Batches : batches'[c].pending \subseteq DOMAIN batches'[c].wanted
    BY <1>9 DEF BeginAppend, TypeOK
  <2> QED BY <1>9, <2>1, <2>3, <2>4 DEF BeginAppend, TypeOK
<1>10. CASE EndAppend
  <2> PICK a \in appending :
        /\ watchList' = Append(a.base, a.row)
        /\ Leave(a.batch, [batches[a.batch] EXCEPT !.count = @ - 1])
    BY <1>10 DEF EndAppend
  <2>1. a \in Appends
    BY DEF TypeOK
  <2>2. watchList' \in Seq(UserStocks)
    BY <2>1, AppendProperties DEF Appends
  <2>3. batches[a.batch].count > 0
    BY CountPositive
  <2>4. [batches[a.batch] EXCEPT !.count = @ - 1] \in BatchType
    <3>1. batches[a.batch] \in BatchType
      BY <2>1 DEF Appends, TypeOK
    <3>2. batches[a.batch].count - 1 \in Nat
      BY <2>3, <3>1
    <3> QED BY <3>1, <3>2
  <2>5. /\ batches' \in [Batches -> BatchType]
        /\ mainQueue' \in Seq(Blocks)
    BY <1>0, <2>1, <2>4, LeaveType DEF Appends
  <2>6. \A c \in Batches : batches'[c].pending \subseteq DOMAIN batches'[c].wanted
    BY DEF Leave, TypeOK
  <2> QED BY <1>10, <2>2, <2>5, <2>6, FS_EmptySet DEF EndAppend, TypeOK
<1>11. CASE RaceTrap
  BY <1>11 DEF RaceTrap, TypeOK, Trap
<1>12. ASSUME NEW b \in Batches, NEW k \in batches[b].pending, FetchFails(b, k)
       PROVE  TypeInv'
  <2>1. batches' \in [Batches -> BatchType]
    BY <1>12 DEF FetchFails, TypeOK
  <2>2. mainQueue' \in Seq(Blocks)
    BY <1>0, <1>12, EnqueueType DEF FetchFails, AlertBlock, Blocks
  <2>3. \A c \in Batches : batches'[c].pending \subseteq DOMAIN batches'[c].wanted
    BY <1>12 DEF FetchFails, TypeOK
  <2> QED BY <1>12, <2>1, <2>2, <2>3 DEF FetchFails, TypeOK
<1>13. CASE HandleNotify
  <2>1. mainQueue' \in Seq(Blocks)
    BY <1>13, HeadTailProperties DEF HandleNotify, TypeOK
  <2>2. watchList' \in Seq(UserStocks)
    BY <1>13, SortType DEF HandleNotify, TypeOK
  <2>3. rows' \in Nat
    BY <1>13, LenProperties DEF HandleNotify, TypeOK
  <2> QED BY <1>13, <2>1, <2>2, <2>3 DEF HandleNotify, TypeOK
<1>14. CASE HandleAlert
  <2>1. mainQueue' \in Seq(Blocks)
    BY <1>14, HeadTailProperties DEF HandleAlert, TypeOK
  <2> QED BY <1>14, <2>1 DEF HandleAlert, TypeOK
<1>15. CASE ScrollTraps
  BY <1>15 DEF ScrollTraps, TypeOK, Trap
<1>16. CASE DeletePastEnd
  BY <1>16 DEF DeletePastEnd, TypeOK, Trap
<1>17. ASSUME NEW i \in DOMAIN watchList, DeleteRow(i) PROVE TypeInv'
  <2>1. i \in 1..Len(watchList) /\ Len(watchList) \in Nat
    BY LenProperties DEF TypeOK
  <2>2. watchList' \in Seq(UserStocks)
    BY <1>17, <2>1, RemoveAtType DEF DeleteRow, TypeOK
  <2>3. db' = db
    <3>1. watchList[i] \in UserStocks
      BY <2>1, ElementOfSeq DEF TypeOK
    <3>2. PICK s \in Symbols : watchList[i].id = SymbolId(s)
      BY <3>1 DEF UserStocks
    <3> QED BY <1>17, <3>2, WithoutSymbol DEF DeleteRow, TypeOK
  <2>4. mainQueue' \in Seq(Blocks)
    BY <1>17, <2>3, EventsType, ConcatProperties DEF DeleteRow, TypeOK
  <2>5. rows' \in Nat /\ app' \in {"running", "trapped"}
    BY <1>17, <2>1 DEF DeleteRow, TypeOK, Trap
  <2> QED BY <1>17, <2>2, <2>3, <2>4, <2>5 DEF DeleteRow, TypeOK
<1>18. CASE RemovalAnswered
  <2>1. mainQueue' \in Seq(Blocks)
    BY <1>0, <1>18, EnqueueType DEF RemovalAnswered, AlertBlock, Blocks, TypeOK
  <2> QED BY <1>18, <2>1 DEF RemovalAnswered, TypeOK
<1>19. CASE UNCHANGED vars
  BY <1>19 DEF vars, TypeOK
<1> QED
  BY <1>1, <1>2, <1>3, <1>4, <1>5, <1>6, <1>7, <1>8, <1>9, <1>10, <1>11, <1>12,
     <1>13, <1>14, <1>15, <1>16, <1>17, <1>18, <1>19 DEF Next, Answer

(* Every group starts with nothing to leave. *)
LEMMA BalancedInit == Init => GroupBalanced
<1> SUFFICES ASSUME Init, NEW b \in Batches
             PROVE  Cardinality(batches[b].pending) + Cardinality(AppendsOf(b))
                      <= batches[b].count
  BY DEF GroupBalanced
<1>1. batches[b].pending = {} /\ batches[b].count = 0 /\ AppendsOf(b) = {}
  BY DEF Init, Idle, AppendsOf
<1> QED BY <1>1, FS_EmptySet

(* Every state is well typed and every group balanced. *)
LEMMA Balanced == Spec => [](TypeInv /\ GroupBalanced)
<1>1. Init => TypeInv /\ GroupBalanced
  BY TypeInit, BalancedInit
<1>2. TypeInv /\ GroupBalanced /\ [Next]_vars => TypeInv' /\ GroupBalanced'
  BY TypeStep, BalancedStep
<1> QED BY <1>1, <1>2, PTL DEF Spec

(* Every state is well typed: no interleaving of the session queue, the main
   queue and the user takes a variable out of its type. *)
THEOREM TypeCorrect == Spec => []TypeOK
<1>1. TypeInv => TypeOK
  BY DEF TypeInv
<1> QED BY <1>1, Balanced, PTL

(* fireTimer's group is never left more often than it was entered, however many
   refreshes overlap and whichever requests fail. *)
THEOREM GroupBalancedCorrect == Spec => []GroupBalanced
BY Balanced, PTL

-----------------------------------------------------------------------------
\* The main queue.

(* Submitting a block queues that kind and loses none. *)
LEMMA QueuedAppend ==
  ASSUME mainQueue \in Seq(Blocks), NEW kind, NEW block \in Blocks,
         mainQueue' = Append(mainQueue, block)
  PROVE  Queued(kind)' <=> (Queued(kind) \/ block.kind = kind)
<1>1. /\ Len(mainQueue) \in Nat
      /\ DOMAIN mainQueue = 1..Len(mainQueue)
  BY LenProperties
<1>2. /\ Len(mainQueue') = Len(mainQueue) + 1
      /\ DOMAIN mainQueue' = 1..(Len(mainQueue) + 1)
      /\ \A i \in 1..Len(mainQueue) : mainQueue'[i] = mainQueue[i]
      /\ mainQueue'[Len(mainQueue) + 1] = block
  <2>1. mainQueue' \in Seq(Blocks)
    BY AppendProperties
  <2> QED BY <2>1, AppendProperties, LenProperties
<1>3. ASSUME Queued(kind) PROVE Queued(kind)'
  BY <1>1, <1>2, <1>3 DEF Queued
<1>4. ASSUME block.kind = kind PROVE Queued(kind)'
  BY <1>1, <1>2, <1>4 DEF Queued
<1>5. ASSUME Queued(kind)' PROVE Queued(kind) \/ block.kind = kind
  BY <1>1, <1>2, <1>5 DEF Queued
<1> QED BY <1>3, <1>4, <1>5

(* Raising events loses no block. *)
LEMMA QueuedConcat ==
  ASSUME mainQueue \in Seq(Blocks), NEW kind, NEW events \in Seq(Blocks),
         mainQueue' = mainQueue \o events
  PROVE  Queued(kind) => Queued(kind)'
<1>1. /\ Len(mainQueue) \in Nat /\ Len(events) \in Nat
      /\ DOMAIN mainQueue = 1..Len(mainQueue)
  BY LenProperties
<1>2. mainQueue' \in Seq(Blocks)
  BY ConcatProperties
<1>3. DOMAIN mainQueue' = 1..(Len(mainQueue) + Len(events))
  BY <1>2, ConcatProperties, LenProperties
<1>4. \A i \in 1..Len(mainQueue) : i \in DOMAIN mainQueue' /\ mainQueue'[i] = mainQueue[i]
  BY <1>1, <1>3, ConcatProperties
<1> QED BY <1>1, <1>4 DEF Queued

(* Running a block of another kind takes none of this kind. *)
LEMMA QueuedTail ==
  ASSUME mainQueue \in Seq(Blocks), mainQueue # <<>>, NEW kind,
         Head(mainQueue).kind # kind, mainQueue' = Tail(mainQueue)
  PROVE  Queued(kind)' <=> Queued(kind)
<1>1. /\ Len(mainQueue) \in Nat \ {0}
      /\ DOMAIN mainQueue = 1..Len(mainQueue)
      /\ Head(mainQueue) = mainQueue[1]
  BY LenProperties, EmptySeq
<1>2. /\ DOMAIN mainQueue' = 1..(Len(mainQueue) - 1)
      /\ \A i \in 1..(Len(mainQueue) - 1) : mainQueue'[i] = mainQueue[i + 1]
  <2>1. mainQueue' \in Seq(Blocks) /\ Len(mainQueue') = Len(mainQueue) - 1
    BY HeadTailProperties
  <2> QED BY <2>1, HeadTailProperties, LenProperties
<1>3. ASSUME Queued(kind)' PROVE Queued(kind)
  BY <1>1, <1>2, <1>3 DEF Queued
<1>4. ASSUME Queued(kind) PROVE Queued(kind)'
  <2> PICK i \in DOMAIN mainQueue : mainQueue[i].kind = kind
    BY <1>4 DEF Queued
  <2>1. i # 1
    BY <1>1
  <2>2. i - 1 \in DOMAIN mainQueue' /\ mainQueue'[i - 1] = mainQueue[i]
    BY <1>1, <1>2, <2>1
  <2> QED BY <2>2 DEF Queued
<1> QED BY <1>3, <1>4

-----------------------------------------------------------------------------
\* Rest.

(* A step that leaves the refreshes, the rows and the queued reloads alone keeps
   the agreement of the rows. *)
LEMMA RowsKept ==
  ASSUME QuietRowsMatch, UNCHANGED <<watchList, rows, batches, appending, app>>,
         Queued("notify") => Queued("notify")'
  PROVE  QuietRowsMatch'
<1>1. Quiet' => Quiet
  BY DEF Quiet
<1> QED BY <1>1 DEF QuietRowsMatch, Running

(* After a leave the group is still held, or its notify block is queued. *)
LEMMA LeaveNotQuiet ==
  ASSUME TypeInv, NEW b \in Batches, NEW batch, Leave(b, batch)
  PROVE  QuietRowsMatch'
<1>1. batches'[b] = batch
  BY DEF Leave, TypeInv, TypeOK
<1>2. CASE batch.count = 0
  <2>1. NotifyBlock(b) \in Blocks /\ NotifyBlock(b).kind = "notify"
    BY DEF NotifyBlock, Blocks
  <2>2. mainQueue \in Seq(Blocks) /\ mainQueue' = Append(mainQueue, NotifyBlock(b))
    BY <1>2 DEF Leave, Enqueue, TypeInv, TypeOK
  <2>3. Queued("notify")'
    BY <2>1, <2>2, QueuedAppend
  <2> QED BY <2>3 DEF QuietRowsMatch, Quiet
<1>3. CASE batch.count # 0
  BY <1>1, <1>3 DEF QuietRowsMatch, Quiet
<1> QED BY <1>2, <1>3

(* Every step that changes the rows' model leaves a refresh under way, queues
   its reload, reloads, or changes the rows with it. *)
LEMMA QuietStep ==
  TypeInv /\ GroupBalanced /\ QuietRowsMatch /\ [Next]_vars => QuietRowsMatch'
<1> SUFFICES ASSUME TypeInv, GroupBalanced, QuietRowsMatch, [Next]_vars
             PROVE  QuietRowsMatch'
  OBVIOUS
<1>0. TypeOK /\ mainQueue \in Seq(Blocks) /\ db \in Lists /\ observers \in Nat
  BY DEF TypeInv, TypeOK
<1>1. CASE Appear
  <2>1. ValueBlock(db) \in Blocks
    BY <1>0 DEF ValueBlock, Blocks
  <2>2. Queued("notify") => Queued("notify")'
    <3>1. CASE mainQueue' = Append(mainQueue, ValueBlock(db))
      BY <1>0, <2>1, <3>1, QueuedAppend
    <3>2. CASE mainQueue' = mainQueue
      BY <3>2 DEF Queued
    <3> QED BY <1>1, <3>1, <3>2 DEF Appear, Enqueue
  <2>3. UNCHANGED <<watchList, rows, batches, appending, app>>
    BY <1>1 DEF Appear
  <2> QED BY <2>2, <2>3, RowsKept
<1>2. CASE Disappear \/ DismissAlert \/ SignOut
  <2>1. UNCHANGED <<mainQueue, watchList, rows, batches, appending, app>>
    BY <1>2 DEF Disappear, DismissAlert, SignOut
  <2>2. Queued("notify") => Queued("notify")'
    BY <2>1 DEF Queued
  <2> QED BY <2>1, <2>2, RowsKept
<1>3. CASE ServerData
  <2>1. Queued("notify") => Queued("notify")'
    BY <1>0, <1>3, EventsType, QueuedConcat DEF ServerData
  <2>2. UNCHANGED <<watchList, rows, batches, appending, app>>
    BY <1>3 DEF ServerData
  <2> QED BY <2>1, <2>2, RowsKept
<1>4. ASSUME NEW symbol \in Symbols, Save(symbol) PROVE QuietRowsMatch'
  <2>1. db' \in Lists /\ primed \in BOOLEAN
    BY TypeStep DEF TypeInv, TypeOK
  <2>2. Events(db', primed) \in Seq(Blocks)
    BY <1>0, <2>1, EventsType
  <2>3. Queued("notify") => Queued("notify")'
    BY <1>0, <1>4, <2>2, QueuedConcat DEF Save
  <2>4. UNCHANGED <<watchList, rows, batches, appending, app>>
    BY <1>4 DEF Save
  <2> QED BY <2>3, <2>4, RowsKept
<1>5. CASE HandleValue
  <2>1. Queued("notify") => Queued("notify")'
    BY <1>0, <1>5, QueuedTail DEF HandleValue
  <2>2. UNCHANGED <<watchList, rows, batches, appending, app>>
    BY <1>5 DEF HandleValue
  <2> QED BY <2>1, <2>2, RowsKept
<1>6. CASE HandleAlert
  <2>1. Queued("notify") => Queued("notify")'
    BY <1>0, <1>6, QueuedTail DEF HandleAlert
  <2>2. UNCHANGED <<watchList, rows, batches, appending, app>>
    BY <1>6 DEF HandleAlert
  <2> QED BY <2>1, <2>2, RowsKept
<1>7. CASE RemovalAnswered
  <2>1. AlertBlock \in Blocks
    BY DEF AlertBlock, Blocks
  <2>2. Queued("notify") => Queued("notify")'
    <3>1. CASE mainQueue' = Append(mainQueue, AlertBlock)
      BY <1>0, <2>1, <3>1, QueuedAppend
    <3>2. CASE mainQueue' = mainQueue
      BY <3>2 DEF Queued
    <3> QED BY <1>7, <3>1, <3>2 DEF RemovalAnswered, Enqueue
  <2>3. UNCHANGED <<watchList, rows, batches, appending, app>>
    BY <1>7 DEF RemovalAnswered
  <2> QED BY <2>2, <2>3, RowsKept
<1>8. CASE RaceTrap \/ ScrollTraps \/ DeletePastEnd
  BY <1>8 DEF RaceTrap, ScrollTraps, DeletePastEnd, Trap, QuietRowsMatch, Running
<1>9. ASSUME NEW b \in Batches, FireTimer(b) PROVE QuietRowsMatch'
  <2> DEFINE batch == [wanted |-> symbolList, pending |-> DOMAIN symbolList,
                       count |-> Enters(symbolList)]
  <2>1. Leave(b, batch)
    BY <1>9 DEF FireTimer
  <2> QED BY <2>1, LeaveNotQuiet
<1>10. ASSUME NEW b \in Batches, NEW k \in batches[b].pending, BeginAppend(b, k)
       PROVE  QuietRowsMatch'
  BY <1>10 DEF BeginAppend, QuietRowsMatch, Quiet
<1>11. CASE EndAppend
  <2> PICK a \in appending :
        Leave(a.batch, [batches[a.batch] EXCEPT !.count = @ - 1])
    BY <1>11 DEF EndAppend
  <2>1. a.batch \in Batches
    BY CountPositive
  <2> QED BY <2>1, LeaveNotQuiet
<1>12. ASSUME NEW b \in Batches, NEW k \in batches[b].pending, FetchFails(b, k)
       PROVE  QuietRowsMatch'
  <2>1. batches'[b].count = batches[b].count
    BY <1>12 DEF FetchFails, TypeInv, TypeOK
  <2>2. batches[b].count > 0
    BY PendingPositive
  <2> QED BY <2>1, <2>2 DEF QuietRowsMatch, Quiet
<1>13. CASE HandleNotify
  <2>1. rows' = Len(watchList)
    BY <1>13 DEF HandleNotify
  <2>2. Len(watchList') = Len(watchList)
    BY <1>0, <1>13, SortType DEF HandleNotify, TypeOK
  <2> QED BY <2>1, <2>2 DEF QuietRowsMatch
<1>14. ASSUME NEW i \in DOMAIN watchList, DeleteRow(i) PROVE QuietRowsMatch'
  <2>1. CASE rows = Len(watchList)
    <3>1. i \in 1..Len(watchList) /\ watchList \in Seq(UserStocks)
      BY <1>0, LenProperties DEF TypeOK
    <3>2. Len(watchList') = Len(watchList) - 1
      BY <1>14, <3>1, RemoveAtType DEF DeleteRow
    <3> QED BY <1>14, <2>1, <3>2 DEF DeleteRow, QuietRowsMatch
  <2>2. CASE rows # Len(watchList)
    BY <1>14, <2>2 DEF DeleteRow, Trap, QuietRowsMatch, Running
  <2> QED BY <2>1, <2>2
<1>15. CASE UNCHANGED vars
  <2>1. UNCHANGED <<mainQueue, watchList, rows, batches, appending, app>>
    BY <1>15 DEF vars
  <2>2. Queued("notify") => Queued("notify")'
    BY <2>1 DEF Queued
  <2> QED BY <2>1, <2>2, RowsKept
<1> QED
  BY <1>1, <1>2, <1>3, <1>4, <1>5, <1>6, <1>7, <1>8, <1>9, <1>10, <1>11, <1>12,
     <1>13, <1>14, <1>15 DEF Next, Answer

(* A table at rest shows no rows before the first refresh. *)
LEMMA QuietInit == Init => QuietRowsMatch
BY EmptySeq DEF Init, QuietRowsMatch

(* The invariants of the refresh, together. *)
LEMMA Refresh == Spec => [](TypeInv /\ GroupBalanced /\ QuietRowsMatch)
<1>1. Init => QuietRowsMatch
  BY QuietInit
<1>2. TypeInv /\ GroupBalanced /\ QuietRowsMatch /\ [Next]_vars => QuietRowsMatch'
  BY QuietStep
<1> QED BY <1>1, <1>2, Balanced, PTL DEF Spec

(* At rest the table view has as many rows as `watchList', whatever raced. *)
THEOREM QuietRowsMatchCorrect == Spec => []QuietRowsMatch
BY Refresh, PTL

(* A step that stops the process is a row out of range or a lost array, and
   none of the three is possible at rest. *)
LEMMA TrapStep ==
  ASSUME TypeInv, QuietRowsMatch, [Next]_vars
  PROVE  app' = "trapped" => ~Quiet \/ UNCHANGED vars
<1> SUFFICES ASSUME app' = "trapped", Quiet, ~UNCHANGED vars PROVE FALSE
  OBVIOUS
<1>1. appending = {} /\ rows \in Nat /\ Len(watchList) \in Nat
  BY LenProperties DEF Quiet, TypeInv, TypeOK
<1>2. Next
  OBVIOUS
<1>3. app = "running"
  BY <1>2 DEF Next, Answer, Appear, Disappear, DismissAlert, SignOut, ServerData, Save,
     HandleValue, FireTimer, BeginAppend, FetchFails, EndAppend, RaceTrap, HandleNotify,
     HandleAlert, ScrollTraps, DeletePastEnd, DeleteRow, RemovalAnswered, Touchable,
     Running
<1>4. rows = Len(watchList)
  BY <1>3 DEF QuietRowsMatch, Running
<1>5. \/ RaceTrap
      \/ ScrollTraps
      \/ DeletePastEnd
      \/ \E i \in DOMAIN watchList : DeleteRow(i)
  BY <1>2, <1>3 DEF Next, Answer, Appear, Disappear, DismissAlert, SignOut, ServerData,
     Save, HandleValue, FireTimer, BeginAppend, FetchFails, EndAppend, HandleNotify,
     HandleAlert, RemovalAnswered
<1>6. CASE RaceTrap
  BY <1>1, <1>6 DEF RaceTrap
<1>7. CASE ScrollTraps
  BY <1>1, <1>4, <1>7 DEF ScrollTraps
<1>8. CASE DeletePastEnd
  BY <1>1, <1>4, <1>8 DEF DeletePastEnd
<1>9. ASSUME NEW i \in DOMAIN watchList, DeleteRow(i) PROVE FALSE
  BY <1>3, <1>4, <1>9 DEF DeleteRow
<1> QED BY <1>5, <1>6, <1>7, <1>8, <1>9

(* No touch stops the process at rest: the array is indexed past its end, or its
   storage lost, only while a refresh is under way or after one failed. *)
THEOREM NoTrapWhenQuietCorrect == Spec => NoTrapWhenQuiet
<1>1. TypeInv /\ GroupBalanced /\ QuietRowsMatch /\ [Next]_vars
        => [app' = "trapped" => ~Quiet]_vars
  BY TrapStep
<1> QED BY <1>1, Refresh, PTL DEF Spec, NoTrapWhenQuiet

-----------------------------------------------------------------------------
\* The value events.

(* A block that is no value event changes neither the newest one nor whether
   there is one. *)
LEMMA OtherBlock ==
  ASSUME TypeOK, NEW block \in Blocks, block.kind # "value", db' = db,
         mainQueue' = mainQueue \/ mainQueue' = Append(mainQueue, block)
  PROVE  /\ Queued("value")' <=> Queued("value")
         /\ NewestIsStored => NewestIsStored'
<1>0. mainQueue \in Seq(Blocks)
  BY DEF TypeOK
<1>1. CASE mainQueue' = mainQueue
  BY <1>1 DEF Queued, NewestIsStored
<1>2. CASE mainQueue' = Append(mainQueue, block)
  <2>1. Queued("value")' <=> Queued("value")
    BY <1>0, <1>2, QueuedAppend
  <2>2. /\ Len(mainQueue) \in Nat
        /\ DOMAIN mainQueue = 1..Len(mainQueue)
        /\ DOMAIN mainQueue' = 1..(Len(mainQueue) + 1)
        /\ \A i \in 1..Len(mainQueue) : mainQueue'[i] = mainQueue[i]
        /\ mainQueue'[Len(mainQueue) + 1] = block
    <3>1. mainQueue' \in Seq(Blocks)
      BY <1>0, <1>2, AppendProperties
    <3> QED BY <1>0, <1>2, <3>1, AppendProperties, LenProperties
  <2>3. NewestIsStored => NewestIsStored'
    BY <2>2 DEF NewestIsStored
  <2> QED BY <2>1, <2>3
<1> QED BY <1>1, <1>2

(* Running a block leaves the newest event behind it the newest. *)
LEMMA NewestTail ==
  ASSUME mainQueue \in Seq(Blocks), mainQueue # <<>>, mainQueue' = Tail(mainQueue),
         db' = db, NewestIsStored
  PROVE  NewestIsStored'
<1>1. /\ Len(mainQueue) \in Nat \ {0}
      /\ DOMAIN mainQueue = 1..Len(mainQueue)
      /\ DOMAIN mainQueue' = 1..(Len(mainQueue) - 1)
      /\ \A i \in 1..(Len(mainQueue) - 1) : mainQueue'[i] = mainQueue[i + 1]
  <2>1. mainQueue' \in Seq(Blocks) /\ Len(mainQueue') = Len(mainQueue) - 1
    BY HeadTailProperties
  <2> QED BY <2>1, HeadTailProperties, LenProperties, EmptySeq
<1> SUFFICES ASSUME NEW i \in DOMAIN mainQueue', mainQueue'[i].kind = "value",
                    \A j \in DOMAIN mainQueue' : j > i => mainQueue'[j].kind # "value"
             PROVE  mainQueue'[i].snapshot = db
  BY DEF NewestIsStored
<1>2. i + 1 \in DOMAIN mainQueue /\ mainQueue[i + 1] = mainQueue'[i]
  BY <1>1
<1>3. ASSUME NEW j \in DOMAIN mainQueue, j > i + 1 PROVE mainQueue[j].kind # "value"
  <2>1. j - 1 \in DOMAIN mainQueue' /\ j - 1 > i /\ mainQueue'[j - 1] = mainQueue[j]
    BY <1>1, <1>3
  <2> QED BY <2>1
<1> QED BY <1>2, <1>3 DEF NewestIsStored

(* An event with none behind it is the newest. *)
LEMMA NewestIsHead ==
  ASSUME mainQueue \in Seq(Blocks), mainQueue # <<>>, mainQueue' = Tail(mainQueue),
         Head(mainQueue).kind = "value", ~Queued("value")', NewestIsStored
  PROVE  Head(mainQueue).snapshot = db
<1>1. /\ Len(mainQueue) \in Nat \ {0}
      /\ DOMAIN mainQueue = 1..Len(mainQueue)
      /\ Head(mainQueue) = mainQueue[1]
      /\ DOMAIN mainQueue' = 1..(Len(mainQueue) - 1)
      /\ \A i \in 1..(Len(mainQueue) - 1) : mainQueue'[i] = mainQueue[i + 1]
  <2>1. mainQueue' \in Seq(Blocks) /\ Len(mainQueue') = Len(mainQueue) - 1
    BY HeadTailProperties
  <2> QED BY <2>1, HeadTailProperties, LenProperties, EmptySeq
<1>2. ASSUME NEW j \in DOMAIN mainQueue, j > 1 PROVE mainQueue[j].kind # "value"
  <2>1. j - 1 \in DOMAIN mainQueue' /\ mainQueue'[j - 1] = mainQueue[j]
    BY <1>1, <1>2
  <2> QED BY <2>1 DEF Queued
<1> QED BY <1>1, <1>2 DEF NewestIsStored

(* Running such a block does not either. *)
LEMMA OtherBlockRuns ==
  ASSUME TypeOK, mainQueue # <<>>, Head(mainQueue).kind # "value", db' = db,
         mainQueue' = Tail(mainQueue)
  PROVE  /\ Queued("value")' <=> Queued("value")
         /\ NewestIsStored => NewestIsStored'
<1>1. mainQueue \in Seq(Blocks)
  BY DEF TypeOK
<1>2. Queued("value")' <=> Queued("value")
  BY <1>1, QueuedTail
<1>3. NewestIsStored => NewestIsStored'
  BY <1>1, NewestTail
<1> QED BY <1>2, <1>3

(* Raising events for a list makes that list the newest queued. *)
LEMMA EventsQueue ==
  ASSUME TypeOK, NEW list \in Lists, observers > 0,
         mainQueue' = mainQueue \o Events(list, TRUE), db' = list
  PROVE  Queued("value")' /\ NewestIsStored'
<1>1. /\ mainQueue \in Seq(Blocks)
      /\ observers \in Nat
  BY DEF TypeOK
<1>2. /\ Events(list, TRUE) \in Seq(Blocks)
      /\ Len(Events(list, TRUE)) = observers
      /\ \A i \in 1..observers : Events(list, TRUE)[i] = ValueBlock(list)
  BY <1>1, EventsType
<1>3. /\ Len(mainQueue) \in Nat
      /\ mainQueue' \in Seq(Blocks)
      /\ Len(mainQueue') = Len(mainQueue) + observers
      /\ \A i \in 1..(Len(mainQueue) + observers) :
            mainQueue'[i] = IF i <= Len(mainQueue) THEN mainQueue[i]
                            ELSE Events(list, TRUE)[i - Len(mainQueue)]
  BY <1>1, <1>2, ConcatProperties, LenProperties
<1>4. DOMAIN mainQueue' = 1..(Len(mainQueue) + observers)
  BY <1>3, LenProperties
<1> DEFINE n == Len(mainQueue)
<1>a. n \in Nat
  BY <1>3
<1>5. \A i \in 1..(n + observers) : i > n => mainQueue'[i] = ValueBlock(list)
  <2> SUFFICES ASSUME NEW i \in 1..(n + observers), i > n
               PROVE  mainQueue'[i] = ValueBlock(list)
    OBVIOUS
  <2> HIDE DEF n
  <2>1. i - n \in 1..observers
    BY <1>1, <1>a
  <2>2. ~(i <= n)
    BY <1>1, <1>a
  <2>3. mainQueue'[i] = Events(list, TRUE)[i - n]
    BY <1>3, <2>2 DEF n
  <2> QED BY <1>2, <2>1, <2>3
<1>6. /\ n + observers \in 1..(n + observers)
      /\ n + observers > n
      /\ \A i \in 1..(n + observers) : i <= n + observers
  <2> HIDE DEF n
  <2> QED BY <1>1, <1>a
<1>7. /\ ValueBlock(list).kind = "value"
      /\ ValueBlock(list).snapshot = list
  BY DEF ValueBlock
<1>8. Queued("value")'
  BY <1>4, <1>5, <1>6, <1>7 DEF Queued
<1>9. NewestIsStored'
  <2> SUFFICES ASSUME NEW i \in 1..(n + observers),
                      \A j \in 1..(n + observers) : j > i => mainQueue'[j].kind # "value"
               PROVE  mainQueue'[i].snapshot = list
    BY <1>4 DEF NewestIsStored
  <2> HIDE DEF n
  <2>1. ~(n + observers > i)
    BY <1>5, <1>6, <1>7
  <2>2. i > n
    BY <1>1, <1>a, <1>6, <2>1
  <2> QED BY <1>5, <1>7, <2>2
<1> QED BY <1>8, <1>9

(* A step that leaves what the events rest on alone keeps the agreement. *)
LEMMA EventsKept ==
  ASSUME EventInv,
         UNCHANGED <<db, primed, signedIn, visible, observers, symbolList, timerValid>>,
         Queued("value")' <=> Queued("value"), NewestIsStored => NewestIsStored'
  PROVE  EventInv'
BY DEF EventInv, SymbolListFresh, RefreshRuns

(* Every step keeps the newest event, the symbols and the timer in agreement. *)
LEMMA EventStep == TypeInv /\ GroupBalanced /\ EventInv /\ [Next]_vars => EventInv'
<1> SUFFICES ASSUME TypeInv, GroupBalanced, EventInv, [Next]_vars PROVE EventInv'
  OBVIOUS
<1>0. /\ TypeOK /\ mainQueue \in Seq(Blocks) /\ db \in Lists /\ observers \in Nat
      /\ primed \in BOOLEAN
  BY DEF TypeInv, TypeOK
<1>1. CASE Appear
  <2>1. CASE signedIn /\ primed
    <3>1. ValueBlock(db) \in Blocks /\ ValueBlock(db).kind = "value"
          /\ ValueBlock(db).snapshot = db
      BY <1>0 DEF ValueBlock, Blocks
    <3>2. mainQueue' = Append(mainQueue, ValueBlock(db))
      BY <1>1, <2>1 DEF Appear, Enqueue
    <3>3. Queued("value")'
      BY <1>0, <3>1, <3>2, QueuedAppend
    <3>4. NewestIsStored'
      <4>1. /\ Len(mainQueue) \in Nat
            /\ DOMAIN mainQueue' = 1..(Len(mainQueue) + 1)
            /\ mainQueue'[Len(mainQueue) + 1] = ValueBlock(db)
        <5>1. mainQueue' \in Seq(Blocks)
          BY <1>0, <3>1, <3>2, AppendProperties
        <5> QED BY <1>0, <3>1, <3>2, <5>1, AppendProperties, LenProperties
      <4>2. db' = db
        BY <1>1 DEF Appear
      <4> SUFFICES ASSUME NEW i \in DOMAIN mainQueue',
                          \A j \in DOMAIN mainQueue' : j > i => mainQueue'[j].kind # "value"
                   PROVE  mainQueue'[i].snapshot = db
        BY <4>2 DEF NewestIsStored
      <4>3. i = Len(mainQueue) + 1
        BY <3>1, <4>1
      <4> QED BY <3>1, <4>1, <4>3
    <3>5. observers' > 0
      BY <1>0, <1>1, <2>1 DEF Appear
    <3> QED BY <3>3, <3>4, <3>5 DEF EventInv, SymbolListFresh, RefreshRuns
  <2>2. CASE ~(signedIn /\ primed)
    <3>1. UNCHANGED <<db, primed, signedIn, mainQueue, symbolList, timerValid>>
      BY <1>1, <2>2 DEF Appear
    <3>2. Queued("value")' <=> Queued("value")
      BY <3>1 DEF Queued
    <3>3. NewestIsStored' <=> NewestIsStored
      BY <3>1 DEF NewestIsStored
    <3>4. primed => observers' > 0
      BY <1>0, <1>1 DEF Appear, EventInv
    <3> QED BY <2>2, <3>1, <3>2, <3>3, <3>4 DEF EventInv, SymbolListFresh, RefreshRuns
  <2> QED BY <2>1, <2>2
<1>2. CASE Disappear \/ SignOut
  <2>1. /\ UNCHANGED <<db, primed, observers, mainQueue, symbolList>>
        /\ ~visible' \/ ~signedIn'
    BY <1>2 DEF Disappear, SignOut
  <2> QED BY <2>1 DEF EventInv, NewestIsStored, Queued, SymbolListFresh, RefreshRuns
<1>3. CASE ServerData
  <2>1. Queued("value")' /\ NewestIsStored'
    BY <1>0, <1>3, EventsQueue DEF ServerData
  <2>2. observers' > 0
    BY <1>3 DEF ServerData
  <2> QED BY <2>1, <2>2 DEF EventInv, SymbolListFresh, RefreshRuns
<1>4. ASSUME NEW symbol \in Symbols, Save(symbol) PROVE EventInv'
  <2>1. CASE primed
    <3>1. db' \in Lists
      BY TypeStep DEF TypeInv, TypeOK
    <3>2. mainQueue' = mainQueue \o Events(db', TRUE)
      BY <1>0, <1>4, <2>1 DEF Save
    <3>3. observers > 0 /\ observers' = observers
      BY <1>4, <2>1 DEF Save, EventInv
    <3>4. Queued("value")' /\ NewestIsStored'
      BY <1>0, <3>1, <3>2, <3>3, EventsQueue
    <3> QED BY <3>3, <3>4 DEF EventInv, SymbolListFresh, RefreshRuns
  <2>2. CASE ~primed
    <3>1. ~primed'
      BY <1>4, <2>2 DEF Save
    <3> QED BY <3>1 DEF EventInv, SymbolListFresh, RefreshRuns
  <2> QED BY <2>1, <2>2
<1>5. CASE HandleValue
  <2>1. CASE Queued("value")'
    <3>1. NewestIsStored => NewestIsStored'
      BY <1>0, <1>5, NewestTail DEF HandleValue
    <3>2. UNCHANGED <<primed, observers>>
      BY <1>5 DEF HandleValue
    <3> QED BY <2>1, <3>1, <3>2 DEF EventInv, SymbolListFresh, RefreshRuns
  <2>2. CASE ~Queued("value")'
    <3>1. primed => Head(mainQueue).snapshot = db
      BY <1>0, <1>5, <2>2, NewestIsHead DEF HandleValue, EventInv
    <3>2. UNCHANGED <<db, primed, observers>>
      BY <1>5 DEF HandleValue
    <3>3. primed /\ DOMAIN db # {} => symbolList' = db /\ timerValid'
      BY <1>5, <3>1 DEF HandleValue
    <3>4. NewestIsStored'
      BY <2>2 DEF NewestIsStored, Queued
    <3> QED BY <3>2, <3>3, <3>4 DEF EventInv, SymbolListFresh, RefreshRuns
  <2> QED BY <2>1, <2>2
<1>6. CASE HandleNotify
  <2>1. UNCHANGED <<db, primed, signedIn, visible, observers, symbolList, timerValid>>
    BY <1>6 DEF HandleNotify
  <2>2. Head(mainQueue).kind # "value"
    BY <1>6 DEF HandleNotify
  <2>3. /\ Queued("value")' <=> Queued("value")
        /\ NewestIsStored => NewestIsStored'
    BY <1>0, <1>6, <2>1, <2>2, OtherBlockRuns DEF HandleNotify
  <2> QED BY <2>1, <2>3, EventsKept
<1>7. CASE HandleAlert
  <2>1. UNCHANGED <<db, primed, signedIn, visible, observers, symbolList, timerValid>>
    BY <1>7 DEF HandleAlert
  <2>2. Head(mainQueue).kind # "value"
    BY <1>7 DEF HandleAlert
  <2>3. /\ Queued("value")' <=> Queued("value")
        /\ NewestIsStored => NewestIsStored'
    BY <1>0, <1>7, <2>1, <2>2, OtherBlockRuns DEF HandleAlert
  <2> QED BY <2>1, <2>3, EventsKept
<1>8. ASSUME NEW b \in Batches, NEW batch, Leave(b, batch),
             UNCHANGED <<db, primed, signedIn, visible, observers, symbolList, timerValid>>
      PROVE  EventInv'
  <2>1. NotifyBlock(b) \in Blocks /\ NotifyBlock(b).kind # "value"
    BY DEF NotifyBlock, Blocks
  <2>2. mainQueue' = mainQueue \/ mainQueue' = Append(mainQueue, NotifyBlock(b))
    BY <1>8 DEF Leave, Enqueue
  <2>3. /\ Queued("value")' <=> Queued("value")
        /\ NewestIsStored => NewestIsStored'
    BY <1>0, <1>8, <2>1, <2>2, OtherBlock
  <2> QED BY <1>8, <2>3, EventsKept
<1>9. ASSUME NEW b \in Batches, FireTimer(b) PROVE EventInv'
  BY <1>8, <1>9 DEF FireTimer
<1>10. CASE EndAppend
  <2> PICK a \in appending :
        Leave(a.batch, [batches[a.batch] EXCEPT !.count = @ - 1])
    BY <1>10 DEF EndAppend
  <2>1. a.batch \in Batches
    BY CountPositive
  <2> QED BY <1>8, <1>10, <2>1 DEF EndAppend
<1>11. ASSUME UNCHANGED <<db, primed, signedIn, visible, observers, symbolList, timerValid>>,
              mainQueue' = mainQueue \/ mainQueue' = Append(mainQueue, AlertBlock)
       PROVE  EventInv'
  <2>1. AlertBlock \in Blocks /\ AlertBlock.kind # "value"
    BY DEF AlertBlock, Blocks
  <2>2. /\ Queued("value")' <=> Queued("value")
        /\ NewestIsStored => NewestIsStored'
    BY <1>0, <1>11, <2>1, OtherBlock
  <2> QED BY <1>11, <2>2, EventsKept
<1>12. ASSUME NEW b \in Batches, NEW k \in batches[b].pending, FetchFails(b, k)
       PROVE  EventInv'
  BY <1>11, <1>12 DEF FetchFails, Enqueue
<1>13. CASE RemovalAnswered
  BY <1>11, <1>13 DEF RemovalAnswered, Enqueue
<1>14. ASSUME NEW b \in Batches, NEW k \in batches[b].pending, BeginAppend(b, k)
       PROVE  EventInv'
  BY <1>11, <1>14 DEF BeginAppend
<1>15. CASE RaceTrap \/ ScrollTraps \/ DeletePastEnd \/ DismissAlert
  BY <1>11, <1>15 DEF RaceTrap, ScrollTraps, DeletePastEnd, DismissAlert
<1>16. ASSUME NEW i \in DOMAIN watchList, DeleteRow(i) PROVE EventInv'
  <2>1. i \in 1..Len(watchList) /\ watchList \in Seq(UserStocks)
    BY LenProperties DEF TypeInv, TypeOK
  <2>2. PICK s \in Symbols : watchList[i].id = SymbolId(s)
    <3>1. watchList[i] \in UserStocks
      BY <2>1, ElementOfSeq
    <3> QED BY <3>1 DEF UserStocks
  <2>3. db' = db
    BY <1>0, <1>16, <2>2, WithoutSymbol DEF DeleteRow
  <2>4. mainQueue' = mainQueue
    <3>1. mainQueue' = mainQueue \o <<>>
      BY <1>16, <2>3 DEF DeleteRow, Events
    <3> QED BY <1>0, <3>1, ConcatEmptySeq
  <2> QED BY <1>11, <1>16, <2>3, <2>4 DEF DeleteRow
<1>17. CASE UNCHANGED vars
  BY <1>11, <1>17 DEF vars
<1> QED
  BY <1>1, <1>2, <1>3, <1>4, <1>5, <1>6, <1>7, <1>9, <1>10, <1>12, <1>13, <1>14,
     <1>15, <1>16, <1>17 DEF Next, Answer

(* No client holds the list at first. *)
LEMMA EventInit == Init => EventInv
BY DEF Init, EventInv, SymbolListFresh, RefreshRuns

(* Every state agrees with the events it has queued. *)
LEMMA EventsAgree == Spec => []EventInv
<1>1. TypeInv /\ GroupBalanced /\ EventInv /\ [Next]_vars => EventInv'
  BY EventStep
<1> QED BY <1>1, EventInit, Balanced, PTL DEF Spec

(* With the events delivered, the next refresh asks for the stored stocks. *)
THEOREM SymbolListFreshCorrect == Spec => []SymbolListFresh
<1>1. EventInv => SymbolListFresh
  BY DEF EventInv
<1> QED BY <1>1, EventsAgree, PTL

(* A visible screen with a list keeps a timer that leaving it can invalidate. *)
THEOREM RefreshRunsCorrect == Spec => []RefreshRuns
<1>1. EventInv => RefreshRuns
  BY DEF EventInv
<1> QED BY <1>1, EventsAgree, PTL

-----------------------------------------------------------------------------
\* The rows and the stored list, one refresh at a time.

\* Every child of `list' is stored, with that symbol.
PartOf(list) == DOMAIN list \subseteq DOMAIN db /\ \A k \in DOMAIN list : list[k] = db[k]

(* Every list the screen works from is part of the stored one, whose keys are
   those handed out. *)
StoredInv ==
    /\ DOMAIN db \subseteq {AutoId(n) : n \in 1..saves}
    /\ PartOf(symbolList)
    /\ \A i \in DOMAIN mainQueue :
          mainQueue[i].kind = "value" => PartOf(mainQueue[i].snapshot)
    /\ \A b \in Batches : PartOf(batches[b].wanted)

\* The rows of `list' that show the stock s.
RowsOf(list, s) == {i \in DOMAIN list : list[i].stockSymbol = s}

\* A row is known by its symbol.
PlainRow(s) == [id |-> SymbolId(s), stockSymbol |-> s]
Plain(list) == \A i \in DOMAIN list : list[i] = PlainRow(list[i].stockSymbol)

\* The keys of refresh b that hold s and whose requests came to an end.
Answered(b, s) ==
    {k \in DOMAIN batches[b].wanted \ batches[b].pending : batches[b].wanted[k] = s}

(* The rows, and those an append is about to store, show a stock as often as it
   was answered at most. *)
RowsInv(b) ==
    /\ Plain(watchList)
    /\ \A a \in appending : Plain(Append(a.base, a.row))
    /\ \A s \in Symbols :
        /\ Cardinality(RowsOf(watchList, s)) <= Cardinality(Answered(b, s))
        /\ \A a \in appending :
            Cardinality(RowsOf(Append(a.base, a.row), s)) <= Cardinality(Answered(b, s))

(* The stored list only grows: a new child has a new key, and the key a swipe
   removes is no key of the list. *)
LEMMA ListGrows ==
  ASSUME TypeInv, StoredInv, [Next]_vars
  PROVE  DOMAIN db \subseteq DOMAIN db' /\ \A k \in DOMAIN db : db'[k] = db[k]
<1> DEFINE Goal == DOMAIN db \subseteq DOMAIN db' /\ \A k \in DOMAIN db : db'[k] = db[k]
<1>1. ASSUME NEW symbol \in Symbols, Save(symbol) PROVE Goal
  <2>1. AutoId(saves + 1) \notin DOMAIN db
    <3>1. saves \in Nat
      BY DEF TypeInv, TypeOK
    <3> QED BY <3>1 DEF StoredInv, AutoId
  <2>2. db' = With(db, AutoId(saves + 1), symbol)
    BY <1>1 DEF Save
  <2> QED BY <2>1, <2>2 DEF With
<1>2. ASSUME NEW i \in DOMAIN watchList, DeleteRow(i) PROVE Goal
  <2>1. watchList[i] \in UserStocks
    BY LenProperties, ElementOfSeq DEF TypeInv, TypeOK
  <2>2. PICK s \in Symbols : watchList[i].id = SymbolId(s)
    BY <2>1 DEF UserStocks
  <2>3. db' = db
    BY <1>2, <2>2, WithoutSymbol DEF DeleteRow, TypeInv, TypeOK
  <2> QED BY <2>3
<1>3. \/ db' = db
      \/ \E symbol \in Symbols : Save(symbol)
      \/ \E i \in DOMAIN watchList : DeleteRow(i)
  BY DEF Next, vars, Answer, Appear, Disappear, DismissAlert, SignOut, ServerData,
     HandleValue, FireTimer, BeginAppend, FetchFails, EndAppend, RaceTrap, HandleNotify,
     HandleAlert, ScrollTraps, DeletePastEnd, RemovalAnswered
<1> QED BY <1>1, <1>2, <1>3

(* A block is appended behind the old ones. *)
LEMMA QueueAppend ==
  ASSUME TypeOK, NEW block \in Blocks, mainQueue' = Append(mainQueue, block)
  PROVE  \A i \in DOMAIN mainQueue' :
            mainQueue'[i] = block \/ \E j \in DOMAIN mainQueue : mainQueue'[i] = mainQueue[j]
<1>1. mainQueue \in Seq(Blocks)
  BY DEF TypeOK
<1>2. mainQueue' \in Seq(Blocks)
  BY <1>1, AppendProperties
<1> QED BY <1>1, <1>2, AppendProperties, LenProperties

(* So are events. *)
LEMMA QueueConcat ==
  ASSUME TypeOK, NEW list \in Lists, NEW raised \in BOOLEAN,
         mainQueue' = mainQueue \o Events(list, raised)
  PROVE  \A i \in DOMAIN mainQueue' :
            \/ mainQueue'[i] = ValueBlock(list)
            \/ \E j \in DOMAIN mainQueue : mainQueue'[i] = mainQueue[j]
<1> DEFINE events == Events(list, raised)
<1>1. mainQueue \in Seq(Blocks) /\ observers \in Nat
  BY DEF TypeOK
<1>2. /\ events \in Seq(Blocks)
      /\ \A i \in 1..Len(events) : events[i] = ValueBlock(list)
  BY <1>1, EventsType
<1> HIDE DEF events
<1>3. /\ Len(mainQueue) \in Nat /\ Len(events) \in Nat
      /\ DOMAIN mainQueue = 1..Len(mainQueue)
  BY <1>1, <1>2, LenProperties
<1>4. /\ mainQueue' \in Seq(Blocks)
      /\ Len(mainQueue') = Len(mainQueue) + Len(events)
      /\ \A i \in 1..(Len(mainQueue) + Len(events)) :
            mainQueue'[i] = IF i <= Len(mainQueue) THEN mainQueue[i]
                            ELSE events[i - Len(mainQueue)]
  BY <1>1, <1>2, ConcatProperties DEF events
<1>5. DOMAIN mainQueue' = 1..(Len(mainQueue) + Len(events))
  BY <1>4, LenProperties
<1> SUFFICES ASSUME NEW i \in 1..(Len(mainQueue) + Len(events))
             PROVE  \/ mainQueue'[i] = ValueBlock(list)
                    \/ \E j \in DOMAIN mainQueue : mainQueue'[i] = mainQueue[j]
  BY <1>5
<1>6. CASE i <= Len(mainQueue)
  <2>1. mainQueue'[i] = mainQueue[i]
    BY <1>4, <1>6
  <2>2. i \in DOMAIN mainQueue
    BY <1>3, <1>6
  <2> QED BY <2>1, <2>2
<1>7. CASE ~(i <= Len(mainQueue))
  <2>1. mainQueue'[i] = events[i - Len(mainQueue)]
    BY <1>4, <1>7
  <2>2. i - Len(mainQueue) \in 1..Len(events)
    BY <1>3, <1>7
  <2> QED BY <1>2, <2>1, <2>2
<1> QED BY <1>6, <1>7

(* Running a block leaves old ones. *)
LEMMA QueueTail ==
  ASSUME TypeOK, mainQueue # <<>>, mainQueue' = Tail(mainQueue)
  PROVE  \A i \in DOMAIN mainQueue' :
            \E j \in DOMAIN mainQueue : mainQueue'[i] = mainQueue[j]
<1>1. /\ Len(mainQueue) \in Nat \ {0}
      /\ DOMAIN mainQueue = 1..Len(mainQueue)
      /\ DOMAIN mainQueue' = 1..(Len(mainQueue) - 1)
      /\ \A i \in 1..(Len(mainQueue) - 1) : mainQueue'[i] = mainQueue[i + 1]
  <2>1. mainQueue \in Seq(Blocks)
    BY DEF TypeOK
  <2>2. mainQueue' \in Seq(Blocks) /\ Len(mainQueue') = Len(mainQueue) - 1
    BY <2>1, HeadTailProperties
  <2> QED BY <2>1, <2>2, HeadTailProperties, LenProperties, EmptySeq
<1> SUFFICES ASSUME NEW i \in DOMAIN mainQueue'
             PROVE  \E j \in DOMAIN mainQueue : mainQueue'[i] = mainQueue[j]
  OBVIOUS
<1>2. i + 1 \in DOMAIN mainQueue /\ mainQueue'[i] = mainQueue[i + 1]
  BY <1>1
<1> QED BY <1>2

(* Every value event was queued before or carries the list as it is now. *)
LEMMA QueueStep ==
  ASSUME TypeInv, GroupBalanced, [Next]_vars,
         NEW i \in DOMAIN mainQueue', mainQueue'[i].kind = "value"
  PROVE  \/ mainQueue'[i].snapshot = db'
         \/ \E j \in DOMAIN mainQueue : mainQueue'[i] = mainQueue[j]
<1> DEFINE Goal == \/ mainQueue'[i].snapshot = db'
                   \/ \E j \in DOMAIN mainQueue : mainQueue'[i] = mainQueue[j]
<1>0. TypeOK /\ db' \in Lists /\ primed \in BOOLEAN
  BY TypeStep DEF TypeInv, TypeOK
<1>1. CASE mainQueue' = mainQueue
  BY <1>1
<1>2. ASSUME NEW block \in Blocks, mainQueue' = Append(mainQueue, block),
             block = ValueBlock(db') \/ block.kind # "value"
      PROVE  Goal
  BY <1>0, <1>2, QueueAppend DEF ValueBlock
<1>3. ASSUME NEW raised \in BOOLEAN, mainQueue' = mainQueue \o Events(db', raised)
      PROVE  Goal
  <2>1. \/ mainQueue'[i] = ValueBlock(db')
        \/ \E j \in DOMAIN mainQueue : mainQueue'[i] = mainQueue[j]
    BY <1>0, <1>3, QueueConcat
  <2> QED BY <2>1 DEF ValueBlock
<1>4. CASE mainQueue # <<>> /\ mainQueue' = Tail(mainQueue)
  BY <1>0, <1>4, QueueTail
<1>5. /\ ValueBlock(db') \in Blocks
      /\ AlertBlock \in Blocks /\ AlertBlock.kind # "value"
      /\ \A b \in Batches : NotifyBlock(b) \in Blocks /\ NotifyBlock(b).kind # "value"
  BY <1>0 DEF ValueBlock, AlertBlock, NotifyBlock, Blocks
<1>6. ASSUME NEW b \in Batches, NEW batch, Leave(b, batch) PROVE Goal
  BY <1>1, <1>2, <1>5, <1>6 DEF Leave, Enqueue
<1>7. CASE Appear
  <2>1. db' = db
    BY <1>7 DEF Appear
  <2>2. mainQueue' = mainQueue \/ mainQueue' = Append(mainQueue, ValueBlock(db'))
    BY <1>7, <2>1 DEF Appear, Enqueue
  <2> QED BY <1>1, <1>2, <1>5, <2>2
<1>8. CASE ServerData
  <2>1. mainQueue' = mainQueue \o Events(db', TRUE)
    BY <1>8 DEF ServerData, Events, ValueBlock
  <2> QED BY <1>3, <2>1
<1>9. ASSUME NEW symbol \in Symbols, Save(symbol) PROVE Goal
  BY <1>0, <1>3, <1>9 DEF Save
<1>10. CASE HandleValue \/ HandleNotify \/ HandleAlert
  BY <1>4, <1>10 DEF HandleValue, HandleNotify, HandleAlert
<1>11. ASSUME NEW b \in Batches, FireTimer(b) PROVE Goal
  BY <1>6, <1>11 DEF FireTimer
<1>12. CASE EndAppend
  BY <1>6, <1>12, CountPositive DEF EndAppend
<1>13. ASSUME NEW b \in Batches, NEW k \in batches[b].pending,
              BeginAppend(b, k) \/ FetchFails(b, k)
       PROVE  Goal
  BY <1>1, <1>2, <1>5, <1>13 DEF BeginAppend, FetchFails, Enqueue
<1>14. ASSUME NEW j \in DOMAIN watchList, DeleteRow(j) PROVE Goal
  <2>1. (primed /\ db' # db) \in BOOLEAN
    BY <1>0
  <2>2. mainQueue' = mainQueue \o Events(db', primed /\ db' # db)
    BY <1>14 DEF DeleteRow
  <2> QED BY <1>3, <2>1, <2>2
<1>15. CASE RemovalAnswered
  BY <1>1, <1>2, <1>5, <1>15 DEF RemovalAnswered, Enqueue
<1>16. CASE Disappear \/ DismissAlert \/ SignOut \/ RaceTrap \/ ScrollTraps \/ DeletePastEnd
  BY <1>1, <1>16 DEF Disappear, DismissAlert, SignOut, RaceTrap, ScrollTraps, DeletePastEnd
<1>17. CASE UNCHANGED vars
  BY <1>1, <1>17 DEF vars
<1> QED
  BY <1>7, <1>8, <1>9, <1>10, <1>11, <1>12, <1>13, <1>14, <1>15, <1>16, <1>17
     DEF Next, Answer

(* Every list the screen works from stays part of the stored one. *)
LEMMA StoredStep == TypeInv /\ GroupBalanced /\ StoredInv /\ [Next]_vars => StoredInv'
<1> SUFFICES ASSUME TypeInv, GroupBalanced, StoredInv, [Next]_vars PROVE StoredInv'
  OBVIOUS
<1>0. TypeOK /\ saves \in Nat
  BY DEF TypeInv, TypeOK
<1>1. ASSUME NEW list, PartOf(list) PROVE PartOf(list)'
  BY <1>1, ListGrows DEF PartOf
<1>2. PartOf(db)' /\ PartOf(NoList)
  BY DEF PartOf, NoList
<1>3. DOMAIN db' \subseteq {AutoId(n) : n \in 1..saves'}
  <2>1. ASSUME NEW symbol \in Symbols, Save(symbol)
        PROVE  DOMAIN db' \subseteq {AutoId(n) : n \in 1..saves'}
    <3>1. DOMAIN db' = DOMAIN db \cup {AutoId(saves + 1)} /\ saves' = saves + 1
      BY <2>1 DEF Save, With
    <3>2. 1..saves \subseteq 1..saves' /\ saves + 1 \in 1..saves'
      BY <1>0, <3>1
    <3> QED BY <3>1, <3>2 DEF StoredInv
  <2>2. ASSUME NEW i \in DOMAIN watchList, DeleteRow(i)
        PROVE  DOMAIN db' \subseteq {AutoId(n) : n \in 1..saves'}
    <3>1. DOMAIN db' \subseteq DOMAIN db /\ saves' = saves
      BY <2>2 DEF DeleteRow, Without
    <3> QED BY <3>1 DEF StoredInv
  <2>3. \/ db' = db /\ saves' = saves
        \/ \E symbol \in Symbols : Save(symbol)
        \/ \E i \in DOMAIN watchList : DeleteRow(i)
    BY DEF Next, vars, Answer, Appear, Disappear, DismissAlert, SignOut, ServerData,
       HandleValue, FireTimer, BeginAppend, FetchFails, EndAppend, RaceTrap, HandleNotify,
       HandleAlert, ScrollTraps, DeletePastEnd, RemovalAnswered
  <2> QED BY <2>1, <2>2, <2>3 DEF StoredInv
<1>4. PartOf(symbolList)'
  <2>1. CASE symbolList' = symbolList
    BY <1>1, <2>1 DEF StoredInv, PartOf
  <2>2. CASE HandleValue
    <3>1. mainQueue \in Seq(Blocks) /\ mainQueue # <<>>
      BY <1>0, <2>2 DEF TypeOK, HandleValue
    <3>2. 1 \in DOMAIN mainQueue /\ Head(mainQueue) = mainQueue[1]
      BY <3>1, LenProperties, HeadTailProperties, EmptySeq
    <3>3. PartOf(Head(mainQueue).snapshot)
      BY <2>2, <3>2 DEF HandleValue, StoredInv
    <3>4. symbolList' = Head(mainQueue).snapshot \/ symbolList' = symbolList
      BY <2>2 DEF HandleValue
    <3>5. db' = db
      BY <2>2 DEF HandleValue
    <3> QED BY <3>3, <3>4, <3>5, <2>1 DEF PartOf
  <2>3. symbolList' = symbolList \/ HandleValue
    BY DEF Next, vars, Answer, Appear, Disappear, DismissAlert, SignOut, ServerData, Save,
       FireTimer, BeginAppend, FetchFails, EndAppend, RaceTrap, HandleNotify,
       HandleAlert, ScrollTraps, DeletePastEnd, DeleteRow, RemovalAnswered
  <2> QED BY <2>1, <2>2, <2>3
<1>5. ASSUME NEW i \in DOMAIN mainQueue', mainQueue'[i].kind = "value"
      PROVE  PartOf(mainQueue[i].snapshot)'
  <2>1. CASE mainQueue'[i].snapshot = db'
    BY <1>2, <2>1 DEF PartOf
  <2>2. ASSUME NEW j \in DOMAIN mainQueue, mainQueue'[i] = mainQueue[j]
        PROVE  PartOf(mainQueue[i].snapshot)'
    <3>1. PartOf(mainQueue[j].snapshot)
      BY <1>5, <2>2 DEF StoredInv
    <3> QED BY <2>2, <3>1, ListGrows DEF PartOf
  <2> QED BY <1>5, <2>1, <2>2, QueueStep
<1>6. ASSUME NEW b \in Batches PROVE PartOf(batches[b].wanted)'
  <2>1. ASSUME batches'[b].wanted = batches[b].wanted PROVE PartOf(batches[b].wanted)'
    <3>1. PartOf(batches[b].wanted)
      BY DEF StoredInv
    <3> QED BY <2>1, <3>1, ListGrows DEF PartOf
  <2>2. ASSUME batches'[b].wanted = symbolList PROVE PartOf(batches[b].wanted)'
    <3>1. PartOf(symbolList)
      BY DEF StoredInv
    <3> QED BY <2>2, <3>1, ListGrows DEF PartOf
  <2>3. ASSUME NEW c \in Batches, FireTimer(c)
        PROVE  batches'[b].wanted \in {symbolList, batches[b].wanted}
    BY <1>0, <2>3 DEF FireTimer, Leave, TypeOK
  <2>4. ASSUME NEW c \in Batches, NEW k \in batches[c].pending,
               BeginAppend(c, k) \/ FetchFails(c, k)
        PROVE  batches'[b].wanted = batches[b].wanted
    <3>1. batches' = [batches EXCEPT ![c].pending = @ \ {k}]
      BY <2>4 DEF BeginAppend, FetchFails
    <3> QED BY <1>0, <3>1 DEF TypeOK
  <2>5. ASSUME EndAppend PROVE batches'[b].wanted = batches[b].wanted
    <3> PICK a \in appending :
          Leave(a.batch, [batches[a.batch] EXCEPT !.count = @ - 1])
      BY <2>5 DEF EndAppend
    <3> QED BY <1>0, CountPositive DEF Leave, TypeOK
  <2>6. ASSUME UNCHANGED <<batches, appending>> PROVE batches'[b].wanted = batches[b].wanted
    BY <2>6
  <2> QED BY <2>1, <2>2, <2>3, <2>4, <2>5, <2>6, GroupSteps
<1> QED BY <1>3, <1>4, <1>5, <1>6 DEF StoredInv

(* Nothing was read from the list at first. *)
LEMMA StoredInit == Init => StoredInv
BY DEF Init, StoredInv, PartOf, NoList, Idle

(* A list's rows that show a stock are finitely many. *)
LEMMA RowsOfFinite ==
  ASSUME NEW list \in Seq(UserStocks), NEW s
  PROVE  IsFiniteSet(RowsOf(list, s)) /\ Cardinality(RowsOf(list, s)) \in Nat
<1>1. DOMAIN list = 1..Len(list) /\ Len(list) \in Nat
  BY LenProperties
<1>2. IsFiniteSet(1..Len(list))
  BY <1>1, FS_Interval
<1>3. RowsOf(list, s) \in SUBSET (1..Len(list))
  BY <1>1 DEF RowsOf
<1> QED BY <1>2, <1>3, FS_Subset, FS_CardinalityType

(* Appending a row adds it to the rows of its own stock. *)
LEMMA RowsOfAppend ==
  ASSUME NEW list \in Seq(UserStocks), NEW row \in UserStocks, NEW s
  PROVE  Cardinality(RowsOf(Append(list, row), s))
            = Cardinality(RowsOf(list, s)) + (IF row.stockSymbol = s THEN 1 ELSE 0)
<1>1. /\ DOMAIN list = 1..Len(list) /\ Len(list) \in Nat
      /\ DOMAIN Append(list, row) = 1..(Len(list) + 1)
      /\ \A i \in 1..Len(list) : Append(list, row)[i] = list[i]
      /\ Append(list, row)[Len(list) + 1] = row
  <2>1. Append(list, row) \in Seq(UserStocks)
    BY AppendProperties
  <2> QED BY <2>1, LenProperties, AppendProperties
<1>2. Len(list) + 1 \notin RowsOf(list, s)
  BY <1>1 DEF RowsOf
<1>3. CASE row.stockSymbol = s
  <2>1. RowsOf(Append(list, row), s) = RowsOf(list, s) \cup {Len(list) + 1}
    BY <1>1, <1>3 DEF RowsOf
  <2>2. /\ IsFiniteSet(RowsOf(list, s))
        /\ Cardinality(RowsOf(list, s)) \in Nat
    BY RowsOfFinite
  <2>3. Cardinality(RowsOf(list, s) \cup {Len(list) + 1}) = Cardinality(RowsOf(list, s)) + 1
    BY <1>2, <2>2, FS_AddElement
  <2> QED BY <1>3, <2>1, <2>3
<1>4. CASE row.stockSymbol # s
  <2>1. RowsOf(Append(list, row), s) = RowsOf(list, s)
    BY <1>1, <1>4 DEF RowsOf
  <2> QED BY <1>4, <2>1, RowsOfFinite
<1> QED BY <1>3, <1>4

(* Removing a row adds no row of any stock, and changes none. *)
LEMMA RowsOfRemoveAt ==
  ASSUME NEW list \in Seq(UserStocks), NEW i \in 1..Len(list), NEW s
  PROVE  /\ Cardinality(RowsOf(RemoveAt(list, i), s)) <= Cardinality(RowsOf(list, s))
         /\ Plain(list) => Plain(RemoveAt(list, i))
<1> DEFINE n == Len(list)
           short == RemoveAt(list, i)
           Old(j) == IF j < i THEN j ELSE j + 1
           f == [j \in RowsOf(short, s) |-> Old(j)]
<1>1. n \in Nat /\ DOMAIN list = 1..n /\ i \in 1..n
  BY LenProperties
<1>2. DOMAIN short = 1..(n - 1)
  BY RemoveAtType, LenProperties
<1>3. \A j \in 1..(n - 1) : short[j] = list[Old(j)]
  <2>1. short = SubSeq(list, 1, i - 1) \o SubSeq(list, i + 1, n)
    BY DEF RemoveAt
  <2>2. /\ SubSeq(list, 1, i - 1) \in Seq(UserStocks)
        /\ Len(SubSeq(list, 1, i - 1)) = i - 1
        /\ \A j \in 1..(i - 1) : SubSeq(list, 1, i - 1)[j] = list[j]
    <3>1. \A j \in 1..(i - 1) : list[j] \in UserStocks
      BY <1>1, ElementOfSeq
    <3>2. Len(SubSeq(list, 1, i - 1)) = IF 1 <= i - 1 THEN (i - 1) - 1 + 1 ELSE 0
      BY <3>1, SubSeqProperties
    <3>3. \A j \in 1..((i - 1) - 1 + 1) : SubSeq(list, 1, i - 1)[j] = list[1 + j - 1]
      BY <3>1, SubSeqProperties
    <3>4. SubSeq(list, 1, i - 1) \in Seq(UserStocks)
      BY <3>1, SubSeqProperties
    <3> QED BY <1>1, <3>2, <3>3, <3>4
  <2>3. /\ SubSeq(list, i + 1, n) \in Seq(UserStocks)
        /\ Len(SubSeq(list, i + 1, n)) = n - i
        /\ \A j \in 1..(n - i) : SubSeq(list, i + 1, n)[j] = list[i + j]
    <3>1. \A j \in (i + 1)..n : list[j] \in UserStocks
      BY <1>1, ElementOfSeq
    <3>2. Len(SubSeq(list, i + 1, n)) = IF i + 1 <= n THEN n - (i + 1) + 1 ELSE 0
      BY <1>1, <3>1, SubSeqProperties
    <3>3. \A j \in 1..(n - (i + 1) + 1) :
             SubSeq(list, i + 1, n)[j] = list[(i + 1) + j - 1]
      BY <1>1, <3>1, SubSeqProperties
    <3>4. SubSeq(list, i + 1, n) \in Seq(UserStocks)
      BY <1>1, <3>1, SubSeqProperties
    <3> HIDE DEF n
    <3>5. \A j \in 1..(n - i) : j \in 1..(n - (i + 1) + 1) /\ (i + 1) + j - 1 = i + j
      BY <1>1
    <3>6. \A j \in 1..(n - i) : SubSeq(list, i + 1, n)[j] = list[i + j]
      BY <3>3, <3>5
    <3>7. Len(SubSeq(list, i + 1, n)) = n - i
      BY <1>1, <3>2
    <3> QED BY <3>4, <3>6, <3>7
  <2>4. \A j \in 1..((i - 1) + (n - i)) :
           short[j] = IF j <= i - 1 THEN SubSeq(list, 1, i - 1)[j]
                      ELSE SubSeq(list, i + 1, n)[j - (i - 1)]
    <3> DEFINE u == SubSeq(list, 1, i - 1)
               v == SubSeq(list, i + 1, n)
    <3>1. u \in Seq(UserStocks) /\ v \in Seq(UserStocks)
      BY <2>2, <2>3
    <3>2. Len(u) = i - 1 /\ Len(v) = n - i /\ short = u \o v
      BY <2>1, <2>2, <2>3
    <3> HIDE DEF u, v, short
    <3>3. \A j \in 1..(Len(u) + Len(v)) :
             (u \o v)[j] = IF j <= Len(u) THEN u[j] ELSE v[j - Len(u)]
      BY <3>1, ConcatProperties
    <3>4. \A j \in 1..((i - 1) + (n - i)) :
             short[j] = IF j <= i - 1 THEN u[j] ELSE v[j - (i - 1)]
      BY <3>2, <3>3
    <3> QED BY <3>4 DEF u, v, short
  <2> HIDE DEF n, short
  <2> TAKE j \in 1..(n - 1)
  <2>5. CASE j < i
    <3>1. j \in 1..(i - 1) /\ j \in 1..((i - 1) + (n - i)) /\ j <= i - 1
      BY <1>1, <2>5
    <3> QED BY <2>2, <2>4, <2>5, <3>1
  <2>6. CASE ~(j < i)
    <3>1. /\ j - (i - 1) \in 1..(n - i) /\ j \in 1..((i - 1) + (n - i))
          /\ ~(j <= i - 1) /\ i + (j - (i - 1)) = j + 1
      BY <1>1, <2>6
    <3>2. short[j] = SubSeq(list, i + 1, n)[j - (i - 1)]
      BY <2>4, <3>1
    <3>3. SubSeq(list, i + 1, n)[j - (i - 1)] = list[i + (j - (i - 1))]
      BY <2>3, <3>1
    <3> QED BY <2>6, <3>1, <3>2, <3>3
  <2> QED BY <2>5, <2>6
<1> HIDE DEF n, short
<1>4. \A j \in 1..(n - 1) : Old(j) \in 1..n
  BY <1>1
<1>5. f \in Injection(RowsOf(short, s), RowsOf(list, s))
  <2>1. f \in [RowsOf(short, s) -> RowsOf(list, s)]
    BY <1>1, <1>2, <1>3, <1>4 DEF RowsOf
  <2>2. \A j, k \in RowsOf(short, s) : f[j] = f[k] => j = k
    BY <1>1, <1>2 DEF RowsOf
  <2> QED BY <2>1, <2>2 DEF Injection, IsInjective
<1>6. Cardinality(RowsOf(short, s)) <= Cardinality(RowsOf(list, s))
  BY <1>5, RowsOfFinite, FS_Injection
<1>7. Plain(list) => Plain(short)
  BY <1>1, <1>2, <1>3, <1>4 DEF Plain
<1> QED BY <1>6, <1>7 DEF short

(* Sorting changes neither a row nor how often it is shown. *)
LEMMA RowsOfSort ==
  ASSUME NEW list \in Seq(UserStocks), Plain(list),
         NEW sorted \in [DOMAIN list -> Range(list)], IsSortOf(sorted, list), NEW s
  PROVE  /\ Cardinality(RowsOf(sorted, s)) = Cardinality(RowsOf(list, s))
         /\ Plain(sorted)
<1>1. \A j \in DOMAIN sorted : \E i \in DOMAIN list : sorted[j] = list[i]
  BY DEF Range
<1>2. Plain(sorted)
  BY <1>1 DEF Plain
<1>3. ASSUME NEW i \in DOMAIN list, list[i].stockSymbol = s
      PROVE  Cardinality(RowsOf(sorted, s)) = Cardinality(RowsOf(list, s))
  <2>1. list[i] = PlainRow(s)
    BY <1>3 DEF Plain
  <2>2. PlainRow(s).stockSymbol = s
    BY DEF PlainRow
  <2>3. RowsOf(list, s) = {j \in DOMAIN list : list[j] = list[i]}
    BY <2>1, <2>2 DEF RowsOf, Plain
  <2>4. RowsOf(sorted, s) = {j \in DOMAIN sorted : sorted[j] = list[i]}
    BY <1>2, <2>1, <2>2 DEF RowsOf, Plain
  <2>5. Occurrences(sorted, list[i]) = Occurrences(list, list[i])
    BY DEF IsSortOf
  <2> QED BY <2>3, <2>4, <2>5 DEF Occurrences
<1>4. ASSUME \A i \in DOMAIN list : list[i].stockSymbol # s
      PROVE  RowsOf(sorted, s) = RowsOf(list, s)
  BY <1>1, <1>4 DEF RowsOf
<1> QED BY <1>2, <1>3, <1>4

(* The answered keys of a stock are finitely many. *)
LEMMA HeldFinite ==
  ASSUME NEW wanted \in Lists, NEW pending, NEW s
  PROVE  LET held == {k \in DOMAIN wanted \ pending : wanted[k] = s}
         IN  IsFiniteSet(held) /\ Cardinality(held) \in Nat
<1> DEFINE held == {k \in DOMAIN wanted \ pending : wanted[k] = s}
<1>1. held \in SUBSET Keys
  BY ListDomain
<1> QED BY <1>1, KeysFinite, FS_Subset, FS_CardinalityType

(* So they are before and after a step. *)
LEMMA AnsweredFinite ==
  ASSUME NEW b \in Batches, NEW s
  PROVE  /\ TypeOK => IsFiniteSet(Answered(b, s)) /\ Cardinality(Answered(b, s)) \in Nat
         /\ TypeOK' => IsFiniteSet(Answered(b, s)') /\ Cardinality(Answered(b, s)') \in Nat
<1>1. /\ TypeOK => batches[b].wanted \in Lists
      /\ TypeOK' => batches'[b].wanted \in Lists
  BY DEF TypeOK
<1> QED BY <1>1, HeldFinite DEF Answered

(* With one slot, a refresh clears the rows before its answers add them again,
   each answer one row, and the main thread's steps add none. *)
LEMMA RowsStep ==
  ASSUME NEW b, Batches = {b}, TypeInv, GroupBalanced, RowsInv(b), [Next]_vars
  PROVE  RowsInv(b)'
<1>0. /\ TypeOK /\ TypeInv' /\ b \in Batches
      /\ watchList \in Seq(UserStocks)
      /\ \A a \in appending : a.batch = b /\ a.row \in UserStocks /\ a.base \in Seq(UserStocks)
  BY TypeStep DEF TypeInv, TypeOK, Appends
<1>1. ASSUME UNCHANGED <<watchList, batches, appending>> PROVE RowsInv(b)'
  BY <1>1 DEF RowsInv, Answered
<1>2. CASE FireTimer(b)
  <2>1. watchList' = <<>> /\ appending' = {}
    BY <1>0, <1>2 DEF FireTimer, AppendsOf
  <2>2. \A s : RowsOf(watchList', s) = {}
    BY <2>1 DEF RowsOf
  <2>3. \A s : Cardinality(RowsOf(watchList', s)) = 0
    BY <2>2, FS_EmptySet
  <2>4. \A s : Cardinality(Answered(b, s)') \in Nat
    BY <1>0, AnsweredFinite DEF TypeInv
  <2>5. Plain(watchList)'
    BY <2>1 DEF Plain
  <2> QED BY <2>1, <2>3, <2>4, <2>5 DEF RowsInv, RowsOf
<1>3. ASSUME NEW k \in batches[b].pending, BeginAppend(b, k) PROVE RowsInv(b)'
  <2> DEFINE row == UserStockFor(k, batches[b].wanted[k])
  <2>1. /\ appending' = {[batch |-> b, row |-> row, base |-> watchList]}
        /\ watchList' = watchList
        /\ batches' = [batches EXCEPT ![b].pending = @ \ {k}]
    BY <1>3 DEF BeginAppend
  <2>2. /\ batches[b].wanted \in Lists
        /\ k \in DOMAIN batches[b].wanted
        /\ batches'[b].wanted = batches[b].wanted
        /\ batches'[b].pending = batches[b].pending \ {k}
    BY <1>0, <1>3, <2>1 DEF TypeInv, TypeOK
  <2>3. row \in UserStocks /\ row = PlainRow(row.stockSymbol)
        /\ row.stockSymbol = batches[b].wanted[k]
    BY <2>2, ListDomain DEF UserStockFor, UserStocks, PlainRow
  <2>4. Plain(Append(watchList, row))
    <3> DEFINE longer == Append(watchList, row)
    <3>1. longer \in Seq(UserStocks)
      BY <1>0, <2>3, AppendProperties
    <3>2. /\ DOMAIN longer = 1..(Len(watchList) + 1)
          /\ DOMAIN watchList = 1..Len(watchList) /\ Len(watchList) \in Nat
          /\ \A i \in 1..Len(watchList) : longer[i] = watchList[i]
          /\ longer[Len(watchList) + 1] = row
      BY <1>0, <2>3, <3>1, AppendProperties, LenProperties
    <3> HIDE DEF longer, row
    <3>3. Plain(longer)
      BY <2>3, <3>2 DEF Plain, RowsInv
    <3> QED BY <3>3 DEF longer
  <2>5. ASSUME NEW s \in Symbols
        PROVE  /\ Cardinality(RowsOf(watchList, s)) <= Cardinality(Answered(b, s)')
               /\ Cardinality(RowsOf(Append(watchList, row), s)) <= Cardinality(Answered(b, s)')
    <3>1. Cardinality(RowsOf(watchList, s)) <= Cardinality(Answered(b, s))
      BY DEF RowsInv
    <3>2. Cardinality(RowsOf(watchList, s)) \in Nat
      BY <1>0, RowsOfFinite
    <3>3. IsFiniteSet(Answered(b, s)) /\ Cardinality(Answered(b, s)) \in Nat
      BY <1>0, AnsweredFinite
    <3>4. Cardinality(RowsOf(Append(watchList, row), s))
            = Cardinality(RowsOf(watchList, s)) + (IF row.stockSymbol = s THEN 1 ELSE 0)
      BY <1>0, <2>3, RowsOfAppend
    <3>5. CASE batches[b].wanted[k] = s
      <4>1. Answered(b, s)' = Answered(b, s) \cup {k} /\ k \notin Answered(b, s)
        BY <1>3, <2>2, <3>5 DEF Answered
      <4>2. Cardinality(Answered(b, s)') = Cardinality(Answered(b, s)) + 1
        BY <3>3, <4>1, FS_AddElement
      <4> QED BY <2>3, <3>1, <3>2, <3>3, <3>4, <3>5, <4>2
    <3>6. CASE batches[b].wanted[k] # s
      <4>1. Answered(b, s)' = Answered(b, s)
        BY <2>2, <3>6 DEF Answered
      <4> QED BY <2>3, <3>1, <3>2, <3>3, <3>4, <3>6, <4>1
    <3> QED BY <3>5, <3>6
  <2> HIDE DEF row
  <2>6. \A a \in appending' : a.base = watchList /\ a.row = row
    BY <2>1
  <2> QED BY <2>1, <2>4, <2>5, <2>6 DEF RowsInv
<1>4. CASE EndAppend
  <2> PICK a \in appending :
        /\ watchList' = Append(a.base, a.row)
        /\ Leave(a.batch, [batches[a.batch] EXCEPT !.count = @ - 1])
    BY <1>4 DEF EndAppend
  <2>1. appending' = {}
    BY <1>4 DEF EndAppend
  <2>2. batches'[b].wanted = batches[b].wanted /\ batches'[b].pending = batches[b].pending
    BY <1>0 DEF Leave, TypeOK
  <2>3. \A s : Answered(b, s)' = Answered(b, s)
    BY <2>2 DEF Answered
  <2> QED BY <2>1, <2>3 DEF RowsInv
<1>5. ASSUME NEW k \in batches[b].pending, FetchFails(b, k) PROVE RowsInv(b)'
  <2>1. UNCHANGED <<watchList, appending>>
    BY <1>5 DEF FetchFails
  <2>2. batches'[b].wanted = batches[b].wanted /\ batches'[b].pending = batches[b].pending \ {k}
    BY <1>0, <1>5 DEF FetchFails, TypeOK
  <2>3. \A s : Answered(b, s) \in SUBSET (Answered(b, s)')
    BY <2>2 DEF Answered
  <2>4. \A s : IsFiniteSet(Answered(b, s)')
    BY <1>0, AnsweredFinite DEF TypeInv
  <2>5. ASSUME NEW s PROVE Cardinality(Answered(b, s)) <= Cardinality(Answered(b, s)')
    BY <2>3, <2>4, FS_Subset
  <2>6. \A s : Cardinality(Answered(b, s)) \in Nat /\ Cardinality(Answered(b, s)') \in Nat
    BY <1>0, <2>4, AnsweredFinite, FS_CardinalityType
  <2>7. \A s : /\ Cardinality(RowsOf(watchList, s)) \in Nat
              /\ \A a \in appending : Cardinality(RowsOf(Append(a.base, a.row), s)) \in Nat
    BY <1>0, RowsOfFinite, AppendProperties
  <2> QED BY <2>1, <2>5, <2>6, <2>7 DEF RowsInv
<1>6. CASE HandleNotify
  <2>1. UNCHANGED <<batches, appending>>
    BY <1>6 DEF HandleNotify
  <2>2. PICK sorted \in [DOMAIN watchList -> Range(watchList)] :
          IsSortOf(sorted, watchList) /\ watchList' = sorted
    BY <1>6 DEF HandleNotify
  <2>3. Plain(watchList)
    BY DEF RowsInv
  <2>5. /\ \A s : Cardinality(RowsOf(sorted, s)) = Cardinality(RowsOf(watchList, s))
        /\ Plain(sorted)
    BY <1>0, <2>2, <2>3, RowsOfSort
  <2>4. \A s : Answered(b, s)' = Answered(b, s)
    BY <2>1 DEF Answered
  <2> QED BY <2>1, <2>2, <2>4, <2>5 DEF RowsInv
<1>7. ASSUME NEW i \in DOMAIN watchList, DeleteRow(i) PROVE RowsInv(b)'
  <2>1. UNCHANGED <<batches, appending>> /\ watchList' = RemoveAt(watchList, i)
    BY <1>7 DEF DeleteRow
  <2>2. i \in 1..Len(watchList)
    BY <1>0, LenProperties
  <2>3. /\ \A s : Cardinality(RowsOf(watchList', s)) <= Cardinality(RowsOf(watchList, s))
        /\ Plain(watchList')
    BY <1>0, <2>1, <2>2, RowsOfRemoveAt DEF RowsInv
  <2>4. \A s : Answered(b, s)' = Answered(b, s)
    BY <2>1 DEF Answered
  <2>5. \A s : /\ Cardinality(RowsOf(watchList, s)) \in Nat
              /\ Cardinality(RowsOf(watchList', s)) \in Nat
              /\ Cardinality(Answered(b, s)) \in Nat
    <3>1. watchList' \in Seq(UserStocks)
      BY <1>0 DEF TypeInv, TypeOK
    <3> QED BY <1>0, <3>1, RowsOfFinite, AnsweredFinite
  <2> QED BY <2>1, <2>3, <2>4, <2>5 DEF RowsInv
<1>8. \/ UNCHANGED <<watchList, batches, appending>>
      \/ HandleNotify
      \/ \E i \in DOMAIN watchList : DeleteRow(i)
      \/ FireTimer(b)
      \/ EndAppend
      \/ \E k \in batches[b].pending : BeginAppend(b, k) \/ FetchFails(b, k)
  <2>1. \/ UNCHANGED watchList
        \/ HandleNotify
        \/ \E i \in DOMAIN watchList : DeleteRow(i)
        \/ \E c \in Batches : FireTimer(c)
        \/ EndAppend
    BY DEF Next, vars, Answer, Appear, Disappear, DismissAlert, SignOut, ServerData, Save,
       HandleValue, BeginAppend, FetchFails, RaceTrap, HandleAlert, ScrollTraps,
       DeletePastEnd, RemovalAnswered
  <2> QED BY <2>1, GroupSteps
<1> QED BY <1>1, <1>2, <1>3, <1>4, <1>5, <1>6, <1>7, <1>8

(* No row is shown at first. *)
LEMMA RowsInit ==
  ASSUME NEW b, Batches = {b}
  PROVE  Init => RowsInv(b)
<1> SUFFICES ASSUME Init PROVE RowsInv(b)
  OBVIOUS
<1>1. watchList = <<>> /\ appending = {} /\ TypeOK
  BY TypeInit DEF Init, TypeInv
<1>2. \A s : RowsOf(watchList, s) = {}
  BY <1>1 DEF RowsOf
<1>3. \A s : Cardinality(RowsOf(watchList, s)) = 0
  BY <1>2, FS_EmptySet
<1> QED BY <1>1, <1>3, AnsweredFinite DEF RowsInv, Plain

(* An answered key is a stored one. *)
LEMMA AnsweredStored ==
  ASSUME NEW b, Batches = {b}, TypeInv, StoredInv, RowsInv(b)
  PROVE  NoMoreRowsThanSaves
<1> SUFFICES ASSUME NEW s \in Symbols
             PROVE  Cardinality(RowsOf(watchList, s)) <= Cardinality({k \in DOMAIN db : db[k] = s})
  BY DEF NoMoreRowsThanSaves, RowsOf
<1> DEFINE Saved == {k \in DOMAIN db : db[k] = s}
<1>1. IsFiniteSet(Saved)
  <2>1. Saved \in SUBSET Keys
    BY ListDomain DEF TypeInv, TypeOK
  <2> QED BY <2>1, KeysFinite, FS_Subset
<1>2. Answered(b, s) \in SUBSET Saved
  BY DEF StoredInv, PartOf, Answered
<1>3. Cardinality(Answered(b, s)) <= Cardinality(Saved) /\ Cardinality(Saved) \in Nat
  BY <1>1, <1>2, FS_Subset, FS_CardinalityType
<1>4. Cardinality(RowsOf(watchList, s)) \in Nat /\ Cardinality(Answered(b, s)) \in Nat
  BY RowsOfFinite, AnsweredFinite DEF TypeInv, TypeOK
<1>5. Cardinality(RowsOf(watchList, s)) <= Cardinality(Answered(b, s))
  BY DEF RowsInv
<1> HIDE DEF Saved
<1>6. Cardinality(RowsOf(watchList, s)) <= Cardinality(Saved)
  BY <1>3, <1>4, <1>5
<1> QED BY <1>6 DEF Saved

(* When each refresh is answered before the next one starts, the table never
   shows a stock more often than it was saved: whatever the server, the swipes,
   the sorts and the failures of requests do in between. *)
THEOREM NoMoreRowsThanSavesCorrect ==
  ASSUME NEW b, Batches = {b}
  PROVE  Spec => []NoMoreRowsThanSaves
<1>1. Init => StoredInv /\ RowsInv(b)
  BY StoredInit, RowsInit
<1>2. TypeInv /\ GroupBalanced /\ StoredInv /\ RowsInv(b) /\ [Next]_vars
        => StoredInv' /\ RowsInv(b)'
  BY StoredStep, RowsStep
<1>3. TypeInv /\ StoredInv /\ RowsInv(b) => NoMoreRowsThanSaves
  BY AnsweredStored
<1> QED BY <1>1, <1>2, <1>3, Balanced, PTL DEF Spec

=============================================================================
