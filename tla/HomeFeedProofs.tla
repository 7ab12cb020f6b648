--------------------------- MODULE HomeFeedProofs ---------------------------
(***************************************************************************)
(* Proofs about HomeFeed and the module it is built on, Networking.        *)
(*                                                                         *)
(* Networking, for any set of calls: typing, and that DataGetter with a    *)
(* model controller's closure implements OneShot.  HomeFeed, for any       *)
(* number of sections of any size: it is Networking with a screen on top,  *)
(* no row is looked up past its array, and reloads catch up.               *)
(***************************************************************************)
EXTENDS HomeFeed, SequenceTheorems, TLAPS

-----------------------------------------------------------------------------
\* The calls.

Untouched(call) == completions[call] = <<>> /\ call \notin stored

\* No call is completed twice, and one that is not answered not at all.
CallInv ==
    \A call \in Calls :
        /\ completions[call] \in {<<>>, <<"succeeded">>, <<"failed">>}
        /\ progress[call] # "answered" => Untouched(call)

\* The answers that wait are of different calls, none of them handled yet.
QueueInv ==
    \A i \in 1..Len(sessionQueue) :
        /\ progress[sessionQueue[i].call] = "answered"
        /\ Untouched(sessionQueue[i].call)
        /\ handler # Free => handler.call # sessionQueue[i].call
        /\ \A j \in 1..Len(sessionQueue) :
              i # j => sessionQueue[i].call # sessionQueue[j].call

\* What the closure has done of the call it handles, before each statement.
HandlerInv ==
    handler # Free =>
        /\ progress[handler.call] = "answered"
        /\ handler.error = (handler.data = "none")
        /\ handler.step = "report" => Untouched(handler.call)
        /\ handler.step = "guard" =>
              /\ handler.call \notin stored
              /\ completions[handler.call] = IF handler.error THEN <<"failed">> ELSE <<>>
        /\ handler.step = "decode" => Untouched(handler.call)
        /\ handler.step = "complete" =>
              completions[handler.call] = <<>> /\ handler.call \in stored

IndInv == TypeOK /\ CallInv /\ QueueInv /\ HandlerInv

-----------------------------------------------------------------------------
(* What fetchData passes on is either data or an error. *)
LEMMA PassedFact ==
  ASSUME NEW answer \in Answers
  PROVE  /\ Passed(answer).data \in {"none", "garbled", "good"}
         /\ Passed(answer).error \in BOOLEAN
         /\ Passed(answer).error = (Passed(answer).data = "none")
<1>1. CASE answer \in {"good", "garbled"}
  BY <1>1 DEF Passed
<1>2. CASE answer \notin {"good", "garbled"}
  BY <1>2 DEF Passed
<1> QED BY <1>1, <1>2

(* The answers that wait are answers of calls. *)
LEMMA QueueType ==
  ASSUME TypeOK
  PROVE  /\ Len(sessionQueue) \in Nat
         /\ \A i \in 1..Len(sessionQueue) :
               sessionQueue[i].call \in Calls /\ sessionQueue[i].answer \in Answers
<1>1. sessionQueue \in Seq([call : Calls, answer : Answers])
  BY DEF TypeOK
<1>2. /\ Len(sessionQueue) \in Nat
      /\ sessionQueue \in [1..Len(sessionQueue) -> [call : Calls, answer : Answers]]
  BY <1>1, LenProperties
<1>3. \A i \in 1..Len(sessionQueue) : sessionQueue[i] \in [call : Calls, answer : Answers]
  BY <1>2
<1> QED BY <1>2, <1>3

(* A running handler is a Handlers record. *)
LEMMA HandlerType ==
  ASSUME TypeOK, handler.step # "free"
  PROVE  handler \in Handlers /\ handler # Free
BY DEF TypeOK, Free

(* Completing a call for the first time gives it exactly that completion. *)
LEMMA CompleteFact ==
  ASSUME TypeOK, NEW call \in Calls, NEW result \in {"succeeded", "failed"},
         completions[call] = <<>>, Complete(call, result)
  PROVE  /\ completions' \in [Calls -> Seq({"succeeded", "failed"})]
         /\ completions'[call] = <<result>>
         /\ \A other \in Calls \ {call} : completions'[other] = completions[other]
<1>1. completions' = [completions EXCEPT ![call] = Append(completions[call], result)]
  BY DEF Complete
<1>2. Append(completions[call], result) = <<result>>
  OBVIOUS
<1>3. <<result>> \in Seq({"succeeded", "failed"})
  OBVIOUS
<1> QED BY <1>1, <1>2, <1>3 DEF TypeOK

-----------------------------------------------------------------------------
(* Nothing is asked, answered or handled at the start. *)
LEMMA InitInv == Init => IndInv
<1> SUFFICES ASSUME Init PROVE IndInv
  OBVIOUS
<1>1. sessionQueue = <<>> /\ Len(sessionQueue) = 0
  BY DEF Init
<1>2. TypeOK
  BY <1>1, EmptySeq DEF Init, TypeOK
<1>3. CallInv /\ HandlerInv
  BY DEF Init, CallInv, HandlerInv, Untouched
<1>4. QueueInv
  BY <1>1 DEF QueueInv
<1> QED BY <1>2, <1>3, <1>4 DEF IndInv

(* Calling a fetch only marks the call. *)
LEMMA FetchStep ==
  ASSUME IndInv, NEW call \in Calls, Fetch(call) PROVE IndInv'
<1> USE DEF IndInv
<1>1. TypeOK'
  BY DEF Fetch, TypeOK
<1>2. \A other \in Calls : progress'[other] = "answered" <=> progress[other] = "answered"
  BY DEF Fetch, TypeOK
<1>3. \A i \in 1..Len(sessionQueue) : sessionQueue[i].call \in Calls
  BY QueueType
<1>4. handler # Free => handler.call \in Calls
  BY DEF TypeOK, Handlers
<1>5. CallInv'
  BY <1>2 DEF Fetch, CallInv, Untouched
<1>6. QueueInv'
  BY <1>2, <1>3 DEF Fetch, QueueInv, Untouched
<1>7. HandlerInv'
  BY <1>2, <1>4 DEF Fetch, HandlerInv, Untouched
<1> QED BY <1>1, <1>5, <1>6, <1>7

(* An answer that arrives is the only one of its call. *)
LEMMA DeliverStep ==
  ASSUME IndInv, NEW call \in Calls, NEW answer \in Answers, Deliver(call, answer)
  PROVE  IndInv'
<1> USE DEF IndInv
<1> DEFINE new == [call |-> call, answer |-> answer]
<1>1. /\ sessionQueue \in Seq([call : Calls, answer : Answers])
      /\ new \in [call : Calls, answer : Answers]
      /\ sessionQueue' = Append(sessionQueue, new)
  BY DEF Deliver, TypeOK
<1>2. /\ Len(sessionQueue) \in Nat
      /\ sessionQueue' \in Seq([call : Calls, answer : Answers])
      /\ Len(sessionQueue') = Len(sessionQueue) + 1
      /\ \A i \in 1..Len(sessionQueue) : sessionQueue'[i] = sessionQueue[i]
      /\ sessionQueue'[Len(sessionQueue) + 1] = new
      /\ \A i \in 1..Len(sessionQueue) : sessionQueue[i].call \in Calls
  BY <1>1, AppendProperties, QueueType
<1>3. /\ progress' \in [Calls -> {"idle", "sent", "answered"}]
      /\ progress[call] = "sent"
      /\ progress'[call] = "answered"
      /\ \A other \in Calls \ {call} : progress'[other] = progress[other]
      /\ UNCHANGED <<handler, stored, completions>>
  BY DEF Deliver, TypeOK
<1>4. TypeOK'
  BY <1>2, <1>3 DEF TypeOK
<1>5. Untouched(call)
  BY <1>3 DEF CallInv
<1>6. CallInv'
  BY <1>3 DEF CallInv, Untouched
<1>7. \A i \in 1..Len(sessionQueue) : sessionQueue[i].call # call
  BY <1>3 DEF QueueInv
<1>8. handler # Free => handler.call # call /\ handler.call \in Calls
  BY <1>3 DEF HandlerInv, TypeOK, Handlers
<1>9. QueueInv'
  <2> SUFFICES ASSUME NEW i \in 1..Len(sessionQueue')
               PROVE  /\ progress'[sessionQueue'[i].call] = "answered"
                      /\ completions'[sessionQueue'[i].call] = <<>>
                      /\ sessionQueue'[i].call \notin stored'
                      /\ handler' # Free => handler'.call # sessionQueue'[i].call
                      /\ \A j \in 1..Len(sessionQueue') :
                            i # j => sessionQueue'[i].call # sessionQueue'[j].call
    BY DEF QueueInv, Untouched
  <2>1. CASE i = Len(sessionQueue) + 1
    <3>1. sessionQueue'[i].call = call
      BY <2>1, <1>2
    <3>2. \A j \in 1..Len(sessionQueue') : i # j => j \in 1..Len(sessionQueue)
      BY <2>1, <1>2
    <3>3. \A j \in 1..Len(sessionQueue') : i # j => sessionQueue'[j].call # call
      BY <3>2, <1>2, <1>7
    <3> QED BY <3>1, <3>3, <1>3, <1>5, <1>8 DEF Untouched
  <2>2. CASE i \in 1..Len(sessionQueue)
    <3>1. \A j \in 1..Len(sessionQueue') :
              j \in 1..Len(sessionQueue) \/ j = Len(sessionQueue) + 1
      BY <1>2
    <3>2. sessionQueue'[i] = sessionQueue[i] /\ sessionQueue[i].call \in Calls \ {call}
      BY <2>2, <1>2, <1>7
    <3>3. \A j \in 1..Len(sessionQueue') : i # j => sessionQueue[i].call # sessionQueue'[j].call
      <4> SUFFICES ASSUME NEW j \in 1..Len(sessionQueue'), i # j
                   PROVE  sessionQueue[i].call # sessionQueue'[j].call
        OBVIOUS
      <4>1. CASE j = Len(sessionQueue) + 1
        BY <4>1, <3>2, <1>2
      <4>2. CASE j \in 1..Len(sessionQueue)
        BY <4>2, <2>2, <1>2 DEF QueueInv
      <4> QED BY <3>1, <4>1, <4>2
    <3>4. /\ progress[sessionQueue[i].call] = "answered"
          /\ Untouched(sessionQueue[i].call)
          /\ handler # Free => handler.call # sessionQueue[i].call
      BY <2>2 DEF QueueInv
    <3> QED BY <3>2, <3>3, <3>4, <1>3 DEF Untouched
  <2> QED BY <2>1, <2>2, <1>2
<1>10. HandlerInv'
  BY <1>3, <1>8 DEF HandlerInv, Untouched
<1> QED BY <1>4, <1>6, <1>9, <1>10
(* Taking an answer from the queue makes its call the one handled. *)
LEMMA FetchDataStep == IndInv /\ FetchData => IndInv'
<1> SUFFICES ASSUME IndInv, FetchData PROVE IndInv'
  OBVIOUS
<1> USE DEF IndInv
<1> DEFINE answered == sessionQueue[1]
<1>1. /\ sessionQueue \in Seq([call : Calls, answer : Answers])
      /\ sessionQueue # <<>>
      /\ sessionQueue' = Tail(sessionQueue)
      /\ Head(sessionQueue) = answered
      /\ UNCHANGED <<progress, stored, completions>>
  BY DEF FetchData, TypeOK
<1>2. /\ Len(sessionQueue) \in Nat \ {0}
      /\ sessionQueue' \in Seq([call : Calls, answer : Answers])
      /\ Len(sessionQueue') = Len(sessionQueue) - 1
      /\ \A i \in 1..Len(sessionQueue') : sessionQueue'[i] = sessionQueue[i + 1]
  BY <1>1, HeadTailProperties, EmptySeq, LenProperties
<1>3. answered.call \in Calls /\ answered.answer \in Answers
  BY <1>2, QueueType
<1>4. /\ Passed(answered.answer).data \in {"none", "garbled", "good"}
      /\ Passed(answered.answer).error \in BOOLEAN
      /\ Passed(answered.answer).error = (Passed(answered.answer).data = "none")
  BY <1>3, PassedFact
<1>5. handler' = [step |-> "report", call |-> answered.call,
                  data |-> Passed(answered.answer).data,
                  error |-> Passed(answered.answer).error]
  BY <1>1 DEF FetchData
<1>6. handler' \in Handlers /\ handler'.call = answered.call /\ handler'.step = "report"
  BY <1>3, <1>4, <1>5 DEF Handlers, Steps
<1>7. TypeOK'
  BY <1>1, <1>2, <1>6 DEF TypeOK
<1>8. CallInv'
  BY <1>1 DEF CallInv, Untouched
<1>9. QueueInv'
  <2> SUFFICES ASSUME NEW i \in 1..Len(sessionQueue')
               PROVE  /\ progress[sessionQueue[i + 1].call] = "answered"
                      /\ completions[sessionQueue[i + 1].call] = <<>>
                      /\ sessionQueue[i + 1].call \notin stored
                      /\ sessionQueue[1].call # sessionQueue[i + 1].call
                      /\ \A j \in 1..Len(sessionQueue') :
                            i # j => sessionQueue[i + 1].call # sessionQueue[j + 1].call
    BY <1>1, <1>2, <1>6 DEF QueueInv, Untouched
  <2>1. /\ i + 1 \in 1..Len(sessionQueue)
        /\ i + 1 # 1
        /\ 1 \in 1..Len(sessionQueue)
        /\ \A j \in 1..Len(sessionQueue') :
              j + 1 \in 1..Len(sessionQueue) /\ (i # j => i + 1 # j + 1)
    BY <1>2
  <2> QED BY <2>1 DEF QueueInv, Untouched
<1>10. HandlerInv'
  <2>1. progress[answered.call] = "answered" /\ Untouched(answered.call)
    BY <1>2 DEF QueueInv
  <2> QED BY <2>1, <1>1, <1>4, <1>5, <1>6 DEF HandlerInv, Untouched
<1> QED BY <1>7, <1>8, <1>9, <1>10

-----------------------------------------------------------------------------
(* Two things the statements of the closure have in common: the call they handle
   does not wait in the queue, and they leave the other calls alone. *)
LEMMA ClosureFrame ==
  ASSUME IndInv, handler # Free, UNCHANGED <<progress, sessionQueue>>,
         handler' = Free \/ (handler' \in Handlers /\ handler'.call = handler.call),
         stored' \subseteq Calls,
         completions' \in [Calls -> Seq({"succeeded", "failed"})],
         completions'[handler.call] \in {<<>>, <<"succeeded">>, <<"failed">>},
         \A other \in Calls \ {handler.call} :
            completions'[other] = completions[other]
            /\ (other \in stored' <=> other \in stored)
  PROVE  TypeOK' /\ CallInv' /\ QueueInv'
<1> USE DEF IndInv
<1>1. handler.call \in Calls /\ progress[handler.call] = "answered"
  BY DEF TypeOK, Handlers, HandlerInv
<1>2. TypeOK'
  BY DEF TypeOK
<1>3. CallInv'
  BY <1>1 DEF CallInv, Untouched
<1>4. \A i \in 1..Len(sessionQueue) : sessionQueue[i].call \in Calls \ {handler.call}
  BY QueueType DEF QueueInv
<1>5. QueueInv'
  BY <1>4 DEF QueueInv, Untouched
<1> QED BY <1>2, <1>3, <1>5

(* An error is reported before the data is looked at. *)
LEMMA ReportErrorStep == IndInv /\ ReportError => IndInv'
<1> SUFFICES ASSUME IndInv, ReportError PROVE IndInv'
  OBVIOUS
<1> USE DEF IndInv
<1>1. handler \in Handlers /\ handler # Free
  BY HandlerType DEF ReportError
<1>2. /\ handler' \in Handlers
      /\ handler'.call = handler.call
      /\ handler'.step = "guard"
      /\ handler'.data = handler.data
      /\ handler'.error = handler.error
  BY <1>1 DEF ReportError, Handlers, Steps
<1>3. handler.call \in Calls /\ Untouched(handler.call)
  BY <1>1 DEF HandlerInv, ReportError, Handlers
<1>4. CASE handler.error
  <2>1. Complete(handler.call, "failed")
    BY <1>4 DEF ReportError
  <2>2. /\ completions' \in [Calls -> Seq({"succeeded", "failed"})]
        /\ completions'[handler.call] = <<"failed">>
        /\ \A other \in Calls \ {handler.call} : completions'[other] = completions[other]
    BY <2>1, <1>3, CompleteFact DEF Untouched
  <2>3. UNCHANGED <<progress, sessionQueue, stored>>
    BY DEF ReportError
  <2>4. TypeOK' /\ CallInv' /\ QueueInv'
    BY <1>1, <1>2, <2>2, <2>3, ClosureFrame DEF TypeOK
  <2>5. HandlerInv'
    BY <1>1, <1>2, <1>3, <1>4, <2>2, <2>3 DEF HandlerInv, Untouched
  <2> QED BY <2>4, <2>5
<1>5. CASE ~handler.error
  <2>1. UNCHANGED <<progress, sessionQueue, stored, completions>>
    BY <1>5 DEF ReportError
  <2>2. TypeOK' /\ CallInv' /\ QueueInv'
    BY <1>1, <1>2, <1>3, <2>1, ClosureFrame DEF TypeOK, CallInv
  <2>3. HandlerInv'
    BY <1>1, <1>2, <1>3, <1>5, <2>1 DEF HandlerInv, Untouched
  <2> QED BY <2>2, <2>3
<1> QED BY <1>4, <1>5

(* Without data the closure ends, with data it goes on. *)
LEMMA GuardDataStep == IndInv /\ GuardData => IndInv'
<1> SUFFICES ASSUME IndInv, GuardData PROVE IndInv'
  OBVIOUS
<1> USE DEF IndInv
<1>1. handler \in Handlers /\ handler # Free
  BY HandlerType DEF GuardData
<1>2. UNCHANGED <<progress, sessionQueue, stored, completions>> /\ handler.call \in Calls
  BY <1>1 DEF GuardData, Handlers
<1>3. CASE handler.data = "none"
  <2>1. handler' = Free
    BY <1>3 DEF GuardData
  <2>2. TypeOK' /\ CallInv' /\ QueueInv'
    BY <1>1, <1>2, <2>1, ClosureFrame DEF TypeOK, CallInv
  <2> QED BY <2>1, <2>2 DEF HandlerInv
<1>4. CASE handler.data # "none"
  <2>1. /\ handler' \in Handlers
        /\ handler'.call = handler.call
        /\ handler'.step = "decode"
        /\ handler'.data = handler.data
        /\ handler'.error = handler.error
    BY <1>1, <1>4 DEF GuardData, Handlers, Steps
  <2>2. TypeOK' /\ CallInv' /\ QueueInv'
    BY <1>1, <1>2, <2>1, ClosureFrame DEF TypeOK, CallInv
  <2>3. ~handler.error /\ Untouched(handler.call) /\ progress[handler.call] = "answered"
    BY <1>1, <1>4 DEF HandlerInv, GuardData, Untouched, Handlers
  <2>4. HandlerInv'
    BY <1>1, <1>2, <1>4, <2>1, <2>3 DEF HandlerInv, Untouched, Handlers
  <2> QED BY <2>2, <2>4
<1> QED BY <1>3, <1>4

(* What decodes is stored before it is reported. *)
LEMMA DecodeStep == IndInv /\ Decode => IndInv'
<1> SUFFICES ASSUME IndInv, Decode PROVE IndInv'
  OBVIOUS
<1> USE DEF IndInv
<1>1. handler \in Handlers /\ handler # Free /\ handler.call \in Calls
  BY HandlerType DEF Decode, Handlers
<1>2. /\ handler' \in Handlers
      /\ handler'.call = handler.call
      /\ handler'.step = "complete"
      /\ handler'.data = handler.data
      /\ handler'.error = handler.error
  BY <1>1 DEF Decode, Handlers, Steps
<1>3. UNCHANGED <<progress, sessionQueue, completions>> /\ stored' = stored \cup {handler.call}
  BY DEF Decode
<1>4. TypeOK' /\ CallInv' /\ QueueInv'
  BY <1>1, <1>2, <1>3, ClosureFrame DEF TypeOK, CallInv
<1>5. HandlerInv'
  BY <1>1, <1>2, <1>3 DEF HandlerInv, Untouched, Decode
<1> QED BY <1>4, <1>5

(* What ends the closure completes a call that was not completed. *)
LEMMA EndStep == IndInv /\ (DecodeFails \/ Succeed) => IndInv'
<1> SUFFICES ASSUME IndInv, DecodeFails \/ Succeed PROVE IndInv'
  OBVIOUS
<1> USE DEF IndInv
<1>1. handler \in Handlers /\ handler # Free /\ handler.call \in Calls
  BY HandlerType DEF DecodeFails, Succeed, Handlers
<1>2. PICK result \in {"succeeded", "failed"} : Complete(handler.call, result)
  BY DEF DecodeFails, Succeed
<1>3. completions[handler.call] = <<>>
  BY <1>1 DEF HandlerInv, DecodeFails, Succeed, Untouched
<1>4. /\ completions' \in [Calls -> Seq({"succeeded", "failed"})]
      /\ completions'[handler.call] = <<result>>
      /\ \A other \in Calls \ {handler.call} : completions'[other] = completions[other]
  BY <1>1, <1>2, <1>3, CompleteFact
<1>5. handler' = Free /\ UNCHANGED <<progress, sessionQueue, stored>>
  BY DEF DecodeFails, Succeed
<1>6. completions'[handler.call] \in {<<>>, <<"succeeded">>, <<"failed">>}
  BY <1>4
<1>7. TypeOK' /\ CallInv' /\ QueueInv'
  BY <1>1, <1>4, <1>5, <1>6, ClosureFrame DEF TypeOK
<1> QED BY <1>5, <1>7 DEF HandlerInv

(* Every step keeps the invariant. *)
LEMMA StepInv == IndInv /\ [Next]_vars => IndInv'
<1> SUFFICES ASSUME IndInv, [Next]_vars PROVE IndInv'
  OBVIOUS
<1>1. CASE Closure
  BY <1>1, ReportErrorStep, GuardDataStep, DecodeStep, EndStep DEF Closure
<1>2. CASE UNCHANGED vars
  BY <1>2 DEF vars, IndInv, TypeOK, CallInv, QueueInv, HandlerInv, Untouched
<1> QED BY <1>1, <1>2, FetchStep, DeliverStep, FetchDataStep DEF Next

(* The variables keep their types. *)
THEOREM TypeCorrect == Spec => []TypeOK
<1>1. IndInv => TypeOK
  BY DEF IndInv
<1> QED BY <1>1, InitInv, StepInv, PTL DEF Spec
-----------------------------------------------------------------------------
\* Refinement of OneShot.

Outcomes == [call \in Calls |-> Outcome(call)]

(* What the outcome of a call is. *)
LEMMA OutcomeFact ==
  ASSUME NEW call \in Calls
  PROVE  /\ completions[call] = <<>> =>
               Outcome(call) = IF progress[call] = "idle" THEN "none" ELSE "waiting"
         /\ completions[call] = <<"succeeded">> => Outcome(call) = "succeeded"
         /\ completions[call] = <<"failed">> => Outcome(call) = "failed"
<1>1. ASSUME NEW result, completions[call] = <<result>> PROVE Outcome(call) = result
  <2>1. <<result>> # <<>> /\ Len(<<result>>) = 1 /\ <<result>>[1] = result
    OBVIOUS
  <2>2. completions[call] # <<>> /\ Len(completions[call]) = 1
    BY <1>1, <2>1
  <2>3. completions[call][1] = result
    BY <1>1, <2>1
  <2> QED BY <2>2, <2>3 DEF Outcome
<1> QED BY <1>1 DEF Outcome

(* A step that changes what one call went through changes its outcome alone. *)
LEMMA OutcomeChange ==
  ASSUME NEW call \in Calls, NEW result,
         \A other \in Calls \ {call} :
            completions'[other] = completions[other] /\ progress'[other] = progress[other],
         Outcome(call)' = result
  PROVE  Outcomes' = [Outcomes EXCEPT ![call] = result]
<1>1. \A other \in Calls \ {call} : Outcome(other)' = Outcome(other)
  BY DEF Outcome
<1> QED BY <1>1 DEF Outcomes

(* A step that changes no completion and asks for nothing changes no outcome. *)
LEMMA OutcomeSame ==
  ASSUME UNCHANGED completions,
         \A call \in Calls : progress'[call] = "idle" <=> progress[call] = "idle"
  PROVE  Outcomes' = Outcomes
<1>1. \A call \in Calls : Outcome(call)' = Outcome(call)
  BY DEF Outcome
<1> QED BY <1>1 DEF Outcomes

(* The fetches start where the promise starts. *)
LEMMA RefineInit == Init => Promise!Init
BY OutcomeFact DEF Init, Promise!Init

(* Completing the call that is handled is the promise's success or failure. *)
LEMMA RefineComplete ==
  ASSUME IndInv, NEW call \in Calls, progress[call] # "idle", completions[call] = <<>>,
         NEW result \in {"succeeded", "failed"}, Complete(call, result),
         UNCHANGED <<progress, stored>>,
         result = "succeeded" <=> call \in stored
  PROVE  Promise!Next
<1> USE DEF IndInv
<1>1. /\ completions'[call] = <<result>>
      /\ \A other \in Calls \ {call} : completions'[other] = completions[other]
  BY CompleteFact
<1>2. Outcome(call) = "waiting"
  BY OutcomeFact
<1>3. Outcome(call)' = result
  <2>1. <<result>> # <<>> /\ Len(<<result>>) = 1 /\ <<result>>[1] = result
    OBVIOUS
  <2>2. completions'[call] # <<>> /\ Len(completions'[call]) = 1 /\ completions'[call][1] = result
    BY <1>1, <2>1
  <2> QED BY <2>2 DEF Outcome
<1>4. Outcomes' = [Outcomes EXCEPT ![call] = result]
  BY <1>1, <1>3, OutcomeChange
<1>5. Promise!Succeed(call) \/ Promise!Fail(call)
  BY <1>2, <1>4 DEF Promise!Succeed, Promise!Fail, Outcomes
<1> QED BY <1>5 DEF Promise!Next, Promise!Complete

(* Every step of a fetch is a step of the promise, or none. *)
LEMMA RefineStep == IndInv /\ [Next]_vars => [Promise!Next]_(Promise!vars)
<1> SUFFICES ASSUME IndInv, [Next]_vars PROVE [Promise!Next]_(Promise!vars)
  OBVIOUS
<1> USE DEF IndInv
<1>0. ASSUME Outcomes' = Outcomes, stored' = stored PROVE UNCHANGED Promise!vars
  BY <1>0 DEF Promise!vars, Outcomes
<1>1. ASSUME NEW call \in Calls, Fetch(call) PROVE Promise!Next
  <2>1. /\ completions[call] = <<>>
        /\ progress[call] = "idle"
        /\ progress'[call] = "sent"
        /\ \A other \in Calls \ {call} : progress'[other] = progress[other]
        /\ UNCHANGED <<stored, completions>>
    BY <1>1 DEF Fetch, TypeOK, CallInv, Untouched
  <2>2. Outcome(call) = "none" /\ Outcome(call)' = "waiting"
    BY <2>1 DEF Outcome
  <2>3. Outcomes' = [Outcomes EXCEPT ![call] = "waiting"]
    BY <2>1, <2>2, OutcomeChange
  <2>4. Promise!Start(call)
    BY <2>1, <2>2, <2>3 DEF Promise!Start, Outcomes
  <2> QED BY <2>4 DEF Promise!Next
<1>2. ASSUME NEW call \in Calls, NEW answer \in Answers, Deliver(call, answer)
      PROVE UNCHANGED Promise!vars
  <2>1. /\ \A other \in Calls : progress'[other] = "idle" <=> progress[other] = "idle"
        /\ UNCHANGED <<stored, completions>>
    BY <1>2 DEF Deliver, TypeOK
  <2> QED BY <2>1, <1>0, OutcomeSame
<1>3. CASE FetchData
  BY <1>3, <1>0, OutcomeSame DEF FetchData
<1>4. CASE ReportError
  <2>1. CASE handler.error
    <3>1. handler \in Handlers /\ handler # Free
      BY <1>4, HandlerType DEF ReportError
    <3>2. Untouched(handler.call) /\ handler.call \in Calls /\ progress[handler.call] = "answered"
      BY <1>4, <3>1 DEF HandlerInv, ReportError, Handlers
    <3> QED BY <1>4, <2>1, <3>1, <3>2, RefineComplete DEF ReportError, Untouched
  <2>2. CASE ~handler.error
    BY <1>4, <2>2, <1>0, OutcomeSame DEF ReportError
  <2> QED BY <2>1, <2>2
<1>5. CASE GuardData
  BY <1>5, <1>0, OutcomeSame DEF GuardData
<1>6. CASE Decode
  <2>1. handler \in Handlers /\ handler # Free /\ handler.call \in Calls
    BY <1>6, HandlerType DEF Decode, Handlers
  <2>2. completions[handler.call] = <<>> /\ progress[handler.call] = "answered"
    BY <1>6, <2>1 DEF Decode, HandlerInv, Untouched
  <2>3. Outcome(handler.call) = "waiting"
    BY <2>1, <2>2, OutcomeFact
  <2>4. Outcomes' = Outcomes
    BY <1>6, OutcomeSame DEF Decode
  <2>5. Promise!Store(handler.call)
    BY <1>6, <2>1, <2>3, <2>4 DEF Decode, Promise!Store, Outcomes
  <2> QED BY <2>1, <2>5 DEF Promise!Next, Promise!Complete
<1>7. CASE DecodeFails
  <2>1. handler \in Handlers /\ handler # Free
    BY <1>7, HandlerType DEF DecodeFails
  <2>2. Untouched(handler.call) /\ handler.call \in Calls /\ progress[handler.call] = "answered"
    BY <1>7, <2>1 DEF DecodeFails, HandlerInv, Handlers
  <2> QED BY <1>7, <2>1, <2>2, RefineComplete DEF DecodeFails, Untouched
<1>8. CASE Succeed
  <2>1. handler \in Handlers /\ handler # Free
    BY <1>8, HandlerType DEF Succeed
  <2>2. /\ completions[handler.call] = <<>>
        /\ handler.call \in stored
        /\ handler.call \in Calls
        /\ progress[handler.call] = "answered"
    BY <1>8, <2>1 DEF Succeed, HandlerInv, Handlers
  <2> QED BY <1>8, <2>1, <2>2, RefineComplete DEF Succeed
<1>9. CASE UNCHANGED vars
  BY <1>9, <1>0, OutcomeSame DEF vars
<1> QED BY <1>1, <1>2, <1>3, <1>4, <1>5, <1>6, <1>7, <1>8, <1>9 DEF Next, Closure

(* DataGetter and a model controller's closure keep the promise: a call is completed
   once at most, and as a success exactly when its answer was stored before. *)
THEOREM PromiseKept == Spec => KeepsPromise
<1> QED BY InitInv, StepInv, RefineInit, RefineStep, PTL DEF Spec, KeepsPromise, Promise!Spec

-----------------------------------------------------------------------------
\* The home tab.

\* The table has no more rows than the arrays hold stocks, and cells for its rows only.
RowsInv ==
    /\ \A section \in Sections : rows[section] <= stocks[section]
    /\ \A cell \in cells : cell[2] <= rows[cell[1]]

\* The types of the variables that HomeFeed adds.
ScreenTypes ==
    /\ stocks \in [Sections -> {0, Size}]
    /\ reloads \subseteq Sections
    /\ rows \in [Sections -> {0, Size}]
    /\ cells \subseteq Sections \X Nat
    /\ laidOut \in BOOLEAN
    /\ opened \subseteq Sections \X Nat
    /\ app \in {"running", "trapped"}

HomeInv == ScreenTypes /\ RowsInv /\ ReloadedShowsAll /\ Running

-----------------------------------------------------------------------------
\* The network below the screen.

(* A step of the home tab is a step of its three calls, or leaves them alone. *)
LEMMA NetworkStep == [HomeNext]_homeVars => [Next]_vars
<1> SUFFICES ASSUME [HomeNext]_homeVars PROVE [Next]_vars
  OBVIOUS
<1>1. ASSUME NEW section \in Sections, FetchSector(section) PROVE [Next]_vars
  BY <1>1 DEF FetchSector, Next, Sections
<1>2. ASSUME NEW section \in Sections, HandleReload(section) PROVE [Next]_vars
  BY <1>2 DEF HandleReload
<1>3. ASSUME NEW section \in Sections, NEW row \in 1..rows[section],
             ShowCell(section, row) \/ TapRow(section, row)
      PROVE  [Next]_vars
  BY <1>3 DEF ShowCell, TapRow
<1>4. CASE Respond
  BY <1>4 DEF Respond, Next, Sections
<1>5. CASE CompleteSector
  BY <1>5 DEF CompleteSector, Next
<1>6. CASE Layout \/ Back
  BY <1>6 DEF Layout, Back
<1>7. CASE UNCHANGED homeVars
  BY <1>7 DEF homeVars
<1> QED BY <1>1, <1>2, <1>3, <1>4, <1>5, <1>6, <1>7 DEF HomeNext

(* The calls of the home tab behave as Networking says, so what is proved of it holds:
   in particular every call keeps its promise. *)
THEOREM HomeIsNetworking == HomeSpec => Spec /\ KeepsPromise
<1>1. HomeInit => Init
  BY DEF HomeInit
<1> QED BY <1>1, NetworkStep, PromiseKept, PTL DEF HomeSpec, Spec

-----------------------------------------------------------------------------
(* The feed starts empty. *)
LEMMA HomeInitInv == HomeInit => HomeInv
<1> SUFFICES ASSUME HomeInit PROVE HomeInv
  OBVIOUS
<1>1. stocks \in [Sections -> {0, Size}] /\ rows \in [Sections -> {0, Size}]
  BY DEF HomeInit
<1>2. ScreenTypes
  BY <1>1 DEF HomeInit, ScreenTypes
<1>3. RowsInv
  BY DEF HomeInit, RowsInv
<1> QED BY <1>2, <1>3 DEF HomeInit, HomeInv, ReloadedShowsAll, Running

(* Counting the rows anew takes them from the arrays. *)
LEMMA CountStep ==
  ASSUME HomeInv, CountRows, UNCHANGED <<stocks, opened, app>>,
         reloads' \subseteq Sections, laidOut' = TRUE
  PROVE  HomeInv'
BY SizeAssumption DEF HomeInv, ScreenTypes, RowsInv, ReloadedShowsAll, Running, CountRows

(* A row with a cell is in its sector's array. *)
LEMMA InBounds ==
  ASSUME HomeInv, NEW section \in Sections, NEW row \in Nat, row <= rows[section],
         StockFor(section, row)
  PROVE  app' = "running"
<1>1. row <= stocks[section]
  BY SizeAssumption DEF HomeInv, ScreenTypes, RowsInv
<1> QED BY <1>1 DEF StockFor, HomeInv, Running

(* Every step of an answer, of the main thread and of the user keeps the invariant. *)
LEMMA HomeStepInv == TypeOK /\ HomeInv /\ [HomeNext]_homeVars => HomeInv'
<1> SUFFICES ASSUME TypeOK, HomeInv, [HomeNext]_homeVars PROVE HomeInv'
  OBVIOUS
<1> USE DEF HomeInv, RowsInv, ReloadedShowsAll, Running
<1>1. ASSUME UNCHANGED <<arrays, screen>> PROVE HomeInv'
  BY <1>1 DEF arrays, screen, ScreenTypes
<1>2. ASSUME NEW section \in Sections, FetchSector(section) PROVE HomeInv'
  BY <1>1, <1>2 DEF FetchSector
<1>3. CASE Respond
  BY <1>1, <1>3 DEF Respond
<1>4. CASE CompleteSector
  <2>1. CASE GiveUp(handler.call)
    BY <1>1, <1>4, <2>1 DEF CompleteSector, GiveUp
  <2>2. CASE Assign(handler.call)
    <3>1. handler.call \in Sections
      BY <2>2 DEF Assign, TypeOK, Sections
    <3>2. /\ stocks' = [stocks EXCEPT ![handler.call] = Size]
          /\ reloads' = reloads \cup {handler.call}
          /\ UNCHANGED screen
      BY <1>4, <2>2 DEF CompleteSector, Assign, Dispatch
    <3>3. ScreenTypes'
      BY <3>1, <3>2 DEF ScreenTypes, screen
    <3>4. \A other \in Sections : stocks[other] <= stocks'[other] /\ rows[other] \in Nat
      BY <3>2, SizeAssumption DEF ScreenTypes
    <3>5. \A other \in Sections : rows'[other] <= stocks'[other]
      BY <3>2, <3>4, SizeAssumption DEF ScreenTypes, screen
    <3> QED BY <3>2, <3>3, <3>5 DEF screen
  <2> QED BY <1>4, <2>1, <2>2 DEF CompleteSector
<1>5. ASSUME NEW section \in Sections, HandleReload(section) PROVE HomeInv'
  <2>1. reloads' \subseteq Sections
    BY <1>5 DEF HandleReload, ScreenTypes
  <2> QED BY <1>5, <2>1, CountStep DEF HandleReload
<1>6. ASSUME NEW section \in Sections, NEW row \in 1..rows[section], ShowCell(section, row)
      PROVE HomeInv'
  <2>1. row \in Nat /\ row <= rows[section]
    BY <1>6, SizeAssumption DEF ScreenTypes
  <2>2. app' = "running"
    BY <1>6, <2>1, InBounds DEF ShowCell
  <2> QED BY <1>6, <2>1, <2>2 DEF ShowCell, arrays, ScreenTypes
<1>7. ASSUME NEW section \in Sections, NEW row \in 1..rows[section], TapRow(section, row)
      PROVE HomeInv'
  <2>1. row \in Nat /\ row <= rows[section]
    BY <1>7, SizeAssumption DEF ScreenTypes
  <2>2. app' = "running"
    BY <1>7, <2>1, InBounds DEF TapRow
  <2> QED BY <1>7, <2>1, <2>2 DEF TapRow, arrays, ScreenTypes
<1>8. CASE Layout
  BY <1>8, CountStep DEF Layout, arrays, ScreenTypes
<1>9. CASE Back
  BY <1>9 DEF Back, arrays, ScreenTypes
<1>10. CASE UNCHANGED homeVars
  BY <1>1, <1>10 DEF homeVars
<1> QED BY <1>2, <1>3, <1>4, <1>5, <1>6, <1>7, <1>8, <1>9, <1>10 DEF HomeNext

-----------------------------------------------------------------------------
(* In every behaviour the network's variables keep their types and the screen's
   invariant holds. *)
LEMMA Invariants == HomeSpec => [](TypeOK /\ HomeInv)
<1>1. HomeSpec => []TypeOK
  BY HomeIsNetworking, TypeCorrect, PTL
<1> QED BY <1>1, HomeInitInv, HomeStepInv, PTL DEF HomeSpec

(* The variables keep their types. *)
THEOREM HomeTypeCorrect == HomeSpec => []HomeTypeOK
<1>1. TypeOK /\ HomeInv => HomeTypeOK
  BY DEF HomeInv, ScreenTypes, HomeTypeOK
<1> QED BY <1>1, Invariants, PTL

(* The home tab never looks a row up past the end of its array. *)
THEOREM NeverTrapsCorrect == HomeSpec => []NeverTraps
<1>1. HomeInv => NeverTraps
  BY DEF HomeInv, NeverTraps
<1> QED BY <1>1, Invariants, PTL

(* Once the reloads have run, the table shows all the stocks there are. *)
THEOREM ReloadedShowsAllCorrect == HomeSpec => []ReloadedShowsAll
<1>1. HomeInv => ReloadedShowsAll
  BY DEF HomeInv
<1> QED BY <1>1, Invariants, PTL
=============================================================================
