----------------------------- MODULE Networking -----------------------------
(***************************************************************************)
(* A fetch of a model controller: its request through DataGetter.fetchData *)
(* to its completion.  All sessions' completion handlers run one at a time *)
(* on the serial queue of URLSession.shared.  The five fetches of the      *)
(* model controllers (batch, logo, search and the sectors' collections)    *)
(* have the same closure and differ in what they decode and store.         *)
(***************************************************************************)
EXTENDS Naturals, Sequences

CONSTANT Calls      \* calls of a fetch, by any screens

VARIABLES
    progress,       \* call -> "idle", "sent" or "answered"
    sessionQueue,   \* answers whose handler waits for the queue
    handler,        \* the handler that runs
    stored,         \* calls whose decoded answer the controller holds
    completions     \* call -> the completions it got

vars == <<progress, sessionQueue, handler, stored, completions>>

-----------------------------------------------------------------------------
(* What URLSession hands over: no connection, a status other than 200, no data,
   data of another shape than the model's, data that decodes. *)
Answers == {"unreachable", "rejected", "empty", "garbled", "good"}

Steps == {"report", "guard", "decode", "complete"}
Handlers == [step : Steps, call : Calls, data : {"none", "garbled", "good"}, error : BOOLEAN]
Free == [step |-> "free"]

Init ==
    /\ progress = [call \in Calls |-> "idle"]
    /\ sessionQueue = <<>>
    /\ handler = Free
    /\ stored = {}
    /\ completions = [call \in Calls |-> <<>>]

Fetch(call) ==
    /\ progress[call] = "idle"
    /\ progress' = [progress EXCEPT ![call] = "sent"]
    /\ UNCHANGED <<sessionQueue, handler, stored, completions>>

\* Answers come in any order.
Deliver(call, answer) ==
    /\ progress[call] = "sent"
    /\ progress' = [progress EXCEPT ![call] = "answered"]
    /\ sessionQueue' = Append(sessionQueue, [call |-> call, answer |-> answer])
    /\ UNCHANGED <<handler, stored, completions>>

\* (Faulty: goes on to the data after reporting a status other than 200.)
PassedWithBody(answer) ==
    [data |-> CASE answer = "rejected" -> "good"
                [] answer \in {"good", "garbled"} -> answer
                [] OTHER -> "none",
     error |-> answer \in {"unreachable", "rejected", "empty"}]
\* (Faulty: reports nothing when there is no data.)
PassedQuietly(answer) ==
    [data |-> IF answer \in {"good", "garbled"} THEN answer ELSE "none",
     error |-> answer \in {"unreachable", "rejected"}]
\* DataGetter.fetchData passes either data or an error, whatever it gets.
Passed(answer) ==
    [data |-> IF answer \in {"good", "garbled"} THEN answer ELSE "none",
     error |-> answer \notin {"good", "garbled"}]

FetchData ==
    /\ handler = Free
    /\ sessionQueue # <<>>
    /\ LET answered == Head(sessionQueue)
           passed == Passed(answered.answer)
       IN handler' = [step |-> "report", call |-> answered.call,
                      data |-> passed.data, error |-> passed.error]
    /\ sessionQueue' = Tail(sessionQueue)
    /\ UNCHANGED <<progress, stored, completions>>

-----------------------------------------------------------------------------
\* The closure of a model controller, one statement at a time.

Complete(call, result) ==
    completions' = [completions EXCEPT ![call] = Append(@, result)]

\* if let error = error { completion(error) }: and no return.
ReportError ==
    /\ handler.step = "report"
    /\ IF handler.error THEN Complete(handler.call, "failed") ELSE UNCHANGED completions
    /\ handler' = [handler EXCEPT !.step = "guard"]
    /\ UNCHANGED <<progress, sessionQueue, stored>>

GuardData ==
    /\ handler.step = "guard"
    /\ handler' = IF handler.data = "none" THEN Free ELSE [handler EXCEPT !.step = "decode"]
    /\ UNCHANGED <<progress, sessionQueue, stored, completions>>

Decode ==
    /\ handler.step = "decode"
    /\ handler.data = "good"
    /\ stored' = stored \cup {handler.call}
    /\ handler' = [handler EXCEPT !.step = "complete"]
    /\ UNCHANGED <<progress, sessionQueue, completions>>

DecodeFails ==
    /\ handler.step = "decode"
    /\ handler.data = "garbled"
    /\ Complete(handler.call, "failed")
    /\ handler' = Free
    /\ UNCHANGED <<progress, sessionQueue, stored>>

Succeed ==
    /\ handler.step = "complete"
    /\ Complete(handler.call, "succeeded")
    /\ handler' = Free
    /\ UNCHANGED <<progress, sessionQueue, stored>>

Closure == ReportError \/ GuardData \/ Decode \/ DecodeFails \/ Succeed

-----------------------------------------------------------------------------
Next ==
    \/ \E call \in Calls : Fetch(call)
    \/ \E call \in Calls, answer \in Answers : Deliver(call, answer)
    \/ FetchData
    \/ Closure

Spec == Init /\ [][Next]_vars

\* URLSession answers or times out, and its queue runs.
Fairness ==
    /\ \A call \in Calls : WF_vars(\E answer \in Answers : Deliver(call, answer))
    /\ WF_vars(FetchData)
    /\ WF_vars(Closure)

FairSpec == Spec /\ Fairness

-----------------------------------------------------------------------------
\* Properties.

\* The variables' types.
TypeOK ==
    /\ progress \in [Calls -> {"idle", "sent", "answered"}]
    /\ sessionQueue \in Seq([call : Calls, answer : Answers])
    /\ handler \in Handlers \cup {Free}
    /\ stored \subseteq Calls
    /\ completions \in [Calls -> Seq({"succeeded", "failed"})]

Outcome(call) ==
    CASE completions[call] = <<>> -> IF progress[call] = "idle" THEN "none" ELSE "waiting"
      [] Len(completions[call]) = 1 -> completions[call][1]
      [] OTHER -> "again"

Promise == INSTANCE OneShot WITH outcome <- [call \in Calls |-> Outcome(call)]

(* DataGetter and the closure, which does not return after it reported an error,
   together keep the promise: one completion a call at most, a success only with
   the answer stored before it, a failure only with nothing stored. *)
KeepsPromise == Promise!Spec

(* No branch of the two forgets its caller: a call that was made is completed,
   whatever the server answers. *)
EveryCallCompletes ==
    \A call \in Calls : (progress[call] # "idle") ~> (completions[call] # <<>>)

=============================================================================
