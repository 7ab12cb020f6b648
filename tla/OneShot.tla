------------------------------ MODULE OneShot ------------------------------
(***************************************************************************)
(* What the model controllers promise the screens that call them: every    *)
(* call gets exactly one completion, and one without an error comes after  *)
(* the decoded answer is stored.  WatchList and SearchScreen rest on it:   *)
(* an answer is one step there.                                            *)
(***************************************************************************)
CONSTANT Calls

VARIABLES
    outcome,    \* call -> "none", "waiting", "succeeded" or "failed"
    stored      \* the calls whose answer the model controller holds

vars == <<outcome, stored>>

Init ==
    /\ outcome = [call \in Calls |-> "none"]
    /\ stored = {}

Start(call) ==
    /\ outcome[call] = "none"
    /\ outcome' = [outcome EXCEPT ![call] = "waiting"]
    /\ UNCHANGED stored

Store(call) ==
    /\ outcome[call] = "waiting"
    /\ stored' = stored \cup {call}
    /\ UNCHANGED outcome

Succeed(call) ==
    /\ outcome[call] = "waiting"
    /\ call \in stored
    /\ outcome' = [outcome EXCEPT ![call] = "succeeded"]
    /\ UNCHANGED stored

Fail(call) ==
    /\ outcome[call] = "waiting"
    /\ call \notin stored
    /\ outcome' = [outcome EXCEPT ![call] = "failed"]
    /\ UNCHANGED stored

Complete(call) == Store(call) \/ Succeed(call) \/ Fail(call)

Next == \E call \in Calls : Start(call) \/ Complete(call)

Spec == Init /\ [][Next]_vars

=============================================================================
