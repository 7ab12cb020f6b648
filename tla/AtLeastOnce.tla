---------------------------- MODULE AtLeastOnce ----------------------------
(***************************************************************************)
(* What the database promises to a program that writes to a location: the  *)
(* server may store a write more than once, but only until the program has *)
(* its answer or that of a later write; "ok" is said of stored writes.     *)
(***************************************************************************)
EXTENDS Naturals, Sequences

CONSTANTS
    Writes,     \* the program's writes, numbered in the order it makes them
    Others      \* the values other devices write

VARIABLES
    status,     \* write -> "new", "pending", "ok" or "refused"
    history     \* the values the location has had, the writes among them

vars == <<status, history>>

Init ==
    /\ status = [w \in Writes |-> "new"]
    /\ history = <<0>>

Issue(w) ==
    /\ status[w] = "new"
    /\ \A v \in Writes : v < w => status[v] # "new"
    /\ status' = [status EXCEPT ![w] = "pending"]
    /\ UNCHANGED history

Store(w) ==
    /\ status[w] = "pending"
    /\ \A v \in Writes : v > w => status[v] \in {"new", "pending"}
    /\ history' = Append(history, w)
    /\ UNCHANGED status

StoreForeign ==
    /\ \E value \in Others : history' = Append(history, value)
    /\ UNCHANGED status

\* The answers to several writes may come at once.
Answer ==
    /\ \E S \in SUBSET {w \in Writes : status[w] = "pending"}, a \in [Writes -> {"ok", "refused"}] :
        /\ \A w \in S : a[w] = "ok" => \E i \in DOMAIN history : history[i] = w
        /\ status' = [w \in Writes |-> IF w \in S THEN a[w] ELSE status[w]]
    /\ UNCHANGED history

Next == Answer \/ StoreForeign \/ \E w \in Writes : Issue(w) \/ Store(w)

Spec == Init /\ [][Next]_vars

=============================================================================
