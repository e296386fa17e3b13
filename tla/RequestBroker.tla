--------------------------- MODULE RequestBroker ---------------------------
(***************************************************************************)
(* What a client of a language server or debug adapter promises whoever    *)
(* calls it (the doc comments of `Client::request`): each request gets a   *)
(* number nobody else's has, and ends once, with the server's answer to    *)
(* that number, or because its time was up, or because the server is no    *)
(* longer there.                                                           *)
(***************************************************************************)
EXTENDS Naturals

CONSTANT Users  \* the threads that make requests

VARIABLES
    ticket,    \* the number of each user's last request, 0 before the first
    open,      \* whether it is still waited for
    answered,  \* the numbers the server has answered
    closed,    \* whether the connection is over
    result     \* how each user's last request ended

vars == <<ticket, open, answered, closed, result>>

Init ==
    /\ ticket = [u \in Users |-> 0]
    /\ open = [u \in Users |-> FALSE]
    /\ answered = {}
    /\ closed = FALSE
    /\ result = [u \in Users |-> "none"]

\* The number is new: no user has it, or ever had it.
Ask(u) ==
    /\ ~open[u]
    /\ open' = [open EXCEPT ![u] = TRUE]
    /\ ticket'[u] \in Nat
    /\ \A v \in Users : ticket[v] < ticket'[u]
    /\ ticket' = [ticket EXCEPT ![u] = ticket'[u]]
    /\ result' = [result EXCEPT ![u] = "none"]
    /\ UNCHANGED <<answered, closed>>

\* Only what was asked is answered, by whoever it was asked.
Answer ==
    /\ answered \subseteq answered'
    /\ \A n \in answered' \ answered : \E u \in Users : n <= ticket[u]
    /\ UNCHANGED <<ticket, open, closed, result>>

Close ==
    /\ closed' = TRUE
    /\ UNCHANGED <<ticket, open, answered, result>>

End(u, how) ==
    /\ open[u]
    /\ open' = [open EXCEPT ![u] = FALSE]
    /\ how = "reply" => ticket[u] \in answered
    /\ how \in {"stopped", "failed"} => closed
    /\ result' = [result EXCEPT ![u] = how]
    /\ UNCHANGED <<ticket, answered, closed>>

Next ==
    \/ \E u \in Users : Ask(u)
    \/ Answer
    \/ Close
    \/ \E u \in Users, how \in {"reply", "timed_out", "stopped", "failed"} :
          End(u, how)

Spec == Init /\ [][Next]_vars

=============================================================================
