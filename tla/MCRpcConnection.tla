-------------------------- MODULE MCRpcConnection --------------------------
(* A few callers and closers on pipes that hold one frame.                 *)
EXTENDS RpcConnection, FiniteSets, TLC

Symmetry == Permutations(Callers) \cup Permutations(Closers)

\* Bound: how much the threads start between them, a shutdown that asks the
\* server counting twice.
Workload ==
    nextId + notes + Cardinality({t \in Closers : pc[t] # "idle"}) <= 5

\* A server that goes away is noticed, and every request returns to its caller,
\* as long as the server reads its stdin (connection.rs read_loop, client.rs
\* request_within).
CallersReturn == GoneIsNoticed /\ RequestsReturn

\* Then `shutdown` returns too, and has ended the server (shutdown.rs).
ShutdownsEnd == ShutdownEndsServer /\ ShutdownReturns
=============================================================================
