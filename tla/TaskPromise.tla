---------------------------- MODULE TaskPromise ----------------------------
(***************************************************************************)
(* What a started task promises whoever holds its TaskHandle               *)
(* (crates/substrate-run-app/src/task_handle.rs): it can be cancelled at   *)
(* any time and any number of times, it ends once, it says it was          *)
(* cancelled only if somebody asked for it, and a cancel that comes after  *)
(* the end changes nothing.                                                *)
(***************************************************************************)
VARIABLES
    cancel,  \* somebody called `cancel`
    exit     \* how the task ended, "none" while it runs

vars == <<cancel, exit>>

Init ==
    /\ cancel = FALSE
    /\ exit = "none"

Cancel ==
    /\ cancel' = TRUE
    /\ UNCHANGED exit

End ==
    /\ exit = "none"
    /\ \/ exit' \in {"success", "failure"}
       \/ cancel /\ exit' = "cancelled"
    /\ UNCHANGED cancel

Next == Cancel \/ End

\* A task somebody cancelled ends, whatever its process does.
Spec == Init /\ [][Next]_vars
FairSpec == Spec /\ WF_vars(cancel /\ End)

=============================================================================
