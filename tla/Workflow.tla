------------------------------ MODULE Workflow ------------------------------
(***************************************************************************)
(* A workflow run (crates/substrate-run-app/src/workflow/runner.rs): one   *)
(* thread runs the named workflow's steps in order, a step being a command *)
(* or another workflow whose steps run in its place, and stops at the      *)
(* first failure; `cancel` may come at any moment.  The recursion of       *)
(* `run_named` is a stack of frames, its `chain` the names on it.          *)
(*                                                                         *)
(* A command that was started behaves as TaskPromise says a task does;     *)
(* TaskRun is shown to keep that promise.                                  *)
(***************************************************************************)
EXTENDS Naturals, Sequences

CONSTANTS
    Names,        \* the names steps may compose, defined or not
    Main,         \* the workflow that is run
    Commands,     \* the commands steps may run
    MaxSteps      \* bound: steps of each workflow

RunStep(c) == [kind |-> "run", of |-> c]
ComposeStep(n) == [kind |-> "compose", of |-> n]
Steps == {RunStep(c) : c \in Commands} \cup {ComposeStep(n) : n \in Names}
Definitions(n) == UNION {[1..k -> Steps] : k \in 0..MaxSteps[n]}

WorkflowAssumption == Main \in Names /\ MaxSteps \in [Names -> Nat]

VARIABLES
    file,     \* the steps of each name the file defines
    cancel,   \* the handle's cancel flag
    pc,       \* where the run's thread is
    stack,    \* the frames of run_named: the name and the next step's number
    ok,       \* what the call that just returned said
    launched, \* the commands launched, in order
    failed,   \* a step failed
    result,   \* the Completion's value
    heard     \* history: commands launched when cancel was called

vars == <<file, cancel, pc, stack, ok, launched, failed, result, heard>>

Frame(n, i) == [name |-> n, next |-> i]
Top == stack[Len(stack)]
Chain == {stack[i].name : i \in 1..Len(stack)}
StepsOf(n) == file[n]

TypeOK ==
    /\ DOMAIN file \subseteq Names
    /\ \A n \in DOMAIN file : file[n] \in Seq(Steps)
    /\ cancel \in BOOLEAN
    /\ pc \in {"call", "step", "start", "running", "return", "judge", "done"}
    /\ \A i \in 1..Len(stack) :
          stack[i].name \in Names /\ stack[i].next \in 1..(MaxSteps[stack[i].name] + 1)
    /\ ok \in BOOLEAN
    /\ launched \in Seq(Commands)
    /\ failed \in BOOLEAN
    /\ result \in {"none", "succeeded", "failed", "cancelled"}
    /\ heard \in Nat

\* Any file at all: names it does not define, workflows that compose
\* themselves, empty ones.
Init ==
    /\ \E D \in SUBSET Names :
          file \in {f \in [D -> UNION {Definitions(n) : n \in D}] : \A n \in D : f[n] \in Definitions(n)}
    /\ cancel = FALSE
    /\ pc = "call"
    /\ stack = <<>>
    /\ ok = TRUE
    /\ launched = <<>>
    /\ failed = FALSE
    /\ result = "none"
    /\ heard = 0

-----------------------------------------------------------------------------
(* run_named and run_step.                                                 *)

\* The name `run_named` is called with: the run's, or the current step's.
Called == IF stack = <<>> THEN Main ELSE StepsOf(Top.name)[Top.next].of

\* A cycle or a missing workflow fails the call; a mutant without the test
\* for cycles, and one that only looks at the caller.
Call_Cycles ==
    /\ pc = "call"
    /\ IF Called \notin DOMAIN file
       THEN /\ pc' = "return" /\ ok' = FALSE /\ failed' = TRUE
            /\ UNCHANGED stack
       ELSE /\ stack' = Append(stack, Frame(Called, 1))
            /\ pc' = "step"
            /\ UNCHANGED <<ok, failed>>
    /\ UNCHANGED <<file, cancel, launched, result, heard>>
Call ==
    /\ pc = "call"
    /\ IF Called \in Chain \/ Called \notin DOMAIN file
       THEN /\ pc' = "return" /\ ok' = FALSE /\ failed' = TRUE
            /\ UNCHANGED stack
       ELSE /\ stack' = Append(stack, Frame(Called, 1))
            /\ pc' = "step"
            /\ UNCHANGED <<ok, failed>>
    /\ UNCHANGED <<file, cancel, launched, result, heard>>

Pop == stack' = SubSeq(stack, 1, Len(stack) - 1)

\* The next step, if there is one and nobody has cancelled; the call returns
\* otherwise.  The mutant waits while it is set.
NextStep_Pauses ==
    /\ pc = "step"
    /\ IF Top.next > Len(StepsOf(Top.name))
       THEN pc' = "return" /\ ok' = TRUE /\ Pop
       ELSE IF cancel
       THEN UNCHANGED <<pc, stack, ok>>
       ELSE /\ pc' = IF StepsOf(Top.name)[Top.next].kind = "run"
                     THEN "start" ELSE "call"
            /\ UNCHANGED <<stack, ok>>
    /\ UNCHANGED <<file, cancel, launched, failed, result, heard>>
NextStep ==
    /\ pc = "step"
    /\ IF Top.next > Len(StepsOf(Top.name))
       THEN pc' = "return" /\ ok' = TRUE /\ Pop
       ELSE IF cancel
       THEN pc' = "return" /\ ok' = FALSE /\ Pop
       ELSE /\ pc' = IF StepsOf(Top.name)[Top.next].kind = "run"
                     THEN "start" ELSE "call"
            /\ UNCHANGED <<stack, ok>>
    /\ UNCHANGED <<file, cancel, launched, failed, result, heard>>

\* run_streamed launches the command, or cannot.
Start ==
    /\ pc = "start"
    /\ pc' = "running"
    /\ launched' = Append(launched, Called)
    /\ UNCHANGED <<file, cancel, stack, ok, failed, result, heard>>

StartFails ==
    /\ pc = "start"
    /\ pc' = "return"
    /\ ok' = FALSE
    /\ failed' = TRUE
    /\ UNCHANGED <<file, cancel, stack, launched, result, heard>>

\* The command ends: by itself, or cancelled if somebody asked for it.
EndStep ==
    /\ pc = "running"
    /\ pc' = "return"
    /\ \/ ok' = TRUE /\ UNCHANGED failed
       \/ ok' = FALSE /\ failed' = TRUE
       \/ cancel /\ ok' = FALSE /\ UNCHANGED failed
    /\ UNCHANGED <<file, cancel, stack, launched, result, heard>>

\* `all` goes on to the next step after a success; after a failure the call
\* returns it too.  The mutant goes on.
Return_GoesOn ==
    /\ pc = "return"
    /\ IF stack = <<>>
       THEN pc' = "judge" /\ UNCHANGED stack
       ELSE /\ stack' = [stack EXCEPT ![Len(stack)].next = @ + 1]
            /\ pc' = "step"
    /\ UNCHANGED <<file, cancel, ok, launched, failed, result, heard>>
Return ==
    /\ pc = "return"
    /\ IF stack = <<>>
       THEN pc' = "judge" /\ UNCHANGED stack
       ELSE IF ok
       THEN /\ stack' = [stack EXCEPT ![Len(stack)].next = @ + 1]
            /\ pc' = "step"
       ELSE pc' = "return" /\ Pop
    /\ UNCHANGED <<file, cancel, ok, launched, failed, result, heard>>

\* The outcome: the flag first, then how run_named ended.  A mutant that
\* asks only how the last call ended.
Judge_Forgets ==
    /\ pc = "judge"
    /\ pc' = "done"
    /\ result' = IF ok THEN "succeeded" ELSE "failed"
    /\ UNCHANGED <<file, cancel, stack, ok, launched, failed, heard>>
Judge ==
    /\ pc = "judge"
    /\ pc' = "done"
    /\ result' = IF cancel THEN "cancelled"
                 ELSE IF ok THEN "succeeded" ELSE "failed"
    /\ UNCHANGED <<file, cancel, stack, ok, launched, failed, heard>>

Cancel ==
    /\ ~cancel
    /\ cancel' = TRUE
    /\ heard' = Len(launched)
    /\ UNCHANGED <<file, pc, stack, ok, launched, failed, result>>

Finished ==
    /\ pc = "done"
    /\ UNCHANGED vars

RunThread == Call \/ NextStep \/ Start \/ Return \/ Judge

Next ==
    RunThread \/ StartFails \/ EndStep \/ Cancel \/ Finished

Spec == Init /\ [][Next]_vars

\* The run's thread is scheduled, and a command that was cancelled ends
\* (TaskRun's CancelEnds); one that was not may run for ever.
CancelledEnds == cancel /\ EndStep
FairSpec ==
    /\ Spec
    /\ WF_vars(RunThread)
    /\ WF_vars(CancelledEnds)

-----------------------------------------------------------------------------
(* Properties.                                                             *)

\* What the documentation of Step::Compose says of a workflow: "its steps are
\* inlined in place, recursively".  The commands of `steps` with `open` the
\* workflows being inlined, up to where the run must fail: at a missing
\* workflow or one that composes itself.
RECURSIVE Inlined(_, _)
Inlined(steps, open) ==
    IF steps = <<>> THEN [commands |-> <<>>, whole |-> TRUE]
    ELSE LET s == Head(steps)
             first ==
                IF s.kind = "run" THEN [commands |-> <<s.of>>, whole |-> TRUE]
                ELSE IF s.of \in open \/ s.of \notin DOMAIN file
                THEN [commands |-> <<>>, whole |-> FALSE]
                ELSE Inlined(file[s.of], open \cup {s.of})
             rest == Inlined(Tail(steps), open)
         IN IF first.whole
            THEN [commands |-> first.commands \o rest.commands,
                  whole |-> rest.whole]
            ELSE first
Plan == Inlined(<<ComposeStep(Main)>>, {})

\* The commands run are a prefix of the workflow with everything it composes
\* inlined, in that order.
RunsThePlan ==
    /\ Len(launched) <= Len(Plan.commands)
    /\ launched = SubSeq(Plan.commands, 1, Len(launched))

\* The outcome is the truth: a run succeeds only if the whole plan ran and
\* nothing failed, one that was not cancelled fails only because something
\* did, and one is cancelled only by the user.
OutcomeIsTrue ==
    /\ result = "succeeded" =>
           Plan.whole /\ launched = Plan.commands /\ ~failed
    /\ result = "failed" => failed
    /\ result = "cancelled" => cancel

\* After the first failure, in whatever workflow, nothing more is launched,
\* and after `cancel` at most the command that was about to be.
FailureStops == failed => launched' = launched
CancelStops == cancel => Len(launched) <= heard + 1

\* A run that is cancelled ends; and between two commands a run never works
\* forever, whatever composes what.
MustGoOn == pc = "call" \/ cancel
HasGoneOn == result # "none" \/ (pc \in {"running", "done"} /\ ~cancel)

=============================================================================
