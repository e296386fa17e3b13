------------------------------ MODULE TaskRun ------------------------------
(***************************************************************************)
(* One task (crates/substrate-run-app/src/streaming.rs): the thread that   *)
(* polls the child and kills it on a cancel, the two reader threads that   *)
(* stream its output into the log, the grace period that bounds the wait   *)
(* for them, and the Completion other threads wait on.  `run_streamed`     *)
(* (a workflow's step) runs the same code on its caller's thread.          *)
(*                                                                         *)
(* The child writes lines, starts a descendant that inherits its output    *)
(* pipes and ends as it likes.  Time is abstract: a grace period may run   *)
(* out whenever the readers are not done.                                  *)
(***************************************************************************)
EXTENDS Naturals, Sequences

CONSTANTS
    Waiters,  \* threads blocked in TaskHandle::wait
    MaxLines  \* bound: lines written to the two streams

ASSUME MaxLinesAssumption == MaxLines \in Nat

Streams == {"stdout", "stderr"}

VARIABLES
    cancel,      \* the handle's cancel flag
    child,       \* "running", or how it ended
    descendant,  \* a process the child left holding its pipes
    written,     \* lines written to each pipe
    bad,         \* the first line of each pipe that is not UTF-8, or 0
    taken,       \* lines each reader has read
    reader,      \* where each reader thread is
    log,         \* the sink: lines and the exit line, in order
    pc,          \* where the task's thread is
    status,      \* what try_wait returned, "none" so far
    cancelled,   \* the thread has killed the child for a cancel
    late,        \* the grace period ran out
    exit,        \* the Completion's value
    waiter       \* where each waiting thread is

outputVars == <<written, bad, taken, reader>>
processVars == <<child, descendant>>
threadVars == <<pc, status, cancelled, late>>
handleVars == <<cancel, exit, waiter>>
vars == <<cancel, child, descendant, written, bad, taken, reader, log, pc,
          status, cancelled, late, exit, waiter>>

Ends == {"success", "failure", "killed"}
ExitLine == [stream |-> "exit", line |-> 0]
Lines == [stream : Streams, line : 1..MaxLines]

TypeOK ==
    /\ cancel \in BOOLEAN
    /\ child \in Ends \cup {"running"}
    /\ descendant \in {"none", "grouped", "detached", "gone"}
    /\ written \in [Streams -> 0..MaxLines]
    /\ bad \in [Streams -> 0..MaxLines]
    /\ taken \in [Streams -> 0..MaxLines]
    /\ \A st \in Streams : taken[st] <= written[st]
    /\ reader \in [Streams -> {"reading", "pushing", "done"}]
    /\ log \in Seq(Lines \cup {ExitLine})
    /\ pc \in {"poll", "check", "kill", "drain", "report", "set", "notify",
               "done"}
    /\ status \in Ends \cup {"none", "error"}
    /\ cancelled \in BOOLEAN
    /\ late \in BOOLEAN
    /\ exit \in {"none", "success", "failure", "cancelled"}
    /\ waiter \in [Waiters -> {"looking", "blocked", "returned"}]

\* The child has just been launched, its readers and its thread started.
Init ==
    /\ cancel = FALSE
    /\ child = "running"
    /\ descendant = "none"
    /\ written = [st \in Streams |-> 0]
    /\ bad = [st \in Streams |-> 0]
    /\ taken = [st \in Streams |-> 0]
    /\ reader = [st \in Streams |-> "reading"]
    /\ log = <<>>
    /\ pc = "poll"
    /\ status = "none"
    /\ cancelled = FALSE
    /\ late = FALSE
    /\ exit = "none"
    /\ waiter = [w \in Waiters |-> "looking"]

-----------------------------------------------------------------------------
(* The child and what it leaves behind.                                    *)

\* Somebody holds the writing ends of the pipes.
PipesHeld == child = "running" \/ descendant \in {"grouped", "detached"}

WriteLine(st) ==
    /\ PipesHeld
    /\ written["stdout"] + written["stderr"] < MaxLines
    /\ written' = [written EXCEPT ![st] = @ + 1]
    /\ \/ UNCHANGED bad
       \/ bad[st] = 0 /\ bad' = [bad EXCEPT ![st] = written[st] + 1]
    /\ UNCHANGED <<processVars, taken, reader, log, threadVars, handleVars>>

\* A descendant in the child's process group, or one that left it.
StartDescendant ==
    /\ child = "running"
    /\ descendant = "none"
    /\ descendant' \in {"grouped", "detached"}
    /\ UNCHANGED <<child, outputVars, log, threadVars, handleVars>>

EndDescendant ==
    /\ descendant \in {"grouped", "detached"}
    /\ descendant' = "gone"
    /\ UNCHANGED <<child, outputVars, log, threadVars, handleVars>>

EndChild ==
    /\ child = "running"
    /\ child' \in {"success", "failure"}
    /\ UNCHANGED <<descendant, outputVars, log, threadVars, handleVars>>

-----------------------------------------------------------------------------
(* The reader threads.                                                     *)

\* The next whole line; a mutant that reads on past the end.
ReadLine_PastEnd(st) ==
    /\ reader[st] = "reading"
    /\ taken[st] <= written[st]
    /\ taken[st] + 1 # bad[st]
    /\ taken' = [taken EXCEPT ![st] = @ + 1]
    /\ reader' = [reader EXCEPT ![st] = "pushing"]
    /\ UNCHANGED <<processVars, written, bad, log, threadVars, handleVars>>
ReadLine(st) ==
    /\ reader[st] = "reading"
    /\ taken[st] < written[st]
    /\ taken[st] + 1 # bad[st]
    /\ taken' = [taken EXCEPT ![st] = @ + 1]
    /\ reader' = [reader EXCEPT ![st] = "pushing"]
    /\ UNCHANGED <<processVars, written, bad, log, threadVars, handleVars>>

\* `push` calls the sink's callback on this thread.
PushLine(st) ==
    /\ reader[st] = "pushing"
    /\ log' = Append(log, [stream |-> st, line |-> taken[st]])
    /\ reader' = [reader EXCEPT ![st] = "reading"]
    /\ UNCHANGED <<processVars, written, bad, taken, threadVars, handleVars>>

\* The end of the stream, or a line that is not UTF-8: the thread ends.
ReadEnd(st) ==
    /\ reader[st] = "reading"
    /\ \/ taken[st] = written[st] /\ ~PipesHeld
       \/ taken[st] < written[st] /\ taken[st] + 1 = bad[st]
    /\ reader' = [reader EXCEPT ![st] = "done"]
    /\ UNCHANGED <<processVars, written, bad, taken, log, threadVars, handleVars>>

ReadersDone == \A st \in Streams : reader[st] = "done"

-----------------------------------------------------------------------------
(* The task's thread: wait_or_kill, then finish_streamed, then the exit.   *)

TryWait ==
    /\ pc = "poll"
    /\ IF child = "running"
       THEN pc' = "check" /\ UNCHANGED status
       ELSE pc' = "drain" /\ status' = child
    /\ UNCHANGED <<processVars, outputVars, log, cancelled, late, handleVars>>

TryWaitFails ==
    /\ pc = "poll"
    /\ pc' = "drain"
    /\ status' = "error"
    /\ UNCHANGED <<processVars, outputVars, log, cancelled, late, handleVars>>

\* The load of the flag; a mutant that never looks at it.
LoadCancel_Never ==
    /\ pc = "check"
    /\ pc' = "poll"
    /\ UNCHANGED <<processVars, outputVars, log, status, cancelled, late,
                   handleVars>>
LoadCancel ==
    /\ pc = "check"
    /\ pc' = IF ~cancelled /\ cancel THEN "kill" ELSE "poll"
    /\ cancelled' = (cancelled \/ cancel)
    /\ UNCHANGED <<processVars, outputVars, log, status, late, handleVars>>

\* kill_tree: the child and what is still in its group; a mutant that does
\* not wait for the child it killed.
KillTree_NoWait ==
    /\ pc = "kill"
    /\ pc' = "drain"
    /\ UNCHANGED <<processVars, outputVars, log, status, cancelled, late,
                   handleVars>>
KillTree ==
    /\ pc = "kill"
    /\ pc' = "poll"
    /\ child' = IF child = "running" THEN "killed" ELSE child
    /\ descendant' = IF descendant = "grouped" THEN "gone" ELSE descendant
    /\ UNCHANGED <<outputVars, log, status, cancelled, late, handleVars>>

\* recv_timeout on the readers' channel: disconnected, or the grace is over.
\* Mutants that do not wait, and that wait without a limit.
Drain_NoWait ==
    /\ pc = "drain"
    /\ pc' = "report"
    /\ UNCHANGED <<processVars, outputVars, log, status, cancelled, late,
                   handleVars>>
Drain_NoGrace ==
    /\ pc = "drain"
    /\ ReadersDone
    /\ pc' = "report"
    /\ UNCHANGED <<processVars, outputVars, log, status, cancelled, late,
                   handleVars>>
Drain ==
    /\ pc = "drain"
    /\ pc' = "report"
    /\ late' = ~ReadersDone
    /\ UNCHANGED <<processVars, outputVars, log, status, cancelled, handleVars>>

Report ==
    /\ pc = "report"
    /\ pc' = "set"
    /\ log' = Append(log, ExitLine)
    /\ UNCHANGED <<processVars, outputVars, status, cancelled, late, handleVars>>

\* The exit: how the process ended, unless the thread killed it.  A mutant
\* that takes every process that did not succeed for a killed one.
ExitOf_Guess == IF status = "success" THEN "success" ELSE "cancelled"
ExitOf ==
    IF cancelled THEN "cancelled"
    ELSE IF status = "success" THEN "success" ELSE "failure"

SetExit ==
    /\ pc = "set"
    /\ pc' = "notify"
    /\ exit' = ExitOf
    /\ UNCHANGED <<processVars, outputVars, log, status, cancelled, late, cancel,
                   waiter>>

\* notify_all; a mutant that wakes one waiter.
Notify_One ==
    /\ pc = "notify"
    /\ pc' = "done"
    /\ \/ \E w \in Waiters :
            waiter[w] = "blocked" /\ waiter' = [waiter EXCEPT ![w] = "looking"]
       \/ (\A w \in Waiters : waiter[w] # "blocked") /\ UNCHANGED waiter
    /\ UNCHANGED <<processVars, outputVars, log, status, cancelled, late, cancel,
                   exit>>
Notify ==
    /\ pc = "notify"
    /\ pc' = "done"
    /\ waiter' = [w \in Waiters |->
                    IF waiter[w] = "blocked" THEN "looking" ELSE waiter[w]]
    /\ UNCHANGED <<processVars, outputVars, log, status, cancelled, late, cancel,
                   exit>>

-----------------------------------------------------------------------------
(* The handle.                                                             *)

Cancel ==
    /\ ~cancel
    /\ cancel' = TRUE
    /\ UNCHANGED <<processVars, outputVars, log, threadVars, exit, waiter>>

\* Completion::wait under its lock: the value is there, or the thread blocks
\* on the condition variable as it lets the lock go.
Wait(w) ==
    /\ waiter[w] = "looking"
    /\ waiter' = [waiter EXCEPT ![w] =
                    IF exit = "none" THEN "blocked" ELSE "returned"]
    /\ UNCHANGED <<processVars, outputVars, log, threadVars, cancel, exit>>

\* A wakeup nobody asked for.
WakeSpuriously(w) ==
    /\ waiter[w] = "blocked"
    /\ waiter' = [waiter EXCEPT ![w] = "looking"]
    /\ UNCHANGED <<processVars, outputVars, log, threadVars, cancel, exit>>

\* The task is over and everybody knows.
Finished ==
    /\ pc = "done"
    /\ ReadersDone
    /\ \A w \in Waiters : waiter[w] = "returned"
    /\ UNCHANGED vars

TaskThread ==
    TryWait \/ LoadCancel \/ KillTree \/ Drain \/ Report \/ SetExit \/ Notify
ReaderThread(st) == ReadLine(st) \/ PushLine(st) \/ ReadEnd(st)

Next ==
    \/ TaskThread \/ TryWaitFails
    \/ \E st \in Streams : ReaderThread(st) \/ WriteLine(st)
    \/ StartDescendant \/ EndDescendant \/ EndChild
    \/ Cancel
    \/ \E w \in Waiters : Wait(w) \/ WakeSpuriously(w)
    \/ Finished

Spec == Init /\ [][Next]_vars

\* The program's threads are scheduled.  The child need not end, nor its
\* descendant, and nobody has to cancel.
FairSpec ==
    /\ Spec
    /\ WF_vars(TaskThread)
    /\ \A st \in Streams : WF_vars(ReaderThread(st))
    /\ \A w \in Waiters : WF_vars(Wait(w))

-----------------------------------------------------------------------------
(* Properties.                                                             *)

\* The line a reader holds and has not pushed yet is not in the log.
Pushed(st) == IF reader[st] = "pushing" THEN taken[st] - 1 ELSE taken[st]

\* Each stream's lines are in the log in the order they were written, none
\* skipped and none twice, and none is left behind when its reader is done:
\* `spawn` streams the output "line-by-line ... as they arrive".  The exit line
\* comes once and is the last one, "strictly after every output line", unless
\* the grace period ran out with a reader still reading.
LogInOrder ==
    /\ \A st \in Streams, n \in 1..MaxLines :
          n <= Pushed(st) <=> \E i \in 1..Len(log) : log[i] = [stream |-> st, line |-> n]
    /\ \A i, j \in 1..Len(log) :
          i < j /\ log[i].stream = log[j].stream => log[i].line < log[j].line
    /\ \A st \in Streams :
          reader[st] = "done" /\ bad[st] = 0 => taken[st] = written[st] /\ ~PipesHeld
    /\ \A i \in 1..Len(log) : log[i] = ExitLine /\ ~late => i = Len(log)

\* Each stream's lines are in the log in order and whole, with the exit line
\* last (spawn, forward_lines, LogSink).
LogIsWhole == TypeOK /\ LogInOrder

\* The exit tells the truth: the process is over (unless waiting for it
\* failed), a success was one, a process the thread killed is reported as
\* cancelled, and nothing is reported as cancelled that nobody cancelled.
ExitIsTrue ==
    exit # "none" =>
        /\ status # "error" => child # "running"
        /\ exit = "success" => child = "success"
        /\ child = "killed" => exit = "cancelled"
        /\ exit = "cancelled" => cancel

\* A task's handle keeps its promise.
Promise == INSTANCE TaskPromise
PromiseKept == Promise!Spec

\* What must come to an end and how it ends: a task whose child ended, whatever
\* a descendant does with its pipes, one that was cancelled, whatever its child
\* does, and a value that was set while threads wait for it.
MustEnd == child # "running" \/ cancel \/ exit # "none"
EveryoneKnows == exit # "none" /\ \A w \in Waiters : waiter[w] = "returned"
EndsForAll == MustEnd ~> EveryoneKnows

-----------------------------------------------------------------------------
(* What the documentation says and the code does not do.                   *)

\* "stdout/stderr are streamed line-by-line into `sink` as they arrive"
\* (spawn): a reader is done only when it has streamed everything.
EverythingStreamed ==
    \A st \in Streams : reader[st] = "done" => taken[st] = written[st]

=============================================================================
