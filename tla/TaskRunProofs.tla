---------------------------- MODULE TaskRunProofs ----------------------------
(***************************************************************************)
(* Theorems of TaskRun, for any number of waiters and of lines: the log is *)
(* whole and in order, the exit tells the truth, and the handle keeps      *)
(* TaskPromise.                                                            *)
(***************************************************************************)
EXTENDS TaskRun, Integers, TLAPS

\* The steps of the next-state relation, as the proofs split on them.
LEMMA StepCases ==
    ASSUME [Next]_vars
    PROVE  \/ TryWait \/ TryWaitFails \/ LoadCancel \/ KillTree \/ Drain
           \/ Report \/ SetExit \/ Notify \/ Cancel
           \/ \E st \in Streams : \/ WriteLine(st) \/ ReadLine(st)
                                  \/ PushLine(st) \/ ReadEnd(st)
           \/ StartDescendant \/ EndDescendant \/ EndChild
           \/ \E w \in Waiters : Wait(w) \/ WakeSpuriously(w)
           \/ UNCHANGED vars
BY Zenon DEF Next, TaskThread, ReaderThread, Finished

-----------------------------------------------------------------------------
(* Types.                                                                  *)

\* A reader holds a line while it pushes it.
Holding == \A st \in Streams : reader[st] = "pushing" => taken[st] > 0

\* Every variable keeps its type, and a reader reads no more than was written.
LEMMA StepTypes ==
    ASSUME TypeOK, Holding, [Next]_vars
    PROVE  TypeOK' /\ Holding'
<1> USE MaxLinesAssumption
       DEF TypeOK, Holding, outputVars, processVars, threadVars, handleVars
<1>1. CASE TryWait \/ TryWaitFails \/ LoadCancel \/ KillTree
    BY <1>1 DEF TryWait, TryWaitFails, LoadCancel, KillTree, Ends
<1>2. CASE Drain \/ SetExit
    BY <1>2 DEF Drain, SetExit, ExitOf
<1>3. CASE Report
    BY <1>3 DEF Report
<1>4. CASE Notify \/ Cancel
    BY ZenonT(60), <1>4 DEF Notify, Cancel
<1>5. ASSUME NEW st \in Streams, WriteLine(st) PROVE TypeOK' /\ Holding'
  <2>1. written[st] + 1 \in 0..MaxLines
    BY <1>5 DEF WriteLine, Streams
  <2>2. /\ written' = [written EXCEPT ![st] = written[st] + 1]
        /\ bad' = bad \/ bad' = [bad EXCEPT ![st] = written[st] + 1]
        /\ UNCHANGED <<processVars, taken, reader, log, threadVars, handleVars>>
    BY <1>5 DEF WriteLine
  <2>3. written' \in [Streams -> 0..MaxLines] /\ bad' \in [Streams -> 0..MaxLines]
    BY <2>1, <2>2
  <2>4. \A s \in Streams : written[s] <= written'[s]
    BY <2>2
  <2> QED
    BY <2>2, <2>3, <2>4
<1>6. ASSUME NEW st \in Streams, ReadLine(st) PROVE TypeOK' /\ Holding'
  <2>1. taken[st] + 1 \in 0..MaxLines /\ taken[st] + 1 <= written[st]
    BY <1>6 DEF ReadLine
  <2> QED
    BY <1>6, <2>1 DEF ReadLine
<1>7. ASSUME NEW st \in Streams, PushLine(st) PROVE TypeOK' /\ Holding'
  <2>1. [stream |-> st, line |-> taken[st]] \in Lines
    BY <1>7 DEF PushLine, Lines
  <2> QED
    BY <1>7, <2>1 DEF PushLine
<1>8. ASSUME NEW st \in Streams, ReadEnd(st) PROVE TypeOK' /\ Holding'
    BY <1>8 DEF ReadEnd
<1>9. CASE StartDescendant \/ EndDescendant \/ EndChild
    BY <1>9 DEF StartDescendant, EndDescendant, EndChild, Ends
<1>10. ASSUME NEW w \in Waiters, Wait(w) \/ WakeSpuriously(w)
       PROVE  TypeOK' /\ Holding'
  <2>1. waiter' \in [Waiters -> {"looking", "blocked", "returned"}]
    BY <1>10 DEF Wait, WakeSpuriously
  <2>2. UNCHANGED <<processVars, outputVars, log, threadVars, cancel, exit>>
    BY <1>10 DEF Wait, WakeSpuriously
  <2> QED
    BY <2>1, <2>2
<1>11. CASE UNCHANGED vars
    BY <1>11 DEF vars
<1> QED
    BY StepCases, <1>1, <1>2, <1>3, <1>4, <1>5, <1>6, <1>7, <1>8, <1>9, <1>10,
       <1>11

\* The variables keep their types, and the child and the log are held exactly
\* at the points where the code holds them.
THEOREM TypeCorrect == Spec => [](TypeOK /\ Holding)
<1>1. Init => TypeOK /\ Holding
  <2>1. 0 \in 0..MaxLines
    BY MaxLinesAssumption
  <2>2. ASSUME Init
        PROVE  /\ written \in [Streams -> 0..MaxLines]
               /\ bad \in [Streams -> 0..MaxLines]
               /\ taken \in [Streams -> 0..MaxLines]
               /\ \A st \in Streams : taken[st] <= written[st]
               /\ reader \in [Streams -> {"reading", "pushing", "done"}]
               /\ waiter \in [Waiters -> {"looking", "blocked", "returned"}]
               /\ log \in Seq(Lines \cup {ExitLine})
               /\ Holding
    BY <2>1, <2>2 DEF Init, Holding
  <2>3. Init => /\ cancel \in BOOLEAN /\ child \in Ends \cup {"running"}
                /\ descendant \in {"none", "grouped", "detached", "gone"}
                /\ pc \in {"poll", "check", "kill", "drain", "report", "set",
                           "notify", "done"}
                /\ status \in Ends \cup {"none", "error"}
                /\ cancelled \in BOOLEAN /\ late \in BOOLEAN
                /\ exit \in {"none", "success", "failure", "cancelled"}
    BY DEF Init
  <2> QED
    BY <2>2, <2>3 DEF TypeOK
<1> QED
    BY <1>1, StepTypes, PTL DEF Spec

-----------------------------------------------------------------------------
(* How it ends.                                                            *)

\* The thread's place says what it knows of the child, a child is killed only
\* for a cancel, and what is known of an ended child stays true.
Ending ==
    /\ status \in Ends => child = status
    /\ status = "none" <=> pc \in {"poll", "check", "kill"}
    /\ child = "killed" \/ pc = "kill" => cancelled
    /\ cancelled => cancel
    /\ IF pc \in {"notify", "done"} THEN exit = ExitOf ELSE exit = "none"

LEMMA EndingStep ==
    ASSUME TypeOK, Ending, [Next]_vars PROVE Ending'
<1> USE DEF TypeOK, Ending, ExitOf, Ends, outputVars, processVars, threadVars,
            handleVars
<1>1. CASE TryWait \/ TryWaitFails
    BY <1>1 DEF TryWait, TryWaitFails
<1>2. CASE LoadCancel
    BY <1>2 DEF LoadCancel
<1>3. CASE KillTree
    BY <1>3 DEF KillTree
<1>4. CASE Drain \/ Report \/ SetExit
    BY <1>4 DEF Drain, Report, SetExit
<1>5. CASE Notify \/ Cancel
    BY <1>5 DEF Notify, Cancel
<1>6. ASSUME NEW st \in Streams,
             WriteLine(st) \/ ReadLine(st) \/ PushLine(st) \/ ReadEnd(st)
      PROVE  Ending'
    BY <1>6 DEF WriteLine, ReadLine, PushLine, ReadEnd
<1>7. CASE StartDescendant \/ EndDescendant \/ EndChild
    BY <1>7 DEF StartDescendant, EndDescendant, EndChild
<1>8. ASSUME NEW w \in Waiters, Wait(w) \/ WakeSpuriously(w) PROVE Ending'
    BY <1>8 DEF Wait, WakeSpuriously
<1>9. CASE UNCHANGED vars
    BY <1>9 DEF vars
<1> QED
    BY StepCases, <1>1, <1>2, <1>3, <1>4, <1>5, <1>6, <1>7, <1>8, <1>9

\* How the child ended, whether somebody cancelled, and where the thread of the
\* run is agree with what it is about to report.
THEOREM EndingCorrect == Spec => []Ending
<1>1. Init => Ending
    BY DEF Init, Ending, Ends
<1> QED
    BY <1>1, EndingStep, TypeCorrect, PTL DEF Spec

\* What the Completion says of the process is so: a success was one, a killed
\* child is reported as cancelled, and only what somebody cancelled is.
THEOREM ExitIsTrueHolds == Spec => []ExitIsTrue
<1>1. TypeOK /\ Ending => ExitIsTrue
    BY DEF TypeOK, Ending, ExitIsTrue, ExitOf, Ends
<1> QED
    BY <1>1, TypeCorrect, EndingCorrect, PTL

\* The handle keeps TaskPromise: one end, cancelled only if asked, and a late
\* cancel changes nothing.
THEOREM PromiseKeptHolds == Spec => PromiseKept
<1>1. Init => Promise!Init
    BY DEF Init, Promise!Init
<1>2. ASSUME TypeOK, Ending, [Next]_vars
      PROVE  [Promise!Next]_(Promise!vars)
  <2> USE <1>2 DEF Promise!vars, Promise!Next, handleVars
  <2>1. CASE SetExit
    BY <2>1 DEF SetExit, Ending, ExitOf, Promise!End
  <2>2. CASE Cancel
    BY <2>2 DEF Cancel, Promise!Cancel
  <2>3. CASE TryWait \/ TryWaitFails \/ LoadCancel \/ KillTree \/ Drain \/ Report
             \/ Notify
    BY <2>3 DEF TryWait, TryWaitFails, LoadCancel, KillTree, Drain, Report, Notify
  <2>4. ASSUME NEW st \in Streams,
               WriteLine(st) \/ ReadLine(st) \/ PushLine(st) \/ ReadEnd(st)
        PROVE  UNCHANGED <<cancel, exit>>
    BY <2>4 DEF WriteLine, ReadLine, PushLine, ReadEnd
  <2>5. CASE StartDescendant \/ EndDescendant \/ EndChild
    BY <2>5 DEF StartDescendant, EndDescendant, EndChild
  <2>6. ASSUME NEW w \in Waiters, Wait(w) \/ WakeSpuriously(w)
        PROVE  UNCHANGED <<cancel, exit>>
    BY <2>6 DEF Wait, WakeSpuriously
  <2>7. CASE UNCHANGED vars
    BY <2>7 DEF vars
  <2> QED
    BY StepCases, <2>1, <2>2, <2>3, <2>4, <2>5, <2>6, <2>7
<1> QED
    BY <1>1, <1>2, TypeCorrect, EndingCorrect, PTL
       DEF Spec, PromiseKept, Promise!Spec

-----------------------------------------------------------------------------
(* The log.                                                                *)

\* Once the pipes are closed nothing opens them again, and once its reader is
\* done a stream's part of the log is complete.
ReadersEnd ==
    \A st \in Streams : reader[st] = "done" /\ bad[st] = 0 =>
        taken[st] = written[st] /\ ~PipesHeld

\* The exit line is written after the wait for the readers.
ExitComesLast ==
    /\ pc \in {"report", "set", "notify", "done"} /\ ~late => ReadersDone
    /\ pc \in {"poll", "check", "kill", "drain", "report"} =>
          \A i \in 1..Len(log) : log[i] # ExitLine
    /\ pc \in {"poll", "check", "kill", "drain"} => ~late
    /\ \A i \in 1..Len(log) : log[i] = ExitLine /\ ~late => i = Len(log)

\* What is in the log: the lines that were read, each stream's in their order.
LinesInLog ==
    \A st \in Streams, n \in 1..MaxLines :
        n <= Pushed(st) <=> \E i \in 1..Len(log) : log[i] = [stream |-> st, line |-> n]
Rising ==
    \A i, j \in 1..Len(log) :
        i < j /\ log[i].stream = log[j].stream => log[i].line < log[j].line

LEMMA LogIsThese ==
    LogInOrder <=> /\ LinesInLog /\ Rising /\ ReadersEnd
                   /\ \A i \in 1..Len(log) : log[i] = ExitLine /\ ~late => i = Len(log)
BY DEF LogInOrder, LinesInLog, Rising, ReadersEnd

\* The steps that leave the log, the readers and the pipes alone.
LEMMA LogStill ==
    ASSUME UNCHANGED <<log, reader, taken>>
    PROVE  /\ LinesInLog => LinesInLog'
           /\ Rising => Rising'
BY DEF LinesInLog, Rising, Pushed

LEMMA ReadersEndStep ==
    ASSUME TypeOK, ReadersEnd, [Next]_vars PROVE ReadersEnd'
<1> USE DEF TypeOK, ReadersEnd, PipesHeld, outputVars, processVars
<1>1. CASE UNCHANGED <<outputVars, processVars>>
    BY <1>1
<1>2. CASE \/ TryWait \/ TryWaitFails \/ LoadCancel \/ Drain \/ Report
           \/ SetExit \/ Notify \/ Cancel \/ UNCHANGED vars
    BY <1>1, <1>2 DEF TryWait, TryWaitFails, LoadCancel, Drain, Report, SetExit,
                      Notify, Cancel, vars
<1>3. CASE KillTree \/ StartDescendant \/ EndDescendant \/ EndChild
    BY <1>3 DEF KillTree, StartDescendant, EndDescendant, EndChild, Ends
<1>4. ASSUME NEW st \in Streams, WriteLine(st) PROVE ReadersEnd'
    BY <1>4 DEF WriteLine
<1>5. ASSUME NEW st \in Streams, ReadLine(st) \/ PushLine(st) \/ ReadEnd(st)
      PROVE  ReadersEnd'
    BY <1>5 DEF ReadLine, PushLine, ReadEnd
<1>6. ASSUME NEW w \in Waiters, Wait(w) \/ WakeSpuriously(w) PROVE ReadersEnd'
    BY <1>1, <1>6 DEF Wait, WakeSpuriously
<1> QED
    BY StepCases, <1>2, <1>3, <1>4, <1>5, <1>6

\* Appending keeps what the log holds and adds its last entry.
LEMMA Appended ==
    ASSUME NEW s \in Seq(Lines \cup {ExitLine}), NEW e \in Lines \cup {ExitLine}
    PROVE  /\ Append(s, e) \in Seq(Lines \cup {ExitLine})
           /\ Len(Append(s, e)) = Len(s) + 1
           /\ Append(s, e)[Len(s) + 1] = e
           /\ \A i \in 1..Len(s) : Append(s, e)[i] = s[i]
           /\ \A f : (\E i \in 1..Len(Append(s, e)) : Append(s, e)[i] = f)
                     <=> f = e \/ \E i \in 1..Len(s) : s[i] = f
<1>1. /\ Append(s, e) \in Seq(Lines \cup {ExitLine})
      /\ Len(Append(s, e)) = Len(s) + 1
      /\ Append(s, e)[Len(s) + 1] = e
      /\ \A i \in 1..Len(s) : Append(s, e)[i] = s[i]
    OBVIOUS
<1>2. /\ Len(s) \in Nat
      /\ \A i : i \in 1..(Len(s) + 1) <=> i \in 1..Len(s) \/ i = Len(s) + 1
    OBVIOUS
<1> QED
    BY <1>1, <1>2

\* A reader pushes the line after those of its stream that are in the log.
LEMMA PushLineInOrder ==
    ASSUME TypeOK, Holding, LinesInLog, Rising,
           NEW st \in Streams, PushLine(st)
    PROVE  LinesInLog' /\ Rising'
<1> DEFINE e == [stream |-> st, line |-> taken[st]]
<1>1. /\ e \in Lines /\ log \in Seq(Lines \cup {ExitLine})
      /\ e.stream = st /\ e.line = taken[st] /\ taken[st] \in 1..MaxLines
    BY MaxLinesAssumption DEF TypeOK, Holding, PushLine, Lines
<1>2. log' = Append(log, e) /\ UNCHANGED taken
    BY DEF PushLine
<1>3. /\ Pushed(st)' = taken[st] /\ Pushed(st) = taken[st] - 1
      /\ \A s \in Streams \ {st} : Pushed(s)' = Pushed(s)
    BY DEF TypeOK, PushLine, Pushed
<1>4. /\ Len(log') = Len(log) + 1 /\ log'[Len(log) + 1] = e /\ Len(log) \in Nat
      /\ \A i \in 1..Len(log) : log'[i] = log[i]
      /\ \A f : (\E i \in 1..Len(log') : log'[i] = f)
                <=> f = e \/ \E i \in 1..Len(log) : log[i] = f
    BY <1>1, <1>2, Appended
<1>5. LinesInLog'
  <2>1. ASSUME NEW s \in Streams, NEW n \in 1..MaxLines
        PROVE  Pushed(s)' >= n <=>
               \E i \in 1..Len(log') : log'[i] = [stream |-> s, line |-> n]
    <3>1. n <= Pushed(s) <=>
          \E i \in 1..Len(log) : log[i] = [stream |-> s, line |-> n]
      BY DEF LinesInLog
    <3>2. (\E i \in 1..Len(log') : log'[i] = [stream |-> s, line |-> n])
          <=> [stream |-> s, line |-> n] = e \/ n <= Pushed(s)
      BY <1>4, <3>1
    <3>3. CASE s = st
      <4>1. [stream |-> s, line |-> n] = e <=> n = taken[st]
        BY <3>3
      <4>2. n <= taken[st] <=> n = taken[st] \/ n <= taken[st] - 1
        BY <1>1, MaxLinesAssumption
      <4> QED
        BY <1>1, <1>3, <3>2, <3>3, <4>1, <4>2
    <3>4. CASE s # st
      <4>1. [stream |-> s, line |-> n] # e
        BY <3>4
      <4>2. Pushed(s)' = Pushed(s) /\ Pushed(s) \in Int
        BY <1>3, <3>4, MaxLinesAssumption DEF TypeOK, Pushed
      <4> QED
        BY <3>2, <4>1, <4>2
    <3> QED
      BY <3>3, <3>4
  <2>2. \A s \in Streams : Pushed(s) \in Int
    BY MaxLinesAssumption DEF TypeOK, Pushed
  <2>3. \A s \in Streams : Pushed(s)' \in Int
    BY <1>1, <1>3, <2>2, MaxLinesAssumption
  <2> QED
    BY <2>1, <2>3, MaxLinesAssumption DEF LinesInLog
<1>6. Rising'
  <2>1. ASSUME NEW i \in 1..Len(log), log[i].stream = st
        PROVE  log[i].line < taken[st]
    <3>1. log[i] \in Lines \cup {ExitLine} /\ st # "exit"
      BY <1>1 DEF Streams
    <3>2. log[i].line \in 1..MaxLines
          /\ log[i] = [stream |-> st, line |-> log[i].line]
      BY <2>1, <3>1 DEF Lines, ExitLine
    <3>3. log[i].line <= Pushed(st)
      BY <3>2 DEF LinesInLog
    <3> QED
      BY <1>1, <1>3, <3>2, <3>3, MaxLinesAssumption
  <2>2. ASSUME NEW i \in 1..Len(log'), NEW j \in 1..Len(log'), i < j,
               log'[i].stream = log'[j].stream
        PROVE  log'[i].line < log'[j].line
    <3>1. CASE j \in 1..Len(log)
      <4>1. i \in 1..Len(log) /\ log'[i] = log[i] /\ log'[j] = log[j]
        BY <1>4, <2>2, <3>1
      <4> QED
        BY <2>2, <3>1, <4>1 DEF Rising
    <3>2. CASE j \notin 1..Len(log)
      <4>1. j = Len(log) + 1 /\ i \in 1..Len(log)
        <5>1. Len(log') = Len(log) + 1 /\ Len(log) \in Nat
          BY <1>4
        <5>2. i \in Nat /\ j \in Nat /\ 1 <= i /\ i < j /\ j <= Len(log')
          BY <2>2, <5>1
        <5> QED
          BY <3>2, <5>1, <5>2
      <4>2. log'[i] = log[i] /\ log'[j] = e
        BY <1>4, <4>1
      <4> QED
        BY <1>1, <2>1, <2>2, <4>1, <4>2
    <3> QED
      BY <3>1, <3>2
  <2> QED
    BY <2>2 DEF Rising
<1> QED
    BY <1>5, <1>6

\* The exit line is no line of a stream, and the first of its kind.
LEMMA ReportInOrder ==
    ASSUME TypeOK, LinesInLog, Rising, ExitComesLast, Report
    PROVE  LinesInLog' /\ Rising' /\ ExitComesLast'
<1>1. /\ log' = Append(log, ExitLine) /\ UNCHANGED <<taken, reader, late>>
      /\ log \in Seq(Lines \cup {ExitLine}) /\ pc = "report" /\ pc' = "set"
    BY DEF Report, TypeOK, outputVars
<1>2. /\ Len(log') = Len(log) + 1 /\ log'[Len(log) + 1] = ExitLine
      /\ Len(log) \in Nat /\ \A i \in 1..Len(log) : log'[i] = log[i]
      /\ \A f : (\E i \in 1..Len(log') : log'[i] = f)
                <=> f = ExitLine \/ \E i \in 1..Len(log) : log[i] = f
    BY <1>1, Appended
<1>3. \A i \in 1..Len(log) : log[i] \in Lines /\ log[i] # ExitLine
    BY <1>1 DEF ExitComesLast
<1>4. LinesInLog'
  <2>1. \A st \in Streams : Pushed(st)' = Pushed(st)
    BY <1>1 DEF Pushed
  <2>2. \A st \in Streams : \A n : [stream |-> st, line |-> n] # ExitLine
    BY DEF ExitLine, Streams
  <2> QED
    BY <1>2, <2>1, <2>2 DEF LinesInLog
<1>5. Rising'
  <2>1. \A i \in 1..Len(log) : log[i].stream # ExitLine.stream
    BY <1>3 DEF Lines, ExitLine, Streams
  <2> QED
    BY <1>2, <2>1 DEF Rising
<1>6. ExitComesLast'
    BY <1>1, <1>2, <1>3 DEF ExitComesLast, ReadersDone
<1> QED
    BY <1>4, <1>5, <1>6

\* Whatever else happens leaves the log as it is, and its exit line last.
LEMMA ExitComesLastStep ==
    ASSUME TypeOK, Holding, ExitComesLast, [Next]_vars, ~Report
    PROVE  ExitComesLast'
<1> USE DEF TypeOK, ExitComesLast, ReadersDone, outputVars, threadVars
<1>1. CASE UNCHANGED <<log, reader, threadVars>>
    BY <1>1
<1>2. CASE TryWait \/ TryWaitFails \/ LoadCancel \/ KillTree
    BY <1>2 DEF TryWait, TryWaitFails, LoadCancel, KillTree
<1>3. CASE Drain
    BY <1>3 DEF Drain
<1>4. CASE SetExit \/ Notify
    BY <1>4 DEF SetExit, Notify
<1>5. CASE Cancel \/ StartDescendant \/ EndDescendant \/ EndChild \/ UNCHANGED vars
    BY <1>1, <1>5 DEF Cancel, StartDescendant, EndDescendant, EndChild, vars
<1>6. ASSUME NEW st \in Streams, WriteLine(st) PROVE ExitComesLast'
    BY <1>1, <1>6 DEF WriteLine
<1>7. ASSUME NEW st \in Streams, ReadLine(st) \/ ReadEnd(st) PROVE ExitComesLast'
    BY <1>7 DEF ReadLine, ReadEnd
<1>8. ASSUME NEW st \in Streams, PushLine(st) PROVE ExitComesLast'
  <2>1. PICK e \in Lines \cup {ExitLine} :
           e # ExitLine /\ log' = Append(log, e) /\ ~ReadersDone
           /\ reader' = [reader EXCEPT ![st] = "reading"] /\ UNCHANGED threadVars
    <3>1. PICK e : e = [stream |-> st, line |-> taken[st]]
      OBVIOUS
    <3>2. e \in Lines /\ log' = Append(log, e)
      BY <1>8, <3>1, MaxLinesAssumption DEF PushLine, Holding, Lines
    <3>3. e.stream = st /\ st # "exit"
      BY <3>1 DEF Streams
    <3>4. e # ExitLine
      BY <3>3 DEF ExitLine
    <3>5. ~ReadersDone /\ reader' = [reader EXCEPT ![st] = "reading"]
          /\ UNCHANGED threadVars
      BY <1>8 DEF PushLine
    <3> QED
      BY <3>2, <3>4, <3>5
  <2>2. /\ Len(log') = Len(log) + 1 /\ log'[Len(log) + 1] # ExitLine
        /\ Len(log) \in Nat /\ \A i \in 1..Len(log) : log'[i] = log[i]
    BY <2>1, Appended
  <2> QED
    BY <2>1, <2>2
<1>9. ASSUME NEW w \in Waiters, Wait(w) \/ WakeSpuriously(w) PROVE ExitComesLast'
    BY <1>1, <1>9 DEF Wait, WakeSpuriously
<1> QED
    BY StepCases, <1>2, <1>3, <1>4, <1>5, <1>6, <1>7, <1>8, <1>9

LEMMA LinesStep ==
    ASSUME TypeOK, Holding, LinesInLog, Rising, ExitComesLast, [Next]_vars
    PROVE  LinesInLog' /\ Rising'
<1> USE DEF outputVars
<1>1. CASE UNCHANGED <<log, reader, taken>>
    BY <1>1, LogStill
<1>2. CASE \/ TryWait \/ TryWaitFails \/ LoadCancel \/ KillTree \/ Drain
           \/ SetExit \/ Notify \/ Cancel \/ StartDescendant \/ EndDescendant
           \/ EndChild \/ UNCHANGED vars
    BY <1>1, <1>2 DEF TryWait, TryWaitFails, LoadCancel, KillTree, Drain, SetExit,
           Notify, Cancel, StartDescendant, EndDescendant, EndChild, vars
<1>3. CASE Report
    BY <1>3, ReportInOrder
<1>4. ASSUME NEW st \in Streams, WriteLine(st) PROVE LinesInLog' /\ Rising'
    BY <1>1, <1>4 DEF WriteLine
<1>5. ASSUME NEW st \in Streams, ReadLine(st) \/ ReadEnd(st)
      PROVE  LinesInLog' /\ Rising'
  <2>1. UNCHANGED log /\ \A s \in Streams : Pushed(s)' = Pushed(s)
    <3>1. CASE ReadLine(st)
      <4>1. UNCHANGED log /\ taken[st] \in Nat
            /\ reader[st] # "pushing" /\ reader'[st] = "pushing"
            /\ taken'[st] = taken[st] + 1
            /\ \A s \in Streams \ {st} : reader'[s] = reader[s] /\ taken'[s] = taken[s]
        BY <3>1, MaxLinesAssumption DEF TypeOK, ReadLine
      <4> QED
        BY <4>1 DEF Pushed
    <3>2. CASE ReadEnd(st)
      BY <3>2 DEF TypeOK, ReadEnd, Pushed
    <3> QED
      BY <1>5, <3>1, <3>2
  <2> QED
    BY <2>1 DEF LinesInLog, Rising
<1>6. ASSUME NEW st \in Streams, PushLine(st) PROVE LinesInLog' /\ Rising'
    BY <1>6, PushLineInOrder
<1>7. ASSUME NEW w \in Waiters, Wait(w) \/ WakeSpuriously(w)
      PROVE  LinesInLog' /\ Rising'
    BY <1>1, <1>7 DEF Wait, WakeSpuriously
<1> QED
    BY StepCases, <1>2, <1>3, <1>4, <1>5, <1>6, <1>7

\* Each stream's lines are in the log whole and in order, and the exit line
\* comes last unless the grace period ran out.
THEOREM LogIsWholeHolds == Spec => []LogIsWhole
<1> DEFINE Whole == LinesInLog /\ Rising /\ ReadersEnd /\ ExitComesLast
<1>1. Init => Whole
  <2>1. ASSUME Init
        PROVE  /\ Len(log) = 0 /\ (\A st \in Streams : Pushed(st) = 0)
               /\ (\A st \in Streams : reader[st] # "done")
               /\ pc = "poll" /\ ~late
    BY <2>1 DEF Init, Pushed
  <2> QED
    BY <2>1 DEF LinesInLog, Rising, ReadersEnd, ExitComesLast
<1>2. TypeOK /\ Holding /\ Whole /\ [Next]_vars => Whole'
    BY ReportInOrder, ExitComesLastStep, LinesStep, ReadersEndStep
<1>3. TypeOK /\ Whole => LogIsWhole
    BY LogIsThese DEF LogIsWhole, ExitComesLast
<1> QED
    BY <1>1, <1>2, <1>3, TypeCorrect, PTL DEF Spec

=============================================================================
