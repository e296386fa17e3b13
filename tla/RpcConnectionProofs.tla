------------------------ MODULE RpcConnectionProofs ------------------------
(***************************************************************************)
(* What RpcConnection's invariants hold on, for any number of callers,     *)
(* closers, requests and frames.                                           *)
(***************************************************************************)
EXTENDS RpcConnection, TLAPS

-----------------------------------------------------------------------------
(* Every step of the specification, one disjunct per action.               *)

ThreadAction(t) ==
    \/ Request(t) \/ Notify(t) \/ Insert(t) \/ Remove(t) \/ Receive(t)
    \/ Expire(t) \/ Disconnected(t) \/ GiveUp(t) \/ CheckStopped(t)
    \/ LockWriter(t) \/ Write(t) \/ WriteFails(t) \/ StoreStopped(t)
    \/ ClearPending(t) \/ IsStopped(t) \/ AskShutdown(t) \/ TakeChild(t)
    \/ GraceWait(t) \/ Kill(t)

\* A step is an action of a thread, of the reader or of the server, or nothing.
LEMMA StepCases ==
    ASSUME [Next]_vars
    PROVE  \/ \E t \in Threads : ThreadAction(t)
           \/ Read \/ Deliver \/ ReadEnd
           \/ ServerRead \/ ServerAnswer \/ ServerAsk \/ ServerTell
           \/ ServerGarbage \/ ServerExit
           \/ UNCHANGED vars
<1>1. CASE \E t \in Threads : Proceed(t)
    BY <1>1, Zenon DEF Proceed, CallStep, SendStep, StopStep, ShutdownStep,
       ReaderStep, ThreadAction
<1>2. CASE \/ \E t \in Callers : Request(t) \/ Notify(t)
           \/ \E t \in Closers : IsStopped(t)
    BY <1>2, Zenon DEF Threads, Users, ThreadAction
<1>3. CASE ServerStep
    BY <1>3 DEF ServerStep
<1>4. CASE Finished \/ UNCHANGED vars
    BY <1>4 DEF Finished
<1> QED
    BY <1>1, <1>2, <1>3, <1>4 DEF Next

-----------------------------------------------------------------------------
(* Types.                                                                  *)

\* Every place a step sends a thread to is one of Points.
LEMMA PointsListed ==
    /\ \A p \in {"insert", "check", "lock", "write", "remove", "wait",
                 "expire"} : p \in Points
    /\ \A p \in {"idle", "id", "read", "deliver", "stop", "clear", "take",
                 "grace", "kill", "done"} : p \in Points
BY DEF Points, Calling

\* Every message a thread sends is one of OutMessages.
LEMMA OutListed ==
    /\ Nothing \in OutMessages
    /\ \A id \in Nat : \A kind \in {"request", "shutdown", "notify", "cancel",
                                    "exit", "answer"} :
          Message(kind, id) \in OutMessages
BY DEF OutMessages, OutKinds, Nothing, Message

\* Every message the server says is one of InMessages.
LEMMA InListed ==
    \A id \in Nat : \A kind \in InKinds : Message(kind, id) \in InMessages
BY DEF InMessages, Message

\* Every outcome a request ends with is one of Outcomes.
LEMMA OutcomesListed ==
    \A o \in {"none", "reply", "timed_out", "stopped", "failed"} : o \in Outcomes
BY DEF Outcomes

\* Ending a call keeps the types of what it changes.
LEMMA EndCallTypes ==
    ASSUME TypeOK, NEW t \in Threads, NEW result \in Outcomes, EndCall(t, result)
    PROVE  /\ pc' \in [Threads -> Points]
           /\ out' \in [Threads -> OutMessages]
           /\ inbox' \in [Threads -> Nat]
           /\ outcome' \in [Threads -> Outcomes]
<1>1. /\ inbox' \in [Threads -> Nat]
      /\ outcome' \in [Threads -> Outcomes]
    BY DEF TypeOK, EndCall
<1>2. PICK m \in OutMessages : out' = [out EXCEPT ![t] = m]
    BY OutListed, Zenon DEF EndCall
<1>3. PICK p \in Points : pc' = [pc EXCEPT ![t] = p]
    BY PointsListed, Zenon DEF EndCall, Goto
<1> QED
    BY <1>1, <1>2, <1>3 DEF TypeOK

\* So does what follows a send.
LEMMA AfterSendTypes ==
    ASSUME TypeOK, NEW t \in Threads, NEW result \in Outcomes \cup {"sent"},
           AfterSend(t, result)
    PROVE  /\ pc' \in [Threads -> Points]
           /\ out' \in [Threads -> OutMessages]
           /\ inbox' \in [Threads -> Nat]
           /\ outcome' \in [Threads -> Outcomes]
<1>1. CASE EndCall(t, "timed_out")
    BY <1>1, EndCallTypes, OutcomesListed
<1>2. CASE ~EndCall(t, "timed_out")
    BY ZenonT(60), <1>2, PointsListed, OutListed DEF TypeOK, AfterSend, Goto, Drop
<1> QED
    BY <1>1, <1>2

\* A step keeps the variables' types: each thread's are only ever updated at
\* that thread, with a value of their type, and the pipes carry messages.
LEMMA StepTypes ==
    ASSUME TypeOK, [Next]_vars PROVE TypeOK'
<1> USE PointsListed, OutListed
<1>1. ASSUME NEW t \in Threads, Request(t) \/ AskShutdown(t) PROVE TypeOK'
  <2>1. PICK kind \in {"request", "shutdown"} : TakeNumber(t, kind)
    BY <1>1, Zenon DEF Request, AskShutdown
  <2>2. Message(kind, nextId) \in OutMessages
    BY DEF TypeOK
  <2> QED
    BY <2>1, <2>2 DEF TypeOK, TakeNumber, NextNumber, Goto, serverVars
<1>2. ASSUME NEW t \in Threads, Notify(t) PROVE TypeOK'
  BY <1>2 DEF TypeOK, Notify, Goto, serverVars
<1>3. ASSUME NEW t \in Threads, Insert(t) PROVE TypeOK'
  <2>1. pending' \subseteq Senders
    BY <1>3 DEF TypeOK, Insert, Without, Entry, Senders
  <2> QED
    BY <1>3, <2>1 DEF TypeOK, Insert, Goto, serverVars
<1>4. ASSUME NEW t \in Threads, Remove(t) PROVE TypeOK'
  <2>1. pending' \subseteq Senders
    BY <1>4 DEF TypeOK, Remove, Forget, Without
  <2>2. outcome[t] \in Outcomes /\ EndCall(t, outcome[t])
    BY <1>4 DEF TypeOK, Remove
  <2> QED
    BY <1>4, <2>1, <2>2, EndCallTypes DEF TypeOK, Remove, serverVars
<1>5. ASSUME NEW t \in Threads, Receive(t) \/ Disconnected(t) PROVE TypeOK'
  <2>1. EndCall(t, "reply") \/ EndCall(t, "stopped")
    BY <1>5 DEF Receive, Disconnected
  <2>2. /\ pc' \in [Threads -> Points]
        /\ out' \in [Threads -> OutMessages]
        /\ inbox' \in [Threads -> Nat]
        /\ outcome' \in [Threads -> Outcomes]
    BY <2>1, EndCallTypes, OutcomesListed
  <2> QED
    BY <1>5, <2>2 DEF TypeOK, Receive, Disconnected, serverVars
<1>6. ASSUME NEW t \in Threads, Expire(t) PROVE TypeOK'
  BY <1>6 DEF TypeOK, Expire, Goto, serverVars
<1>7. ASSUME NEW t \in Threads, GiveUp(t) PROVE TypeOK'
  <2>1. pending' \subseteq Senders
    BY <1>7 DEF TypeOK, GiveUp, Forget, Without
  <2>2. /\ pc' \in [Threads -> Points]
        /\ out' \in [Threads -> OutMessages]
        /\ inbox' \in [Threads -> Nat]
        /\ outcome' \in [Threads -> Outcomes]
    <3>1. CASE EndCall(t, "timed_out")
      BY <3>1, EndCallTypes, OutcomesListed
    <3>2. CASE ~EndCall(t, "timed_out")
      <4>1. Message("cancel", call[t]) \in OutMessages
        BY DEF TypeOK
      <4> QED
        BY <1>7, <3>2, <4>1 DEF GiveUp, TypeOK, Goto
    <3> QED
      BY <3>1, <3>2
  <2> QED
    BY <1>7, <2>1, <2>2 DEF TypeOK, GiveUp, serverVars
<1>8. ASSUME NEW t \in Threads, CheckStopped(t) PROVE TypeOK'
  <2>1. /\ pc' \in [Threads -> Points]
        /\ out' \in [Threads -> OutMessages]
        /\ inbox' \in [Threads -> Nat]
        /\ outcome' \in [Threads -> Outcomes]
    <3>1. CASE AfterSend(t, "stopped")
      BY <3>1, AfterSendTypes, OutcomesListed
    <3>2. CASE ~AfterSend(t, "stopped")
      BY <1>8, <3>2 DEF CheckStopped, TypeOK, Goto
    <3> QED
      BY <3>1, <3>2
  <2> QED
    BY <1>8, <2>1 DEF TypeOK, CheckStopped, serverVars
<1>9. ASSUME NEW t \in Threads, LockWriter(t) PROVE TypeOK'
  BY <1>9 DEF TypeOK, LockWriter, Goto, serverVars
<1>10. ASSUME NEW t \in Threads, Write(t) PROVE TypeOK'
  <2>1. AfterSend(t, "sent")
    BY <1>10 DEF Write
  <2> QED
    BY SMTT(30), <1>10, <2>1, AfterSendTypes DEF TypeOK, Write
<1>11. ASSUME NEW t \in Threads, WriteFails(t) PROVE TypeOK'
  <2>1. AfterSend(t, "failed") /\ "failed" \in Outcomes
    BY <1>11, OutcomesListed DEF WriteFails
  <2> QED
    BY <1>11, <2>1, AfterSendTypes DEF TypeOK, WriteFails, serverVars
<1>12. ASSUME NEW t \in Threads, StoreStopped(t) \/ ClearPending(t)
       PROVE  TypeOK'
  BY <1>12 DEF TypeOK, StoreStopped, ClearPending, Goto, serverVars
<1>13. ASSUME NEW t \in Threads, IsStopped(t) \/ TakeChild(t)
       PROVE  TypeOK'
  BY <1>13 DEF TypeOK, IsStopped, TakeChild, Goto, serverVars
<1>14. ASSUME NEW t \in Threads, GraceWait(t) \/ Kill(t)
       PROVE  TypeOK'
  <2>1. toServer' \in Seq(OutMessages)
    <3>1. CASE GraceWait(t)
      BY <3>1 DEF TypeOK, GraceWait, serverVars
    <3>2. CASE Kill(t)
      BY <3>2 DEF Kill
    <3> QED
      BY <1>14, <3>1, <3>2
  <2>2. pc' \in [Threads -> Points]
    BY <1>14 DEF TypeOK, GraceWait, Kill, Goto
  <2> QED
    BY <1>14, <2>1, <2>2 DEF TypeOK, GraceWait, Kill, serverVars
<1>15. ASSUME Read PROVE TypeOK'
  <2>1. fromServer' \in Seq(InMessages)
    BY <1>15 DEF TypeOK, Read
  <2>2. /\ nextId' \in Nat \ {0}
        /\ pending' \subseteq Senders
        /\ pc' \in [Threads -> Points]
        /\ out' \in [Threads -> OutMessages]
        /\ held' \in Senders
    <3>1. Reader \in Threads
      BY DEF Threads
    <3>2. ASSUME NEW id, ReadResponse(id) 
          PROVE  /\ nextId' \in Nat \ {0}
                 /\ pending' \subseteq Senders
                 /\ pc' \in [Threads -> Points]
                 /\ out' \in [Threads -> OutMessages]
                 /\ held' \in Senders
      BY <3>1, <3>2 DEF TypeOK, ReadResponse, Without, Goto
    <3>3. CASE ReadAsk
      BY <3>1, <3>3 DEF TypeOK, ReadAsk, NextNumber, Goto
    <3>4. CASE UNCHANGED <<nextId, pending, out, held>>
               /\ (UNCHANGED pc \/ Goto(Reader, "stop"))
      BY <3>1, <3>4 DEF TypeOK, Goto
    <3> QED
      BY <1>15, <3>2, <3>3, <3>4 DEF Read
  <2> QED
    BY <1>15, <2>1, <2>2 DEF TypeOK, Read
<1>16. ASSUME Deliver \/ ReadEnd PROVE TypeOK'
  <2>1. Reader \in Threads
    BY DEF Threads
  <2>2. NoSender \in Senders
    BY <2>1 DEF NoSender, Senders
  <2>3. inbox' \in [Threads -> Nat]
    BY <1>16 DEF TypeOK, Deliver, ReadEnd, Senders
  <2> QED
    BY <1>16, <2>1, <2>2, <2>3 DEF TypeOK, Deliver, ReadEnd, Goto, serverVars
<1>17. ASSUME ServerRead PROVE TypeOK'
  <2>1. Head(toServer) \in OutMessages
    BY <1>17 DEF TypeOK, ServerRead
  <2>2. unanswered' \subseteq Nat
    BY <1>17, <2>1 DEF TypeOK, ServerRead, OutMessages
  <2> QED
    BY <1>17, <2>2 DEF TypeOK, ServerRead, clientVars
<1>18. ASSUME ServerAnswer PROVE TypeOK'
  BY <1>18, InListed DEF TypeOK, ServerAnswer, ServerSays, InKinds, clientVars
<1>19. ASSUME ServerAsk \/ ServerTell \/ ServerGarbage PROVE TypeOK'
  <2>1. PICK kind \in InKinds : ServerSpeaks(kind)
    BY <1>19 DEF ServerAsk, ServerTell, ServerGarbage, InKinds
  <2>2. Message(kind, 0) \in InMessages
    BY InListed
  <2> QED
    BY <2>1, <2>2 DEF TypeOK, ServerSpeaks, ServerSays, clientVars
<1>20. ASSUME ServerExit PROVE TypeOK'
  BY <1>20 DEF TypeOK, ServerExit, clientVars
<1>21. ASSUME UNCHANGED vars PROVE TypeOK'
  BY <1>21 DEF TypeOK, vars
<1> QED
  BY StepCases, <1>1, <1>2, <1>3, <1>4, <1>5, <1>6, <1>7, <1>8, <1>9, <1>10,
     <1>11, <1>12, <1>13, <1>14, <1>15, <1>16, <1>17, <1>18, <1>19, <1>20,
     <1>21 DEF ThreadAction

\* The variables keep their types.
THEOREM TypeCorrect == Spec => []TypeOK
<1>1. Init => TypeOK
  <2> SUFFICES ASSUME Init PROVE TypeOK
    OBVIOUS
  <2>1. Reader \in Threads
    BY DEF Threads
  <2>2. /\ pc \in [Threads -> Points]
        /\ out \in [Threads -> OutMessages]
        /\ outcome \in [Threads -> Outcomes]
    BY PointsListed, OutListed, OutcomesListed DEF Init
  <2>3. held \in Senders
    BY <2>1 DEF Init, NoSender, Senders
  <2>4. toServer \in Seq(OutMessages) /\ fromServer \in Seq(InMessages)
    BY DEF Init
  <2>5. call \in [Threads -> Nat] /\ inbox \in [Threads -> Nat]
    BY DEF Init
  <2>6. nextId \in Nat \ {0}
    BY DEF Init, FirstId
  <2> QED
    BY <2>2, <2>3, <2>4, <2>5, <2>6 DEF Init, TypeOK
<1> QED
    BY <1>1, StepTypes, PTL DEF Spec

-----------------------------------------------------------------------------
(* Roles.                                                                  *)

\* A thread's action changes no other thread's variables.
LEMMA OthersUnchanged ==
    ASSUME TypeOK, NEW t \in Threads, ThreadAction(t), NEW u \in Threads \ {t}
    PROVE  /\ pc'[u] = pc[u]
           /\ out'[u] = out[u]
           /\ call'[u] = call[u]
           /\ inbox'[u] = inbox[u]
           /\ outcome'[u] = outcome[u]
<1> USE DEF TypeOK, Goto, serverVars
<1>1. CASE Request(t) \/ AskShutdown(t)
    BY <1>1 DEF Request, AskShutdown, TakeNumber
<1>2. CASE Notify(t) \/ Insert(t) \/ Expire(t) \/ LockWriter(t)
    BY <1>2 DEF Notify, Insert, Expire, LockWriter
<1>3. CASE Remove(t)
    BY <1>3 DEF Remove, EndCall
<1>4. CASE Receive(t) \/ Disconnected(t)
    BY <1>4 DEF Receive, Disconnected, EndCall
<1>5. CASE GiveUp(t)
    BY <1>5 DEF GiveUp, EndCall
<1>6. CASE CheckStopped(t)
    BY <1>6 DEF CheckStopped, AfterSend, EndCall, Drop
<1>7. CASE Write(t) \/ WriteFails(t)
    BY <1>7 DEF Write, WriteFails, AfterSend, EndCall, Drop
<1>8. CASE StoreStopped(t) \/ ClearPending(t) \/ IsStopped(t) \/ TakeChild(t)
           \/ GraceWait(t) \/ Kill(t)
    BY <1>8 DEF StoreStopped, ClearPending, IsStopped, TakeChild, GraceWait, Kill
<1> QED
    BY <1>1, <1>2, <1>3, <1>4, <1>5, <1>6, <1>7, <1>8 DEF ThreadAction

\* A thread that ends a call keeps to its role.
LEMMA EndCallRole ==
    ASSUME TypeOK, NEW t \in Threads, RoleOf(t), NEW result, EndCall(t, result)
    PROVE  RoleOf(t)'
BY ThreadsAssumption
   DEF TypeOK, RoleOf, EndCall, Goto, Nothing, Message, Calling, Threads, Users

\* So does one that has sent its message.
LEMMA AfterSendRole ==
    ASSUME TypeOK, NEW t \in Threads, RoleOf(t), pc[t] \in {"check", "write"},
           NEW result, AfterSend(t, result)
    PROVE  RoleOf(t)'
<1>1. CASE EndCall(t, "timed_out")
    BY <1>1, EndCallRole
<1>2. CASE ~EndCall(t, "timed_out")
    BY <1>2, ThreadsAssumption
       DEF TypeOK, RoleOf, AfterSend, Goto, Drop, Nothing, Message, Calling,
           Threads, Users
<1> QED
    BY <1>1, <1>2

\* Callers, closers and the reader each keep to the points of their own code,
\* and send only what that code sends.
THEOREM RolesCorrect == Spec => []Roles
<1>1. Init => Roles
    BY ThreadsAssumption
       DEF Init, Roles, RoleOf, Threads, Users, Calling, Nothing, Message
<1>2. ASSUME TypeOK, Roles, [Next]_vars PROVE Roles'
  <2> USE <1>2, ThreadsAssumption
  <2>1. ASSUME NEW t \in Threads, ThreadAction(t) PROVE Roles'
    <3>1. ASSUME NEW u \in Threads \ {t} PROVE RoleOf(u)'
      BY <2>1, <3>1, OthersUnchanged DEF Roles, RoleOf
    <3>2. RoleOf(t)'
      <4> USE <2>1 DEF TypeOK, Roles, Goto
      <4>1. CASE Request(t)
        BY <4>1 DEF Request, TakeNumber, RoleOf, Message, Calling, Users
      <4>2. CASE AskShutdown(t)
        BY <4>2 DEF AskShutdown, TakeNumber, RoleOf, Message, Calling, Users
      <4>3. CASE Notify(t)
        BY <4>3 DEF Notify, RoleOf, Message, Calling, Users
      <4>4. CASE Insert(t) \/ Expire(t) \/ LockWriter(t)
        BY <4>4 DEF Insert, Expire, LockWriter, RoleOf, Calling
      <4>5. CASE Remove(t) \/ Receive(t) \/ Disconnected(t)
        BY <4>5, EndCallRole DEF Remove, Receive, Disconnected
      <4>6. CASE GiveUp(t)
        <5>1. CASE EndCall(t, "timed_out")
          BY <5>1, EndCallRole
        <5>2. CASE ~EndCall(t, "timed_out")
          <6>1. /\ pc' = [pc EXCEPT ![t] = "check"]
                /\ out' = [out EXCEPT ![t] = Message("cancel", call[t])]
            BY <4>6, <5>2 DEF GiveUp
          <6>2. pc'[t] = "check" /\ out'[t].kind = "cancel"
            BY <6>1 DEF Message
          <6>3. t \in Users
            BY <4>6 DEF GiveUp, RoleOf
          <6> QED
            BY <6>2, <6>3 DEF RoleOf, Calling
        <5> QED
          BY <5>1, <5>2
      <4>7. CASE CheckStopped(t)
        <5>1. CASE AfterSend(t, "stopped")
          BY <4>7, <5>1, AfterSendRole DEF CheckStopped
        <5>2. CASE ~AfterSend(t, "stopped")
          BY <4>7, <5>2 DEF CheckStopped, RoleOf, Calling
        <5> QED
          BY <5>1, <5>2
      <4>8. CASE Write(t) \/ WriteFails(t)
        BY <4>8, AfterSendRole DEF Write, WriteFails
      <4>9. CASE StoreStopped(t) \/ ClearPending(t)
        BY ZenonT(60), <4>9 DEF StoreStopped, ClearPending, RoleOf, Calling, Threads, Users
      <4>10. CASE IsStopped(t) \/ TakeChild(t) \/ GraceWait(t) \/ Kill(t)
        BY ZenonT(60), <4>10 DEF IsStopped, TakeChild, GraceWait, Kill, RoleOf, Calling
      <4> QED
        BY <4>1, <4>2, <4>3, <4>4, <4>5, <4>6, <4>7, <4>8, <4>9, <4>10
           DEF ThreadAction
    <3> QED
      BY <3>1, <3>2 DEF Roles
  <2>2. CASE Read
    <3>1. ASSUME NEW u \in Threads \ {Reader} PROVE RoleOf(u)'
      BY <2>2, <3>1
         DEF TypeOK, Roles, RoleOf, Read, ReadResponse, ReadAsk, Goto
    <3>2. RoleOf(Reader)'
      BY <2>2 DEF TypeOK, Roles, RoleOf, Read, ReadResponse, ReadAsk, Goto,
                  Threads, Users, Calling, Message
    <3> QED
      BY <3>1, <3>2 DEF Roles
  <2>3. CASE Deliver \/ ReadEnd
    <3>1. PICK p \in {"read", "stop"} : pc' = [pc EXCEPT ![Reader] = p]
      BY <2>3 DEF Deliver, ReadEnd, Goto
    <3>2. pc[Reader] \notin Calling /\ UNCHANGED out
      BY <2>3 DEF Deliver, ReadEnd, Calling
    <3>3. ASSUME NEW u \in Threads PROVE RoleOf(u)'
      BY <3>1, <3>2, <3>3 DEF TypeOK, Roles, RoleOf, Threads, Users, Calling
    <3> QED
      BY <3>3 DEF Roles
  <2>4. CASE UNCHANGED <<pc, out>>
    BY <2>4 DEF Roles, RoleOf
  <2>5. CASE ServerRead \/ ServerAnswer \/ ServerAsk \/ ServerTell
             \/ ServerGarbage \/ ServerExit \/ UNCHANGED vars
    BY <2>4, <2>5
       DEF ServerRead, ServerAnswer, ServerAsk, ServerTell, ServerGarbage,
           ServerSpeaks, ServerSays, ServerExit, clientVars, vars
  <2> QED
    BY StepCases, <2>1, <2>2, <2>3, <2>5
<1> QED
    BY <1>1, <1>2, TypeCorrect, PTL DEF Spec

-----------------------------------------------------------------------------
(* Numbers.                                                                *)

\* Only taking a number starts a call.
LEMMA AskingStarts ==
    ASSUME TypeOK, Roles, NEW t \in Threads, ThreadAction(t),
           ~Request(t), ~AskShutdown(t)
    PROVE  /\ UNCHANGED <<nextId, call>>
           /\ \A u \in Threads : Asking(u)' => Asking(u)
<1>1. UNCHANGED <<nextId, call>>
    BY DEF ThreadAction, Notify, Insert, Remove, Receive, Expire, Disconnected,
           GiveUp, CheckStopped, LockWriter, Write, WriteFails, StoreStopped,
           ClearPending, IsStopped, TakeChild, GraceWait, Kill
<1>2. ASSUME NEW u \in Threads \ {t} PROVE Asking(u)' => Asking(u)
    BY <1>2, OthersUnchanged DEF Asking
<1>3. Asking(t)' => Asking(t)
  <2> USE DEF TypeOK, Goto, Asking, Calling
  <2>1. CASE Notify(t)
    BY <2>1 DEF Notify, Message
  <2>2. CASE Insert(t) \/ Expire(t) \/ LockWriter(t)
    BY <2>2 DEF Insert, Expire, LockWriter
  <2>3. ASSUME NEW result, EndCall(t, result) PROVE ~Asking(t)'
    BY <2>3, ThreadsAssumption DEF EndCall, Message, Nothing
  <2>4. CASE Remove(t) \/ Receive(t) \/ Disconnected(t)
    BY <2>3, <2>4 DEF Remove, Receive, Disconnected
  <2>5. CASE GiveUp(t)
    BY <2>3, <2>5 DEF GiveUp, Roles, RoleOf
  <2>6. ASSUME NEW result, AfterSend(t, result), pc[t] \in {"check", "write"}
        PROVE  Asking(t)' => Asking(t)
    BY <2>3, <2>6 DEF AfterSend, Drop, Nothing, Message
  <2>7. CASE CheckStopped(t) \/ Write(t) \/ WriteFails(t)
    BY <2>6, <2>7 DEF CheckStopped, Write, WriteFails
  <2>8. CASE StoreStopped(t) \/ ClearPending(t) \/ IsStopped(t) \/ TakeChild(t)
             \/ GraceWait(t) \/ Kill(t)
    BY <2>8 DEF StoreStopped, ClearPending, IsStopped, TakeChild, GraceWait, Kill
  <2> QED
    BY <2>1, <2>2, <2>4, <2>5, <2>7, <2>8 DEF ThreadAction
<1> QED
    BY <1>1, <1>2, <1>3

\* The reader starts no call.
LEMMA ReaderAsksNothing ==
    ASSUME TypeOK, Roles, Read \/ Deliver \/ ReadEnd
    PROVE  /\ UNCHANGED call
           /\ nextId <= nextId'
           /\ \A u \in Threads : Asking(u)' => Asking(u)
<1>1. UNCHANGED call /\ nextId <= nextId'
    BY DEF TypeOK, Read, ReadResponse, ReadAsk, NextNumber, Deliver, ReadEnd
<1>2. ASSUME NEW u \in Threads \ {Reader} PROVE Asking(u)' => Asking(u)
    BY <1>2 DEF TypeOK, Asking, Goto, Read, ReadResponse, ReadAsk, Deliver, ReadEnd
<1>3. ~Asking(Reader)'
    BY DEF TypeOK, Asking, Calling, Goto, Read, ReadResponse, ReadAsk, Deliver,
           ReadEnd, Message, Threads, Roles, RoleOf
<1> QED
    BY <1>1, <1>2, <1>3

\* No two calls ever have the same number, whoever makes them.
THEOREM NumbersCorrect == Spec => []Numbers
<1>1. Init => Numbers
    BY DEF Init, Numbers, Asking, Calling, Nothing, Message, FirstId
<1>2. ASSUME TypeOK, Roles, Numbers, [Next]_vars PROVE Numbers'
  <2> USE <1>2
  <2>1. ASSUME NEW t \in Threads, Request(t) \/ AskShutdown(t) PROVE Numbers'
    <3>1. ThreadAction(t)
      BY <2>1 DEF ThreadAction
    <3>2. PICK kind : TakeNumber(t, kind)
      BY <2>1, Zenon DEF Request, AskShutdown
    <3>3. ASSUME NEW u \in Threads \ {t}
          PROVE  call'[u] = call[u] /\ (Asking(u)' => Asking(u))
      BY <3>1, <3>3, OthersUnchanged DEF Asking
    <3>4. /\ call'[t] = nextId
          /\ nextId' = nextId + 1
          /\ nextId \in Nat \ {0}
          /\ \A u \in Threads : call[u] \in Nat
      BY <3>2 DEF TakeNumber, TypeOK, NextNumber
    <3> QED
      BY <3>3, <3>4 DEF Numbers
  <2>2. CASE /\ UNCHANGED call
             /\ nextId <= nextId'
             /\ \A u \in Threads : Asking(u)' => Asking(u)
    <3>1. nextId \in Nat /\ nextId' \in Nat /\ \A u \in Threads : call[u] \in Nat
      BY <1>2, StepTypes DEF TypeOK
    <3> QED
      BY <2>2, <3>1 DEF Numbers
  <2>3. ASSUME NEW t \in Threads, ThreadAction(t) PROVE Numbers'
    <3>1. CASE ~Request(t) /\ ~AskShutdown(t)
      BY <2>2, <2>3, <3>1, AskingStarts DEF TypeOK
    <3> QED
      BY <2>1, <2>3, <3>1
  <2>4. CASE Read \/ Deliver \/ ReadEnd
    BY <2>2, <2>4, ReaderAsksNothing
  <2>5. CASE UNCHANGED <<nextId, call, pc, out>>
    BY <2>2, <2>5 DEF TypeOK, Asking
  <2>6. CASE ServerRead \/ ServerAnswer \/ ServerAsk \/ ServerTell
             \/ ServerGarbage \/ ServerExit \/ UNCHANGED vars
    BY <2>5, <2>6
       DEF ServerRead, ServerAnswer, ServerAsk, ServerTell, ServerGarbage,
           ServerSpeaks, ServerSays, ServerExit, clientVars, vars
  <2> QED
    BY StepCases, <2>3, <2>4, <2>6
<1> QED
    BY <1>1, <1>2, TypeCorrect, RolesCorrect, PTL DEF Spec

-----------------------------------------------------------------------------
(* Channels: from a request's entry in the map to the reply in its hands.  *)

Channels == NoLeftovers /\ SenderOnce /\ Answers

\* A sender is its call's entry when it names the call's thread and number.
LEMMA EntryFields ==
    /\ \A e \in Senders : \A t : e.id = call[t] /\ e.caller = t => e = Entry(t)
    /\ \A t : Entry(t).id = call[t] /\ Entry(t).caller = t
BY DEF Senders, Entry

\* A thread that makes no call has nothing in the map and nothing in a channel.
LEMMA NothingPending ==
    ASSUME Channels, NEW t \in Threads, pc[t] \notin Calling
    PROVE  inbox[t] = 0 /\ \A e \in pending : e.caller # t
BY DEF Channels, NoLeftovers, Answers, Asking

\* Nor has one whose entry is out of the map.
LEMMA NoEntryOf ==
    ASSUME TypeOK, Channels, NEW t \in Threads, Entry(t) \notin pending
    PROVE  \A e \in pending : e.caller # t
<1> SUFFICES ASSUME NEW e \in pending, e.caller = t PROVE FALSE
    OBVIOUS
<1>1. e \in Senders /\ e.id = call[t]
    BY DEF TypeOK, Channels, NoLeftovers
<1> QED
    BY <1>1, EntryFields

\* A step that takes one thread on, adding no entry, keeps the channels when
\* it leaves that thread's entry and reply consistent with where it goes.
LEMMA ThreadKeepsChannels ==
    ASSUME TypeOK, Channels, NEW t \in Threads,
           UNCHANGED <<nextId, call, held, fromServer, answered>>,
           pending' \subseteq pending,
           \A u \in Threads \ {t} :
              pc'[u] = pc[u] /\ out'[u] = out[u] /\ inbox'[u] = inbox[u],
           pc'[Reader] = "deliver" => pc[Reader] = "deliver",
           pc'[t] # "insert",
           inbox'[t] \in {0, inbox[t]},
           inbox'[t] # 0 => Asking(t)',
           \/ \A e \in pending' : e.caller # t
           \/ /\ pc'[t] \in Calling
              /\ out'[t].kind \in {"request", "shutdown"}
    PROVE  Channels'
<1> USE DEF Channels
<1>1. NoLeftovers'
  <2> SUFFICES ASSUME NEW e \in pending'
               PROVE  /\ call'[e.caller] = e.id
                      /\ pc'[e.caller] \in Calling \ {"insert"}
                      /\ out'[e.caller].kind \in {"request", "shutdown"}
    BY DEF NoLeftovers
  <2>1. e \in pending /\ e.caller \in Threads
    BY DEF TypeOK, Senders
  <2>2. CASE e.caller = t
    BY <2>1, <2>2 DEF NoLeftovers
  <2>3. CASE e.caller # t
    BY <2>1, <2>3 DEF NoLeftovers
  <2> QED
    BY <2>2, <2>3
<1>2. SenderOnce'
  <2>1. \A u : Entry(u)' = Entry(u)
    BY DEF Entry
  <2>2. held.caller \in Threads
    BY DEF TypeOK, Senders
  <2> QED
    BY <2>1, <2>2 DEF SenderOnce
<1>3. Answers'
  <2>1. ASSUME NEW u \in Threads, inbox'[u] # 0
        PROVE  inbox'[u] = call'[u] /\ inbox'[u] \in answered' /\ Asking(u)'
    <3>1. CASE u = t
      BY <2>1, <3>1 DEF Answers
    <3>2. CASE u # t
      BY <2>1, <3>2 DEF Answers, Asking
    <3> QED
      BY <3>1, <3>2
  <2> QED
    BY <2>1 DEF Answers
<1> QED
    BY <1>1, <1>2, <1>3

\* Ending a call leaves the channels in order, once its entry is out.
LEMMA EndCallKeepsChannels ==
    ASSUME TypeOK, Channels, NEW t \in Threads, NEW result, EndCall(t, result),
           UNCHANGED <<nextId, call, held, fromServer, answered>>,
           pending' \subseteq pending, \A e \in pending' : e.caller # t
    PROVE  Channels'
<1>1. PICK p \in {"idle", "check", "stop"} : pc' = [pc EXCEPT ![t] = p]
    BY DEF EndCall, Goto
<1>2. PICK m : out' = [out EXCEPT ![t] = m]
    BY DEF EndCall
<1>3. inbox' = [inbox EXCEPT ![t] = 0]
    BY DEF EndCall
<1> QED
    BY SMTT(30), <1>1, <1>2, <1>3, ThreadKeepsChannels DEF TypeOK

\* So does what follows a send.
LEMMA AfterSendKeepsChannels ==
    ASSUME TypeOK, Roles, Channels, NEW t \in Threads,
           pc[t] \in {"check", "write"}, NEW result, AfterSend(t, result),
           UNCHANGED <<nextId, call, held, fromServer, answered, pending>>
    PROVE  Channels'
<1>1. CASE out[t].kind \in {"request", "shutdown"}
  <2>1. PICK p \in {"wait", "remove"} : pc' = [pc EXCEPT ![t] = p]
    BY <1>1 DEF AfterSend, Goto
  <2>2. UNCHANGED <<out, inbox>>
    BY <1>1 DEF AfterSend
  <2>3. Asking(t)'
    BY <1>1, <2>1, <2>2 DEF TypeOK, Asking, Calling
  <2> QED
    BY <1>1, <2>1, <2>2, <2>3, ThreadKeepsChannels DEF TypeOK, Calling
<1>2. CASE out[t].kind \notin {"request", "shutdown"}
  <2>1. \A e \in pending : e.caller # t
    BY <1>2 DEF Channels, NoLeftovers
  <2>2. CASE EndCall(t, "timed_out")
    BY <2>1, <2>2, EndCallKeepsChannels
  <2>3. CASE ~EndCall(t, "timed_out")
    <3>1. PICK p \in {"idle", "stop", "read"} : pc' = [pc EXCEPT ![t] = p]
      BY <1>2, <2>3 DEF AfterSend, Goto
    <3>2. out' = [out EXCEPT ![t] = Nothing] /\ UNCHANGED inbox
      BY <1>2, <2>3 DEF AfterSend, Drop
    <3>3. inbox[t] = 0
      BY <1>2, <2>3 DEF AfterSend, Channels, Answers, Asking
    <3> QED
      BY <2>1, <3>1, <3>2, <3>3, ThreadKeepsChannels DEF TypeOK
  <2> QED
    BY <2>2, <2>3
<1> QED
    BY <1>1, <1>2

\* A thread's action keeps the channels.
LEMMA ThreadActionKeepsChannels ==
    ASSUME TypeOK, Roles, Numbers, Channels, NEW t \in Threads, ThreadAction(t)
    PROVE  Channels'
<1> USE DEF serverVars
<1>1. ASSUME NEW u \in Threads \ {t}
      PROVE  /\ pc'[u] = pc[u]
             /\ out'[u] = out[u]
             /\ call'[u] = call[u]
             /\ inbox'[u] = inbox[u]
    BY <1>1, OthersUnchanged
<1>2. CASE Request(t) \/ AskShutdown(t)
  <2>1. PICK kind \in {"request", "shutdown"} : TakeNumber(t, kind)
    BY <1>2, Zenon DEF Request, AskShutdown
  <2>2. pc[t] \in {"idle", "id"} /\ pc[t] \notin Calling
    BY <1>2 DEF Request, AskShutdown, Calling
  <2>3. inbox[t] = 0 /\ \A e \in pending : e.caller # t
    BY <2>2, NothingPending
  <2>4. /\ UNCHANGED <<pending, held, inbox, fromServer, answered>>
        /\ nextId' = nextId + 1 /\ call'[t] = nextId
        /\ pc'[t] = "insert" /\ pc' = [pc EXCEPT ![t] = "insert"]
    BY <2>1 DEF TakeNumber, NextNumber, Goto, TypeOK
  <2>5. pc'[Reader] = "deliver" => pc[Reader] = "deliver"
    BY <2>4 DEF TypeOK
  <2>6. nextId \in Nat /\ held.id \in Nat /\ held.caller \in Threads
    BY DEF TypeOK, Senders
  <2>7. NoLeftovers'
    BY <1>1, <2>3, <2>4 DEF Channels, NoLeftovers, TypeOK, Senders
  <2>8. SenderOnce'
    <3>1. ASSUME pc'[Reader] = "deliver"
          PROVE  /\ held' \notin pending' /\ held'.id < nextId'
                 /\ held' = Entry(held.caller)' => pc'[held.caller] # "insert"
      <4>1. held \notin pending /\ held.id < nextId
        BY <2>5, <3>1 DEF Channels, SenderOnce
      <4>2. CASE held.caller = t
        BY <2>4, <2>6, <4>1, <4>2 DEF Entry
      <4>3. CASE held.caller # t
        BY <1>1, <2>4, <2>5, <2>6, <3>1, <4>1, <4>3
           DEF Channels, SenderOnce, Entry
      <4> QED
        BY <2>4, <2>6, <4>1, <4>2, <4>3
    <3>2. ASSUME NEW u \in Threads, inbox'[u] # 0
          PROVE  Entry(u)' \notin pending' /\ pc'[u] # "insert"
      BY <1>1, <2>3, <2>4, <3>2 DEF Channels, SenderOnce, Entry
    <3> QED
      BY <2>4, <3>1, <3>2 DEF SenderOnce
  <2>9. Answers'
    BY <1>1, <2>3, <2>4, <2>5 DEF Channels, Answers, Asking
  <2> QED
    BY <2>7, <2>8, <2>9 DEF Channels
<1>3. CASE Notify(t)
  <2>1. inbox[t] = 0 /\ \A e \in pending : e.caller # t
    BY <1>3, NothingPending DEF Notify, Calling
  <2>2. pc' = [pc EXCEPT ![t] = "check"]
    BY <1>3 DEF Notify, Goto
  <2> QED
    BY <1>1, <1>3, <2>1, <2>2, ThreadKeepsChannels DEF Notify, TypeOK
<1>4. CASE Insert(t)
  <2>1. /\ pending' = Without(call[t]) \cup {Entry(t)}
        /\ pc' = [pc EXCEPT ![t] = "check"]
        /\ UNCHANGED <<nextId, call, out, inbox, held, fromServer, answered>>
        /\ pc[t] = "insert"
    BY <1>4 DEF Insert, Goto
  <2>2. out[t].kind \in {"request", "shutdown"}
    BY <2>1 DEF Roles, RoleOf
  <2>3. inbox[t] = 0 /\ Asking(t)'
    BY <2>1, <2>2 DEF Channels, SenderOnce, Asking, Calling, TypeOK
  <2>4. pc'[t] = "check" /\ (pc'[Reader] = "deliver" => pc[Reader] = "deliver")
    BY <2>1 DEF TypeOK
  <2>5. NoLeftovers'
    BY <1>1, <2>1, <2>2, <2>4, EntryFields
       DEF Channels, NoLeftovers, Without, TypeOK, Senders, Calling
  <2>6. SenderOnce'
    <3>1. \A u : Entry(u)' = Entry(u)
      BY <2>1 DEF Entry
    <3>2. held.caller \in Threads
      BY DEF TypeOK, Senders
    <3>3. ASSUME NEW u \in Threads, inbox'[u] # 0
          PROVE  Entry(u) \notin pending' /\ pc'[u] # "insert"
      BY <1>1, <2>1, <2>3, <3>3, EntryFields
         DEF Channels, SenderOnce, Without
    <3>4. ASSUME pc[Reader] = "deliver"
          PROVE  held # Entry(t)
      BY <2>1, <3>4, EntryFields DEF Channels, SenderOnce
    <3>5. ASSUME pc[Reader] = "deliver"
          PROVE  held \notin pending' /\ held.id < nextId
      BY <2>1, <3>4, <3>5 DEF Channels, SenderOnce, Without
    <3>6. ASSUME pc[Reader] = "deliver", held = Entry(held.caller)
          PROVE  pc'[held.caller] # "insert"
      BY <1>1, <2>4, <3>2, <3>6 DEF Channels, SenderOnce
    <3> QED
      BY <2>1, <2>4, <3>1, <3>3, <3>5, <3>6 DEF SenderOnce
  <2>7. Answers'
    BY <1>1, <2>1, <2>3, <2>4 DEF Channels, Answers, Asking
  <2> QED
    BY <2>5, <2>6, <2>7 DEF Channels
<1>5. CASE Remove(t) \/ GiveUp(t)
  <2>1. pending' \subseteq pending /\ \A e \in pending' : e.id # call[t]
    BY <1>5 DEF Remove, GiveUp, Forget, Without
  <2>2. \A e \in pending' : e.caller # t
    BY <2>1 DEF Channels, NoLeftovers
  <2>3. UNCHANGED <<nextId, call, held, fromServer, answered>>
    BY <1>5 DEF Remove, GiveUp
  <2>4. CASE \E result : EndCall(t, result)
    BY <2>1, <2>2, <2>3, <2>4, EndCallKeepsChannels
  <2>5. CASE ~\E result : EndCall(t, result)
    <3>1. /\ pc' = [pc EXCEPT ![t] = "check"]
          /\ out' = [out EXCEPT ![t] = Message("cancel", call[t])]
          /\ UNCHANGED inbox
      BY <1>5, <2>5 DEF Remove, GiveUp, Goto
    <3>2. Asking(t)'
      BY <3>1 DEF TypeOK, Asking, Calling, Message
    <3>3. /\ pc'[t] # "insert" /\ inbox'[t] = inbox[t]
          /\ pc'[Reader] = "deliver" => pc[Reader] = "deliver"
      BY <3>1 DEF TypeOK
    <3> QED
      BY <1>1, <2>1, <2>2, <2>3, <3>2, <3>3, ThreadKeepsChannels
  <2> QED
    BY <2>4, <2>5
<1>6. CASE Receive(t) \/ Disconnected(t)
  <2>1. Entry(t) \notin pending
    BY <1>6 DEF Receive, Disconnected, HasSender, Channels, SenderOnce
  <2>2. \A e \in pending : e.caller # t
    BY <2>1, NoEntryOf
  <2>3. EndCall(t, "reply") \/ EndCall(t, "stopped")
    BY <1>6 DEF Receive, Disconnected
  <2>4. UNCHANGED <<nextId, call, held, fromServer, answered, pending>>
    BY <1>6 DEF Receive, Disconnected
  <2> QED
    BY <2>2, <2>3, <2>4, EndCallKeepsChannels
<1>7. CASE Expire(t)
  <2>1. /\ pc' = [pc EXCEPT ![t] = "expire"]
        /\ out[t].kind \in {"request", "shutdown"}
        /\ UNCHANGED <<nextId, call, held, fromServer, answered, pending, out,
                       inbox>>
    BY <1>7 DEF Expire, Goto, Roles, RoleOf
  <2>2. Asking(t)'
    BY <2>1 DEF TypeOK, Asking, Calling
  <2> QED
    BY <2>1, <2>2, ThreadKeepsChannels DEF TypeOK, Calling
<1>8. CASE LockWriter(t) \/ (CheckStopped(t) /\ Goto(t, "lock") /\ UNCHANGED <<out, inbox>>)
  <2>1. \E p \in {"lock", "write"} : pc' = [pc EXCEPT ![t] = p]
    BY <1>8 DEF LockWriter, Goto
  <2>2. /\ UNCHANGED <<nextId, call, held, fromServer, answered, pending, out,
                       inbox>>
        /\ pc[t] \in Calling
    BY <1>8 DEF LockWriter, CheckStopped, Calling
  <2>3. pc'[t] \in {"lock", "write"} /\ pc'[t] \in Calling
    BY <2>1 DEF TypeOK, Calling
  <2>4. Asking(t)' <=> Asking(t)
    BY <2>2, <2>3 DEF Asking
  <2>5. inbox[t] # 0 => Asking(t)
    BY DEF Channels, Answers
  <2>6. \/ \A e \in pending : e.caller # t
        \/ out[t].kind \in {"request", "shutdown"}
    BY DEF Channels, NoLeftovers
  <2> QED
    BY <1>1, <2>1, <2>2, <2>3, <2>4, <2>5, <2>6, ThreadKeepsChannels DEF TypeOK
<1>9. CASE CheckStopped(t) \/ Write(t) \/ WriteFails(t)
  <2>1. \/ Goto(t, "lock") /\ UNCHANGED <<out, inbox>> /\ CheckStopped(t)
        \/ \E result : AfterSend(t, result)
    BY <1>9 DEF CheckStopped, Write, WriteFails
  <2>2. /\ pc[t] \in {"check", "write"}
        /\ UNCHANGED <<nextId, call, held, fromServer, answered, pending>>
    BY <1>9 DEF CheckStopped, Write, WriteFails
  <2> QED
    BY <1>8, <2>1, <2>2, AfterSendKeepsChannels
<1>10. CASE StoreStopped(t) \/ ClearPending(t) \/ IsStopped(t) \/ TakeChild(t)
            \/ GraceWait(t) \/ Kill(t)
  <2>1. pc[t] \notin Calling
    BY <1>10 DEF StoreStopped, ClearPending, IsStopped, TakeChild, GraceWait,
                 Kill, Calling
  <2>2. inbox[t] = 0 /\ \A e \in pending : e.caller # t
    BY <2>1, NothingPending
  <2>3. /\ UNCHANGED <<nextId, call, held, fromServer, answered, out, inbox>>
        /\ pending' \subseteq pending
    BY <1>10 DEF StoreStopped, ClearPending, IsStopped, TakeChild, GraceWait, Kill
  <2>4. \E p \in {"stop", "clear", "id", "take", "grace", "kill", "done"} :
           pc' = [pc EXCEPT ![t] = p]
    BY <1>10 DEF StoreStopped, ClearPending, IsStopped, TakeChild, GraceWait,
                 Kill, Goto
  <2>5. /\ pc'[t] # "insert"
        /\ pc'[Reader] = "deliver" => pc[Reader] = "deliver"
    BY <2>4 DEF TypeOK
  <2> QED
    BY <1>1, <2>2, <2>3, <2>5, ThreadKeepsChannels
<1> QED
    BY <1>2, <1>3, <1>4, <1>5, <1>6, <1>7, <1>8, <1>9, <1>10 DEF ThreadAction

\* The reader keeps the channels: it takes a sender out of the map together
\* with its entry, and uses it once.
LEMMA ReaderKeepsChannels ==
    ASSUME TypeOK, Roles, Numbers, Channels, Read \/ Deliver \/ ReadEnd
    PROVE  Channels'
<1> USE DEF serverVars
<1>1. Reader \in Threads /\ held.caller \in Threads
    BY DEF Threads, TypeOK, Senders
<1>2. UNCHANGED <<call, answered>> /\ \A u : Entry(u)' = Entry(u)
    BY DEF Read, Deliver, ReadEnd, Entry
<1>3. pc[Reader] = "read" \/ pc[Reader] = "deliver"
    BY DEF Read, Deliver, ReadEnd
<1>4. inbox[Reader] = 0 /\ \A e \in pending : e.caller # Reader
    BY <1>1, <1>3, NothingPending DEF Calling
<1>5. \A u \in Threads \ {Reader} : pc'[u] = pc[u] /\ out'[u] = out[u]
    BY DEF TypeOK, Read, ReadResponse, ReadAsk, Deliver, ReadEnd, Goto
<1>6. \A i \in 1 .. Len(fromServer') :
         fromServer'[i].kind = "response" => fromServer'[i].id \in answered
  <2>1. CASE UNCHANGED fromServer
    BY <2>1 DEF Channels, Answers
  <2>2. CASE fromServer # <<>> /\ fromServer' = Tail(fromServer)
    <3>1. fromServer \in Seq(InMessages)
      BY DEF TypeOK
    <3>2. /\ Len(fromServer') = Len(fromServer) - 1
          /\ \A i \in 1 .. Len(fromServer') : fromServer'[i] = fromServer[i + 1]
      BY <2>2, <3>1
    <3>3. \A i \in 1 .. Len(fromServer') : i + 1 \in 1 .. Len(fromServer)
      BY <3>1, <3>2
    <3> QED
      BY <3>2, <3>3 DEF Channels, Answers
  <2> QED
    BY <2>1, <2>2 DEF Read, Deliver, ReadEnd
<1>7. ASSUME NEW id, ReadResponse(id), pc'[Reader] = "deliver", Read,
             id \in answered
      PROVE  Channels'
  <2>1. pc[Reader] = "read" /\ UNCHANGED <<nextId, out, inbox>>
    BY <1>7 DEF Read, ReadResponse
  <2>2. PICK e \in pending : e.id = id /\ held' = e /\ pending' = Without(id)
    BY <1>7, <2>1 DEF ReadResponse
  <2>3. /\ e.caller \in Threads /\ call[e.caller] = e.id
        /\ pc[e.caller] # "insert" /\ e.caller # Reader
    BY <1>4, <2>2 DEF TypeOK, Senders, Channels, NoLeftovers
  <2>4. pending' \subseteq pending /\ e \notin pending'
    BY <2>2 DEF Without
  <2>5. NoLeftovers'
    BY <1>2, <1>4, <1>5, <2>1, <2>4 DEF Channels, NoLeftovers, TypeOK, Senders
  <2>6. SenderOnce'
    BY <1>2, <1>4, <1>5, <2>1, <2>2, <2>3, <2>4
       DEF Channels, SenderOnce, Numbers
  <2>7. Answers'
    BY <1>2, <1>4, <1>5, <1>6, <1>7, <2>1, <2>2 DEF Channels, Answers, Asking
  <2> QED
    BY <2>5, <2>6, <2>7 DEF Channels
<1>8. ASSUME UNCHANGED <<pending, inbox>>, nextId <= nextId',
             pc'[Reader] # "deliver"
      PROVE  Channels'
  <2>1. NoLeftovers'
    BY <1>2, <1>4, <1>5, <1>8 DEF Channels, NoLeftovers, TypeOK, Senders
  <2>2. SenderOnce'
    BY <1>2, <1>4, <1>5, <1>8 DEF Channels, SenderOnce
  <2>3. Answers'
    BY <1>2, <1>4, <1>5, <1>6, <1>8 DEF Channels, Answers, Asking
  <2> QED
    BY <2>1, <2>2, <2>3 DEF Channels
<1>9. CASE Read
  <2>1. pc[Reader] = "read" /\ UNCHANGED inbox
    BY <1>9 DEF Read
  <2>2. Head(fromServer).kind = "response" => Head(fromServer).id \in answered
    BY <1>9 DEF Read, TypeOK, Channels, Answers
  <2>3. CASE \E id \in answered : ReadResponse(id) /\ pc'[Reader] = "deliver"
    BY <1>7, <1>9, <2>3
  <2>4. CASE \E id \in answered : ReadResponse(id) /\ pc'[Reader] # "deliver"
    BY <1>1, <1>8, <2>1, <2>4 DEF ReadResponse, Goto, TypeOK
  <2>5. CASE ReadAsk
    BY <1>1, <1>8, <2>1, <2>5 DEF ReadAsk, NextNumber, Goto, TypeOK
  <2>6. CASE /\ UNCHANGED <<nextId, pending, out, held>>
             /\ UNCHANGED pc \/ Goto(Reader, "stop")
    BY <1>1, <1>8, <2>1, <2>6 DEF Goto, TypeOK
  <2> QED
    BY <1>9, <2>2, <2>3, <2>4, <2>5, <2>6 DEF Read
<1>10. CASE Deliver
  <2>1. pc' = [pc EXCEPT ![Reader] = "read"] /\ pc[Reader] = "deliver"
        /\ UNCHANGED <<nextId, pending, out, fromServer>>
    BY <1>10 DEF Deliver, Goto
  <2>2. CASE UNCHANGED inbox
    BY <1>1, <1>8, <2>1, <2>2 DEF TypeOK
  <2>3. CASE ~UNCHANGED inbox
    <3>1. /\ held = Entry(held.caller) /\ Asking(held.caller)
          /\ inbox' = [inbox EXCEPT ![held.caller] = held.id]
      BY <1>10, <2>3 DEF Deliver
    <3>2. /\ held \notin pending /\ held.id \in answered
          /\ pc[held.caller] # "insert"
      BY <2>1, <3>1 DEF Channels, SenderOnce, Answers
    <3>3. held.id = call[held.caller] /\ held.caller # Reader
      BY <1>1, <2>1, <3>1, EntryFields DEF Asking, Calling
    <3>4. NoLeftovers'
      BY <1>2, <1>4, <1>5, <2>1 DEF Channels, NoLeftovers, TypeOK, Senders
    <3>5. \A u \in Threads : inbox'[u] # 0 => u = held.caller \/ inbox[u] # 0
      BY <3>1 DEF TypeOK
    <3>6. SenderOnce'
      BY <1>1, <1>2, <1>4, <1>5, <2>1, <3>1, <3>2, <3>3, <3>5
         DEF Channels, SenderOnce, TypeOK
    <3>7. Answers'
      BY <1>1, <1>2, <1>4, <1>5, <1>6, <2>1, <3>1, <3>2, <3>3
         DEF Channels, Answers, Asking, TypeOK
    <3> QED
      BY <3>4, <3>6, <3>7 DEF Channels
  <2> QED
    BY <2>2, <2>3
<1>11. CASE ReadEnd
  <2>1. pc' = [pc EXCEPT ![Reader] = "stop"]
        /\ UNCHANGED <<nextId, pending, inbox>>
    BY <1>11 DEF ReadEnd, Goto
  <2> QED
    BY <1>1, <1>8, <2>1 DEF TypeOK
<1> QED
    BY <1>9, <1>10, <1>11

\* The server keeps the channels: what it answers is what it has answered.
LEMMA ServerKeepsChannels ==
    ASSUME TypeOK, Channels,
           \/ ServerRead \/ ServerAnswer \/ ServerAsk \/ ServerTell
           \/ ServerGarbage \/ ServerExit \/ UNCHANGED vars
    PROVE  Channels'
<1>1. UNCHANGED clientVars
    BY DEF ServerRead, ServerAnswer, ServerAsk, ServerTell, ServerGarbage,
           ServerSpeaks, ServerSays, ServerExit, clientVars, vars
<1>2. /\ answered \subseteq answered'
      /\ \A i \in 1 .. Len(fromServer') :
           fromServer'[i].kind = "response" => fromServer'[i].id \in answered'
  <2>1. CASE UNCHANGED <<fromServer, answered>>
    BY <2>1 DEF Channels, Answers
  <2>2. ASSUME NEW m \in InMessages, fromServer' = Append(fromServer, m),
               answered \subseteq answered',
               m.kind = "response" => m.id \in answered'
        PROVE  /\ answered \subseteq answered'
               /\ \A i \in 1 .. Len(fromServer') :
                    fromServer'[i].kind = "response"
                    => fromServer'[i].id \in answered'
    <3>1. fromServer \in Seq(InMessages)
      BY DEF TypeOK
    <3>2. /\ Len(fromServer') = Len(fromServer) + 1
          /\ \A i \in 1 .. Len(fromServer) : fromServer'[i] = fromServer[i]
          /\ fromServer'[Len(fromServer) + 1] = m
      BY <2>2, <3>1
    <3>3. Len(fromServer) \in Nat
      BY <3>1
    <3> QED
      BY <2>2, <3>2, <3>3 DEF Channels, Answers
  <2>3. CASE ServerAnswer
    <3>1. PICK id \in unanswered : /\ ServerSays(Message("response", id))
                                   /\ answered' = answered \cup {id}
      BY <2>3 DEF ServerAnswer
    <3>2. Message("response", id) \in InMessages
      BY InListed DEF TypeOK, InKinds
    <3> QED
      BY <2>2, <3>1, <3>2 DEF ServerSays, Message
  <2>4. CASE ServerAsk \/ ServerTell \/ ServerGarbage
    <3>1. PICK kind \in {"ask", "tell", "garbage"} :
             ServerSays(Message(kind, 0)) /\ UNCHANGED answered
      BY <2>4 DEF ServerAsk, ServerTell, ServerGarbage, ServerSpeaks
    <3>2. Message(kind, 0) \in InMessages /\ Message(kind, 0).kind # "response"
      BY InListed DEF InKinds, Message
    <3> QED
      BY <2>2, <3>1, <3>2 DEF ServerSays
  <2> QED
    BY <2>1, <2>3, <2>4 DEF ServerRead, ServerExit, vars
<1> QED
    BY <1>1, <1>2
       DEF clientVars, Channels, NoLeftovers, SenderOnce, Answers, Asking, Entry

\* The channels are in order: no entry outlives its call, no sender is in two
\* places, and no reply changes its number on the way.
THEOREM ChannelsCorrect == Spec => []Channels
<1>1. Init => Channels
    BY DEF Init, Channels, NoLeftovers, SenderOnce, Answers, Threads
<1>2. TypeOK /\ Roles /\ Numbers /\ Channels /\ [Next]_vars => Channels'
    BY StepCases, ThreadActionKeepsChannels, ReaderKeepsChannels,
       ServerKeepsChannels
<1> QED
    BY <1>1, <1>2, TypeCorrect, RolesCorrect, NumbersCorrect, PTL DEF Spec

\* A request gets its own response and nobody else's.
THEOREM OwnReplyHolds == Spec => []OwnReply
<1>1. TypeOK /\ Numbers /\ Channels => OwnReply
    BY DEF TypeOK, Numbers, Channels, Answers, OwnReply
<1> QED
    BY <1>1, TypeCorrect, NumbersCorrect, ChannelsCorrect, PTL

\* What is in the pending map is a request somebody still waits for.
THEOREM NoLeftoversHolds == Spec => []NoLeftovers
    BY ChannelsCorrect, PTL DEF Channels

-----------------------------------------------------------------------------
(* Stopping.                                                               *)

\* What a thread's action does to the map and the flag.
LEMMA MapAndFlag ==
    ASSUME TypeOK, NEW t \in Threads, ThreadAction(t)
    PROVE  /\ UNCHANGED held
           /\ stopped => stopped'
           /\ stopped' # stopped => pc'[t] = "clear"
           /\ pc[t] = "clear" => pending' = {}
           /\ pc[t] # "clear" =>
                 \A e \in pending : e.id # call[t] => e \in pending'
           /\ pc[t] # "insert" => pending' \subseteq pending
           /\ pc[t] = "insert" => /\ pending' \subseteq pending \cup {Entry(t)}
                                  /\ Entry(t) \in pending'
                                  /\ pc'[t] = "check"
<1> USE DEF TypeOK, serverVars, Goto
<1>1. CASE Request(t) \/ AskShutdown(t)
    BY <1>1 DEF Request, AskShutdown, TakeNumber
<1>2. CASE Notify(t) \/ Expire(t) \/ LockWriter(t) \/ Receive(t) \/ Disconnected(t)
    BY <1>2 DEF Notify, Expire, LockWriter, Receive, Disconnected
<1>3. CASE Insert(t)
    BY <1>3 DEF Insert, Without
<1>4. CASE Remove(t) \/ GiveUp(t)
    BY <1>4 DEF Remove, GiveUp, Forget, Without
<1>5. CASE CheckStopped(t) \/ Write(t) \/ WriteFails(t)
    BY <1>5 DEF CheckStopped, Write, WriteFails
<1>6. CASE StoreStopped(t) \/ ClearPending(t)
    BY <1>6 DEF StoreStopped, ClearPending
<1>7. CASE IsStopped(t) \/ TakeChild(t) \/ GraceWait(t) \/ Kill(t)
    BY <1>7 DEF IsStopped, TakeChild, GraceWait, Kill
<1> QED
    BY <1>1, <1>2, <1>3, <1>4, <1>5, <1>6, <1>7 DEF ThreadAction

\* Where a thread's action takes it: to a point of a send from the one before,
\* and to `clear` only with the flag set.
LEMMA WhereItGoes ==
    ASSUME TypeOK, Roles, NEW t \in Threads, ThreadAction(t)
    PROVE  /\ pc[t] # "deliver" /\ pc'[t] # "deliver"
           /\ pc'[t] = "check" /\ out'[t].kind \in {"request", "shutdown"}
              => pc[t] = "insert"
           /\ pc'[t] \in {"lock", "write", "wait"} =>
                 /\ pc[t] \in {"check", "lock", "write"}
                 /\ pc[t] = "check" => ~stopped /\ ~stopped'
                 /\ UNCHANGED <<pending, out, inbox, call, stopped>>
           /\ pc'[t] = "clear" => stopped'
<1> USE DEF TypeOK, serverVars, Goto
<1>1. CASE Request(t) \/ AskShutdown(t)
    BY <1>1 DEF Request, AskShutdown, TakeNumber
<1>2. CASE Notify(t)
    BY <1>2 DEF Notify, Message
<1>3. CASE Insert(t) \/ Expire(t) \/ LockWriter(t)
    BY <1>3 DEF Insert, Expire, LockWriter
<1>4. ASSUME NEW result, EndCall(t, result)
      PROVE  /\ pc'[t] \in {"idle", "check", "stop"}
             /\ out'[t].kind \in {"none", "exit"}
    BY <1>4, ThreadsAssumption DEF EndCall, Message, Nothing
<1>5. CASE Remove(t) \/ Receive(t) \/ Disconnected(t)
    BY <1>4, <1>5 DEF Remove, Receive, Disconnected
<1>6. CASE GiveUp(t)
  <2>1. CASE EndCall(t, "timed_out")
    BY <1>4, <1>6, <2>1 DEF GiveUp
  <2>2. CASE ~EndCall(t, "timed_out")
    <3>1. /\ pc[t] = "expire" /\ pc'[t] = "check"
          /\ out' = [out EXCEPT ![t] = Message("cancel", call[t])]
      BY <1>6, <2>2 DEF GiveUp
    <3>2. out'[t].kind = "cancel"
      BY <3>1 DEF Message
    <3> QED
      BY <3>1, <3>2
  <2> QED
    BY <2>1, <2>2
<1>7. ASSUME NEW result, AfterSend(t, result), result \in {"stopped", "failed"}
      PROVE  \/ /\ pc'[t] \in {"idle", "check", "stop"}
                /\ out'[t].kind \in {"none", "exit"}
             \/ pc'[t] \in {"remove", "idle", "stop", "read"}
    BY <1>4, <1>7 DEF AfterSend
<1>8. CASE CheckStopped(t)
    BY <1>7, <1>8 DEF CheckStopped
<1>9. CASE WriteFails(t)
    BY <1>7, <1>9 DEF WriteFails
<1>10. CASE Write(t)
    BY <1>4, <1>10 DEF Write, AfterSend
<1>11. CASE StoreStopped(t) \/ ClearPending(t)
    BY <1>11 DEF StoreStopped, ClearPending
<1>12. CASE IsStopped(t) \/ TakeChild(t) \/ GraceWait(t) \/ Kill(t)
    BY <1>12 DEF IsStopped, TakeChild, GraceWait, Kill
<1> QED
    BY <1>1, <1>2, <1>3, <1>5, <1>6, <1>8, <1>9, <1>10, <1>11, <1>12
       DEF ThreadAction

\* Nobody waits on a channel that no one will answer or drop: an entry is put
\* in the map before the flag is checked, and the flag set before the map is
\* cleared.
THEOREM NoneStrandedHolds == Spec => []NoneStranded
<1>1. Init => NoneStranded
    BY DEF Init, NoneStranded
<1>2. ASSUME TypeOK, Roles, NoneStranded, [Next]_vars PROVE NoneStranded'
  <2> USE <1>2
  <2>1. ASSUME NEW t \in Threads, ThreadAction(t) PROVE NoneStranded'
    <3> SUFFICES ASSUME NEW u \in Threads, pc'[u] \in {"lock", "write", "wait"},
                        Entry(u)' \in pending', stopped'
                 PROVE  \E w \in Threads : pc'[w] = "clear"
      BY DEF NoneStranded
    <3>1. pc[t] # "clear"
      BY <2>1, MapAndFlag
    <3>2. ~stopped => pc'[t] = "clear"
      BY <2>1, MapAndFlag DEF TypeOK
    <3>3. stopped => \E w \in Threads : pc[w] = "clear"
      <4> HAVE stopped
      <4>1. CASE u = t
        <5>1. /\ pc[t] \in {"lock", "write"}
              /\ UNCHANGED <<pending, call>>
          BY <2>1, <4>1, WhereItGoes
        <5> QED
          BY <4>1, <5>1 DEF NoneStranded, Entry
      <4>2. CASE u # t
        <5>1. pc[u] = pc'[u] /\ Entry(u)' = Entry(u) /\ Entry(u) # Entry(t)
          BY <2>1, <4>2, OthersUnchanged DEF Entry
        <5>2. Entry(u) \in pending
          BY <2>1, <5>1, MapAndFlag
        <5> QED
          BY <5>1, <5>2 DEF NoneStranded
      <4> QED
        BY <4>1, <4>2
    <3>4. CASE \E w \in Threads : pc[w] = "clear"
      BY <2>1, <3>1, <3>4, OthersUnchanged
    <3> QED
      BY <3>2, <3>3, <3>4
  <2>2. CASE Read \/ Deliver \/ ReadEnd
    <3>1. /\ UNCHANGED <<call, stopped>> /\ pending' \subseteq pending
          /\ pc[Reader] \in {"read", "deliver"}
          /\ pc'[Reader] \notin {"lock", "write", "wait"}
          /\ \A u \in Threads \ {Reader} : pc'[u] = pc[u]
      BY <2>2 DEF TypeOK, Read, ReadResponse, ReadAsk, Deliver, ReadEnd,
                  Without, Goto, Threads
    <3> QED
      BY <3>1 DEF NoneStranded, Entry
  <2>3. CASE UNCHANGED clientVars
    BY <2>3 DEF clientVars, NoneStranded, Entry
  <2>4. CASE ServerRead \/ ServerAnswer \/ ServerAsk \/ ServerTell
             \/ ServerGarbage \/ ServerExit \/ UNCHANGED vars
    BY <2>3, <2>4
       DEF ServerRead, ServerAnswer, ServerAsk, ServerTell, ServerGarbage,
           ServerSpeaks, ServerSays, ServerExit, clientVars, vars
  <2> QED
    BY StepCases, <2>1, <2>2, <2>4
<1> QED
    BY <1>1, <1>2, TypeCorrect, RolesCorrect, PTL DEF Spec

\* A call that can still be told how it ends stays so.
LEMMA ReachableStep ==
    ASSUME TypeOK, Roles, Numbers, Channels, Reachable, [Next]_vars
    PROVE  Reachable'
<1>1. ASSUME NEW t \in Threads, ThreadAction(t) PROVE Reachable'
  <2>1. \A u \in Threads : pc'[u] = "clear" => stopped'
    BY <1>1, MapAndFlag, WhereItGoes, OthersUnchanged DEF Reachable
  <2>2. ASSUME NEW u \in Threads,
               pc'[u] \in {"check", "lock", "write", "wait"},
               out'[u].kind \in {"request", "shutdown"}, ~stopped'
        PROVE  HasSender(u)' \/ inbox'[u] # 0
    <3>1. ~stopped /\ pc[t] # "clear"
      BY <1>1, <2>2, MapAndFlag DEF Reachable
    <3>2. CASE u = t /\ pc'[t] = "check"
      <4>1. pc[t] = "insert" /\ Entry(t) \in pending'
        BY <1>1, <2>2, <3>2, WhereItGoes, MapAndFlag
      <4>2. call'[t] = call[t]
        BY <1>1, <4>1
           DEF ThreadAction, Request, Notify, Insert, Remove, Receive, Expire,
               Disconnected, GiveUp, CheckStopped, LockWriter, Write,
               WriteFails, StoreStopped, ClearPending, IsStopped, AskShutdown,
               TakeChild, GraceWait, Kill
      <4> QED
        BY <3>2, <4>1, <4>2 DEF HasSender, Entry
    <3>3. CASE u = t /\ pc'[t] # "check"
      <4>1. /\ pc[t] \in {"check", "lock", "write"}
            /\ UNCHANGED <<pending, out, inbox, call, held>>
        BY <1>1, <2>2, <3>3, WhereItGoes, MapAndFlag
      <4>2. HasSender(t) \/ inbox[t] # 0
        BY <2>2, <3>1, <3>3, <4>1 DEF Reachable
      <4>3. pc[Reader] = "deliver" => pc'[Reader] = "deliver"
        BY <1>1, WhereItGoes, OthersUnchanged DEF Threads
      <4> QED
        BY <3>3, <4>1, <4>2, <4>3 DEF HasSender, Entry
    <3>4. CASE u # t
      <4>1. /\ pc[u] = pc'[u] /\ out[u] = out'[u] /\ inbox[u] = inbox'[u]
            /\ call[u] = call'[u]
        BY <1>1, <3>4, OthersUnchanged
      <4>2. call[u] # call[t]
        BY <2>2, <3>4, <4>1 DEF Numbers, Asking, Calling
      <4>3. HasSender(u) \/ inbox[u] # 0
        BY <2>2, <3>1, <4>1 DEF Reachable
      <4>4. Entry(u) \in pending => Entry(u) \in pending'
        BY <1>1, <3>1, <4>2, MapAndFlag, EntryFields
      <4>5. pc[Reader] = "deliver" => pc'[Reader] = "deliver"
        BY <1>1, WhereItGoes, OthersUnchanged DEF Threads
      <4> QED
        BY <1>1, <4>1, <4>3, <4>4, <4>5, MapAndFlag DEF HasSender, Entry
    <3> QED
      BY <3>2, <3>3, <3>4
  <2> QED
    BY <2>1, <2>2 DEF Reachable
<1>2. ASSUME Read \/ Deliver \/ ReadEnd PROVE Reachable'
  <2>1. /\ UNCHANGED <<call, stopped>> /\ (\A u : Entry(u)' = Entry(u))
        /\ \A u \in Threads \ {Reader} : pc'[u] = pc[u] /\ out'[u] = out[u]
        /\ Reader \in Threads /\ held.caller \in Threads
    BY <1>2 DEF TypeOK, Read, ReadResponse, ReadAsk, Deliver, ReadEnd, Goto,
                Entry, Threads, Senders
  <2>2. /\ out'[Reader].kind \notin {"request", "shutdown"}
        /\ pc'[Reader] # "clear"
    BY <1>2, ThreadsAssumption, <2>1
       DEF TypeOK, Roles, RoleOf, Read, ReadResponse, ReadAsk, Deliver, ReadEnd,
           Goto, Message, Calling, Users
  <2>3. ASSUME NEW u \in Threads \ {Reader}, Asking(u),
               HasSender(u) \/ inbox[u] # 0
        PROVE  HasSender(u)' \/ inbox'[u] # 0
    <3>1. call[u] # 0 /\ call[u] \in Nat
      BY <2>3 DEF Numbers, TypeOK
    <3>2. CASE inbox[u] # 0
      BY <1>2, <2>1, <3>1, <3>2
         DEF Read, Deliver, ReadEnd, TypeOK, Entry
    <3>3. CASE pc[Reader] = "deliver" /\ held = Entry(u)
      BY <1>2, <2>1, <2>3, <3>1, <3>3, EntryFields
         DEF Read, Deliver, ReadEnd, TypeOK
    <3>4. CASE Entry(u) \in pending
      <4>1. CASE Entry(u) \in pending'
        BY <2>1, <4>1 DEF HasSender
      <4>2. CASE Entry(u) \notin pending'
        <5>1. PICK id : ReadResponse(id) /\ pending' # pending
          BY <1>2, <3>4, <4>2 DEF Read, ReadAsk, Deliver, ReadEnd
        <5>2. PICK e \in pending : /\ e.id = id /\ held' = e
                                   /\ pending' = Without(id)
                                   /\ Goto(Reader, "deliver")
          BY <5>1 DEF ReadResponse
        <5>3. e.id = call[u]
          BY <3>4, <4>2, <5>2, EntryFields DEF Without
        <5>4. e.caller = u
          BY <3>1, <5>2, <5>3
             DEF Channels, NoLeftovers, Numbers, TypeOK, Senders
        <5>5. e = Entry(u)
          BY <5>2, <5>3, <5>4, EntryFields DEF TypeOK
        <5> QED
          BY <2>1, <5>2, <5>5 DEF HasSender, Goto, TypeOK
      <4> QED
        BY <4>1, <4>2
    <3> QED
      BY <2>3, <3>2, <3>3, <3>4 DEF HasSender
  <2> QED
    BY <2>1, <2>2, <2>3 DEF Reachable, Asking, Calling
<1>3. CASE UNCHANGED clientVars
    BY <1>3 DEF clientVars, Reachable, HasSender, Entry
<1>4. CASE ServerRead \/ ServerAnswer \/ ServerAsk \/ ServerTell
           \/ ServerGarbage \/ ServerExit \/ UNCHANGED vars
    BY <1>3, <1>4
       DEF ServerRead, ServerAnswer, ServerAsk, ServerTell, ServerGarbage,
           ServerSpeaks, ServerSays, ServerExit, clientVars, vars
<1> QED
    BY StepCases, <1>1, <1>2, <1>4

\* A call that is being sent or waited for can always be told how it ends.
THEOREM ReachableHolds == Spec => []Reachable
<1>1. Init => Reachable
    BY DEF Init, Reachable
<1> QED
    BY <1>1, ReachableStep, TypeCorrect, RolesCorrect, NumbersCorrect,
       ChannelsCorrect, PTL DEF Spec

\* A call never finds its channel hung up while the connection is up.
THEOREM HungUpMeansStoppedHolds == Spec => []HungUpMeansStopped
<1>1. Roles /\ Reachable => HungUpMeansStopped
    BY DEF Roles, RoleOf, Reachable, HungUpMeansStopped
<1> QED
    BY <1>1, ReachableHolds, RolesCorrect, PTL

-----------------------------------------------------------------------------
(* Shutting down.                                                          *)

\* Once `shutdown` has returned the server is gone, or another `shutdown` that
\* took the process first is still seeing to its end.
THEOREM ShutdownLeavesNoServerHolds == Spec => []ShutdownLeavesNoServer
<1>1. Init => ProcessOwned
    BY DEF Init, ProcessOwned, Threads, Users
<1>2. ASSUME TypeOK, Roles, ProcessOwned, [Next]_vars PROVE ProcessOwned'
  <2> USE <1>2, ThreadsAssumption
  <2>1. ASSUME NEW t \in Threads, ThreadAction(t) PROVE ProcessOwned'
    <3> USE <2>1 DEF TypeOK, Goto, Threads, Users, serverVars
    <3>1. ASSUME NEW u \in Threads \ {t} PROVE pc'[u] = pc[u]
      BY <3>1, OthersUnchanged
    <3>2. CASE TakeChild(t)
      BY <3>1, <3>2 DEF TakeChild, ProcessOwned, Roles, RoleOf
    <3>3. CASE GraceWait(t)
      BY <3>1, <3>3 DEF GraceWait, ProcessOwned, Roles, RoleOf
    <3>4. CASE Kill(t)
      BY <3>1, <3>4 DEF Kill, ProcessOwned, Roles, RoleOf
    <3>5. CASE /\ pc[t] \notin {"grace", "kill"}
               /\ t \in Closers => pc'[t] \notin {"grace", "kill", "done"}
               /\ UNCHANGED <<child, server>>
      BY <3>1, <3>5 DEF ProcessOwned
    <3>6. CASE Request(t) \/ Notify(t) \/ Insert(t) \/ Expire(t) \/ LockWriter(t)
               \/ StoreStopped(t) \/ ClearPending(t) \/ IsStopped(t)
               \/ AskShutdown(t)
      BY <3>5, <3>6
         DEF Request, Notify, Insert, Expire, LockWriter, StoreStopped,
             ClearPending, IsStopped, AskShutdown, TakeNumber
    <3>7. CASE Remove(t) \/ Receive(t) \/ Disconnected(t) \/ GiveUp(t)
      BY <3>5, <3>7 DEF Remove, Receive, Disconnected, GiveUp, EndCall
    <3>8. CASE CheckStopped(t) \/ Write(t) \/ WriteFails(t)
      BY <3>5, <3>8 DEF CheckStopped, Write, WriteFails, AfterSend, EndCall
    <3> QED
      BY <3>2, <3>3, <3>4, <3>6, <3>7, <3>8 DEF ThreadAction
  <2>2. CASE Read \/ Deliver \/ ReadEnd
    <3>1. /\ \A t \in Closers : pc'[t] = pc[t]
          /\ UNCHANGED <<child, server>>
      BY <2>2 DEF TypeOK, Read, ReadResponse, ReadAsk, Deliver, ReadEnd, Goto,
                  Threads, Users, serverVars
    <3> QED
      BY <3>1 DEF ProcessOwned
  <2>3. CASE UNCHANGED <<pc, child>> /\ (server = "gone" => server' = "gone")
    BY <2>3 DEF ProcessOwned
  <2>4. CASE ServerRead \/ ServerAnswer \/ ServerAsk \/ ServerTell
             \/ ServerGarbage \/ ServerExit \/ UNCHANGED vars
    BY <2>3, <2>4
       DEF ServerRead, ServerAnswer, ServerAsk, ServerTell, ServerGarbage,
           ServerSpeaks, ServerSays, ServerExit, clientVars, vars
  <2> QED
    BY StepCases, <2>1, <2>2, <2>4
<1>3. ProcessOwned => ShutdownLeavesNoServer
    BY DEF ProcessOwned, ShutdownLeavesNoServer
<1> QED
    BY <1>1, <1>2, <1>3, TypeCorrect, RolesCorrect, PTL DEF Spec

-----------------------------------------------------------------------------
(* The abstract specification: what RequestBroker promises a caller.       *)

\* A number is asked when some user has had it or a later one.
Asked(id) == \E u \in Users : id <= call[u]

\* The requests on their way to the server were asked.
SentWereAsked ==
    /\ \A t \in Threads : out[t].kind \in {"request", "shutdown"} =>
          t \in Users /\ out[t].id = call[t]
    /\ \A i \in 1 .. Len(toServer) :
          toServer[i].kind \in {"request", "shutdown"} => Asked(toServer[i].id)
    /\ \A id \in unanswered : Asked(id)

\* A request that could not be sent could not because the connection is over.
UnsentMeansOver ==
    \A t \in Threads :
        pc[t] = "remove" =>
            outcome[t] \in {"stopped", "failed"} /\ (stopped \/ server = "gone")

\* The numbers of the calls only grow, so that what was asked stays asked.
LEMMA CallsGrow ==
    ASSUME TypeOK, Roles, Numbers, [Next]_vars
    PROVE  /\ \A u \in Threads : call[u] <= call'[u]
           /\ \A id \in Nat : Asked(id) => \E u \in Users : id <= call'[u]
<1>1. \A u \in Threads : call[u] <= call'[u]
  <2>1. ASSUME NEW t \in Threads, ThreadAction(t)
        PROVE  \A u \in Threads : call[u] <= call'[u]
    <3>1. CASE Request(t) \/ AskShutdown(t)
      <4>1. call' = [call EXCEPT ![t] = nextId]
        BY <3>1, Zenon DEF Request, AskShutdown, TakeNumber
      <4> QED
        BY <4>1 DEF TypeOK, Numbers
    <3>2. CASE ~Request(t) /\ ~AskShutdown(t)
      BY <2>1, <3>2, AskingStarts DEF TypeOK
    <3> QED
      BY <3>1, <3>2
  <2>2. CASE UNCHANGED call
    BY <2>2 DEF TypeOK
  <2>3. CASE Read \/ Deliver \/ ReadEnd
    BY <2>2, <2>3, ReaderAsksNothing
  <2>4. CASE ServerRead \/ ServerAnswer \/ ServerAsk \/ ServerTell
             \/ ServerGarbage \/ ServerExit \/ UNCHANGED vars
    BY <2>2, <2>4
       DEF ServerRead, ServerAnswer, ServerAsk, ServerTell, ServerGarbage,
           ServerSpeaks, ServerSays, ServerExit, clientVars, vars
  <2> QED
    BY StepCases, <2>1, <2>3, <2>4
<1>2. TypeOK'
    BY StepTypes
<1> QED
    BY SMTT(30), <1>1, <1>2 DEF Asked, TypeOK, Users, Threads

\* A message a thread goes on with is the one it had, one without an answer,
\* or the request it has just taken a number for.
LEMMA NextMessage ==
    ASSUME TypeOK, Roles, NEW t \in Threads, ThreadAction(t),
           out'[t].kind \in {"request", "shutdown"}
    PROVE  \/ out'[t] = out[t] /\ call'[t] = call[t]
           \/ t \in Users /\ out'[t].id = call'[t]
<1> USE DEF TypeOK, serverVars
<1>1. CASE Request(t) \/ AskShutdown(t)
    BY <1>1 DEF Request, AskShutdown, TakeNumber, Message, Users, Roles, RoleOf
<1>2. CASE Notify(t)
    BY <1>2 DEF Notify, Message
<1>3. CASE Insert(t) \/ Expire(t) \/ LockWriter(t)
    BY <1>3 DEF Insert, Expire, LockWriter
<1>4. ASSUME NEW result, EndCall(t, result) PROVE FALSE
    BY <1>4 DEF EndCall, Message, Nothing
<1>5. CASE Remove(t) \/ Receive(t) \/ Disconnected(t)
    BY <1>4, <1>5 DEF Remove, Receive, Disconnected
<1>6. CASE GiveUp(t)
    BY <1>4, <1>6 DEF GiveUp, Message
<1>7. CASE CheckStopped(t) \/ Write(t) \/ WriteFails(t)
    BY <1>4, <1>7 DEF CheckStopped, Write, WriteFails, AfterSend, Drop, Nothing, Message
<1>8. CASE StoreStopped(t) \/ ClearPending(t) \/ IsStopped(t) \/ TakeChild(t)
           \/ GraceWait(t) \/ Kill(t)
    BY <1>8 DEF StoreStopped, ClearPending, IsStopped, TakeChild, GraceWait, Kill
<1> QED
    BY <1>1, <1>2, <1>3, <1>5, <1>6, <1>7, <1>8 DEF ThreadAction

\* What is asked on the way to the server was asked by a user, in order.
THEOREM SentWereAskedHolds == Spec => []SentWereAsked
<1>1. Init => SentWereAsked
    BY DEF Init, SentWereAsked, Nothing, Message
<1>2. ASSUME TypeOK, Roles, Numbers, SentWereAsked, [Next]_vars
      PROVE  SentWereAsked'
  <2> USE <1>2
  <2> DEFINE Still(id) == \E u \in Users : id <= call'[u]
  <2>1. TypeOK' /\ \A id \in Nat : Asked(id) => Still(id)
    BY StepTypes, CallsGrow
  <2>0. /\ toServer \in Seq(OutMessages) /\ toServer' \in Seq(OutMessages)
        /\ out \in [Threads -> OutMessages]
        /\ \A m \in OutMessages : m.id \in Nat
    BY <2>1 DEF TypeOK, OutMessages
  <2>2. ASSUME UNCHANGED <<out, call>>
        PROVE  \A t \in Threads : out'[t].kind \in {"request", "shutdown"} =>
                  t \in Users /\ out'[t].id = call'[t]
    BY <2>2 DEF SentWereAsked
  <2>3. ASSUME UNCHANGED toServer \/ toServer' = <<>>
        PROVE  \A i \in 1 .. Len(toServer') :
                  toServer'[i].kind \in {"request", "shutdown"}
                  => Still(toServer'[i].id)
    BY <2>0, <2>1, <2>3 DEF SentWereAsked
  <2>4. ASSUME UNCHANGED unanswered
        PROVE  \A id \in unanswered' : Still(id)
    BY <2>1, <2>4 DEF SentWereAsked, TypeOK
  <2>5. ASSUME NEW t \in Threads, ThreadAction(t) PROVE SentWereAsked'
    <3>1. ASSUME NEW u \in Threads, out'[u].kind \in {"request", "shutdown"}
          PROVE  u \in Users /\ out'[u].id = call'[u]
      <4>1. CASE u = t
        BY <2>5, <3>1, <4>1, NextMessage DEF SentWereAsked
      <4>2. CASE u # t
        BY <2>5, <3>1, <4>2, OthersUnchanged DEF SentWereAsked
      <4> QED
        BY <4>1, <4>2
    <3>2. UNCHANGED unanswered
      BY <2>5 DEF ThreadAction, Request, AskShutdown, TakeNumber, Notify, Insert,
           Remove, Receive, Expire, Disconnected, GiveUp, CheckStopped,
           LockWriter, Write, WriteFails, StoreStopped, ClearPending, IsStopped,
           TakeChild, GraceWait, Kill, serverVars
    <3>3. CASE Write(t)
      <4>1. toServer' = Append(toServer, out[t]) /\ UNCHANGED call
        BY <3>3 DEF Write
      <4>2. out[t] \in OutMessages /\ out[t].id \in Nat
        BY DEF TypeOK, OutMessages
      <4>3. out[t].kind \in {"request", "shutdown"} => Still(out[t].id)
        BY <4>1, <4>2 DEF SentWereAsked, TypeOK
      <4>4. ASSUME NEW i \in 1 .. Len(toServer'),
                   toServer'[i].kind \in {"request", "shutdown"}
            PROVE  Still(toServer'[i].id)
        <5>1. CASE i = Len(toServer) + 1
          BY <4>1, <4>2, <4>3, <4>4, <5>1 DEF TypeOK
        <5>2. CASE i # Len(toServer) + 1
          <6>1. i \in 1 .. Len(toServer) /\ toServer'[i] = toServer[i]
            BY <4>1, <4>2, <5>2 DEF TypeOK
          <6>2. Asked(toServer[i].id) /\ toServer[i].id \in Nat
            BY <2>0, <4>4, <6>1 DEF SentWereAsked
          <6> QED
            BY <2>1, <6>1, <6>2
        <5> QED
          BY <5>1, <5>2
      <4> QED
        BY <2>4, <3>1, <3>2, <4>4 DEF SentWereAsked, Asked
    <3>4. CASE ~Write(t)
      <4>1. UNCHANGED toServer \/ toServer' = <<>>
        BY <2>5, <3>4 DEF ThreadAction, Request, AskShutdown, TakeNumber, Notify,
           Insert, Remove, Receive, Expire, Disconnected, GiveUp, CheckStopped,
           LockWriter, WriteFails, StoreStopped, ClearPending, IsStopped,
           TakeChild, GraceWait, Kill, serverVars
      <4> QED
        BY <2>3, <2>4, <3>1, <3>2, <4>1 DEF SentWereAsked, Asked
    <3> QED
      BY <3>3, <3>4
  <2>6. CASE Read \/ Deliver \/ ReadEnd
    <3>1. /\ UNCHANGED <<call, toServer, unanswered>>
          /\ \A t \in Threads : \/ out'[t] = out[t]
                                 \/ out'[t].kind \notin {"request", "shutdown"}
      BY <2>6 DEF TypeOK, Read, ReadResponse, ReadAsk, Deliver, ReadEnd, Message,
                  serverVars
    <3> QED
      BY <2>3, <2>4, <3>1 DEF SentWereAsked, Asked
  <2>7. CASE ServerRead
    <3>1. /\ UNCHANGED <<out, call>>
          /\ toServer' = Tail(toServer) /\ toServer # <<>>
          /\ unanswered' \subseteq unanswered \cup
               (IF Head(toServer).kind \in {"request", "shutdown"}
                THEN {Head(toServer).id} ELSE {})
      BY <2>7 DEF ServerRead, clientVars
    <3>2. /\ 1 \in 1 .. Len(toServer) /\ Head(toServer) = toServer[1]
          /\ Head(toServer).id \in Nat
      BY <2>0, <3>1
    <3>3. \A i \in 1 .. Len(toServer') :
             i + 1 \in 1 .. Len(toServer) /\ toServer'[i] = toServer[i + 1]
                /\ toServer'[i].id \in Nat
      BY <2>0, <3>1
    <3>4. \A id \in unanswered' : Asked(id) /\ id \in Nat
      BY <3>1, <3>2 DEF SentWereAsked, TypeOK
    <3> QED
      BY <2>1, <2>2, <3>1, <3>3, <3>4 DEF SentWereAsked, Asked
  <2>8. CASE ServerAnswer
    <3>1. UNCHANGED <<out, call, toServer>> /\ unanswered' \subseteq unanswered
      BY <2>8 DEF ServerAnswer, ServerSays, clientVars
    <3> QED
      BY <2>1, <2>2, <2>3, <3>1 DEF SentWereAsked, Asked, TypeOK
  <2>9. CASE ServerAsk \/ ServerTell \/ ServerGarbage \/ ServerExit
             \/ UNCHANGED vars
    <3>1. /\ UNCHANGED <<out, call, unanswered>>
          /\ UNCHANGED toServer \/ toServer' = <<>>
      BY <2>9 DEF ServerAsk, ServerTell, ServerGarbage, ServerSpeaks, ServerSays,
                  ServerExit, clientVars, vars
    <3> QED
      BY <2>2, <2>3, <2>4, <3>1 DEF SentWereAsked, Asked
  <2> QED
    BY StepCases, <2>5, <2>6, <2>7, <2>8, <2>9
<1> QED
    BY <1>1, <1>2, TypeCorrect, RolesCorrect, NumbersCorrect, PTL DEF Spec

\* A connection that is over stays over.
Over == stopped \/ server = "gone"

LEMMA OverStaysOver ==
    ASSUME TypeOK, [Next]_vars PROVE Over => Over'
<1>1. ASSUME NEW t \in Threads, ThreadAction(t) PROVE Over => Over'
  <2>1. stopped => stopped'
    BY <1>1, MapAndFlag
  <2>2. server = "gone" => server' = "gone"
    BY <1>1 DEF ThreadAction, Request, AskShutdown, TakeNumber, Notify, Insert,
           Remove, Receive, Expire, Disconnected, GiveUp, CheckStopped,
           LockWriter, Write, WriteFails, StoreStopped, ClearPending, IsStopped,
           TakeChild, GraceWait, Kill, serverVars
  <2> QED
    BY <2>1, <2>2 DEF Over
<1>2. CASE Read \/ Deliver \/ ReadEnd
    BY <1>2 DEF Read, Deliver, ReadEnd, serverVars, Over
<1>3. CASE ServerRead \/ ServerAnswer \/ ServerAsk \/ ServerTell
           \/ ServerGarbage \/ ServerExit \/ UNCHANGED vars
    BY <1>3 DEF ServerRead, ServerAnswer, ServerAsk, ServerTell, ServerGarbage,
           ServerSpeaks, ServerSays, ServerExit, clientVars, vars, Over
<1> QED
    BY StepCases, <1>1, <1>2, <1>3

\* A thread is at `remove` because the flag was set or the pipe was broken.
LEMMA UnsentIsOver ==
    ASSUME TypeOK, Roles, NEW t \in Threads, ThreadAction(t), pc'[t] = "remove"
    PROVE  Over /\ outcome'[t] \in {"stopped", "failed"}
<1> USE DEF TypeOK, serverVars, Goto
<1>1. CASE Request(t) \/ AskShutdown(t)
    BY <1>1 DEF Request, AskShutdown, TakeNumber
<1>2. CASE Notify(t) \/ Insert(t) \/ Expire(t) \/ LockWriter(t)
    BY <1>2 DEF Notify, Insert, Expire, LockWriter
<1>3. ASSUME NEW result, EndCall(t, result) PROVE FALSE
    BY <1>3 DEF EndCall
<1>4. CASE Remove(t) \/ Receive(t) \/ Disconnected(t)
    BY <1>3, <1>4 DEF Remove, Receive, Disconnected
<1>5. CASE GiveUp(t)
    BY <1>3, <1>5 DEF GiveUp
<1>6. CASE CheckStopped(t)
    BY <1>3, <1>6 DEF CheckStopped, AfterSend, Over
<1>7. CASE Write(t) \/ WriteFails(t)
    BY <1>3, <1>7 DEF Write, WriteFails, AfterSend, Over
<1>8. CASE StoreStopped(t) \/ ClearPending(t) \/ IsStopped(t) \/ TakeChild(t)
           \/ GraceWait(t) \/ Kill(t)
    BY <1>8 DEF StoreStopped, ClearPending, IsStopped, TakeChild, GraceWait, Kill
<1> QED
    BY <1>1, <1>2, <1>4, <1>5, <1>6, <1>7, <1>8 DEF ThreadAction

\* A request is only given up unsent when the connection is over.
THEOREM UnsentMeansOverHolds == Spec => []UnsentMeansOver
<1>1. Init => UnsentMeansOver
    BY DEF Init, UnsentMeansOver
<1>2. ASSUME TypeOK, Roles, UnsentMeansOver, [Next]_vars PROVE UnsentMeansOver'
  <2> USE <1>2
  <2>1. Over => Over'
    BY OverStaysOver
  <2>2. ASSUME NEW t \in Threads, ThreadAction(t) PROVE UnsentMeansOver'
    <3>1. ASSUME NEW u \in Threads, pc'[u] = "remove"
          PROVE  outcome'[u] \in {"stopped", "failed"} /\ Over'
      <4>1. CASE u = t
        BY <2>1, <2>2, <3>1, <4>1, UnsentIsOver
      <4>2. CASE u # t
        BY <2>1, <2>2, <3>1, <4>2, OthersUnchanged DEF UnsentMeansOver, Over
      <4> QED
        BY <4>1, <4>2
    <3> QED
      BY <3>1 DEF UnsentMeansOver, Over
  <2>3. CASE Read \/ Deliver \/ ReadEnd
    <3>1. /\ UNCHANGED outcome
          /\ \A t \in Threads : pc'[t] = "remove" => pc[t] = "remove"
      BY <2>3 DEF TypeOK, Read, ReadResponse, ReadAsk, Deliver, ReadEnd, Goto
    <3> QED
      BY <2>1, <3>1 DEF UnsentMeansOver, Over
  <2>4. CASE ServerRead \/ ServerAnswer \/ ServerAsk \/ ServerTell
             \/ ServerGarbage \/ ServerExit \/ UNCHANGED vars
    <3>1. UNCHANGED <<pc, outcome>>
      BY <2>4 DEF ServerRead, ServerAnswer, ServerAsk, ServerTell,
           ServerGarbage, ServerSpeaks, ServerSays, ServerExit, clientVars, vars
    <3> QED
      BY <2>1, <3>1 DEF UnsentMeansOver, Over
  <2> QED
    BY StepCases, <2>2, <2>3, <2>4
<1> QED
    BY <1>1, <1>2, TypeCorrect, RolesCorrect, PTL DEF Spec

\* How a thread's step looks to the callers: nothing of theirs changes, ...
NothingEnds ==
    /\ UNCHANGED <<call, answered>>
    /\ \A u \in Users : Asking(u)' = Asking(u)
    /\ \A u \in Users : ~Asking(u) => outcome'[u] = outcome[u]
\* ... or one request ends.
Ended(t, how) ==
    /\ UNCHANGED <<call, answered, stopped, server>>
    /\ t \in Users /\ Asking(t) /\ ~Asking(t)'
    /\ outcome'[t] = how
    /\ \A u \in Users \ {t} : Asking(u)' = Asking(u) /\ outcome'[u] = outcome[u]
    /\ how \in {"reply", "timed_out", "stopped", "failed"}
    /\ how = "reply" => call[t] \in answered
    /\ how \in {"stopped", "failed"} => Over

Promised == TypeOK /\ Roles /\ Channels /\ Reachable /\ UnsentMeansOver

\* A request that ends is over for its caller, with the outcome it ended with.
LEMMA EndCallEnds ==
    ASSUME TypeOK, NEW t \in Threads, NEW how, EndCall(t, how)
    PROVE  ~Asking(t)' /\ outcome'[t] = how /\ t \in Users
BY ThreadsAssumption
   DEF TypeOK, EndCall, Asking, Goto, Nothing, Message, Calling, Users

\* Every action of a thread, but the one that takes a number, ends at most its
\* own request, and truthfully.
LEMMA ThreadEndsTruly ==
    ASSUME Promised, NEW t \in Threads, ThreadAction(t), ~Request(t),
           ~AskShutdown(t)
    PROVE  NothingEnds \/ \E how : Ended(t, how)
<1> USE DEF Promised, TypeOK, serverVars
<1>1. ASSUME NEW u \in Threads \ {t}
      PROVE  Asking(u)' = Asking(u) /\ outcome'[u] = outcome[u]
    BY <1>1, OthersUnchanged DEF Asking
<1>2. UNCHANGED call /\ Users \subseteq Threads
    BY AskingStarts DEF Threads
<1>3. ASSUME UNCHANGED answered, Asking(t)' = Asking(t),
             ~Asking(t) => outcome'[t] = outcome[t]
      PROVE  NothingEnds
    BY <1>1, <1>2, <1>3 DEF NothingEnds
<1>4. CASE Notify(t)
    BY <1>3, <1>4 DEF Notify, Asking, Calling, Goto, Message
<1>5. CASE Insert(t) \/ Expire(t) \/ LockWriter(t)
    BY <1>3, <1>5 DEF Insert, Expire, LockWriter, Asking, Calling, Goto
<1>6. CASE Remove(t)
  <2>1. EndCall(t, outcome[t]) /\ UNCHANGED <<answered, stopped, server>>
    BY <1>6 DEF Remove
  <2>2. Asking(t) /\ outcome[t] \in {"stopped", "failed"} /\ Over
    BY <1>6 DEF Remove, Roles, RoleOf, Asking, Calling, UnsentMeansOver, Over
  <2> QED
    BY <1>1, <1>2, <2>1, <2>2, EndCallEnds DEF Ended
<1>7. CASE Receive(t)
  <2>1. EndCall(t, "reply") /\ UNCHANGED <<answered, stopped, server>>
    BY <1>7 DEF Receive
  <2>2. Asking(t) /\ call[t] \in answered
    BY <1>7 DEF Receive, Channels, Answers
  <2> QED
    BY <1>1, <1>2, <2>1, <2>2, EndCallEnds DEF Ended
<1>8. CASE Disconnected(t)
  <2>1. EndCall(t, "stopped") /\ UNCHANGED <<answered, stopped, server>>
    BY <1>8 DEF Disconnected
  <2>2. Asking(t) /\ stopped
    BY <1>8 DEF Disconnected, Roles, RoleOf, Reachable, Asking, Calling
  <2> QED
    BY <1>1, <1>2, <2>1, <2>2, EndCallEnds DEF Ended, Over
<1>9. CASE GiveUp(t)
  <2>1. Asking(t) /\ UNCHANGED <<answered, stopped, server>>
    BY <1>9 DEF GiveUp, Roles, RoleOf, Asking, Calling
  <2>2. CASE EndCall(t, "timed_out")
    BY <1>1, <1>2, <2>1, <2>2, EndCallEnds DEF Ended
  <2>3. CASE ~EndCall(t, "timed_out")
    <3>1. Asking(t)'
      BY <1>9, <2>3 DEF GiveUp, Asking, Calling, Goto, Message
    <3> QED
      BY <1>3, <2>1, <3>1 DEF Asking
  <2> QED
    BY <2>2, <2>3
<1>10. ASSUME NEW result, AfterSend(t, result), pc[t] \in {"check", "write"},
              UNCHANGED <<answered, stopped, server>>
       PROVE  NothingEnds \/ \E how : Ended(t, how)
  <2>1. CASE EndCall(t, "timed_out") /\ out[t].kind = "cancel"
    <3>1. Asking(t)
      BY <1>10, <2>1 DEF Asking, Calling
    <3> QED
      BY <1>1, <1>2, <1>10, <2>1, <3>1, EndCallEnds DEF Ended
  <2>2. CASE out[t].kind \in {"request", "shutdown"}
    <3>1. Asking(t) /\ Asking(t)'
      BY <1>10, <2>2 DEF AfterSend, Asking, Calling, Goto
    <3>2. Asking(t)' = Asking(t)
      BY <3>1 DEF Asking
    <3> QED
      BY <1>3, <1>10, <3>1, <3>2, Zenon
  <2>3. CASE out[t].kind \in {"notify", "exit", "answer"}
    <3>1. ~Asking(t) /\ ~Asking(t)' /\ outcome'[t] = outcome[t]
      BY <1>10, <2>3 DEF AfterSend, Asking, Drop, Nothing, Message
    <3>2. Asking(t)' = Asking(t)
      BY <3>1 DEF Asking
    <3> QED
      BY <1>3, <1>10, <3>1, <3>2, Zenon
  <2> QED
    BY <1>10, <2>1, <2>2, <2>3 DEF AfterSend
<1>11. CASE CheckStopped(t) \/ Write(t) \/ WriteFails(t)
  <2>1. CASE \E result : AfterSend(t, result)
    BY <1>10, <1>11, <2>1 DEF CheckStopped, Write, WriteFails
  <2>2. CASE ~\E result : AfterSend(t, result)
    BY <1>3, <1>11, <2>2
       DEF CheckStopped, Write, WriteFails, Asking, Calling, Goto
  <2> QED
    BY <2>1, <2>2
<1>12. CASE StoreStopped(t) \/ ClearPending(t) \/ IsStopped(t) \/ TakeChild(t)
            \/ GraceWait(t) \/ Kill(t)
    BY <1>3, <1>12 DEF StoreStopped, ClearPending, IsStopped, TakeChild,
                       GraceWait, Kill, Asking, Calling, Goto
<1> QED
    BY <1>4, <1>5, <1>6, <1>7, <1>8, <1>9, <1>11, <1>12 DEF ThreadAction

\* A step that ends nothing is a stutter of the broker, or closes it; one that
\* ends a request is the broker's End.
LEMMA NothingEndsMaps ==
    ASSUME NothingEnds, Over => Over' PROVE [Broker!Next]_(Broker!vars)
<1> DEFINE open == [u \in Users |-> Asking(u)]
           result == [u \in Users |-> IF Asking(u) THEN "none" ELSE outcome[u]]
<1>1. /\ [u \in Users |-> call[u]]' = [u \in Users |-> call[u]]
      /\ open' = open /\ result' = result /\ answered' = answered
    BY Zenon DEF NothingEnds
<1>2. CASE Over' = Over
    BY <1>1, <1>2, Zenon DEF Over, Broker!vars
<1>3. CASE Over'
    BY <1>1, <1>3, Zenon DEF Over, Broker!Next, Broker!Close
<1> QED
    BY <1>2, <1>3, Zenon DEF Over

LEMMA EndedMaps ==
    ASSUME NEW t, NEW how, Ended(t, how)
    PROVE  [Broker!Next]_(Broker!vars)
<1> DEFINE ticket == [u \in Users |-> call[u]]
           open == [u \in Users |-> Asking(u)]
           result == [u \in Users |-> IF Asking(u) THEN "none" ELSE outcome[u]]
<1>1. /\ t \in Users /\ Asking(t) /\ ~Asking(t)' /\ outcome'[t] = how
      /\ \A u \in Users \ {t} : Asking(u)' = Asking(u) /\ outcome'[u] = outcome[u]
    BY DEF Ended
<1>2. open[t] /\ open' = [open EXCEPT ![t] = FALSE]
  <2>1. Asking(t)' = FALSE
    BY <1>1 DEF Asking
  <2> QED
    BY <1>1, <2>1, Zenon
<1>3. result' = [result EXCEPT ![t] = how]
    BY <1>1, Zenon
<1>4. ticket' = ticket /\ ticket[t] = call[t]
    BY <1>1 DEF Ended
<1>5. Broker!End(t, how)
    BY <1>2, <1>3, <1>4 DEF Ended, Over, Broker!End
<1> QED
    BY <1>1, <1>5, Zenon DEF Ended, Broker!Next

\* Taking a number is the broker's Ask.
LEMMA AskMaps ==
    ASSUME TypeOK, Roles, Numbers, NEW t \in Threads, Request(t) \/ AskShutdown(t)
    PROVE  [Broker!Next]_(Broker!vars)
<1> DEFINE ticket == [u \in Users |-> call[u]]
           open == [u \in Users |-> Asking(u)]
           result == [u \in Users |-> IF Asking(u) THEN "none" ELSE outcome[u]]
<1>1. /\ t \in Users /\ pc[t] \notin Calling /\ pc'[t] = "insert"
      /\ call'[t] = nextId /\ nextId \in Nat
      /\ out'[t].kind \in {"request", "shutdown"}
      /\ UNCHANGED <<answered, stopped, server>>
      /\ \A u \in Users \ {t} : /\ call'[u] = call[u] /\ pc'[u] = pc[u]
                               /\ out'[u] = out[u] /\ outcome'[u] = outcome[u]
    BY DEF TypeOK, Roles, RoleOf, Request, AskShutdown, TakeNumber, Goto, Calling,
           Message, Users, Threads, serverVars
<1>2. ~Asking(t) /\ Asking(t)' /\ \A u \in Users \ {t} : Asking(u)' = Asking(u)
    BY <1>1 DEF Asking, Calling
<1>3. ~open[t] /\ open' = [open EXCEPT ![t] = TRUE]
    BY <1>1, <1>2, Zenon
<1>4. result' = [result EXCEPT ![t] = "none"]
    BY <1>1, <1>2, Zenon
<1>5. ticket'[t] = nextId /\ ticket' = [ticket EXCEPT ![t] = ticket'[t]]
    BY <1>1
<1>6. \A v \in Users : ticket[v] < ticket'[t]
    BY <1>5 DEF Numbers, Threads
<1>7. Broker!Ask(t)
    BY <1>1, <1>3, <1>4, <1>5, <1>6 DEF Broker!Ask
<1> QED
    BY <1>1, <1>7, Zenon DEF Broker!Next

\* The reader's own steps end no request.
LEMMA ReaderEndsNothing ==
    ASSUME TypeOK, Roles, Read \/ Deliver \/ ReadEnd PROVE NothingEnds
<1>1. /\ UNCHANGED <<call, answered, outcome>>
      /\ \A u \in Users : pc'[u] = pc[u] /\ out'[u] = out[u]
    BY ThreadsAssumption
       DEF TypeOK, Read, ReadResponse, ReadAsk, Deliver, ReadEnd, Goto, Users,
           Threads, serverVars
<1> QED
    BY <1>1 DEF NothingEnds, Asking

\* The server's answer is the broker's Answer: it was asked for.
LEMMA AnswerMaps ==
    ASSUME SentWereAsked, ServerAnswer PROVE [Broker!Next]_(Broker!vars)
<1> DEFINE ticket == [u \in Users |-> call[u]]
           open == [u \in Users |-> Asking(u)]
           result == [u \in Users |-> IF Asking(u) THEN "none" ELSE outcome[u]]
<1>1. /\ UNCHANGED <<call, pc, out, outcome, stopped, server>>
      /\ answered \subseteq answered' /\ answered' \subseteq answered \cup unanswered
    BY DEF ServerAnswer, ServerSays, clientVars
<1>2. ticket' = ticket /\ open' = open /\ result' = result
    BY <1>1, Zenon DEF Asking
<1>3. \A n \in answered' \ answered : \E u \in Users : n <= ticket[u]
    BY <1>1 DEF SentWereAsked, Asked
<1>4. Broker!Answer
    BY <1>1, <1>2, <1>3 DEF Broker!Answer
<1> QED
    BY <1>4, Zenon DEF Broker!Next

\* The connection keeps what RequestBroker promises its callers: a number
\* nobody else's, one end for each request, a reply only if the server gave
\* it to that number, and "stopped" or "failed" only if the connection is over.
THEOREM BrokerPromiseKept == Spec => BrokerSpec
<1>1. Init => Broker!Init
  <2>1. ASSUME Init
        PROVE  /\ \A u \in Users : call[u] = 0 /\ Asking(u) = FALSE
                                   /\ outcome[u] = "none"
               /\ answered = {} /\ (stopped \/ server = "gone") = FALSE
    BY <2>1 DEF Init, Asking, Calling, Nothing, Message, Users, Threads
  <2> QED
    BY <2>1 DEF Broker!Init
<1>2. ASSUME TypeOK, Roles, Numbers, Channels, Reachable, SentWereAsked,
             UnsentMeansOver, [Next]_vars
      PROVE  [Broker!Next]_(Broker!vars)
  <2> USE <1>2
  <2>1. Over => Over'
    BY OverStaysOver
  <2>2. ASSUME NEW t \in Threads, ThreadAction(t)
        PROVE  [Broker!Next]_(Broker!vars)
    <3>1. CASE Request(t) \/ AskShutdown(t)
      BY <3>1, AskMaps
    <3>2. CASE ~Request(t) /\ ~AskShutdown(t)
      <4>1. NothingEnds \/ \E how : Ended(t, how)
        BY <2>2, <3>2, ThreadEndsTruly DEF Promised
      <4> QED
        BY <2>1, <4>1, NothingEndsMaps, EndedMaps
    <3> QED
      BY <3>1, <3>2
  <2>3. CASE Read \/ Deliver \/ ReadEnd
    BY <2>1, <2>3, ReaderEndsNothing, NothingEndsMaps
  <2>4. CASE ServerAnswer
    BY <2>4, AnswerMaps
  <2>5. CASE ServerRead \/ ServerAsk \/ ServerTell \/ ServerGarbage
             \/ ServerExit \/ UNCHANGED vars
    <3>1. UNCHANGED <<call, pc, out, outcome, answered>>
      BY <2>5 DEF ServerRead, ServerAsk, ServerTell, ServerGarbage,
                  ServerSpeaks, ServerSays, ServerExit, clientVars, vars
    <3>2. NothingEnds
      BY <3>1 DEF NothingEnds, Asking
    <3> QED
      BY <2>1, <3>2, NothingEndsMaps
  <2> QED
    BY StepCases, <2>2, <2>3, <2>4, <2>5
<1> QED
    BY <1>1, <1>2, TypeCorrect, RolesCorrect, NumbersCorrect, ChannelsCorrect,
       ReachableHolds, SentWereAskedHolds, UnsentMeansOverHolds, PTL
       DEF Spec, BrokerSpec, Broker!Spec

=============================================================================
