--------------------------- MODULE RpcConnection ---------------------------
(***************************************************************************)
(* The client side of one language server (crates/substrate-lsp-app) or    *)
(* debug adapter (crates/substrate-dap-app): the threads that call         *)
(* `request`, `notify` and `shutdown`, the reader thread that matches      *)
(* responses to requests, what they share (the pending map, the stopped    *)
(* flag, the writer lock, the child process) and the two bounded pipes to  *)
(* the server.  The two crates hold the same protocol twice; `Protocol`    *)
(* selects where they differ.  One action is one atomic access to shared   *)
(* state: nothing in the code is atomic across two of them.                *)
(*                                                                         *)
(* The server itself is external: it reads, answers, asks, tells, writes   *)
(* garbage, hangs or exits as it likes.                                    *)
(***************************************************************************)
EXTENDS Naturals, Sequences

CONSTANTS
    Callers,      \* threads that make requests and send notifications
    Closers,      \* threads that call `shutdown`, once each
    Reader,       \* the thread that runs `read_loop`
    NoThread,     \* the writer lock is free
    Protocol,     \* "lsp" or "dap"
    MaxRequests,  \* bound: requests the callers make
    MaxNotes,     \* bound: notifications the callers send
    MaxUnasked,   \* bound: what the server says unasked
    PipeCap       \* bound: frames a pipe holds before its writer blocks

Users == Callers \cup Closers
Threads == Users \cup {Reader}

ASSUME ThreadsAssumption ==
    /\ Callers \cap Closers = {}
    /\ Reader \notin Callers \cup Closers
    /\ NoThread \notin Threads
ASSUME ProtocolAssumption == Protocol \in {"lsp", "dap"}
ASSUME BoundsAssumption ==
    /\ MaxRequests \in Nat
    /\ MaxNotes \in Nat
    /\ MaxUnasked \in Nat
    /\ PipeCap \in Nat \ {0}

VARIABLES
    nextId,     \* the next request's number (next_id, next_seq)
    pending,    \* the pending map: which call waits for which number
    stopped,    \* the stopped flag
    writer,     \* who holds the writer lock
    child,      \* whether the process handle is still in its Option
    pc,         \* where each thread is
    call,       \* the number of each thread's current or last request
    out,        \* the message each thread is sending
    inbox,      \* each call's channel: the number of the reply in it, or 0
    outcome,    \* how each thread's last request ended
    held,       \* the sender the reader took out of `pending`
    notes,      \* notifications sent, counted
    toServer,   \* the server's stdin
    fromServer, \* the server's stdout
    server,     \* "running" or "gone"
    unanswered, \* requests the server has read and not answered
    answered,   \* requests the server has answered
    unasked     \* what the server has said unasked, counted

clientVars == <<nextId, pending, stopped, writer, child, pc, call, out, inbox,
                outcome, held, notes>>
serverVars == <<toServer, fromServer, server, unanswered, answered, unasked>>
vars == <<nextId, pending, stopped, writer, child, pc, call, out, inbox,
          outcome, held, notes, toServer, fromServer, server, unanswered,
          answered, unasked>>

Message(kind, id) == [kind |-> kind, id |-> id]
Nothing == Message("none", 0)
NoSender == [id |-> 0, caller |-> Reader]

OutKinds ==
    {"none", "request", "shutdown", "notify", "cancel", "exit", "answer"}
InKinds == {"response", "ask", "tell", "garbage"}
OutMessages == [kind : OutKinds, id : Nat]
InMessages == [kind : InKinds, id : Nat]
Senders == [id : Nat, caller : Threads]
Outcomes == {"none", "reply", "timed_out", "stopped", "failed"}

\* Where a thread is while one of its calls is under way.
Calling == {"insert", "check", "lock", "write", "remove", "wait", "expire"}
Points == Calling \cup {"idle", "id", "read", "deliver", "stop", "clear",
                        "take", "grace", "kill", "done"}

TypeOK ==
    /\ nextId \in Nat \ {0}
    /\ pending \subseteq Senders
    /\ stopped \in BOOLEAN
    /\ writer \in Threads \cup {NoThread}
    /\ child \in {"attached", "taken"}
    /\ pc \in [Threads -> Points]
    /\ call \in [Threads -> Nat]
    /\ out \in [Threads -> OutMessages]
    /\ inbox \in [Threads -> Nat]
    /\ outcome \in [Threads -> Outcomes]
    /\ held \in Senders
    /\ notes \in Nat
    /\ toServer \in Seq(OutMessages)
    /\ fromServer \in Seq(InMessages)
    /\ server \in {"running", "gone"}
    /\ unanswered \subseteq Nat
    /\ answered \subseteq Nat
    /\ unasked \in Nat

\* Numbering starts at 1; a mutant that starts at 0, JSON-RPC's null-like id.
FirstId_Zero == 0
FirstId == 1

\* A client on a freshly launched server, its reader running.
Init ==
    /\ nextId = FirstId
    /\ pending = {}
    /\ stopped = FALSE
    /\ writer = NoThread
    /\ child = "attached"
    /\ pc = [t \in Threads |-> IF t = Reader THEN "read" ELSE "idle"]
    /\ call = [t \in Threads |-> 0]
    /\ out = [t \in Threads |-> Nothing]
    /\ inbox = [t \in Threads |-> 0]
    /\ outcome = [t \in Threads |-> "none"]
    /\ held = NoSender
    /\ notes = 0
    /\ toServer = <<>>
    /\ fromServer = <<>>
    /\ server = "running"
    /\ unanswered = {}
    /\ answered = {}
    /\ unasked = 0

-----------------------------------------------------------------------------
(* The pending map.                                                        *)

Entry(t) == [id |-> call[t], caller |-> t]
Without(id) == {e \in pending : e.id # id}

\* The sending half of t's channel lives in `pending` or in the reader's hand.
HasSender(t) ==
    \/ Entry(t) \in pending
    \/ pc[Reader] = "deliver" /\ held = Entry(t)

\* Whether a request of t's is under way (a cancel still belongs to it).
Asking(t) ==
    pc[t] \in Calling /\ out[t].kind \in {"request", "shutdown", "cancel"}

Goto(t, point) == pc' = [pc EXCEPT ![t] = point]

-----------------------------------------------------------------------------
(* `request_within`, as a caller makes it or as `shutdown` does.           *)

\* fetch_add: the mutant loads and stores, and loses another's increment.
NextNumber_Lost == nextId
NextNumber == nextId + 1

TakeNumber(t, kind) ==
    /\ call' = [call EXCEPT ![t] = nextId]
    /\ out' = [out EXCEPT ![t] = Message(kind, nextId)]
    /\ nextId' = NextNumber
    /\ Goto(t, "insert")
    /\ UNCHANGED <<pending, stopped, writer, child, inbox, outcome, held,
                   notes, serverVars>>

Request(t) ==
    /\ t \in Callers
    /\ pc[t] = "idle"
    /\ nextId <= MaxRequests
    /\ TakeNumber(t, "request")

Notify(t) ==
    /\ t \in Callers
    /\ pc[t] = "idle"
    /\ notes < MaxNotes
    /\ notes' = notes + 1
    /\ out' = [out EXCEPT ![t] = Message("notify", 0)]
    /\ Goto(t, "check")
    /\ UNCHANGED <<nextId, pending, stopped, writer, child, call, inbox,
                   outcome, held, serverVars>>

Insert(t) ==
    /\ pc[t] = "insert"
    /\ pending' = Without(call[t]) \cup {Entry(t)}
    /\ Goto(t, "check")
    /\ UNCHANGED <<nextId, stopped, writer, child, call, out, inbox, outcome,
                   held, notes, serverVars>>

\* The request is over, its channel dropped: a caller returns, `shutdown` goes
\* on to its next step.
EndCall(t, result) ==
    /\ outcome' = [outcome EXCEPT ![t] = result]
    /\ inbox' = [inbox EXCEPT ![t] = 0]
    /\ \/ /\ t \in Callers
          /\ Goto(t, "idle")
          /\ out' = [out EXCEPT ![t] = Nothing]
       \/ /\ t \in Closers /\ Protocol = "lsp"
          /\ out' = [out EXCEPT ![t] = Message("exit", 0)]
          /\ Goto(t, "check")
       \/ /\ t \in Closers /\ Protocol = "dap"
          /\ Goto(t, "stop")
          /\ out' = [out EXCEPT ![t] = Nothing]

\* `pending.remove(&id)`: the mutant forgets to.
Forget_Nothing(t) == pending' = pending
Forget(t) == pending' = Without(call[t])

Remove(t) ==
    /\ pc[t] = "remove"
    /\ Forget(t)
    /\ EndCall(t, outcome[t])
    /\ UNCHANGED <<nextId, stopped, writer, child, call, held, notes,
                   serverVars>>

\* recv_timeout: a reply, the deadline, or every sender gone.
Receive(t) ==
    /\ pc[t] = "wait"
    /\ inbox[t] # 0
    /\ EndCall(t, "reply")
    /\ UNCHANGED <<nextId, pending, stopped, writer, child, call, held,
                   notes, serverVars>>

\* The mutant waits without a deadline.
Expire_Never(t) == FALSE
Expire(t) ==
    /\ pc[t] = "wait"
    /\ inbox[t] = 0
    /\ HasSender(t)
    /\ Goto(t, "expire")
    /\ UNCHANGED <<nextId, pending, stopped, writer, child, call, out, inbox,
                   outcome, held, notes, serverVars>>

Disconnected(t) ==
    /\ pc[t] = "wait"
    /\ inbox[t] = 0
    /\ ~HasSender(t)
    /\ EndCall(t, "stopped")
    /\ UNCHANGED <<nextId, pending, stopped, writer, child, call, held,
                   notes, serverVars>>

\* After the deadline: forget the request; a language server is told so too.
GiveUp(t) ==
    /\ pc[t] = "expire"
    /\ Forget(t)
    /\ \/ /\ Protocol = "lsp"
          /\ out' = [out EXCEPT ![t] = Message("cancel", call[t])]
          /\ Goto(t, "check")
          /\ UNCHANGED <<inbox, outcome>>
       \/ /\ Protocol = "dap"
          /\ EndCall(t, "timed_out")
    /\ UNCHANGED <<nextId, stopped, writer, child, call, held, notes,
                   serverVars>>

-----------------------------------------------------------------------------
(* `send`: the stopped check, then the writer lock, then the write, which  *)
(* blocks while the pipe is full and fails once the server is gone.        *)

Drop(t) == out' = [out EXCEPT ![t] = Nothing]

AfterSend(t, result) ==
    LET kind == out[t].kind IN
    \/ /\ kind \in {"request", "shutdown"} /\ result = "sent"
       /\ Goto(t, "wait")
       /\ UNCHANGED <<out, inbox, outcome>>
    \/ /\ kind \in {"request", "shutdown"} /\ result # "sent"
       /\ outcome' = [outcome EXCEPT ![t] = result]
       /\ Goto(t, "remove")
       /\ UNCHANGED <<out, inbox>>
    \/ /\ kind = "notify"
       /\ Goto(t, "idle") /\ Drop(t)
       /\ UNCHANGED <<inbox, outcome>>
    \/ /\ kind = "cancel"
       /\ EndCall(t, "timed_out")
    \/ /\ kind = "exit"
       /\ Goto(t, "stop") /\ Drop(t)
       /\ UNCHANGED <<inbox, outcome>>
    \/ /\ kind = "answer"
       /\ Goto(t, "read") /\ Drop(t)
       /\ UNCHANGED <<inbox, outcome>>

\* The mutant leaves the check out.
CheckStopped_Not(t) ==
    /\ pc[t] = "check"
    /\ Goto(t, "lock")
    /\ UNCHANGED <<nextId, pending, stopped, writer, child, call, out, inbox,
                   outcome, held, notes, serverVars>>

CheckStopped(t) ==
    /\ pc[t] = "check"
    /\ \/ stopped /\ AfterSend(t, "stopped")
       \/ ~stopped /\ Goto(t, "lock") /\ UNCHANGED <<out, inbox, outcome>>
    /\ UNCHANGED <<nextId, pending, stopped, writer, child, call, held,
                   notes, serverVars>>

LockWriter(t) ==
    /\ pc[t] = "lock"
    /\ writer = NoThread
    /\ writer' = t
    /\ Goto(t, "write")
    /\ UNCHANGED <<nextId, pending, stopped, child, call, out, inbox, outcome,
                   held, notes, serverVars>>

Write(t) ==
    /\ pc[t] = "write"
    /\ server = "running"
    /\ Len(toServer) < PipeCap
    /\ toServer' = Append(toServer, out[t])
    /\ writer' = NoThread
    /\ AfterSend(t, "sent")
    /\ UNCHANGED <<nextId, pending, stopped, child, call, held, fromServer,
                   server, unanswered, answered, unasked, notes>>

WriteFails(t) ==
    /\ pc[t] = "write"
    /\ server = "gone"
    /\ writer' = NoThread
    /\ AfterSend(t, "failed")
    /\ UNCHANGED <<nextId, pending, stopped, child, call, held, notes,
                   serverVars>>

-----------------------------------------------------------------------------
(* `read_loop`, on the reader's own thread.                                *)

\* `deliver`'s first half: the waiting sender leaves the map, if there is one.
\* The mutant takes any waiting call for the one that is answered.
ReadResponse_Any(id) ==
    /\ \/ \E e \in pending :
            /\ held' = e
            /\ pending' = Without(e.id)
            /\ Goto(Reader, "deliver")
       \/ pending = {} /\ UNCHANGED <<held, pending, pc>>
    /\ UNCHANGED <<nextId, out>>

ReadResponse(id) ==
    /\ \/ \E e \in pending :
            /\ e.id = id
            /\ held' = e
            /\ pending' = Without(id)
            /\ Goto(Reader, "deliver")
       \/ /\ \A e \in pending : e.id # id
          /\ UNCHANGED <<held, pending, pc>>
    /\ UNCHANGED <<nextId, out>>

\* `respond` (an answer carries the server's id) and `refuse` (it takes a seq).
ReadAsk ==
    /\ nextId' = IF Protocol = "dap" THEN NextNumber ELSE nextId
    /\ out' = [out EXCEPT ![Reader] = Message("answer", 0)]
    /\ Goto(Reader, "check")
    /\ UNCHANGED <<held, pending>>

Read ==
    /\ pc[Reader] = "read"
    /\ fromServer # <<>>
    /\ fromServer' = Tail(fromServer)
    /\ LET message == Head(fromServer) IN
       \/ message.kind = "response" /\ ReadResponse(message.id)
       \/ message.kind = "ask" /\ ReadAsk
       \/ message.kind = "tell" /\ UNCHANGED <<nextId, pending, pc, out, held>>
       \/ /\ message.kind = "garbage"
          /\ Goto(Reader, "stop")
          /\ UNCHANGED <<nextId, pending, out, held>>
    /\ UNCHANGED <<stopped, writer, child, call, inbox, outcome, toServer,
                   server, unanswered, answered, unasked, notes>>

\* The reply goes into the call's channel; a call that has moved on dropped it.
Deliver ==
    /\ pc[Reader] = "deliver"
    /\ inbox' = IF held = Entry(held.caller) /\ Asking(held.caller)
                THEN [inbox EXCEPT ![held.caller] = held.id] ELSE inbox
    /\ held' = NoSender
    /\ Goto(Reader, "read")
    /\ UNCHANGED <<nextId, pending, stopped, writer, child, call, out, outcome,
                   notes, serverVars>>

\* The mutant ends the loop without `stop`.
ReadEnd_Silent ==
    /\ pc[Reader] = "read"
    /\ fromServer = <<>>
    /\ server = "gone"
    /\ Goto(Reader, "done")
    /\ UNCHANGED <<nextId, pending, stopped, writer, child, call, out, inbox,
                   outcome, held, notes, serverVars>>

ReadEnd ==
    /\ pc[Reader] = "read"
    /\ fromServer = <<>>
    /\ server = "gone"
    /\ Goto(Reader, "stop")
    /\ UNCHANGED <<nextId, pending, stopped, writer, child, call, out, inbox,
                   outcome, held, notes, serverVars>>

-----------------------------------------------------------------------------
(* `stop`, at the end of the read loop and inside `shutdown`.              *)

StoreStopped(t) ==
    /\ pc[t] = "stop"
    /\ stopped' = TRUE
    /\ Goto(t, "clear")
    /\ UNCHANGED <<nextId, pending, writer, child, call, out, inbox, outcome,
                   held, notes, serverVars>>

ClearPending(t) ==
    /\ pc[t] = "clear"
    /\ pending' = {}
    /\ Goto(t, IF t = Reader THEN "done" ELSE "take")
    /\ UNCHANGED <<nextId, stopped, writer, child, call, out, inbox, outcome,
                   held, notes, serverVars>>

-----------------------------------------------------------------------------
(* `shutdown`.                                                             *)

IsStopped(t) ==
    /\ t \in Closers
    /\ pc[t] = "idle"
    /\ Goto(t, IF stopped THEN "stop" ELSE "id")
    /\ UNCHANGED <<nextId, pending, stopped, writer, child, call, out, inbox,
                   outcome, held, notes, serverVars>>

AskShutdown(t) ==
    /\ pc[t] = "id"
    /\ TakeNumber(t, "shutdown")

TakeChild(t) ==
    /\ pc[t] = "take"
    /\ child' = "taken"
    /\ Goto(t, IF child = "attached" THEN "grace" ELSE "done")
    /\ UNCHANGED <<nextId, pending, stopped, writer, call, out, inbox, outcome,
                   held, notes, serverVars>>

\* wait_for_exit(EXIT_GRACE): it ended in time, or the grace is over.  The
\* mutants skip the kill, and wait without a deadline.
GraceWait_NoKill(t) ==
    /\ pc[t] = "grace"
    /\ Goto(t, "done")
    /\ UNCHANGED <<nextId, pending, stopped, writer, child, call, out, inbox,
                   outcome, held, notes, serverVars>>
GraceWait_Forever(t) ==
    /\ pc[t] = "grace"
    /\ server = "gone"
    /\ Goto(t, "done")
    /\ UNCHANGED <<nextId, pending, stopped, writer, child, call, out, inbox,
                   outcome, held, notes, serverVars>>
GraceWait(t) ==
    /\ pc[t] = "grace"
    /\ \/ server = "gone" /\ Goto(t, "done")
       \/ server = "running" /\ Goto(t, "kill")
    /\ UNCHANGED <<nextId, pending, stopped, writer, child, call, out, inbox,
                   outcome, held, notes, serverVars>>

\* kill_tree; the wait that follows changes nothing.
Kill(t) ==
    /\ pc[t] = "kill"
    /\ server' = "gone"
    /\ toServer' = <<>>
    /\ Goto(t, "done")
    /\ UNCHANGED <<nextId, pending, stopped, writer, child, call, out, inbox,
                   outcome, held, notes, fromServer, unanswered, answered,
                   unasked>>

-----------------------------------------------------------------------------
(* The server, as the protocols let it behave.                             *)

ServerRead ==
    /\ server = "running"
    /\ toServer # <<>>
    /\ toServer' = Tail(toServer)
    /\ unanswered' = IF Head(toServer).kind \in {"request", "shutdown"}
                     THEN unanswered \cup {Head(toServer).id} ELSE unanswered
    /\ UNCHANGED <<clientVars, fromServer, server, answered, unasked>>

ServerSays(message) ==
    /\ server = "running"
    /\ Len(fromServer) < PipeCap
    /\ fromServer' = Append(fromServer, message)
    /\ UNCHANGED <<clientVars, toServer, server>>

\* In any order; a cancelled request may still be answered.
ServerAnswer ==
    \E id \in unanswered :
        /\ ServerSays(Message("response", id))
        /\ unanswered' = unanswered \ {id}
        /\ answered' = answered \cup {id}
        /\ UNCHANGED unasked

\* Unasked: a request of its own, a notification, or bytes that are no frame.
ServerSpeaks(kind) ==
    /\ unasked < MaxUnasked
    /\ unasked' = unasked + 1
    /\ ServerSays(Message(kind, 0))
    /\ UNCHANGED <<unanswered, answered>>

ServerAsk == ServerSpeaks("ask")
ServerTell == ServerSpeaks("tell")
ServerGarbage == ServerSpeaks("garbage")

\* It exits or crashes: what it wrote can still be read, what it was sent is
\* lost.
ServerExit ==
    /\ server = "running"
    /\ server' = "gone"
    /\ toServer' = <<>>
    /\ UNCHANGED <<clientVars, fromServer, unanswered, answered, unasked>>

-----------------------------------------------------------------------------

CallStep(t) ==
    \/ Insert(t) \/ Remove(t) \/ Receive(t) \/ Expire(t) \/ Disconnected(t)
    \/ GiveUp(t)

SendStep(t) == CheckStopped(t) \/ LockWriter(t) \/ Write(t) \/ WriteFails(t)

StopStep(t) == StoreStopped(t) \/ ClearPending(t)

ReaderStep == Read \/ Deliver \/ ReadEnd

ShutdownStep(t) ==
    AskShutdown(t) \/ TakeChild(t) \/ GraceWait(t) \/ Kill(t)

\* What t does without being asked anew.
Proceed(t) ==
    \/ CallStep(t) \/ SendStep(t) \/ StopStep(t) \/ ShutdownStep(t)
    \/ t = Reader /\ ReaderStep

ServerStep ==
    \/ ServerRead \/ ServerAnswer \/ ServerAsk \/ ServerTell \/ ServerGarbage
    \/ ServerExit

\* Every thread is where it stays: nothing is left to do.
Finished ==
    /\ server = "gone"
    /\ pc[Reader] = "done"
    /\ \A t \in Closers : pc[t] = "done"
    /\ \A t \in Callers : pc[t] = "idle"
    /\ UNCHANGED vars

Next ==
    \/ \E t \in Threads : Proceed(t)
    \/ \E t \in Callers : Request(t) \/ Notify(t)
    \/ \E t \in Closers : IsStopped(t)
    \/ ServerStep
    \/ Finished

Spec == Init /\ [][Next]_vars

\* The scheduler runs every thread, a lock freed again and again is got by
\* whoever waits for it, and deadlines pass.
ThreadFairness ==
    /\ \A t \in Threads : WF_vars(Proceed(t))
    /\ \A t \in Threads : SF_vars(LockWriter(t))

\* Nothing is assumed of the server.
FairSpec == Spec /\ ThreadFairness
\* The server reads what it is sent, for as long as it runs.
ReadingSpec == FairSpec /\ WF_vars(ServerRead)

-----------------------------------------------------------------------------
(* Properties.  The first four hold the invariants that follow together.   *)

\* Which points a kind of thread visits, and what it sends from them.
RoleOf(t) ==
    /\ pc[t] \in {"id", "take", "grace", "kill"} => t \in Closers
    /\ pc[t] \in {"read", "deliver"} => t = Reader
    /\ pc[t] \in {"stop", "clear", "done"} => t \notin Callers
    /\ pc[t] \in {"insert", "remove", "wait", "expire"}
       => out[t].kind \in {"request", "shutdown"}
    /\ out[t].kind # "none" <=> pc[t] \in Calling
    /\ out[t].kind \in {"request", "shutdown", "cancel"} => t \in Users
    /\ out[t].kind = "notify" => t \in Callers
    /\ out[t].kind = "exit" => t \in Closers
    /\ out[t].kind = "answer" => t = Reader
Roles == \A t \in Threads : RoleOf(t)

\* Numbers are handed out in order, and no two calls have the same.
Numbers ==
    \A t \in Threads :
        /\ call[t] < nextId
        /\ Asking(t) => call[t] # 0
        /\ \A u \in Threads : call[t] = call[u] => t = u \/ call[t] = 0

\* From the server's answer to the channel, a reply keeps its number.
Answers ==
    /\ \A i \in 1 .. Len(fromServer) :
          fromServer[i].kind = "response" => fromServer[i].id \in answered
    /\ pc[Reader] = "deliver" => held.id \in answered
    /\ \A t \in Threads : inbox[t] # 0 =>
          inbox[t] = call[t] /\ inbox[t] \in answered /\ Asking(t)

\* What is in the pending map is a request somebody still waits for: every
\* way a request ends takes its entry out.
NoLeftovers ==
    \A e \in pending :
        /\ call[e.caller] = e.id
        /\ pc[e.caller] \in Calling \ {"insert"}
        /\ out[e.caller].kind \in {"request", "shutdown"}

\* A channel's sending half is in one place, the map or the reader's hand, and
\* is gone once it has been used.
SenderOnce ==
    /\ pc[Reader] = "deliver" =>
          /\ held \notin pending
          /\ held.id < nextId
          /\ held = Entry(held.caller) => pc[held.caller] # "insert"
    /\ \A t \in Threads :
          inbox[t] # 0 => Entry(t) \notin pending /\ pc[t] # "insert"

\* A call that is being sent or waited for can still be told how it ends.
Reachable ==
    /\ \A t \in Threads :
          /\ pc[t] \in {"check", "lock", "write", "wait"}
          /\ out[t].kind \in {"request", "shutdown"}
          => HasSender(t) \/ inbox[t] # 0 \/ stopped
    /\ \A t \in Threads : pc[t] = "clear" => stopped

\* A reply in a call's channel is the server's answer to a number that only
\* this call ever had: fetch_add, the pending map and `deliver` never cross
\* two calls ("a_request_gets_its_own_response").
OwnReply ==
    \A t \in Threads : inbox[t] # 0 =>
        /\ inbox[t] = call[t]
        /\ inbox[t] \in answered
        /\ \A u \in Threads \ {t} : call[u] # inbox[t]

\* Once the connection has stopped and the map was cleared, nobody waits on an
\* entry no one will answer or drop: `stop` stores the flag before it clears
\* and `request_within` inserts before it checks the flag.
NoneStranded ==
    \A t \in Threads :
        /\ pc[t] \in {"lock", "write", "wait"}
        /\ Entry(t) \in pending
        => ~stopped \/ \E u \in Threads : pc[u] = "clear"

\* A call that finds its channel hung up without a reply was hung up by `stop`:
\* it never says the server stopped while it is still connected.
HungUpMeansStopped ==
    \A t \in Threads :
        pc[t] = "wait" /\ inbox[t] = 0 /\ ~HasSender(t) => stopped

\* When `shutdown` has returned the server is gone, unless another `shutdown`
\* took the process first and is still waiting for it or killing it.
ShutdownLeavesNoServer ==
    (\E t \in Closers : pc[t] = "done")
    => server = "gone" \/ \E u \in Closers : pc[u] \in {"grace", "kill"}

\* Whoever took the process sees to its end, and took it before returning.
ProcessOwned ==
    /\ \A t \in Closers : pc[t] \in {"grace", "kill", "done"} => child = "taken"
    /\ child = "taken" => server = "gone" \/ \E u \in Closers : pc[u] \in {"grace", "kill"}

\* A server that goes away is noticed, whatever the callers are doing.
GoneIsNoticed == server = "gone" ~> stopped

\* Every request returns to its caller.
RequestsReturn == \A t \in Callers : Asking(t) ~> pc[t] = "idle"

\* `shutdown` returns, and by then the server was killed if it had not exited
\* ("a started server that's still running after that is killed").
ShutdownEndsServer == \A t \in Closers : pc[t] = "id" ~> server = "gone"
ShutdownReturns == \A t \in Closers : pc[t] = "id" ~> pc[t] = "done"

\* The connection keeps what RequestBroker promises.
Broker == INSTANCE RequestBroker WITH
    ticket <- [u \in Users |-> call[u]],
    open <- [u \in Users |-> Asking(u)],
    answered <- answered,
    closed <- stopped \/ server = "gone",
    result <- [u \in Users |-> IF Asking(u) THEN "none" ELSE outcome[u]]
BrokerSpec == Broker!Spec

=============================================================================
