---------------------------- MODULE LspDocuments ----------------------------
(* One document of a language server as the window keeps it (ui/src/lsp): the *)
(* session that starts the server, the editors' copies sent to it after each  *)
(* pause in typing and before each request, and the diagnostics it publishes. *)
EXTENDS Integers, Sequences

CONSTANTS Views,     \* the editors the document is opened in, one after the other
          MaxEdits   \* how often the text is changed

VARIABLES
    text,        \* the text on screen: how often it was changed
    mounted,     \* each view: "no", "open", "destroyed"
    timer,       \* the views with a change that waits for a pause in typing
    queue,       \* each view's notifications, in order
    started,     \* the session's promise: "no", "pending", "ok"
    server,      \* "none", "up", "gone"
    copy,        \* the server's copy of the text, or NotOpen
    request,     \* the text a request was made about, or NoRequest
    about,       \* the copy the last request was answered from
    diagnostics, \* the text the Error List's entries are about, or NoneListed
    stopping     \* session.stop(): "no", "called", "done"

lspVars == <<text, mounted, timer, queue, started, server, copy, request, about,
             diagnostics, stopping>>

NotOpen == -1
NoRequest == -1
NoneListed == -1
Note(what, t) == [what |-> what, text |-> t]

LspInit ==
    /\ text = 0 /\ mounted = [v \in Views |-> "no"] /\ timer = {}
    /\ queue = [v \in Views |-> <<>>] /\ started = "no" /\ server = "none"
    /\ copy = NotOpen /\ request = NoRequest /\ about = <<NoRequest, NotOpen>>
    /\ diagnostics = NoneListed /\ stopping = "no"

OnScreen == {v \in Views : mounted[v] = "open"}

-----------------------------------------------------------------------------
(* DocumentSync *)

Open(v) ==
    /\ mounted[v] = "no" /\ OnScreen = {} /\ stopping = "no"
    /\ mounted' = [mounted EXCEPT ![v] = "open"]
    /\ queue' = [queue EXCEPT ![v] = <<Note("open", text)>>]
    /\ UNCHANGED <<text, timer, started, server, copy, request, about, diagnostics, stopping>>

Type(v) ==
    /\ v \in OnScreen /\ text < MaxEdits
    /\ text' = text + 1
    /\ timer' = timer \cup {v}
    /\ UNCHANGED <<mounted, queue, started, server, copy, request, about, diagnostics, stopping>>

\* A pending change joins the queue, with the text as it is now.
Flushed(v) == IF v \in timer THEN Append(queue[v], Note("change", text)) ELSE queue[v]

\* The pause in typing is over.
Flush(v) ==
    /\ v \in timer /\ mounted[v] = "open"
    /\ timer' = timer \ {v}
    /\ queue' = [queue EXCEPT ![v] = Flushed(v)]
    /\ UNCHANGED <<text, mounted, started, server, copy, request, about, diagnostics, stopping>>

Destroy(v) ==
    /\ v \in OnScreen
    /\ mounted' = [mounted EXCEPT ![v] = "destroyed"]
    /\ timer' = timer \ {v}
    /\ queue' = [queue EXCEPT ![v] = Append(Flushed(v), Note("close", text))]
    /\ UNCHANGED <<text, started, server, copy, request, about, diagnostics, stopping>>

Head1(v) == Head(queue[v])
Waits(v) == queue[v] # <<>> /\ Head1(v).what = "open" /\ started # "ok"

\* What a notification does to the copy of a server that runs: a change of a
\* document it does not have open is not taken.
Taken(note) == CASE note.what = "open" -> note.text
                 [] note.what = "change" -> IF copy = NotOpen THEN NotOpen ELSE note.text
                 [] OTHER -> NotOpen

\* The host passes the next one on; one that fails is let go.
Send(v) ==
    /\ queue[v] # <<>> /\ ~Waits(v)
    /\ queue' = [queue EXCEPT ![v] = Tail(@)]
    /\ copy' = IF server = "up" THEN Taken(Head1(v)) ELSE copy
    /\ UNCHANGED <<text, mounted, timer, started, server, request, about, diagnostics, stopping>>

-----------------------------------------------------------------------------
(* LspSession *)

\* A document that waits to be opened, or a request, starts the server.
StartServer ==
    /\ started = "no" /\ stopping # "called"
    /\ \/ \E v \in Views : Waits(v)
       \/ request # NoRequest /\ \E v \in OnScreen : queue[v] = <<>>
    /\ started' = "pending"
    /\ UNCHANGED <<text, mounted, timer, queue, server, copy, request, about, diagnostics, stopping>>

Started ==
    /\ started = "pending"
    /\ started' = "ok"
    /\ server' = "up"
    /\ copy' = IF server = "up" THEN copy ELSE NotOpen
    /\ UNCHANGED <<text, mounted, timer, queue, request, about, diagnostics, stopping>>

\* A start that fails is tried again by the next use; who waited is refused.
StartFailed ==
    /\ started = "pending" /\ server # "up"
    /\ started' = "no"
    /\ queue' = [v \in Views |-> IF Waits(v) THEN Tail(queue[v]) ELSE queue[v]]
    /\ request' = NoRequest
    /\ UNCHANGED <<text, mounted, timer, server, copy, about, diagnostics, stopping>>

HangsUp ==
    /\ server = "up"
    /\ server' = "gone" /\ copy' = NotOpen
    /\ UNCHANGED <<text, mounted, timer, queue, started, request, about, diagnostics, stopping>>

\* The workspace closes: the diagnostics go first, then the server.
Stop ==
    /\ stopping = "no" /\ started # "no"
    /\ stopping' = "called"
    /\ started' = "no"
    /\ diagnostics' = NoneListed
    /\ UNCHANGED <<text, mounted, timer, queue, server, copy, request, about>>

Stopped ==
    /\ stopping = "called"
    /\ stopping' = "done"
    /\ server' = "none" /\ copy' = NotOpen
    /\ UNCHANGED <<text, mounted, timer, queue, started, request, about, diagnostics>>

Publish ==
    /\ server = "up" /\ copy # NotOpen
    /\ diagnostics' \in {copy, NoneListed}
    /\ UNCHANGED <<text, mounted, timer, queue, started, server, copy, request, about, stopping>>

-----------------------------------------------------------------------------
(* Completion, hover and Go To Definition *)

\* Mutant: the request does not wait for what was typed.
Ask_Unflushed(v) ==
    /\ v \in OnScreen /\ request = NoRequest
    /\ request' = text
    /\ UNCHANGED <<text, mounted, timer, queue, started, server, copy, about, diagnostics, stopping>>

\* ready(): what was typed is sent first.
Ask(v) ==
    /\ v \in OnScreen /\ request = NoRequest
    /\ request' = text
    /\ timer' = timer \ {v}
    /\ queue' = [queue EXCEPT ![v] = Flushed(v)]
    /\ UNCHANGED <<text, mounted, started, server, copy, about, diagnostics, stopping>>

\* The server answers about its copy; a refusal shows nothing.
Answer ==
    /\ request # NoRequest /\ started = "ok"
    /\ \E v \in OnScreen : queue[v] = <<>>
    /\ about' = IF server = "up" THEN <<request, copy>> ELSE about
    /\ request' = NoRequest
    /\ UNCHANGED <<text, mounted, timer, queue, started, server, copy, diagnostics, stopping>>

LspNext ==
    \/ \E v \in Views : Open(v) \/ Type(v) \/ Flush(v) \/ Destroy(v) \/ Send(v) \/ Ask(v)
    \/ StartServer \/ Started \/ StartFailed \/ HangsUp \/ Stop \/ Stopped \/ Publish
    \/ Answer

LspFairness == /\ \A v \in Views : WF_lspVars(Flush(v)) /\ WF_lspVars(Send(v))
               /\ WF_lspVars(StartServer) /\ WF_lspVars(Started \/ StartFailed)

LspSpec == LspInit /\ [][LspNext]_lspVars

-----------------------------------------------------------------------------
Notes == [what : {"open", "change", "close"}, text : Nat]

LspTypeOK ==
    /\ text \in Nat /\ mounted \in [Views -> {"no", "open", "destroyed"}]
    /\ timer \subseteq Views /\ queue \in [Views -> Seq(Notes)]
    /\ started \in {"no", "pending", "ok"} /\ server \in {"none", "up", "gone"}
    /\ copy \in Nat \cup {NotOpen} /\ request \in Nat \cup {NoRequest}
    /\ about \in (Nat \cup {NoRequest}) \X (Nat \cup {NotOpen})
    /\ diagnostics \in Nat \cup {NoneListed} /\ stopping \in {"no", "called", "done"}

(* The server's copy is what is on screen: with nothing left to send, a       *)
(* document the server has open has the text of the editor.                   *)
Quiet == timer = {} /\ \A v \in Views : queue[v] = <<>>
CopyIsScreen == Quiet /\ OnScreen # {} /\ copy # NotOpen => copy = text

(* A request is never answered from a text older than the one it was made     *)
(* about: the change that waited for a pause goes ahead of it.                *)
AnswersAreCurrent == about[2] # NotOpen => about[2] >= about[1]

ServerSeesTheText == CopyIsScreen /\ AnswersAreCurrent

(* What the second asks of the editors: one is opened when the server has all *)
(* of the one before it. Two queues are not in order with each other, and an  *)
(* older editor's notifications may come after a newer one's.                 *)
OpensApart == \A v \in Views : Open(v) => \A w \in Views : queue[w] = <<>>

(* What is typed reaches a server that has the document open, without a       *)
(* request and without a further key.                                         *)
IsBehind == server = "up" /\ copy # NotOpen /\ OnScreen # {} /\ copy < text
HasCaughtUp == copy = text \/ copy = NotOpen \/ OnScreen = {}

------------------------------------------------------------------------------
(* What is said of the code, or may be expected of it, and does not hold.    *)

(* "Stops the server and drops its diagnostics" (lspSession.ts): none is     *)
(* left in the Error List once the server was stopped and not started again. *)
(* Does not hold: what the server publishes while its stop waits comes after *)
(* the drop (lspSession.ts:94).                                              *)
DiagnosticsDropped == stopping = "done" /\ started = "no" => diagnostics = NoneListed
=============================================================================
