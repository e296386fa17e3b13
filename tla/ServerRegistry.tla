--------------------------- MODULE ServerRegistry ---------------------------
(***************************************************************************)
(* The Tauri plugin's registry of language servers (tauri-plugin/src/lsp)  *)
(* and of debug sessions (tauri-plugin/src/dap): one map from (workspace   *)
(* root, language or adapter) to the running server, and the commands that *)
(* race on it: `lsp_start` / `dap_start`, `lsp_stop` / `dap_stop` and      *)
(* `stop_all` when the app closes.  The map's lock is held for one lookup, *)
(* insert, remove or drain at a time, never across a launch or a shutdown, *)
(* so each of those is one action.                                         *)
(*                                                                         *)
(* A client is reduced to what RpcConnection shows of it: it notices in    *)
(* the end that its server hung up, and when `shutdown` returns the        *)
(* process is gone.  A server process is named by the start that launched  *)
(* it.                                                                     *)
(***************************************************************************)
EXTENDS Naturals, FiniteSets

CONSTANTS
    Keys,    \* (workspace root, language id or adapter id)
    Starts,  \* start commands, each called once; also their servers' names
    Stops,   \* stop commands, each called once
    None     \* no server, no key

Commands == Starts \cup Stops

ASSUME CommandsAssumption ==
    /\ Starts \cap Stops = {}
    /\ None \notin Commands \cup Keys

VARIABLES
    running,  \* the map behind the lock
    pc,       \* where each command is
    key,      \* the key each command was called with
    hand,     \* the server a command has taken charge of
    process,  \* each server's process: "none", "alive" or "ended"
    hungUp,   \* each client's stopped flag
    reply,    \* what each start resolved with: a server, or None
    app,      \* "open", "closing" (inside stop_all), "exited"
    sweep,    \* the servers stop_all drained and has not shut down yet
    underway  \* history: the servers of commands under way at the drain

vars == <<running, pc, key, hand, process, hungUp, reply, app, sweep, underway>>
servers == <<process, hungUp>>
closing == <<app, sweep, underway>>

\* Where a command has a server in hand.
Holding == {"initializing", "inserting", "discarding", "closing"}
Points == Holding \cup {"idle", "launching", "done"}

TypeOK ==
    /\ running \in [Keys -> Starts \cup {None}]
    /\ pc \in [Commands -> Points]
    /\ key \in [Commands -> Keys \cup {None}]
    /\ hand \in [Commands -> Starts \cup {None}]
    /\ process \in [Starts -> {"none", "alive", "ended"}]
    /\ hungUp \in [Starts -> BOOLEAN]
    /\ reply \in [Starts -> Starts \cup {None}]
    /\ app \in {"open", "closing", "exited"}
    /\ sweep \subseteq Starts
    /\ underway \subseteq Starts
    /\ \A c \in Commands : hand[c] # None <=> pc[c] \in Holding
    /\ \A c \in Commands : key[c] = None => pc[c] = "idle" \/ pc[c] = "done"

Init ==
    /\ running = [k \in Keys |-> None]
    /\ pc = [c \in Commands |-> "idle"]
    /\ key = [c \in Commands |-> None]
    /\ hand = [c \in Commands |-> None]
    /\ process = [s \in Starts |-> "none"]
    /\ hungUp = [s \in Starts |-> FALSE]
    /\ reply = [s \in Starts |-> None]
    /\ app = "open"
    /\ sweep = {}
    /\ underway = {}

Registered == {running[k] : k \in Keys} \ {None}
InHand == {hand[c] : c \in Commands} \ {None}
Alive == {s \in Starts : process[s] = "alive"}

\* Servers a command has in hand or is about to launch.
Underway == InHand \cup {t \in Starts : pc[t] = "launching"}

\* A command moves on with server s, or None, in hand.
Goto(c, point, s) ==
    /\ pc' = [pc EXCEPT ![c] = point]
    /\ hand' = [hand EXCEPT ![c] = s]

-----------------------------------------------------------------------------
(* lsp_start and dap_start.                                                *)

\* A running server is reused.
Reuse(t) ==
    /\ pc[t] = "idle"
    /\ app = "open"
    /\ \E k \in Keys :
        /\ running[k] # None
        /\ ~hungUp[running[k]]
        /\ key' = [key EXCEPT ![t] = k]
        /\ reply' = [reply EXCEPT ![t] = running[k]]
    /\ Goto(t, "done", None)
    /\ UNCHANGED <<running, servers, closing>>

\* No server of this key, or one that hung up: a new one is needed.
Miss(t) ==
    /\ pc[t] = "idle"
    /\ app = "open"
    /\ \E k \in Keys :
        /\ running[k] # None => hungUp[running[k]]
        /\ key' = [key EXCEPT ![t] = k]
    /\ Goto(t, "launching", None)
    /\ UNCHANGED <<running, servers, reply, closing>>

\* The root is outside the workspace, the language has no server, or the
\* program cannot be started: nothing was launched.
Refuse(t) ==
    /\ pc[t] = "launching" \/ (pc[t] = "idle" /\ app = "open")
    /\ app # "exited"
    /\ Goto(t, "done", None)
    /\ UNCHANGED <<running, key, servers, reply, closing>>

Launch(t) ==
    /\ pc[t] = "launching"
    /\ app # "exited"
    /\ process' = [process EXCEPT ![t] = "alive"]
    /\ Goto(t, "initializing", t)
    /\ UNCHANGED <<running, key, hungUp, reply, closing>>

Initialized(t) ==
    /\ pc[t] = "initializing"
    /\ app # "exited"
    /\ ~hungUp[t]
    /\ Goto(t, "inserting", t)
    /\ UNCHANGED <<running, key, servers, reply, closing>>

\* `initialize` timed out, was refused, or the server hung up first; mutants
\* that never give up on a server that hung up, and that leave a failed one.
InitializeFails_Waits(t) ==
    /\ pc[t] = "initializing"
    /\ app # "exited"
    /\ ~hungUp[t]
    /\ Goto(t, "discarding", t)
    /\ UNCHANGED <<running, key, servers, reply, closing>>
InitializeFails_Leaves(t) ==
    /\ pc[t] = "initializing"
    /\ app # "exited"
    /\ Goto(t, "done", t)
    /\ UNCHANGED <<running, key, servers, reply, closing>>
InitializeFails(t) ==
    /\ pc[t] = "initializing"
    /\ app # "exited"
    /\ Goto(t, "discarding", t)
    /\ UNCHANGED <<running, key, servers, reply, closing>>

\* Another start may have won the race: its server is shut down next.  A
\* mutant that drops the server it replaces.
Insert_Drops(t) ==
    /\ pc[t] = "inserting"
    /\ app # "exited"
    /\ running' = [running EXCEPT ![key[t]] = t]
    /\ reply' = [reply EXCEPT ![t] = t]
    /\ Goto(t, "done", None)
    /\ UNCHANGED <<key, servers, closing>>
Insert(t) ==
    LET old == running[key[t]] IN
    /\ pc[t] = "inserting"
    /\ app # "exited"
    /\ running' = [running EXCEPT ![key[t]] = t]
    /\ reply' = [reply EXCEPT ![t] = t]
    /\ Goto(t, IF old = None THEN "done" ELSE "closing", old)
    /\ UNCHANGED <<key, servers, closing>>

-----------------------------------------------------------------------------
(* lsp_stop and dap_stop, and `shutdown` wherever it is called.            *)

\* A mutant that looks the server up and leaves it in the map.
Remove_Keeps(c) ==
    /\ pc[c] = "idle"
    /\ app = "open"
    /\ \E k \in Keys :
        /\ key' = [key EXCEPT ![c] = k]
        /\ Goto(c, IF running[k] = None THEN "done" ELSE "closing", running[k])
    /\ UNCHANGED <<running, servers, reply, closing>>
Remove(c) ==
    /\ pc[c] = "idle"
    /\ app = "open"
    /\ \E k \in Keys :
        /\ key' = [key EXCEPT ![c] = k]
        /\ running' = [running EXCEPT ![k] = None]
        /\ Goto(c, IF running[k] = None THEN "done" ELSE "closing", running[k])
    /\ UNCHANGED <<servers, reply, closing>>

Ended(s) ==
    /\ process' = [process EXCEPT ![s] = "ended"]
    /\ hungUp' = [hungUp EXCEPT ![s] = TRUE]

\* `client.shutdown()` returns: the process is gone, its reader too.  A
\* mutant that takes a server that hung up for one that is gone.
ShutDown_Trusts(c) ==
    /\ pc[c] \in {"discarding", "closing"}
    /\ app # "exited"
    /\ hungUp[hand[c]] \/ Ended(hand[c])
    /\ hungUp[hand[c]] => UNCHANGED servers
    /\ Goto(c, "done", None)
    /\ UNCHANGED <<running, key, reply, closing>>
ShutDown(c) ==
    /\ pc[c] \in {"discarding", "closing"}
    /\ app # "exited"
    /\ Ended(hand[c])
    /\ Goto(c, "done", None)
    /\ UNCHANGED <<running, key, reply, closing>>

-----------------------------------------------------------------------------
(* stop_all: the app is closing, no command is called any more.            *)

\* A mutant that stops the servers commands are busy with and forgets the map's.
Drain_Forgets ==
    /\ app = "open"
    /\ app' = "closing"
    /\ sweep' = {}
    /\ underway' = Underway
    /\ running' = [k \in Keys |-> None]
    /\ UNCHANGED <<pc, key, hand, servers, reply>>
Drain ==
    /\ app = "open"
    /\ app' = "closing"
    /\ sweep' = Registered
    /\ underway' = Underway
    /\ running' = [k \in Keys |-> None]
    /\ UNCHANGED <<pc, key, hand, servers, reply>>

\* A mutant that never gets past the first server.
Sweep_Repeats(s) ==
    /\ app = "closing"
    /\ s \in sweep
    /\ Ended(s)
    /\ UNCHANGED <<running, pc, key, hand, reply, closing>>
Sweep(s) ==
    /\ app = "closing"
    /\ s \in sweep
    /\ Ended(s)
    /\ sweep' = sweep \ {s}
    /\ UNCHANGED <<running, pc, key, hand, reply, app, underway>>

\* The process ends: whatever its threads were doing stops where it is.
Exit ==
    /\ app = "closing"
    /\ sweep = {}
    /\ app' = "exited"
    /\ UNCHANGED <<running, pc, key, hand, servers, reply, sweep, underway>>

-----------------------------------------------------------------------------
(* The servers.                                                            *)

\* A server crashes or exits by itself.
Crash(s) ==
    /\ process[s] = "alive"
    /\ process' = [process EXCEPT ![s] = "ended"]
    /\ UNCHANGED <<running, pc, key, hand, hungUp, reply, closing>>

\* Its reader comes to the end of its output: it exited, or closed its stdout.
HangUp(s) ==
    /\ process[s] # "none"
    /\ app # "exited"
    /\ ~hungUp[s]
    /\ hungUp' = [hungUp EXCEPT ![s] = TRUE]
    /\ UNCHANGED <<running, pc, key, hand, process, reply, closing>>

\* Every command has returned, or the app has exited.
Finished ==
    /\ app = "exited"
    /\ UNCHANGED vars

Proceed(c) ==
    \/ c \in Starts /\ (Launch(c) \/ Initialized(c) \/ InitializeFails(c) \/ Insert(c))
    \/ ShutDown(c)

Next ==
    \/ \E t \in Starts : Reuse(t) \/ Miss(t) \/ Refuse(t)
    \/ \E c \in Stops : Remove(c)
    \/ \E c \in Commands : Proceed(c)
    \/ \E s \in Starts : Sweep(s) \/ Crash(s) \/ HangUp(s)
    \/ Drain \/ Exit \/ Finished

Spec == Init /\ [][Next]_vars

\* A command's thread runs on, stop_all goes on to the next server, and the
\* reader of a server that is gone sees it.  Nobody has to call a command,
\* close the app or crash.
FairSpec ==
    /\ Spec
    /\ \A c \in Commands : WF_vars(Proceed(c))
    /\ \A s \in Starts : WF_vars(Sweep(s))
    /\ WF_vars(Exit)
    /\ \A s \in Starts : WF_vars(process[s] = "ended" /\ HangUp(s))

-----------------------------------------------------------------------------
(* Properties.                                                             *)

\* Whoever is in charge of a server is alone with it: it is in the map under
\* one key, or in the hands of one command, or in stop_all's sweep.
OneOwner ==
    /\ \A j, k \in Keys : running[j] = running[k] => j = k \/ running[j] = None
    /\ \A c, d \in Commands : hand[c] = hand[d] => c = d \/ hand[c] = None
    /\ \A k \in Keys, c \in Commands : running[k] = hand[c] => hand[c] = None
    /\ \A k \in Keys : running[k] \notin sweep
    /\ \A c \in Commands : hand[c] \notin sweep

\* A server whose process is alive is always somebody's to stop: a replaced,
\* failed, stopped or drained server is never dropped while it still runs
\* (lsp_start's `replaced`, launch's failed `initialize`, lsp_stop, stop_all).
Owned(s) ==
    \/ s \in sweep
    \/ \E k \in Keys : running[k] = s
    \/ \E c \in Commands : hand[c] = s
NoneAbandoned == \A s \in Starts : process[s] = "alive" => Owned(s)

\* stop_all ends every server that was in the map when the app began to
\* close: what is left afterwards was in the hands of a command under way
\* at that moment, or was launched by one.
OnlyUnderwayLeft ==
    app = "exited" => Alive \subseteq underway

\* A start's reply names a server of its own key: the one it launched and
\* registered, or one that was running there when it looked.
ReplyIsOfKey ==
    \A t \in Starts : reply[t] # None => key[reply[t]] = key[t]

\* Every start returns, whatever its server does, unless the app exits first.
StartsReturn ==
    \A t \in Starts : pc[t] = "launching" ~> pc[t] = "done" \/ app = "exited"

\* A server taken out of the map, or never put in, is ended, and closing the
\* app comes to its end however many servers there are.
BeingStopped(s) ==
    \/ s \in sweep
    \/ \E c \in Commands : hand[c] = s /\ pc[c] \in {"discarding", "closing"}
TakenIsEnded ==
    \A s \in Starts : BeingStopped(s) ~> process[s] = "ended" \/ app = "exited"
ClosingEnds == app = "closing" ~> app = "exited"

\* Every start returns, every server taken out of the map is ended, and the app
\* exits when it is closed, however many servers there are (lsp_start, lsp_stop,
\* stop_all and their like in dap).
CommandsEnd == StartsReturn /\ TakenIsEnded /\ ClosingEnds

-----------------------------------------------------------------------------
(* The inductive invariant.                                                *)

\* A command is in charge of the server it launched until it registers it.
OwnInHand ==
    \A c \in Commands : pc[c] \in {"initializing", "inserting", "discarding"} =>
        c \in Starts /\ hand[c] = c

\* Nobody has a server that was not launched, and a start that has not
\* launched one has none.
LaunchedFirst ==
    /\ \A s \in Starts : Owned(s) => process[s] # "none"
    /\ \A t \in Starts : pc[t] \in {"idle", "launching"} => process[t] = "none"

\* A server is registered under, and handed out for, the key of its start.
KeysAgree ==
    /\ \A k \in Keys : running[k] # None => key[running[k]] = k
    /\ \A k \in Keys : running[k] # None => pc[running[k]] # "idle"
    /\ \A t \in Starts : reply[t] # None => pc[t] # "idle" /\ pc[reply[t]] # "idle"
    /\ \A t \in Starts : process[t] # "none" => key[t] \in Keys

\* What the sweep has still to do, and what it cannot see.
SweepCovers ==
    /\ app # "closing" => sweep = {}
    /\ app # "open" => Alive \subseteq underway \cup sweep
    /\ app # "open" => \A t \in Starts : pc[t] = "launching" => t \in underway

Inv ==
    /\ TypeOK
    /\ OneOwner
    /\ NoneAbandoned
    /\ ReplyIsOfKey
    /\ OwnInHand
    /\ LaunchedFirst
    /\ KeysAgree
    /\ SweepCovers

-----------------------------------------------------------------------------
(* What the documentation says and the code does not do.                   *)

\* "Language servers and debug sessions don't outlive the app" (stop_servers).
NoneOutlivesTheApp == app = "exited" => Alive = {}

=============================================================================
