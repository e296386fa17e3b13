----------------------------- MODULE DapSession -----------------------------
(* A debug session in the window (ui/src/dap): one object shared by the       *)
(* editors, the toolbar and the panels.  Its methods are asynchronous: each   *)
(* one gives control back at every await, and anything may happen before it   *)
(* goes on.  The adapter and the host's commands are the environment.         *)
EXTENDS Integers, FiniteSets

CONSTANTS Lines,      \* places a breakpoint can be toggled at
          Frames,     \* frames of a call stack; one of them is the top
          Top,
          MaxStarts,  \* how often a program is started
          MaxPauses,  \* how often the program pauses
          MaxOutput   \* lines the program writes

VARIABLES
    state,       \* what the views show (DebugState)
    generation,  \* answers asked for under an older one are dropped
    connected,   \* the adapter is told of breakpoints as they are toggled
    listener,    \* the subscription to the host's events
    initialized, \* the current start's deferred is resolved
    starts,      \* where each call of start() is
    stops,       \* where each running call of stop() is, by its caller
    kept,        \* what ended() took from the state before its stop()
    asked,       \* requests whose answers are awaited
    adapter,     \* the adapter and its program
    launch,      \* the answer to each start's launch request
    pauses       \* how often the program has paused

dapVars == <<state, generation, connected, listener, initialized, starts, stops,
             kept, asked, adapter, launch, pauses>>

Starts == 1..MaxStarts
User == 0
AtTheEnd == MaxStarts + 1
Callers == 0..AtTheEnd
NoFrame == "none"

InitialState(breakpoints) ==
    [status |-> "idle", breakpoints |-> breakpoints, pause |-> 0, frames |-> 0,
     selected |-> NoFrame, scopes |-> <<0, NoFrame>>, variables |-> {},
     output |-> 0]

\* What a program that is not paused does not show.
Running(s) == [InitialState(s.breakpoints) EXCEPT !.status = "running",
                                                  !.output = s.output]

DapInit ==
    /\ state = InitialState({})
    /\ generation = 0 /\ connected = FALSE /\ listener = "none"
    /\ initialized = FALSE
    /\ starts = [s \in Starts |-> "no"]
    /\ stops = [c \in Callers |-> "no"]
    /\ kept = 0 /\ asked = {} /\ adapter = "none" /\ pauses = 0
    /\ launch = [s \in Starts |-> "no"]

\* The buttons of the toolbar that can be pressed.
Offered == CASE state.status \in {"idle", "ended"} -> {"start"}
             [] state.status = "running" -> {"stop", "pause"}
             [] state.status = "stopped" -> {"stop", "resume", "step"}
             [] OTHER -> {"stop"}

\* The frames the call stack lists, the references the variables panel can open.
Pickable == IF state.status = "stopped" /\ state.frames # 0 THEN Frames ELSE {}
Openable == IF state.status = "stopped" /\ state.scopes[2] # NoFrame
            THEN {state.scopes} ELSE {}

Ask(what, gen, of) == [what |-> what, gen |-> gen, of |-> of]

-----------------------------------------------------------------------------
(* stop() and start() *)

\* stop() up to its first await that can take a while: with the subscription
\* made, its callbacks run before anything else can.
BeginStop(c) ==
    /\ stops[c] = "no"
    /\ generation' = generation + 1
    /\ connected' = FALSE
    /\ state' = InitialState(state.breakpoints)
    /\ stops' = [stops EXCEPT ![c] = IF listener = "pending" THEN "unlisten" ELSE "host"]
    /\ listener' = IF listener = "pending" THEN listener ELSE "none"

StopPressed ==
    /\ "stop" \in Offered
    /\ BeginStop(User)
    /\ UNCHANGED <<initialized, starts, kept, asked, adapter, launch, pauses>>

\* The host ends the adapter: requests it has not answered fail.
HostStops(c) ==
    /\ stops[c] = "host"
    /\ stops' = [stops EXCEPT ![c] = "stopped"]
    /\ adapter' = "none"
    /\ asked' = {}
    /\ launch' = [s \in Starts |-> IF launch[s] = "pending" THEN "failed" ELSE launch[s]]
    /\ UNCHANGED <<state, generation, connected, listener, initialized, starts, kept,
                   pauses>>

\* ended() goes on after its stop(): the output it took before stays to read.
ShowEnded == [state EXCEPT !.status = "ended", !.output = kept]

StopReturns(c) ==
    /\ stops[c] = "stopped"
    /\ stops' = [stops EXCEPT ![c] = "no"]
    /\ starts' = IF c \in Starts THEN [starts EXCEPT ![c] = "done"] ELSE starts
    /\ state' = IF c = AtTheEnd THEN ShowEnded ELSE state
    /\ UNCHANGED <<generation, connected, listener, initialized, kept, asked, adapter,
                   launch, pauses>>

Start(s) ==
    /\ "start" \in Offered
    /\ starts[s] = "no" /\ \A r \in 1..(s - 1) : starts[r] # "no"
    /\ state' = [InitialState(state.breakpoints) EXCEPT !.status = "starting"]
    /\ initialized' = FALSE
    /\ listener' = IF listener = "none" THEN "pending" ELSE listener
    /\ starts' = [starts EXCEPT ![s] = IF listener = "on" THEN "host" ELSE "listen"]
    /\ UNCHANGED <<generation, connected, stops, kept, asked, adapter, launch, pauses>>

\* The subscription is made: a stop() that waited for it takes it away at once.
Listening ==
    /\ listener = "pending"
    /\ listener' = IF \E c \in Callers : stops[c] = "unlisten" THEN "none" ELSE "on"
    /\ starts' = [s \in Starts |-> IF starts[s] = "listen" THEN "host" ELSE starts[s]]
    /\ stops' = [c \in Callers |-> IF stops[c] = "unlisten" THEN "host" ELSE stops[c]]
    /\ UNCHANGED <<state, generation, connected, initialized, kept, asked, adapter,
                   launch, pauses>>

\* The host starts the adapter, or gives the one that runs; launch is sent.
HostStarts(s) ==
    /\ starts[s] = "host"
    /\ adapter' = IF adapter = "none" THEN "up" ELSE adapter
    /\ starts' = [starts EXCEPT ![s] = "init"]
    /\ launch' = [launch EXCEPT ![s] = "pending"]
    /\ UNCHANGED <<state, generation, connected, listener, initialized, stops, kept,
                   asked, pauses>>

\* The deferred a start waits for is the newest start's: an older one never ends.
Newest(s) == \A r \in Starts : r > s => starts[r] = "no"

Configure(s) ==
    /\ starts[s] = "init" /\ Newest(s) /\ initialized /\ launch[s] # "failed"
    /\ connected' = TRUE
    /\ starts' = [starts EXCEPT ![s] = "configuring"]
    /\ UNCHANGED <<state, generation, listener, initialized, stops, kept, asked,
                   adapter, launch, pauses>>

\* Every file's breakpoints and configurationDone are answered: the program runs.
Configured(s) ==
    /\ starts[s] = "configuring" /\ adapter # "none"
    /\ starts' = [starts EXCEPT ![s] = "launched"]
    /\ adapter' = IF adapter = "up" THEN "running" ELSE adapter
    /\ UNCHANGED <<state, generation, connected, listener, initialized, stops, kept,
                   asked, launch, pauses>>

LaunchAnswered(s) ==
    /\ launch[s] = "pending" /\ adapter # "none"
    /\ \E answer \in {"ok", "failed"} : launch' = [launch EXCEPT ![s] = answer]
    /\ UNCHANGED <<state, generation, connected, listener, initialized, starts, stops,
                   kept, asked, adapter, pauses>>

Launched(s) ==
    /\ starts[s] = "launched" /\ launch[s] = "ok"
    /\ starts' = [starts EXCEPT ![s] = "done"]
    /\ state' = IF state.status = "starting" THEN [state EXCEPT !.status = "running"]
                                             ELSE state
    /\ UNCHANGED <<generation, connected, listener, initialized, stops, kept, asked,
                   adapter, launch, pauses>>

\* A failure is reported and stops the session.
StartFails(s) ==
    /\ \/ starts[s] = "host"
       \/ starts[s] \in {"init", "launched"} /\ launch[s] = "failed"
       \/ starts[s] = "configuring"
    /\ BeginStop(s)
    /\ starts' = [starts EXCEPT ![s] = "stopping"]
    /\ UNCHANGED <<initialized, kept, asked, adapter, launch, pauses>>

-----------------------------------------------------------------------------
(* The adapter's events: heard only while the subscription is made *)

Emits == listener = "on" /\ adapter # "none"

InitializedEvent ==
    /\ Emits /\ adapter = "up" /\ ~initialized
    /\ initialized' = TRUE
    /\ UNCHANGED <<state, generation, connected, listener, starts, stops, kept, asked,
                   adapter, launch, pauses>>

Shown(pause) == [state EXCEPT !.status = "stopped", !.pause = pause]

\* The program pauses.  An event without its thread costs one request more.
StoppedEvent ==
    /\ Emits /\ adapter = "running" /\ pauses < MaxPauses
    /\ adapter' = "paused"
    /\ pauses' = pauses + 1
    /\ generation' = generation + 1
    /\ \/ asked' = asked \cup {Ask("threads", generation + 1, <<pauses + 1, NoFrame>>)} /\ state' = state
       \/ asked' = asked \cup {Ask("frames", generation + 1, <<pauses + 1, NoFrame>>)}
          /\ state' = Shown(pauses + 1)
    /\ UNCHANGED <<connected, listener, initialized, starts, stops, kept, launch>>

ContinuedEvent ==
    /\ Emits /\ adapter = "paused"
    /\ adapter' = "running"
    /\ generation' = generation + 1
    /\ state' = Running(state)
    /\ UNCHANGED <<connected, listener, initialized, starts, stops, kept, asked,
                   launch, pauses>>

OutputEvent ==
    /\ Emits /\ state.output < MaxOutput
    /\ state' = [state EXCEPT !.output = @ + 1]
    /\ UNCHANGED <<generation, connected, listener, initialized, starts, stops, kept,
                   asked, adapter, launch, pauses>>

\* The program ended: ended() takes the output and stops the session.
TerminatedEvent ==
    /\ Emits /\ adapter \in {"up", "running"}
    /\ kept' = state.output
    /\ adapter' = "over"
    /\ BeginStop(AtTheEnd)
    /\ UNCHANGED <<initialized, starts, asked, launch, pauses>>

-----------------------------------------------------------------------------
(* What the user does with a paused program, and the answers *)

ToggleBreakpoint(l) ==
    /\ state' = [state EXCEPT !.breakpoints = (@ \ {l}) \cup ({l} \ @)]
    /\ UNCHANGED <<generation, connected, listener, initialized, starts, stops, kept,
                   asked, adapter, launch, pauses>>

\* resume and the three steps: shown as running before the adapter has agreed.
Control ==
    /\ "resume" \in Offered
    /\ generation' = generation + 1
    /\ state' = Running(state)
    /\ asked' = asked \cup {Ask("control", generation + 1, <<pauses, NoFrame>>)}
    /\ UNCHANGED <<connected, listener, initialized, starts, stops, kept, adapter,
                   launch, pauses>>

Selected(s, f) == [s EXCEPT !.selected = f, !.scopes = <<0, NoFrame>>, !.variables = {}]

SelectFrame(f) ==
    /\ f \in Pickable
    /\ state' = Selected(state, f)
    /\ asked' = asked \cup {Ask("scopes", generation, <<state.frames, f>>)}
    /\ UNCHANGED <<generation, connected, listener, initialized, starts, stops, kept,
                   adapter, launch, pauses>>

LoadVariables(reference) ==
    /\ reference \in Openable \ state.variables
    /\ asked' = asked \cup {Ask("variables", generation, reference)}
    /\ UNCHANGED <<state, generation, connected, listener, initialized, starts, stops,
                   kept, adapter, launch, pauses>>

\* Mutant: an answer is taken whenever it comes.
Fresh_Any(q) == q.gen <= generation
Fresh(q) == q.gen = generation

\* What the session does with an answer that is not out of date.
Threads(q) == /\ state' = Shown(q.of[1])
              /\ asked' = (asked \ {q}) \cup {Ask("frames", q.gen, q.of)}

Stack(q) == /\ state' = Selected([state EXCEPT !.frames = q.of[1]], Top)
            /\ asked' = (asked \ {q}) \cup {Ask("scopes", q.gen, <<q.of[1], Top>>)}

Scopes(q) == /\ state' = [state EXCEPT !.scopes = q.of]
             /\ asked' = (asked \ {q})
                         \cup {Ask("variables", q.gen, q.of) : v \in {q.of} \ state.variables}

Variables(q) == /\ state' = [state EXCEPT !.variables = @ \cup {q.of}]
                /\ asked' = asked \ {q}

Answer(q) ==
    /\ Fresh(q) /\ adapter # "none"
    /\ \/ q.what = "threads" /\ Threads(q)
       \/ q.what = "frames" /\ Stack(q)
       \/ q.what = "scopes" /\ Scopes(q)
       \/ q.what = "variables" /\ Variables(q)
    /\ UNCHANGED <<generation, connected, listener, initialized, starts, stops, kept,
                   adapter, launch, pauses>>

\* A refusal is reported only, and an answer out of date is dropped.
Dropped(q) ==
    /\ asked' = asked \ {q}
    /\ UNCHANGED <<state, generation, connected, listener, initialized, starts, stops,
                   kept, adapter, launch, pauses>>

\* The adapter lets the program run on.
RunsOn(q) ==
    /\ q.what = "control" /\ adapter = "paused" /\ q.of[1] = pauses
    /\ adapter' = "running"
    /\ asked' = asked \ {q}
    /\ UNCHANGED <<state, generation, connected, listener, initialized, starts, stops,
                   kept, launch, pauses>>

Answered == \E q \in asked : Answer(q)
DroppedOne == \E q \in asked : Dropped(q)
ProgramRunsOn == \E q \in asked : RunsOn(q)
OpenVariables == \E reference \in Openable : LoadVariables(reference)

DapNext ==
    \/ StopPressed \/ Listening
    \/ \E c \in Callers : HostStops(c) \/ StopReturns(c)
    \/ \E s \in Starts : \/ Start(s) \/ HostStarts(s) \/ Configure(s) \/ Configured(s)
                         \/ LaunchAnswered(s) \/ Launched(s) \/ StartFails(s)
    \/ InitializedEvent \/ StoppedEvent \/ ContinuedEvent \/ OutputEvent \/ TerminatedEvent
    \/ \E l \in Lines : ToggleBreakpoint(l)
    \/ Control
    \/ \E f \in Frames : SelectFrame(f)
    \/ OpenVariables
    \/ Answered \/ DroppedOne \/ ProgramRunsOn

DapSpec == DapInit /\ [][DapNext]_dapVars

-----------------------------------------------------------------------------
(* The values of the variables the display depends on.                        *)
Places == Nat \X (Frames \cup {NoFrame})
Displays == [status : {"idle", "starting", "running", "stopped", "ended"},
             breakpoints : SUBSET Lines, pause : Nat, frames : Nat,
             selected : Frames \cup {NoFrame}, scopes : Places,
             variables : SUBSET Places, output : Nat]
Requests == [what : {"threads", "frames", "scopes", "variables", "control"},
             gen : Nat, of : Places]

DapTypeOK ==
    /\ state \in Displays /\ asked \subseteq Requests
    /\ generation \in Nat /\ pauses \in Nat /\ kept \in Nat
    /\ listener \in {"none", "pending", "on"}
    /\ stops \in [Callers -> {"no", "unlisten", "host", "stopped"}]
    /\ adapter \in {"none", "up", "running", "paused", "over"}

-----------------------------------------------------------------------------
(* Whatever the views show of a paused program is of its last pause: an       *)
(* answer that arrives after the program ran on never gets into the stack,    *)
(* the scopes or the variables.                                               *)
DisplayIsCurrent ==
    /\ state.frames \in {0, pauses}
    /\ state.scopes[1] \in {0, pauses}
    /\ \A v \in state.variables : v[1] = pauses

(* What that asks of the user: Start is pressed when the session before is    *)
(* over, its adapter let go and every stop() returned. The toolbar offers it  *)
(* before that, and then a program that runs under the old adapter pauses in  *)
(* the new session and leaves its stack to the next program's first pause.    *)
StartsApart ==
    \A s \in Starts : Start(s) => adapter = "none" /\ \A c \in Callers : stops[c] = "no"

------------------------------------------------------------------------------
(* What is said of the code, or may be expected of it, and does not hold.    *)

(* A session that is over has let its adapter go: when it is idle or ended   *)
(* and none of its starts and stops is still under way, no adapter is left   *)
(* running in the host without a view. Does not hold: a stop that still      *)
(* awaits takes the listener of the start made meanwhile, and a start whose  *)
(* initialize fails stops the one after it (dapSession.ts:116, 127); it      *)
(* takes two starts.                                                         *)
AdapterIsLetGo ==
    /\ state.status \in {"idle", "ended"}
    /\ \A c \in Callers : stops[c] = "no"
    /\ \A s \in Starts : starts[s] \in {"no", "done"}
    => adapter = "none"

(* The scopes shown are those of the selected frame ("Shows frameId's place  *)
(* and scopes", dapSession.ts). Does not hold: two frames selected in one    *)
(* pause have one generation, so the first one's late scopes are shown under *)
(* the second (:182).                                                        *)
ScopesAreSelected == state.scopes[2] \in {NoFrame, state.selected}
=============================================================================
