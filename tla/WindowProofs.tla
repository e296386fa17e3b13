----------------------------- MODULE WindowProofs -----------------------------
(* Proofs about the windows around the editor.                                *)
(*  - The debug session: what it shows is of the pause the program is in, for *)
(*    every number of starts, pauses and frames, as long as a session is      *)
(*    started when the one before is over.                                    *)
(*  - The Git windows: with nothing under way they show the open project's    *)
(*    repository as it is, for every number of projects and operations.       *)
(*  - Find in Files: the list is the newest search's, and the form keeps what *)
(*    was entered, for every number of searches and requests.                 *)
(*  - The design surface: moves are of whole items and resizes of one edge,   *)
(*    for every document and grid.                                            *)
EXTENDS DapSession, GitStore, FindInFiles, DesignSurface, FiniteSetTheorems,
        WellFoundedInduction, TLAPS

------------------------------------------------------------------------------
(* The debug session (DapSession).                                            *)

(* A display without a call stack. *)
Blank == state.frames = 0 /\ state.scopes = <<0, NoFrame>> /\ state.variables = {}

(* A request whose answer would still be shown. *)
AboutPause(q) == q.what # "control" /\ q.gen = generation

(* Nothing of a paused program is shown, nor will an answer show it. *)
Quiet == state.status # "stopped" /\ Blank /\ \A q \in asked : ~AboutPause(q)

(* A program that is not paused has a quiet session: this is what lets the    *)
(* next pause add to what is shown without clearing it.  It does not hold by  *)
(* itself: the adapter runs on when it answers a resume, and goes when a      *)
(* stop() reaches the host, so the session must have been quiet since the     *)
(* resume was asked, and since the stop() began.                              *)
QuietUnlessPaused == adapter # "paused" => Quiet
QuietOnceResumed == \A q \in asked : q.what = "control" /\ q.of[1] = pauses => Quiet
QuietWhileStopping == \A c \in Callers :
    /\ stops[c] = "unlisten" => listener = "pending" /\ Quiet
    /\ stops[c] = "host" => listener = "none" /\ Quiet

(* No request is of a pause to come, and the ones that will be heard are of   *)
(* the last.                                                                  *)
AsksAreOfThePause == \A q \in asked : /\ q.gen <= generation /\ q.of[1] <= pauses
                                      /\ AboutPause(q) => q.of[1] = pauses

(* Variables are asked for under the scopes on show. *)
ScopesAreOfThePause == state.scopes = <<0, NoFrame>> \/ state.scopes[1] = pauses

DapInv == /\ DapTypeOK
          /\ QuietUnlessPaused /\ QuietOnceResumed /\ QuietWhileStopping
          /\ AsksAreOfThePause /\ ScopesAreOfThePause /\ DisplayIsCurrent

(* The callers of stop(): the user, each start, and the end of the program.   *)
LEMMA CallersAre == ASSUME MaxStarts \in Nat
                    PROVE  User \in Callers /\ AtTheEnd \in Callers /\ Starts \subseteq Callers
BY DEF User, AtTheEnd, Callers, Starts

(* What is asked, and a program that runs on, are of the right types.         *)
LEMMA AskIsTyped ==
    ASSUME NEW what \in {"threads", "frames", "scopes", "variables", "control"},
           NEW gen \in Nat, NEW of \in Places
    PROVE  /\ Ask(what, gen, of) \in Requests
           /\ Ask(what, gen, of).what = what
           /\ Ask(what, gen, of).gen = gen /\ Ask(what, gen, of).of = of
BY DEF Ask, Requests

LEMMA RunningIsBlank ==
    ASSUME DapTypeOK, state' = Running(state)
    PROVE  state' \in Displays /\ Blank' /\ state'.status = "running"
<1>1. /\ state'.status = "running" /\ state'.frames = 0
      /\ state'.scopes = <<0, NoFrame>> /\ state'.variables = {}
  BY DEF Running, InitialState
<1>2. state' \in Displays
  BY DEF Running, InitialState, DapTypeOK, Displays, Places
<1>. QED
  BY <1>1, <1>2 DEF Blank

(* Requests of an older generation are not heard.                             *)
LEMMA OlderAreUnheard ==
    ASSUME DapInv, generation' = generation + 1
    PROVE  \A q \in asked : /\ q.gen <= generation' /\ ~AboutPause(q)' /\ q.of[1] <= pauses
                            /\ q.of[1] \in Nat
BY DEF DapInv, DapTypeOK, Requests, Places, AsksAreOfThePause, AboutPause

LEMMA DapInitially == ASSUME MaxStarts \in Nat, DapInit PROVE DapInv
<1>1. DapTypeOK
  BY DEF DapInit, DapTypeOK, InitialState, Displays, Places, NoFrame
<1>2. Quiet
  BY DEF DapInit, Quiet, Blank, InitialState
<1>. QED
  BY <1>1, <1>2 DEF DapInit, DapInv, Quiet, Blank, AboutPause, QuietUnlessPaused, QuietOnceResumed,
         QuietWhileStopping, AsksAreOfThePause, ScopesAreOfThePause, DisplayIsCurrent

-----------------------------------------------------------------------------
(* stop() and start() *)

(* Whoever calls it, the first part of stop() quiets the session: what is     *)
(* asked is of an older generation now, and the subscription goes.            *)
LEMMA StopQuiets ==
    ASSUME DapInv, NEW c \in Callers, BeginStop(c), pauses' = pauses, asked' = asked,
           kept' \in Nat, adapter' \in {"none", "up", "running", "paused", "over"}
    PROVE  DapInv'
<1>1. generation' = generation + 1 /\ state' = InitialState(state.breakpoints)
  BY DEF BeginStop
<1>2. state'.status = "idle" /\ Blank'
  BY <1>1 DEF InitialState, Blank
<1>3. DapTypeOK'
  <2>1. state' \in Displays
    BY <1>1 DEF InitialState, Displays, Places, DapInv, DapTypeOK
  <2>. QED
    BY <1>1, <2>1 DEF BeginStop, DapInv, DapTypeOK
<1>4. Quiet' /\ AsksAreOfThePause'
  BY <1>1, <1>2, OlderAreUnheard DEF Quiet, AsksAreOfThePause, AboutPause
<1>5. QuietWhileStopping'
  BY <1>4 DEF DapInv, DapTypeOK, QuietWhileStopping, BeginStop
<1>. QED
  BY <1>2, <1>3, <1>4, <1>5 DEF DapInv, Blank, QuietUnlessPaused, QuietOnceResumed,
     ScopesAreOfThePause, DisplayIsCurrent

LEMMA StopEndsKeep == ASSUME DapInv, NEW c \in Callers, HostStops(c) \/ StopReturns(c) PROVE DapInv'
<1>1. CASE HostStops(c)
  BY <1>1 DEF DapInv, HostStops, DapTypeOK, Displays, Places, Quiet, Blank, AboutPause, QuietUnlessPaused, QuietOnceResumed,
         QuietWhileStopping, AsksAreOfThePause, ScopesAreOfThePause, DisplayIsCurrent
<1>2. CASE StopReturns(c)
  BY ZenonT(60), <1>2 DEF DapInv, StopReturns, ShowEnded, DapTypeOK, Displays, Places, Quiet, Blank, AboutPause, QuietUnlessPaused, QuietOnceResumed,
         QuietWhileStopping, AsksAreOfThePause, ScopesAreOfThePause, DisplayIsCurrent
<1>. QED
  BY <1>1, <1>2

(* Made while no stop is under way, the subscription is not taken from the    *)
(* start it was made for.                                                     *)
LEMMA StartsQuietly ==
    ASSUME DapInv, NEW s \in Starts, Start(s), StartsApart
    PROVE  DapInv'
<1>1. adapter = "none" /\ \A c \in Callers : stops[c] = "no"
  BY DEF StartsApart
<1>. QED
  BY <1>1 DEF DapInv, Start, InitialState, DapTypeOK, Displays, Places, Quiet, Blank, AboutPause, QuietUnlessPaused, QuietOnceResumed,
         QuietWhileStopping, AsksAreOfThePause, ScopesAreOfThePause, DisplayIsCurrent

LEMMA ListenKeeps == ASSUME DapInv, Listening PROVE DapInv'
BY DEF DapInv, Listening, DapTypeOK, Displays, Places, Quiet, Blank, AboutPause, QuietUnlessPaused, QuietOnceResumed,
         QuietWhileStopping, AsksAreOfThePause, ScopesAreOfThePause, DisplayIsCurrent

(* The rest of start() shows nothing of a paused program.                     *)
LEMMA StartGoesOn ==
    ASSUME DapInv, NEW s \in Starts,
           HostStarts(s) \/ Configure(s) \/ Configured(s) \/ LaunchAnswered(s) \/ Launched(s)
    PROVE  DapInv'
<1>1. CASE HostStarts(s) \/ Configured(s)
  BY <1>1 DEF DapInv, HostStarts, Configured, DapTypeOK, Displays, Places, Quiet, Blank, AboutPause, QuietUnlessPaused, QuietOnceResumed,
         QuietWhileStopping, AsksAreOfThePause, ScopesAreOfThePause, DisplayIsCurrent
<1>2. CASE Configure(s) \/ LaunchAnswered(s)
  BY <1>2 DEF DapInv, Configure, LaunchAnswered, DapTypeOK, Displays, Places, Quiet, Blank, AboutPause, QuietUnlessPaused, QuietOnceResumed,
         QuietWhileStopping, AsksAreOfThePause, ScopesAreOfThePause, DisplayIsCurrent
<1>3. CASE Launched(s)
  BY <1>3 DEF DapInv, Launched, DapTypeOK, Displays, Places, Quiet, Blank, AboutPause, QuietUnlessPaused, QuietOnceResumed,
         QuietWhileStopping, AsksAreOfThePause, ScopesAreOfThePause, DisplayIsCurrent
<1>. QED
  BY <1>1, <1>2, <1>3

-----------------------------------------------------------------------------
(* The adapter's events *)

(* The program pauses: the session was quiet, so what it shows next is of     *)
(* this pause, and what it asks now is the only thing it will hear.           *)
LEMMA PauseKeeps == ASSUME DapInv, StoppedEvent PROVE DapInv'
<1>. DEFINE at == <<pauses + 1, NoFrame>>
<1>1. Quiet /\ listener = "on" /\ adapter' = "paused"
  BY DEF DapInv, QuietUnlessPaused, StoppedEvent, Emits
<1>2. at \in Places /\ at[1] = pauses + 1
  BY DEF DapInv, DapTypeOK, Displays, Places
<1>3. PICK what \in {"threads", "frames"} :
        /\ asked' = asked \cup {Ask(what, generation + 1, at)}
        /\ state' = state \/ state' = Shown(pauses + 1)
  BY DEF StoppedEvent
<1>4. /\ generation \in Nat /\ generation' = generation + 1
      /\ pauses \in Nat /\ pauses' = pauses + 1
  BY DEF StoppedEvent, DapInv, DapTypeOK
<1>5. Ask(what, generation + 1, at) =
        [what |-> what, gen |-> generation + 1, of |-> at]
  BY DEF Ask
<1>6. DapTypeOK'
  <2>1. state' \in Displays
    <3>1. state \in Displays /\ pauses + 1 \in Nat
      BY <1>4 DEF DapInv, DapTypeOK
    <3>2. Shown(pauses + 1) \in Displays
      BY <3>1 DEF Displays, Shown
    <3>. QED
      BY <1>3, <3>1, <3>2
  <2>2. asked' \subseteq Requests
    BY <1>2, <1>3, <1>4, AskIsTyped DEF DapInv, DapTypeOK
  <2>. QED
    BY <1>1, <1>4, <2>1, <2>2 DEF DapInv, DapTypeOK, StoppedEvent
<1>7. Blank'
  BY <1>1, <1>3 DEF Quiet, Blank, Shown, DapInv, DapTypeOK, Displays
<1>8. AsksAreOfThePause' /\ \A q \in asked' : q.what = "control" => q.of[1] # pauses'
  <2>. SUFFICES ASSUME NEW q \in asked'
                PROVE  /\ q.gen <= generation' /\ q.of[1] <= pauses'
                       /\ q.what # "control" /\ q.gen = generation' => q.of[1] = pauses'
                       /\ q.what = "control" => q.of[1] # pauses'
    BY DEF AsksAreOfThePause, AboutPause
  <2>1. CASE q \in asked
    <3>1. q.gen \in Nat /\ q.of[1] \in Nat
      BY <2>1 DEF DapInv, DapTypeOK, Requests, Places
    <3>. QED
      BY <2>1, <3>1, <1>4 DEF DapInv, AsksAreOfThePause
  <2>2. CASE q = Ask(what, generation + 1, at)
    BY <2>2, <1>2, <1>4, <1>5
  <2>. QED
    BY <2>1, <2>2, <1>3
<1>9. QuietWhileStopping'
  BY <1>1 DEF DapInv, QuietWhileStopping, StoppedEvent
<1>. QED
  BY <1>1, <1>6, <1>7, <1>8, <1>9 DEF DapInv, Blank, QuietUnlessPaused, QuietOnceResumed,
     ScopesAreOfThePause, DisplayIsCurrent

LEMMA RunningIsQuiet == ASSUME DapInv, ContinuedEvent PROVE DapInv'
<1>1. state' \in Displays /\ Blank' /\ state'.status = "running"
  BY RunningIsBlank DEF DapInv, ContinuedEvent
<1>2. DapTypeOK'
  BY <1>1 DEF ContinuedEvent, DapInv, DapTypeOK
<1>3. generation' = generation + 1 /\ asked' = asked /\ pauses' = pauses
  BY DEF ContinuedEvent
<1>4. Quiet' /\ AsksAreOfThePause'
  BY <1>1, <1>3, OlderAreUnheard DEF Quiet, AsksAreOfThePause, AboutPause
<1>5. QuietWhileStopping'
  BY <1>4 DEF DapInv, QuietWhileStopping, ContinuedEvent, Emits
<1>. QED
  BY <1>1, <1>2, <1>4, <1>5 DEF DapInv, Blank, QuietUnlessPaused, QuietOnceResumed,
     ScopesAreOfThePause, DisplayIsCurrent

(* Nothing else the adapter says, and no breakpoint, changes what is shown of *)
(* a pause.                                                                   *)
LEMMA OthersKeep ==
    ASSUME DapInv, InitializedEvent \/ OutputEvent \/ (\E l \in Lines : ToggleBreakpoint(l))
    PROVE  DapInv'
<1>1. CASE InitializedEvent
  BY <1>1 DEF DapInv, InitializedEvent, DapTypeOK, Displays, Places, Quiet, Blank, AboutPause, QuietUnlessPaused, QuietOnceResumed,
         QuietWhileStopping, AsksAreOfThePause, ScopesAreOfThePause, DisplayIsCurrent
<1>2. CASE OutputEvent
  BY <1>2 DEF DapInv, OutputEvent, DapTypeOK, Displays, Places, Quiet, Blank, AboutPause, QuietUnlessPaused, QuietOnceResumed,
         QuietWhileStopping, AsksAreOfThePause, ScopesAreOfThePause, DisplayIsCurrent
<1>3. CASE \E l \in Lines : ToggleBreakpoint(l)
  BY <1>3 DEF DapInv, ToggleBreakpoint, DapTypeOK, Displays, Places, Quiet, Blank, AboutPause, QuietUnlessPaused, QuietOnceResumed,
         QuietWhileStopping, AsksAreOfThePause, ScopesAreOfThePause, DisplayIsCurrent
<1>. QED
  BY <1>1, <1>2, <1>3

-----------------------------------------------------------------------------
(* The user's requests and the answers *)

LEMMA ControlQuiets == ASSUME DapInv, Control PROVE DapInv'
<1>. DEFINE asks == Ask("control", generation + 1, <<pauses, NoFrame>>)
<1>1. /\ generation' = generation + 1 /\ pauses' = pauses
      /\ state' = Running(state) /\ asked' = asked \cup {asks}
  BY DEF Control
<1>2. /\ pauses \in Nat /\ generation \in Nat
      /\ <<pauses, NoFrame>> \in Places /\ <<pauses, NoFrame>>[1] = pauses
  BY DEF DapInv, DapTypeOK, Places
<1>3. /\ asks \in Requests /\ asks.what = "control"
      /\ asks.gen = generation + 1 /\ asks.of[1] = pauses
  BY <1>2, AskIsTyped
<1>4. state' \in Displays /\ Blank' /\ state'.status = "running"
  BY <1>1, RunningIsBlank DEF DapInv
<1>5. DapTypeOK'
  BY <1>1, <1>2, <1>3, <1>4 DEF Control, DapInv, DapTypeOK
<1>6. Quiet' /\ AsksAreOfThePause'
  BY <1>1, <1>2, <1>3, <1>4, OlderAreUnheard DEF Quiet, AsksAreOfThePause, AboutPause
<1>7. QuietWhileStopping'
  BY <1>6 DEF DapInv, QuietWhileStopping, Control
<1>. QED
  BY <1>4, <1>5, <1>6, <1>7 DEF DapInv, Blank, QuietUnlessPaused, QuietOnceResumed,
     ScopesAreOfThePause, DisplayIsCurrent

(* A session that shows a pause is not about to be quiet.                     *)
LEMMA ShowsThePause ==
    ASSUME DapInv, ~Quiet
    PROVE  /\ adapter = "paused"
           /\ \A q \in asked : q.what = "control" => q.of[1] # pauses
           /\ \A c \in Callers : stops[c] \notin {"unlisten", "host"}
BY DEF DapInv, QuietUnlessPaused, QuietOnceResumed, QuietWhileStopping

(* Such a session asks only about the pause it is in.                         *)
LEMMA AsksOfThePause ==
    ASSUME DapInv, ~Quiet, NEW what \in {"threads", "frames", "scopes", "variables"},
           NEW of \in Places, of[1] = pauses, NEW dropped,
           asked' = (asked \ dropped) \cup {Ask(what, generation, of)},
           UNCHANGED <<generation, listener, stops, kept, adapter, pauses>>,
           state' \in Displays,
           state'.frames \in {0, pauses}, \A v \in state'.variables : v[1] = pauses,
           state'.scopes = <<0, NoFrame>> \/ state'.scopes[1] = pauses
    PROVE  DapInv'
<1>. DEFINE asks == Ask(what, generation, of)
<1>1. /\ asks \in Requests /\ asks.what = what
      /\ asks.gen = generation /\ asks.of = of
  BY AskIsTyped DEF DapInv, DapTypeOK
<1>2. DapTypeOK'
  BY <1>1 DEF DapInv, DapTypeOK
<1>3. \A q \in asked' : q \in asked \/ q = asks
  OBVIOUS
<1>4. AsksAreOfThePause'
  BY <1>1, <1>3 DEF DapInv, DapTypeOK, AsksAreOfThePause, AboutPause
<1>5. QuietUnlessPaused' /\ QuietOnceResumed' /\ QuietWhileStopping'
  BY <1>1, <1>3, ShowsThePause DEF QuietUnlessPaused, QuietOnceResumed, QuietWhileStopping
<1>6. ScopesAreOfThePause' /\ DisplayIsCurrent'
  BY DEF ScopesAreOfThePause, DisplayIsCurrent
<1>. QED
  BY <1>2, <1>4, <1>5, <1>6 DEF DapInv

LEMMA SelectingKeeps == ASSUME DapInv, NEW f \in Frames, SelectFrame(f) PROVE DapInv'
<1>1. /\ state.status = "stopped" /\ state.frames # 0
      /\ state' = Selected(state, f)
      /\ asked' = asked \cup {Ask("scopes", generation, <<state.frames, f>>)}
      /\ UNCHANGED <<generation, listener, stops, kept, adapter, pauses>>
  BY DEF SelectFrame, Pickable
<1>2. <<state.frames, f>> \in Places /\ <<state.frames, f>>[1] = pauses
  BY <1>1 DEF DapInv, DapTypeOK, Displays, Places, DisplayIsCurrent
<1>3. /\ state' \in Displays /\ state'.frames = state.frames
      /\ state'.scopes = <<0, NoFrame>> /\ state'.variables = {}
  BY <1>1 DEF DapInv, DapTypeOK, Displays, Places, Selected
<1>4. ~Quiet /\ state.frames \in {0, pauses}
  BY <1>1 DEF Quiet, DapInv, DisplayIsCurrent
<1>5. asked' = (asked \ {}) \cup {Ask("scopes", generation, <<state.frames, f>>)}
  BY <1>1
<1>. QED
  BY <1>1, <1>2, <1>3, <1>4, <1>5, AsksOfThePause

LEMMA LoadingKeeps == ASSUME DapInv, OpenVariables PROVE DapInv'
<1>1. PICK reference \in Openable : LoadVariables(reference)
  BY DEF OpenVariables
<1>2. /\ state.status = "stopped" /\ state.scopes[2] # NoFrame
      /\ reference = state.scopes
      /\ asked' = (asked \ {}) \cup {Ask("variables", generation, reference)}
      /\ UNCHANGED <<state, generation, listener, stops, kept, adapter, pauses>>
  BY <1>1 DEF LoadVariables, Openable
<1>3. reference \in Places /\ reference[1] = pauses
  BY <1>2 DEF DapInv, DapTypeOK, Displays, ScopesAreOfThePause
<1>4. ~Quiet /\ state' \in Displays
  BY <1>2 DEF Quiet, DapInv, DapTypeOK
<1>5. /\ state'.frames \in {0, pauses} /\ \A v \in state'.variables : v[1] = pauses
      /\ state'.scopes = <<0, NoFrame>> \/ state'.scopes[1] = pauses
  BY <1>2 DEF DapInv, DisplayIsCurrent, ScopesAreOfThePause
<1>. QED
  BY <1>2, <1>3, <1>4, <1>5, AsksOfThePause

-----------------------------------------------------------------------------
(* An answer that is heard is of the pause on show, and so is what is asked   *)
(* because of it.                                                             *)
LEMMA AnswerKeeps ==
    ASSUME Top \in Frames, DapInv, NEW q \in asked, Answer(q)
    PROVE  DapInv'
<1>1. /\ q \in Requests /\ q.gen = generation /\ q.of \in Places /\ q.what # "control"
      /\ UNCHANGED <<generation, listener, stops, kept, adapter, pauses>>
  BY DEF Answer, Fresh, DapInv, DapTypeOK, Requests
<1>2. ~Quiet /\ q.of[1] = pauses /\ pauses \in Nat
  BY <1>1 DEF Quiet, AboutPause, DapInv, AsksAreOfThePause, DapTypeOK
<1>3. /\ state.frames \in {0, pauses} /\ \A v \in state.variables : v[1] = pauses
      /\ state.scopes = <<0, NoFrame>> \/ state.scopes[1] = pauses
      /\ state \in Displays
  BY DEF DapInv, DisplayIsCurrent, ScopesAreOfThePause, DapTypeOK
<1>4. CASE q.what = "threads" /\ Threads(q)
  <2>1. /\ state' = [state EXCEPT !.status = "stopped", !.pause = pauses]
        /\ asked' = (asked \ {q}) \cup {Ask("frames", generation, q.of)}
    BY <1>1, <1>2, <1>4 DEF Threads, Shown
  <2>2. /\ state' \in Displays /\ state'.frames = state.frames
        /\ state'.scopes = state.scopes /\ state'.variables = state.variables
    BY <1>2, <1>3, <2>1 DEF Displays
  <2>. QED
    BY <1>1, <1>2, <1>3, <2>1, <2>2, AsksOfThePause
<1>5. CASE q.what = "frames" /\ Stack(q)
  <2>. DEFINE at == <<pauses, Top>>
  <2>1. /\ state' = Selected([state EXCEPT !.frames = pauses], Top)
        /\ asked' = (asked \ {q}) \cup {Ask("scopes", generation, at)}
    BY <1>1, <1>2, <1>5 DEF Stack
  <2>2. /\ state' \in Displays /\ state'.frames = pauses
        /\ state'.scopes = <<0, NoFrame>> /\ state'.variables = {}
    BY <1>2, <1>3, <2>1 DEF Displays, Selected, Places
  <2>3. at \in Places /\ at[1] = pauses
    BY <1>2 DEF Places
  <2>. QED
    BY <1>1, <1>2, <1>3, <2>1, <2>2, <2>3, AsksOfThePause
<1>6. CASE q.what = "scopes" /\ Scopes(q)
  <2>1. state' = [state EXCEPT !.scopes = q.of]
    BY <1>6 DEF Scopes
  <2>2. /\ state' \in Displays /\ state'.frames = state.frames
        /\ state'.scopes = q.of /\ state'.variables = state.variables
    BY <1>1, <1>3, <2>1 DEF Displays
  <2>3. CASE q.of \in state.variables
    <3>1. asked' = asked \ {q}
      BY <1>6, <2>3 DEF Scopes
    <3>. QED
      BY <1>1, <1>2, <1>3, <2>2, <3>1, ShowsThePause
         DEF DapInv, DapTypeOK, QuietUnlessPaused, QuietOnceResumed, QuietWhileStopping,
             AsksAreOfThePause, AboutPause, ScopesAreOfThePause, DisplayIsCurrent
  <2>4. CASE q.of \notin state.variables
    <3>1. asked' = (asked \ {q}) \cup {Ask("variables", generation, q.of)}
      BY <1>1, <1>6, <2>4 DEF Scopes
    <3>. QED
      BY <1>1, <1>2, <1>3, <2>2, <3>1, AsksOfThePause
  <2>. QED
    BY <2>3, <2>4
<1>7. CASE q.what = "variables" /\ Variables(q)
  <2>1. /\ state' = [state EXCEPT !.variables = @ \cup {q.of}]
        /\ asked' = asked \ {q}
    BY <1>7 DEF Variables
  <2>2. /\ state' \in Displays /\ state'.frames = state.frames
        /\ state'.scopes = state.scopes /\ state'.variables = state.variables \cup {q.of}
    BY <1>1, <1>3, <2>1 DEF Displays
  <2>. QED
    BY <1>1, <1>2, <1>3, <2>1, <2>2, ShowsThePause
       DEF DapInv, DapTypeOK, QuietUnlessPaused, QuietOnceResumed, QuietWhileStopping,
           AsksAreOfThePause, AboutPause, ScopesAreOfThePause, DisplayIsCurrent
<1>. QED
  BY <1>4, <1>5, <1>6, <1>7 DEF Answer

(* A dropped answer shows nothing; the program runs on only when the session  *)
(* has been quiet since that was asked.                                       *)
LEMMA OtherAnswersKeep ==
    ASSUME DapInv, NEW q \in asked, Dropped(q) \/ RunsOn(q)
    PROVE  DapInv'
<1>1. CASE Dropped(q)
  BY <1>1 DEF Dropped, DapInv, DapTypeOK, Quiet, Blank, AboutPause, QuietUnlessPaused,
     QuietOnceResumed, QuietWhileStopping, AsksAreOfThePause, ScopesAreOfThePause,
     DisplayIsCurrent
<1>2. CASE RunsOn(q)
  BY <1>2 DEF RunsOn, DapInv, DapTypeOK, Quiet, Blank, AboutPause, QuietUnlessPaused,
     QuietOnceResumed, QuietWhileStopping, AsksAreOfThePause, ScopesAreOfThePause,
     DisplayIsCurrent
<1>. QED
  BY <1>1, <1>2

LEMMA DapStutters == ASSUME DapInv, UNCHANGED dapVars PROVE DapInv'
BY DEF dapVars, DapInv, DapTypeOK, Quiet, Blank, AboutPause, QuietUnlessPaused,
   QuietOnceResumed, QuietWhileStopping, AsksAreOfThePause, ScopesAreOfThePause,
   DisplayIsCurrent

-----------------------------------------------------------------------------
(* Every step of a session whose starts keep apart keeps the invariant.       *)
LEMMA DapStepKeeps ==
    ASSUME MaxStarts \in Nat, Top \in Frames, DapInv, [DapNext /\ StartsApart]_dapVars
    PROVE  DapInv'
<1>. USE CallersAre
<1>1. CASE StopPressed
  BY <1>1, StopQuiets DEF StopPressed, DapInv, DapTypeOK
<1>2. ASSUME NEW s \in Starts, StartFails(s)
      PROVE  DapInv'
  BY <1>2, StopQuiets DEF StartFails, DapInv, DapTypeOK
<1>3. CASE TerminatedEvent
  <2>1. kept' \in Nat
    BY <1>3 DEF TerminatedEvent, DapInv, DapTypeOK, Displays
  <2>. QED
    BY <1>3, <2>1, StopQuiets DEF TerminatedEvent
<1>4. CASE Listening
  BY <1>4, ListenKeeps
<1>5. CASE \E c \in Callers : HostStops(c) \/ StopReturns(c)
  BY <1>5, StopEndsKeep
<1>6. ASSUME NEW s \in Starts, StartsApart, Start(s)
      PROVE  DapInv'
  BY <1>6, StartsQuietly
<1>7. ASSUME NEW s \in Starts,
             HostStarts(s) \/ Configure(s) \/ Configured(s) \/ LaunchAnswered(s) \/ Launched(s)
      PROVE  DapInv'
  BY <1>7, StartGoesOn
<1>8. CASE StoppedEvent
  BY <1>8, PauseKeeps
<1>9. CASE ContinuedEvent
  BY <1>9, RunningIsQuiet
<1>10. CASE InitializedEvent \/ OutputEvent \/ (\E l \in Lines : ToggleBreakpoint(l))
  BY <1>10, OthersKeep
<1>11. CASE Control
  BY <1>11, ControlQuiets
<1>12. CASE \E f \in Frames : SelectFrame(f)
  BY <1>12, SelectingKeeps
<1>13. CASE OpenVariables
  BY <1>13, LoadingKeeps
<1>14. CASE Answered
  BY <1>14, AnswerKeeps DEF Answered
<1>15. CASE DroppedOne \/ ProgramRunsOn
  BY <1>15, OtherAnswersKeep DEF DroppedOne, ProgramRunsOn
<1>16. CASE UNCHANGED dapVars
  BY <1>16, DapStutters
<1>. QED
  BY <1>1, <1>2, <1>3, <1>4, <1>5, <1>6, <1>7, <1>8, <1>9, <1>10, <1>11, <1>12, <1>13,
     <1>14, <1>15, <1>16 DEF DapNext

(* In a session that is started only when the one before is over, whatever    *)
(* the views show of a paused program is of its last pause, however often it  *)
(* is started, paused, stepped and stopped, and however late the answers come *)
(* (dapSession.ts, selectFrame, loadVariables, stopped).                      *)
THEOREM DisplayIsCurrentHolds ==
    ASSUME MaxStarts \in Nat, Top \in Frames
    PROVE  DapSpec /\ [][StartsApart]_dapVars => []DisplayIsCurrent
<1>1. DapInit => DapInv
  BY DapInitially
<1>2. DapInv /\ [DapNext]_dapVars /\ [StartsApart]_dapVars => DapInv'
  BY DapStepKeeps
<1>3. DapInv => DisplayIsCurrent
  BY DEF DapInv
<1>. QED
  BY <1>1, <1>2, <1>3, PTL DEF DapSpec

-----------------------------------------------------------------------------
(* A session that is started once needs no such care: until then nothing of   *)
(* it runs, in the window or in the host.                                     *)
Untouched == (\A s \in Starts : starts[s] = "no") =>
                /\ state.status = "idle" /\ listener = "none" /\ adapter = "none"
                /\ \A c \in Callers : stops[c] = "no"

StartsTyped == starts \in [Starts -> {"no", "listen", "host", "init", "configuring",
                                      "launched", "done", "stopping"}]

LEMMA UntouchedUntilStarted ==
    ASSUME MaxStarts = 1, DapTypeOK, StartsTyped, Untouched, [DapNext]_dapVars
    PROVE  StartsTyped' /\ Untouched'
<1>1. StartsTyped' /\ \A s \in Starts : starts'[s] = "no" => starts[s] = "no"
  <2>1. CASE \E s \in Starts : \/ Start(s) \/ HostStarts(s) \/ Configure(s) \/ Configured(s)
                               \/ Launched(s) \/ StartFails(s)
    BY <2>1 DEF StartsTyped, Start, HostStarts, Configure, Configured, Launched, StartFails
  <2>2. CASE Listening \/ \E c \in Callers : HostStops(c) \/ StopReturns(c)
    BY <2>2 DEF StartsTyped, Listening, HostStops, StopReturns
  <2>3. CASE starts' = starts
    BY <2>3 DEF StartsTyped
  <2>. QED
    BY <2>1, <2>2, <2>3 DEF DapNext, dapVars, StopPressed, LaunchAnswered, InitializedEvent,
       StoppedEvent, ContinuedEvent, OutputEvent, TerminatedEvent, ToggleBreakpoint, Control,
       SelectFrame, OpenVariables, LoadVariables, Answered, Answer, DroppedOne, Dropped,
       ProgramRunsOn, RunsOn
<1>2. SUFFICES ASSUME \A s \in Starts : starts'[s] = "no"
               PROVE  /\ state'.status = "idle" /\ listener' = "none" /\ adapter' = "none"
                      /\ \A c \in Callers : stops'[c] = "no"
  BY <1>1 DEF Untouched
<1>3. /\ \A s \in Starts : starts[s] = "no"
      /\ state.status = "idle" /\ listener = "none" /\ adapter = "none"
      /\ \A c \in Callers : stops[c] = "no"
  BY <1>1, <1>2 DEF Untouched
<1>4. ASSUME NEW s \in Starts
      PROVE  /\ ~Start(s) /\ ~HostStarts(s) /\ ~Configure(s) /\ ~Configured(s)
             /\ ~Launched(s) /\ ~StartFails(s)
  <2>1. ~Start(s)
    BY <1>2, <1>3 DEF Start, StartsTyped, Starts
  <2>. QED
    BY <1>3, <2>1 DEF HostStarts, Configure, Configured, Launched, StartFails
<1>5. /\ ~StopPressed /\ ~Control /\ ~Listening /\ ~OpenVariables /\ ~Answered
      /\ ~ProgramRunsOn /\ \A f \in Frames : ~SelectFrame(f)
      /\ \A c \in Callers : ~HostStops(c) /\ ~StopReturns(c)
  BY <1>3 DEF StopPressed, Control, Offered, Listening, OpenVariables, Openable, Answered,
     Answer, ProgramRunsOn, RunsOn, SelectFrame, Pickable, HostStops, StopReturns
<1>6. /\ ~InitializedEvent /\ ~StoppedEvent /\ ~ContinuedEvent /\ ~OutputEvent
      /\ ~TerminatedEvent
  BY <1>3 DEF InitializedEvent, StoppedEvent, ContinuedEvent, OutputEvent, TerminatedEvent,
     Emits
<1>7. CASE \E l \in Lines : ToggleBreakpoint(l)
  BY <1>3, <1>7 DEF ToggleBreakpoint, DapTypeOK, Displays
<1>8. CASE DroppedOne \/ UNCHANGED dapVars \/ \E s \in Starts : LaunchAnswered(s)
  BY <1>3, <1>8 DEF DroppedOne, Dropped, LaunchAnswered, dapVars
<1>. QED
  BY <1>4, <1>5, <1>6, <1>7, <1>8 DEF DapNext

(* What the views show of a program that is started once is of its last       *)
(* pause, in every behaviour (dapSession.ts:22).                              *)
THEOREM FirstProgramIsShownAsItIs ==
    ASSUME MaxStarts = 1, Top \in Frames
    PROVE  DapSpec => []DisplayIsCurrent
<1>. DEFINE All == DapInv /\ StartsTyped /\ Untouched
<1>1. DapInit => All
  <2>. SUFFICES ASSUME DapInit
                PROVE  All
    OBVIOUS
  <2>1. DapInv
    BY DapInitially
  <2>2. StartsTyped /\ Untouched
    BY DEF DapInit, StartsTyped, Untouched, InitialState
  <2>. QED
    BY <2>1, <2>2
<1>2. All /\ [DapNext]_dapVars => All'
  <2>. SUFFICES ASSUME All, [DapNext]_dapVars
                PROVE  All'
    OBVIOUS
  <2>1. StartsApart
    BY DEF StartsApart, Start, Untouched, Starts
  <2>2. DapInv'
    BY <2>1, DapStepKeeps
  <2>3. StartsTyped' /\ Untouched'
    BY UntouchedUntilStarted DEF DapInv
  <2>. QED
    BY <2>2, <2>3
<1>3. All => DisplayIsCurrent
  BY DEF DapInv
<1>. QED
  BY <1>1, <1>2, <1>3, PTL DEF DapSpec

------------------------------------------------------------------------------
(* The Git store (GitStore).                                                  *)

(* What a read holds: nothing yet, or the version it found.                   *)
Versions == Nat \cup {Unread}
Reads == [project : Roots, status : Versions, lists : Versions, own : BOOLEAN]

GitTypeOK == /\ gitRoot \in Roots \cup {NoRoot} /\ repo \in [Roots -> Nat]
             /\ unseen \in BOOLEAN /\ refresh \in Reads \cup {None}

(* The read under way is of the open project, and what it has found is the    *)
(* repository as it is, unless that was changed outside meanwhile: every      *)
(* operation that ends begins another read, and so does every switch.         *)
ReadIsCurrent ==
    refresh # None =>
        /\ refresh.project = gitRoot
        /\ refresh.lists # Unread => refresh.status # Unread
        /\ ~unseen /\ refresh.status # Unread => refresh.status = repo[gitRoot]

(* With no read under way the status is current, even while something runs.   *)
IsCurrent == known /\ IF repo[gitRoot] = NoRepo THEN ~InRepo
                      ELSE status.project = gitRoot /\ status.status = repo[gitRoot]
ShownIsRead == refresh = None /\ ~unseen /\ gitRoot # NoRoot => IsCurrent

(* A question is about the open project while it is asked, but that of a      *)
(* branch that would not go may be of another; only a push goes on by itself. *)
QuestionIsHere ==
    question # None => /\ question.what \in {"ask", "delete", "init", "force"}
                       /\ question.what # "force" => question.project = gitRoot
GoesOnAsAsked == \A f \in after : f.what \in {"push", "force"}

GitInv == /\ GitTypeOK /\ ReadIsCurrent /\ ShownIsRead
          /\ QuestionIsHere /\ GoesOnAsAsked /\ RunsWhereAsked

(* A read that begins is one of the open project that found nothing yet.      *)
LEMMA ReadIsNoNone == \A r \in Reads : r # None
<1> SUFFICES ASSUME NEW r \in Reads PROVE r # None
  OBVIOUS
<1>1. "own" \in DOMAIN r
  BY DEF Reads
<1>2. "own" \notin DOMAIN None
  BY DEF None
<1> QED
  BY <1>1, <1>2

LEMMA ReadingIsCurrent ==
    ASSUME GitTypeOK, NEW p \in Roots, NEW own \in BOOLEAN, Reading(p, own), gitRoot' = p,
           repo' \in [Roots -> Nat]
    PROVE  GitTypeOK' /\ ReadIsCurrent' /\ ShownIsRead'
<1>1. refresh' = [project |-> p, status |-> Unread, lists |-> Unread, own |-> own] /\ ~unseen'
      /\ unseen' \in BOOLEAN
  BY DEF Reading
<1>2. refresh' \in Reads
  BY <1>1 DEF Reads, Versions
<1>3. refresh' # None
  BY <1>2, ReadIsNoNone
<1>4. None' = None
  BY DEF None
<1>5. GitTypeOK'
  BY <1>1, <1>2 DEF GitTypeOK
<1>6. ReadIsCurrent'
  BY <1>1 DEF ReadIsCurrent
<1> QED
  BY <1>3, <1>4, <1>5, <1>6 DEF ShownIsRead

LEMMA RefreshIsCurrent ==
    ASSUME GitTypeOK, NEW own \in BOOLEAN, Refresh(own), gitRoot' = gitRoot,
           repo' \in [Roots -> Nat]
    PROVE  GitTypeOK' /\ ReadIsCurrent' /\ ShownIsRead'
<1>1. CASE gitRoot = NoRoot
  <2>1. refresh' = None /\ unseen' = FALSE /\ gitRoot' = NoRoot
    BY <1>1 DEF Refresh
  <2> QED
    BY <2>1, <1>1 DEF GitTypeOK, ReadIsCurrent, ShownIsRead, None
<1>2. CASE gitRoot # NoRoot
  BY <1>2, ReadingIsCurrent DEF Refresh, GitTypeOK
<1> QED
  BY <1>1, <1>2

LEMMA GitInitially == ASSUME GitInit PROVE GitInv
<1>1. GitTypeOK
  <2>1. repo \in [Roots -> {0, 1}]
    BY DEF GitInit, NoRepo
  <2>2. repo \in [Roots -> Nat]
    BY <2>1
  <2> QED
    BY <2>2 DEF GitInit, GitTypeOK
<1> QED
  BY <1>1, GitAssumption DEF GitInit, GitInv, ReadIsCurrent, ShownIsRead, QuestionIsHere,
                             GoesOnAsAsked, RunsWhereAsked

(* Steps of a read.                                                           *)
LEMMA OperationsStay ==
    ASSUME QuestionIsHere, GoesOnAsAsked, RunsWhereAsked, UNCHANGED <<operations, question, after>>,
           gitRoot' = gitRoot
    PROVE  QuestionIsHere' /\ GoesOnAsAsked' /\ RunsWhereAsked'
BY DEF QuestionIsHere, GoesOnAsAsked, RunsWhereAsked, None

LEMMA ReadsStay ==
    ASSUME GitTypeOK, ReadIsCurrent, ShownIsRead,
           UNCHANGED <<gitRoot, status, known, refresh, repo, unseen>>
    PROVE  GitTypeOK' /\ ReadIsCurrent' /\ ShownIsRead'
BY DEF GitTypeOK, ReadIsCurrent, ShownIsRead, IsCurrent, InRepo, None, Reads, Versions

LEMMA SwitchKeeps == ASSUME GitInv, NEW p \in Roots \cup {NoRoot}, SetGitRoot(p) PROVE GitInv'
<1>1. GitTypeOK' /\ ReadIsCurrent' /\ ShownIsRead'
  <2>1. CASE p = NoRoot
    BY <2>1 DEF GitInv, GitTypeOK, SetGitRoot, ReadIsCurrent, ShownIsRead, None
  <2>2. CASE p # NoRoot
    <3>1. Reading(p, FALSE) /\ gitRoot' = p /\ repo' = repo /\ p \in Roots
      BY <2>2 DEF SetGitRoot
    <3> QED
      BY <3>1, ReadingIsCurrent DEF GitInv, GitTypeOK
  <2> QED
    BY <2>1, <2>2
<1>2. question' = None /\ None' = None /\ operations' = operations /\ after' = after
  BY DEF SetGitRoot, Free, None
<1> QED
  BY <1>1, <1>2 DEF GitInv, QuestionIsHere, GoesOnAsAsked, RunsWhereAsked

LEMMA RereadKeeps == ASSUME GitInv, RefreshAgain \/ Poll PROVE GitInv'
<1>1. Refresh(FALSE) /\ UNCHANGED <<gitRoot, repo, operations, question, after>>
  BY DEF RefreshAgain, Poll
<1>2. GitTypeOK' /\ ReadIsCurrent' /\ ShownIsRead'
  BY <1>1, RefreshIsCurrent DEF GitInv, GitTypeOK
<1> QED
  BY <1>1, <1>2, OperationsStay DEF GitInv

(* What the host reads is the repository as it is.                            *)
LEMMA HostReadsKeeps == ASSUME GitInv, HostReadsStatus \/ HostReadsLists PROVE GitInv'
<1>1. /\ refresh # None /\ refresh \in Reads
      /\ UNCHANGED <<gitRoot, status, known, repo, unseen, operations, question, after>>
  BY DEF HostReadsStatus, HostReadsLists, GitInv, GitTypeOK
<1>2. refresh.project = gitRoot /\ gitRoot \in Roots /\ repo[gitRoot] \in Nat
  BY <1>1 DEF GitInv, GitTypeOK, ReadIsCurrent, Reads
<1>3. refresh' \in Reads /\ refresh'.project = gitRoot
  BY <1>1, <1>2 DEF HostReadsStatus, HostReadsLists, Changed, Reads, Versions
<1>4. /\ refresh'.status # Unread
      /\ ~unseen => refresh'.status = repo[gitRoot]
  <2>1. CASE HostReadsStatus
    BY <2>1, <1>1, <1>2 DEF HostReadsStatus, Changed, Reads, Versions, Unread
  <2>2. CASE HostReadsLists
    <3>1. refresh.status # Unread /\ refresh'.status = refresh.status
      BY <2>2, <1>1 DEF HostReadsLists, Changed, Reads
    <3> QED
      BY <3>1, <1>1 DEF GitInv, ReadIsCurrent
  <2> QED
    BY <2>1, <2>2
<1>5. refresh' # None /\ None' = None
  BY <1>3, ReadIsNoNone DEF None
<1>6. GitTypeOK' /\ ReadIsCurrent' /\ ShownIsRead'
  BY <1>1, <1>3, <1>4, <1>5 DEF GitInv, GitTypeOK, ReadIsCurrent, ShownIsRead
<1> QED
  BY <1>1, <1>6, OperationsStay DEF GitInv

(* What is shown was read of the open project.                                *)
LEMMA ArrivalKeeps == ASSUME GitInv, RefreshArrives PROVE GitInv'
<1>1. /\ refresh # None /\ refresh \in Reads /\ Show(refresh) /\ refresh' = None
      /\ refresh.lists # Unread \/ refresh.status = NoRepo
      /\ UNCHANGED <<gitRoot, repo, unseen, operations, question, after>>
  BY DEF RefreshArrives, GitInv, GitTypeOK
<1>2. refresh.project = gitRoot /\ refresh.status # Unread
      /\ (~unseen => refresh.status = repo[gitRoot])
  BY <1>1 DEF GitInv, ReadIsCurrent, Unread, NoRepo
<1>3. ~unseen => IsCurrent'
  <2> SUFFICES ASSUME ~unseen PROVE IsCurrent'
    OBVIOUS
  <2>1. known'
    BY <1>1 DEF Show
  <2>2. CASE repo[gitRoot] = NoRepo
    <3>1. status' = NoStatus
      BY <2>2, <1>1, <1>2 DEF Show
    <3> QED
      BY <2>1, <2>2, <3>1, <1>1 DEF IsCurrent, InRepo, NoRepo, NoStatus
  <2>3. CASE repo[gitRoot] # NoRepo
    <3>1. status' = [refresh EXCEPT !.own = FALSE]
      BY <2>3, <1>1, <1>2 DEF Show
    <3>2. status'.project = gitRoot /\ status'.status = repo[gitRoot]
      BY <3>1, <1>1, <1>2 DEF Reads
    <3> QED
      BY <2>1, <2>3, <3>2, <1>1 DEF IsCurrent, NoRepo
  <2> QED
    BY <2>2, <2>3
<1>4. GitTypeOK' /\ ReadIsCurrent' /\ ShownIsRead'
  <2>1. None' = None
    BY DEF None
  <2> QED
    BY <1>1, <1>3, <2>1 DEF GitInv, GitTypeOK, ReadIsCurrent, ShownIsRead
<1> QED
  BY <1>1, <1>4, OperationsStay DEF GitInv

LEMMA FailureKeeps == ASSUME GitInv, RefreshFails PROVE GitInv'
<1>1. refresh' = None /\ unseen' = TRUE /\ UNCHANGED <<gitRoot, repo, operations, question, after>>
  BY DEF RefreshFails
<1>2. GitTypeOK' /\ ReadIsCurrent' /\ ShownIsRead'
  BY <1>1 DEF GitInv, GitTypeOK, ReadIsCurrent, ShownIsRead, None
<1> QED
  BY <1>1, <1>2, OperationsStay DEF GitInv

LEMMA OutsideKeeps == ASSUME GitInv, NEW p \in Roots, ChangedOutside(p) PROVE GitInv'
<1>1. /\ repo' = [repo EXCEPT ![p] = @ + 1] /\ unseen' = (unseen \/ p = gitRoot)
      /\ UNCHANGED <<gitRoot, status, known, refresh, operations, question, after>>
  BY DEF ChangedOutside
<1>2. repo' \in [Roots -> Nat] /\ unseen' \in BOOLEAN
  BY <1>1 DEF GitInv, GitTypeOK
<1>3. ~unseen' /\ gitRoot # NoRoot => ~unseen /\ repo'[gitRoot] = repo[gitRoot]
  BY <1>1 DEF GitInv, GitTypeOK
<1>4. refresh # None => gitRoot \in Roots
  BY DEF GitInv, GitTypeOK, ReadIsCurrent, Reads
<1>5. GitTypeOK'
  BY <1>1, <1>2 DEF GitInv, GitTypeOK, None, Reads, Versions, Unread
<1>6. None' = None /\ Unread' = Unread /\ NoRepo' = NoRepo /\ InRepo' = InRepo
  BY <1>1 DEF None, Unread, NoRepo, InRepo, NoStatus
<1>7. ReadIsCurrent'
  BY <1>1, <1>3, <1>4, <1>6, GitAssumption DEF GitInv, ReadIsCurrent
<1>8. ShownIsRead'
  BY <1>1, <1>3, <1>6 DEF GitInv, ShownIsRead, IsCurrent
<1> QED
  BY <1>1, <1>5, <1>7, <1>8, OperationsStay DEF GitInv

(* Steps of an operation.                                                     *)
LEMMA RunGitKeeps ==
    ASSUME RunsWhereAsked, NEW what, NEW p, RunGit(what, p), what # "push" => p = gitRoot
    PROVE  RunsWhereAsked'
BY DEF RunGit, RunsWhereAsked

LEMMA AskingKeeps ==
    ASSUME GitInv,
           \/ \E what \in {"change", "commit"} : Run(what)
           \/ \E what \in {"ask", "delete"} : AskFirst(what)
           \/ AskToInit \/ SayNo \/ Clone
           \/ \E o \in operations : CloneEnds(o)
    PROVE  GitInv'
<1>1. UNCHANGED <<gitRoot, status, known, refresh, repo, unseen, after>>
  BY DEF Run, AskFirst, AskToInit, SayNo, Clone, CloneEnds
<1>2. GitTypeOK' /\ ReadIsCurrent' /\ ShownIsRead'
  BY <1>1, ReadsStay DEF GitInv
<1>3. QuestionIsHere'
  <2>1. \/ question' = question
        \/ question' = None
        \/ \E what \in {"ask", "delete", "init"} : question' = [what |-> what, project |-> gitRoot]
    BY DEF Run, AskFirst, AskToInit, SayNo, Clone, CloneEnds
  <2> QED
    BY <2>1, <1>1 DEF GitInv, QuestionIsHere, None
<1>4. RunsWhereAsked'
  <2>1. CASE \E what \in {"change", "commit"} : Run(what)
    BY <2>1, RunGitKeeps DEF Run, GitInv
  <2>2. CASE Clone
    BY <2>2 DEF Clone, GitInv, RunsWhereAsked
  <2>3. CASE ~Clone /\ ~\E what \in {"change", "commit"} : Run(what)
    <3>1. operations' \subseteq operations
      BY <2>3 DEF AskFirst, AskToInit, SayNo, CloneEnds
    <3> QED
      BY <3>1 DEF GitInv, RunsWhereAsked
  <2> QED
    BY <2>1, <2>2, <2>3
<1> QED
  BY <1>1, <1>2, <1>3, <1>4 DEF GitInv, GoesOnAsAsked

(* An answer runs what was asked about, which is of the open project.         *)
LEMMA QuestionKeeps == ASSUME GitInv, AnswerGiven PROVE GitInv'
<1>1. UNCHANGED <<gitRoot, status, known, refresh, repo, unseen, after>> /\ question' = None
      /\ question # None
  BY DEF AnswerGiven
<1>2. GitTypeOK' /\ ReadIsCurrent' /\ ShownIsRead'
  BY <1>1, ReadsStay DEF GitInv
<1>3. RunsWhereAsked'
  <2>1. CASE question.what = "init"
    BY <2>1 DEF AnswerGiven, GitInv, RunsWhereAsked
  <2>2. CASE question.what = "force" /\ question.project # gitRoot
    BY <2>2 DEF AnswerGiven, GitInv, RunsWhereAsked
  <2>3. CASE question.what # "init" /\ ~(question.what = "force" /\ question.project # gitRoot)
    <3>1. RunGit(question.what, question.project)
      BY <2>3 DEF AnswerGiven
    <3>2. question.project = gitRoot
      BY <2>3, <1>1 DEF GitInv, QuestionIsHere
    <3> QED
      BY <3>1, <3>2, RunGitKeeps DEF GitInv
  <2> QED
    BY <2>1, <2>2, <2>3
<1> QED
  BY <1>1, <1>2, <1>3 DEF GitInv, QuestionIsHere, GoesOnAsAsked, None

(* An operation that ends has the status read again.                          *)
LEMMA EndingKeeps ==
    ASSUME GitInv, NEW o \in operations, NEW done \in BOOLEAN, OperationEnds(o, done)
    PROVE  GitInv'
<1>1. /\ repo' = IF done THEN [repo EXCEPT ![o.project] = @ + 1] ELSE repo
      /\ Refresh(Follow(o, done) # {}) /\ after' = after \cup Follow(o, done)
      /\ operations' = operations \ {o} /\ UNCHANGED <<gitRoot, question>>
  BY DEF OperationEnds
<1>2. repo' \in [Roots -> Nat]
  <2>1. repo \in [Roots -> Nat]
    BY DEF GitInv, GitTypeOK
  <2>2. CASE o.project \in Roots
    BY <1>1, <2>1, <2>2
  <2>3. CASE o.project \notin Roots
    BY <1>1, <2>1, <2>3
  <2> QED
    BY <2>2, <2>3
<1>3. GitTypeOK' /\ ReadIsCurrent' /\ ShownIsRead'
  BY <1>1, <1>2, RefreshIsCurrent DEF GitInv
<1>4. GoesOnAsAsked'
  BY <1>1 DEF GitInv, GoesOnAsAsked, Follow
<1>5. QuestionIsHere' /\ RunsWhereAsked'
  BY <1>1 DEF GitInv, QuestionIsHere, RunsWhereAsked, None
<1> QED
  BY <1>3, <1>4, <1>5 DEF GitInv

LEMMA GoOnKeeps == ASSUME GitInv, NEW f \in after, GoOn(f) PROVE GitInv'
<1>1. UNCHANGED <<gitRoot, status, known, refresh, repo, unseen>> /\ after' = after \ {f}
  BY DEF GoOn
<1>2. GitTypeOK' /\ ReadIsCurrent' /\ ShownIsRead'
  BY <1>1, ReadsStay DEF GitInv
<1>3. f.what \in {"push", "force"}
  BY DEF GitInv, GoesOnAsAsked
<1>4. CASE f.what = "force"
  <2>1. question' = f /\ operations' = operations
    BY <1>4 DEF GoOn
  <2> QED
    BY <1>1, <1>2, <1>4, <2>1 DEF GitInv, QuestionIsHere, GoesOnAsAsked, RunsWhereAsked
<1>5. CASE f.what = "push"
  <2>1. RunGit(f.what, f.project) /\ question' = question
    BY <1>5 DEF GoOn
  <2>2. RunsWhereAsked'
    BY <1>5, <2>1, RunGitKeeps DEF GitInv
  <2> QED
    BY <1>1, <1>2, <2>1, <2>2 DEF GitInv, QuestionIsHere, GoesOnAsAsked, None
<1> QED
  BY <1>3, <1>4, <1>5

LEMMA GitStepKeeps == ASSUME GitInv, [GitNext]_gitVars PROVE GitInv'
<1>1. CASE \E p \in Roots \cup {NoRoot} : SetGitRoot(p)
  BY <1>1, SwitchKeeps
<1>2. CASE RefreshAgain \/ Poll
  BY <1>2, RereadKeeps
<1>3. CASE HostReadsStatus \/ HostReadsLists
  BY <1>3, HostReadsKeeps
<1>4. CASE RefreshArrives
  BY <1>4, ArrivalKeeps
<1>5. CASE RefreshFails
  BY <1>5, FailureKeeps
<1>6. CASE \E p \in Roots : ChangedOutside(p)
  BY <1>6, OutsideKeeps
<1>7. CASE \/ \E what \in {"change", "commit"} : Run(what)
           \/ \E what \in {"ask", "delete"} : AskFirst(what)
           \/ AskToInit \/ SayNo \/ Clone \/ EndClone
  BY <1>7, AskingKeeps DEF EndClone
<1>8. CASE AnswerGiven
  BY <1>8, QuestionKeeps
<1>9. CASE EndOperation
  BY <1>9, EndingKeeps DEF EndOperation
<1>10. CASE Continue
  BY <1>10, GoOnKeeps DEF Continue
<1>11. CASE ReadLate \/ ArriveLate \/ UNCHANGED gitVars
  <2>1. UNCHANGED <<gitRoot, status, known, refresh, repo, unseen, operations, question, after>>
    BY <1>11 DEF ReadLate, ArriveLate, HostReadsLate, LateArrives, gitVars
  <2> QED
    BY <2>1, ReadsStay, OperationsStay DEF GitInv
<1> QED
  BY <1>1, <1>2, <1>3, <1>4, <1>5, <1>6, <1>7, <1>8, <1>9, <1>10, <1>11 DEF GitNext

(* For any number of projects, versions, overtaken reads and operations that  *)
(* run at once: with nothing under way the status is the open project's, as   *)
(* its repository is, and an operation runs in the project it was asked in    *)
(* (gitStore.ts).                                                             *)
THEOREM RepositoryIsAsShownHolds == GitSpec => []RepositoryIsAsShown
<1>1. GitInit => GitInv
  BY GitInitially
<1>2. GitInv /\ [GitNext]_gitVars => GitInv'
  BY GitStepKeeps
<1>3. GitInv => RepositoryIsAsShown
  BY DEF GitInv, ShownIsRead, IsCurrent, RepositoryIsAsShown, ShownIsCurrent
<1> QED
  BY <1>1, <1>2, <1>3, PTL DEF GitSpec

------------------------------------------------------------------------------
(* Find in Files: its results and its form (FindInFiles).                     *)

Summaries == {"none", "whole", "cancelled", "error"}
Searches == [at : {"sent", "searching", "ended", "done"}, channel : Seq(Files),
             found : SUBSET Files, summary : Summaries]
Lists == [caption : Nat, files : Seq(Nat \X Files), running : BOOLEAN, summary : Summaries,
          replaced : SUBSET Files, failed : BOOLEAN]

FindTypeOK == searches \in Seq(Searches) /\ current \in Nat /\ results \in Lists

(* What a search has sent and the store has not taken yet is found, and each  *)
(* file was sent once.                                                        *)
SentOnce(s) == /\ \A i \in DOMAIN s.channel : s.channel[i] \in s.found
               /\ \A i, j \in DOMAIN s.channel : s.channel[i] = s.channel[j] => i = j
ChannelsAreFound == \A id \in DOMAIN searches : SentOnce(searches[id])

(* A file that is listed was found by the current search and is not in its    *)
(* channel any more: this is what keeps it from being listed again.           *)
Taken(s, file) == file \in s.found /\ \A j \in DOMAIN s.channel : s.channel[j] # file
ListedIsTaken ==
    \A i \in DOMAIN results.files :
        /\ results.files[i][1] = current /\ current \in DOMAIN searches
        /\ Taken(searches[current], results.files[i][2])
ListedOnce == \A i, j \in DOMAIN results.files : results.files[i] = results.files[j] => i = j

(* While a Replace All's outcome is listed no search is the current one.      *)
ReplacedAlone == results.replaced # {} => current = 0 /\ results.files = <<>>

ResultsInv == /\ FindTypeOK /\ ChannelsAreFound /\ ListedIsTaken /\ ListedOnce /\ ReplacedAlone

LEMMA EmptyList ==
    /\ EMPTY \in Lists /\ EMPTY.files = <<>> /\ EMPTY.replaced = {}
    /\ \A n \in Nat : LET r == [EMPTY EXCEPT !.caption = n, !.running = TRUE]
                      IN  r \in Lists /\ r.files = <<>> /\ r.replaced = {}
    /\ \A n \in Nat, fs \in SUBSET Files :
          LET r == [EMPTY EXCEPT !.caption = n, !.replaced = fs]
          IN  r \in Lists /\ r.files = <<>> /\ r.replaced = fs
<1>1. <<>> \in Seq(Nat \X Files) /\ {} \in SUBSET Files /\ 0 \in Nat /\ "none" \in Summaries
  BY DEF Summaries
<1>2. /\ EMPTY \in Lists /\ EMPTY.files = <<>> /\ EMPTY.replaced = {}
      /\ EMPTY = [caption |-> 0, files |-> <<>>, running |-> FALSE, summary |-> "none",
                  replaced |-> {}, failed |-> FALSE]
  BY <1>1 DEF EMPTY, Lists
<1>3. ASSUME NEW n \in Nat
      PROVE  LET r == [EMPTY EXCEPT !.caption = n, !.running = TRUE]
             IN  r \in Lists /\ r.files = <<>> /\ r.replaced = {}
  BY <1>1, <1>2 DEF Lists
<1>4. ASSUME NEW n \in Nat, NEW fs \in SUBSET Files
      PROVE  LET r == [EMPTY EXCEPT !.caption = n, !.replaced = fs]
             IN  r \in Lists /\ r.files = <<>> /\ r.replaced = fs
  BY <1>1, <1>2 DEF Lists
<1> QED
  BY <1>2, <1>3, <1>4

LEMMA ResultsInitially == ASSUME ResultsInit PROVE ResultsInv
<1>1. searches = <<>> /\ current = 0 /\ results \in Lists /\ results.files = <<>> /\ results.replaced = {}
  BY EmptyList DEF ResultsInit
<1>2. searches \in Seq(Searches) /\ DOMAIN searches = {} /\ DOMAIN results.files = {}
  BY <1>1
<1> QED
  BY <1>1, <1>2 DEF ResultsInv, FindTypeOK, ChannelsAreFound, ListedIsTaken, ListedOnce, ReplacedAlone

LEMMA SearchIsTyped ==
    ASSUME ResultsInv, NEW id \in DOMAIN searches
    PROVE  /\ searches \in Seq(Searches) /\ searches[id] \in Searches /\ SentOnce(searches[id])
           /\ id \in Nat /\ id > 0 /\ results \in Lists
           /\ searches[id].channel \in Seq(Files) /\ searches[id].found \in SUBSET Files
           /\ searches[id].summary \in Summaries
<1>1. searches \in Seq(Searches) /\ results \in Lists
  BY DEF ResultsInv, FindTypeOK
<1>2. searches[id] \in Searches /\ id \in Nat /\ id > 0
  BY <1>1
<1>3. SentOnce(searches[id])
  BY DEF ResultsInv, ChannelsAreFound
<1> QED
  BY <1>1, <1>2, <1>3 DEF Searches

(* The fields of a search that is changed.                                    *)
LEMMA SearchFields ==
    ASSUME NEW s \in Searches
    PROVE  /\ \A at \in {"sent", "searching", "ended", "done"}, summary \in Summaries :
                  LET t == [s EXCEPT !.at = at, !.summary = summary]
                  IN  t \in Searches /\ t.channel = s.channel /\ t.found = s.found
           /\ \A at \in {"sent", "searching", "ended", "done"} :
                  LET t == [s EXCEPT !.at = at]
                  IN  t \in Searches /\ t.channel = s.channel /\ t.found = s.found
           /\ \A channel \in Seq(Files) :
                  LET t == [s EXCEPT !.channel = channel]
                  IN  t \in Searches /\ t.channel = channel /\ t.found = s.found
           /\ \A found \in SUBSET Files :
                  LET t == [s EXCEPT !.found = found]
                  IN  t \in Searches /\ t.channel = s.channel /\ t.found = found
BY DEF Searches

(* The list stays when no search's finds or channel change.                   *)
LEMMA ListStays ==
    ASSUME ResultsInv, searches' = searches, current' = current, results' \in Lists,
           results'.files = results.files, results'.replaced = results.replaced
    PROVE  ResultsInv'
BY DEF ResultsInv, FindTypeOK, ChannelsAreFound, ListedIsTaken, ListedOnce, ReplacedAlone, SentOnce, Taken

LEMMA RunFindKeeps == ASSUME ResultsInv, RunFind PROVE ResultsInv'
<1> DEFINE new == [at |-> "sent", channel |-> <<>>, found |-> {}, summary |-> "none"]
<1>1. searches' = Append(searches, new) /\ current' = Len(searches')
      /\ results' = [EMPTY EXCEPT !.caption = Len(searches'), !.running = TRUE]
  BY DEF RunFind, Shows
<1>2. new \in Searches /\ searches \in Seq(Searches)
  BY DEF Searches, Summaries, ResultsInv, FindTypeOK
<1>0. Len(searches) \in Nat /\ DOMAIN searches = 1..Len(searches)
  BY <1>2
<1> HIDE DEF new
<1>3. /\ searches' \in Seq(Searches) /\ Len(searches') \in Nat
      /\ \A id \in DOMAIN searches' : searches'[id] = new \/ (id \in DOMAIN searches /\ searches'[id] = searches[id])
  <2>1. searches' \in Seq(Searches) /\ Len(searches') = Len(searches) + 1
    BY <1>1, <1>2
  <2>2. DOMAIN searches' = 1..(Len(searches) + 1)
    BY <2>1, <1>0
  <2>3. \A id \in 1..Len(searches) : searches'[id] = searches[id]
    BY <1>1, <1>2
  <2>4. searches'[Len(searches) + 1] = new
    BY <1>1, <1>2
  <2>5. ASSUME NEW id \in DOMAIN searches'
        PROVE  searches'[id] = new \/ (id \in DOMAIN searches /\ searches'[id] = searches[id])
    <3>1. id \in 1..Len(searches) \/ id = Len(searches) + 1
      BY <2>2, <1>0
    <3>2. CASE id \in 1..Len(searches)
      BY <3>2, <1>0, <2>3
    <3>3. CASE id = Len(searches) + 1
      <4>1. searches'[id] = new
        BY <3>3, <2>4
      <4> QED
        BY <4>1
    <3> QED
      BY <3>1, <3>2, <3>3
  <2>6. Len(searches') \in Nat
    BY <2>1, <1>0
  <2> QED
    BY <2>1, <2>5, <2>6
<1>4. results' \in Lists /\ results'.files = <<>> /\ results'.replaced = {}
  BY <1>1, <1>3, EmptyList
<1>5. SentOnce(new)
  BY DEF SentOnce, new
<1> QED
  BY <1>1, <1>3, <1>4, <1>5 DEF ResultsInv, FindTypeOK, ChannelsAreFound, ListedIsTaken, ListedOnce,
                                ReplacedAlone

(* One search goes on.                                                        *)
LEMMA SearchGoesOn ==
    ASSUME ResultsInv, NEW id \in DOMAIN searches, NEW s \in Searches,
           searches' = [searches EXCEPT ![id] = s], SentOnce(s), current' = current,
           results' \in Lists, results'.replaced = results.replaced, results'.files = results.files,
           \A file \in Files : Taken(searches[id], file) => Taken(s, file)
    PROVE  ResultsInv'
<1>1. searches \in Seq(Searches) /\ results \in Lists
  BY DEF ResultsInv, FindTypeOK
<1>2. /\ searches' \in Seq(Searches) /\ DOMAIN searches' = DOMAIN searches /\ searches'[id] = s
      /\ \A k \in DOMAIN searches : k # id => searches'[k] = searches[k]
  BY <1>1
<1>3. ChannelsAreFound'
  BY <1>2 DEF ResultsInv, ChannelsAreFound
<1>4. ListedIsTaken'
  <2> SUFFICES ASSUME NEW i \in DOMAIN results.files
               PROVE  /\ results.files[i][1] = current /\ current \in DOMAIN searches
                      /\ Taken(searches'[current], results.files[i][2])
    BY <1>2 DEF ListedIsTaken, Taken
  <2>1. results.files[i][1] = current /\ current \in DOMAIN searches
        /\ Taken(searches[current], results.files[i][2]) /\ results.files[i][2] \in Files
    BY <1>1 DEF ResultsInv, ListedIsTaken, Lists
  <2> QED
    BY <2>1, <1>2
<1> QED
  BY <1>2, <1>3, <1>4 DEF ResultsInv, FindTypeOK, ListedOnce, ReplacedAlone

LEMMA HostKeeps ==
    ASSUME ResultsInv, NEW id \in Ids, HostSteps(id)
    PROVE  ResultsInv'
<1>1. id \in DOMAIN searches /\ current' = current /\ results' = results
  BY DEF HostSteps, HostBegins, HostRefuses, HostEnds, HostFinds
<1>2. CASE HostBegins(id) \/ HostRefuses(id) \/ HostEnds(id)
  <2>1. PICK s \in Searches : /\ searches' = [searches EXCEPT ![id] = s]
                              /\ s.channel = searches[id].channel /\ s.found = searches[id].found
    <3>1. CASE HostBegins(id)
      <4>1. searches' = [searches EXCEPT ![id] = [searches[id] EXCEPT !.at = "searching"]]
        BY <3>1 DEF HostBegins
      <4> QED
        BY <4>1, <1>1, SearchIsTyped, SearchFields
    <3>2. CASE HostRefuses(id) \/ HostEnds(id)
      <4>1. PICK summary \in Summaries :
               searches' = [searches EXCEPT ![id] = [searches[id] EXCEPT !.at = "ended", !.summary = summary]]
        BY <3>2 DEF HostRefuses, HostEnds, Summaries
      <4> DEFINE s == [searches[id] EXCEPT !.at = "ended", !.summary = summary]
      <4>2. s \in Searches /\ s.channel = searches[id].channel /\ s.found = searches[id].found
        BY <1>1, SearchIsTyped, SearchFields
      <4> QED
        BY <4>1, <4>2
    <3> QED
      BY <1>2, <3>1, <3>2
  <2>2. SentOnce(s) /\ \A file \in Files : Taken(searches[id], file) => Taken(s, file)
    BY <1>1, <2>1, SearchIsTyped DEF SentOnce, Taken
  <2> QED
    BY <1>1, <2>1, <2>2, SearchIsTyped, SearchGoesOn
<1>3. ASSUME NEW f \in Files, HostFinds(id, f) PROVE ResultsInv'
  <2> DEFINE s == [searches[id] EXCEPT !.found = searches[id].found \union {f},
                                       !.channel = Append(searches[id].channel, f)]
  <2>1. searches' = [searches EXCEPT ![id] = s] /\ f \notin searches[id].found
    BY <1>3 DEF HostFinds
  <2>2. s \in Searches /\ s.channel = Append(searches[id].channel, f) /\ s.found = searches[id].found \union {f}
    <3> DEFINE channel == Append(searches[id].channel, f)
               found == searches[id].found \union {f}
    <3>1. channel \in Seq(Files) /\ found \in SUBSET Files
      BY <1>1, SearchIsTyped
    <3>2. searches[id] \in Searches
      BY <1>1, SearchIsTyped
    <3> HIDE DEF s, channel, found
    <3> DEFINE t == [searches[id] EXCEPT !.found = found]
    <3>3. t \in Searches /\ t.channel = searches[id].channel /\ t.found = found
      BY <3>1, <3>2, SearchFields
    <3>4. s = [t EXCEPT !.channel = channel]
      BY DEF s, channel, found
    <3> HIDE DEF t
    <3>5. s \in Searches /\ s.channel = channel /\ s.found = found
      BY <3>1, <3>3, <3>4, SearchFields
    <3> QED
      BY <3>5 DEF channel, found
  <2> HIDE DEF s
  <2>3. SentOnce(s)
    <3> DEFINE old == searches[id].channel
    <3>1. /\ old \in Seq(Files) /\ SentOnce(searches[id])
      BY <1>1, SearchIsTyped
    <3>2. /\ DOMAIN s.channel = DOMAIN old \union {Len(old) + 1} /\ s.channel[Len(old) + 1] = f
          /\ \A i \in DOMAIN old : s.channel[i] = old[i] /\ old[i] # f
      BY <3>1, <2>1, <2>2 DEF SentOnce
    <3>3. \A i \in DOMAIN s.channel : s.channel[i] \in s.found
      BY <3>1, <3>2, <2>2 DEF SentOnce
    <3>4. \A i, j \in DOMAIN s.channel : s.channel[i] = s.channel[j] => i = j
      BY <3>1, <3>2 DEF SentOnce
    <3> QED
      BY <3>3, <3>4 DEF SentOnce
  <2>4. \A file \in Files : Taken(searches[id], file) => Taken(s, file)
    BY <1>1, <2>1, <2>2, SearchIsTyped DEF Taken
  <2> QED
    BY <1>1, <2>1, <2>2, <2>3, <2>4, SearchIsTyped, SearchGoesOn
<1> QED
  BY <1>2, <1>3 DEF HostSteps

(* What the current search sent joins the list; anything else is let go.      *)
LEMMA BatchKeeps ==
    ASSUME ResultsInv, NEW id \in DOMAIN searches, OnBatch(id)
    PROVE  ResultsInv'
<1> DEFINE s == [searches[id] EXCEPT !.channel = Tail(searches[id].channel)]
           file == Head(searches[id].channel)
<1>1. /\ searches \in Seq(Searches) /\ searches[id] \in Searches /\ results \in Lists
      /\ searches[id].channel \in Seq(Files) /\ SentOnce(searches[id]) /\ id \in Nat /\ id > 0
      /\ searches[id].channel # <<>> /\ searches' = [searches EXCEPT ![id] = s] /\ current' = current
  BY SearchIsTyped DEF OnBatch
<1>2. s \in Searches /\ s.channel = Tail(searches[id].channel) /\ s.found = searches[id].found
      /\ file \in Files /\ file = searches[id].channel[1]
  <2>1. Tail(searches[id].channel) \in Seq(Files) /\ file \in Files /\ file = searches[id].channel[1]
    BY <1>1
  <2> DEFINE rest == Tail(searches[id].channel)
  <2>2. s = [searches[id] EXCEPT !.channel = rest] /\ rest \in Seq(Files)
    BY <2>1
  <2>4. searches[id] \in Searches
    BY <1>1
  <2> HIDE DEF s, rest, file
  <2>3. s \in Searches /\ s.channel = rest /\ s.found = searches[id].found
    BY <2>2, <2>4, SearchFields
  <2> QED
    BY <2>1, <2>3 DEF rest
<1> HIDE DEF s, file
<1>3. /\ \A i \in DOMAIN s.channel : i + 1 \in DOMAIN searches[id].channel
                                     /\ s.channel[i] = searches[id].channel[i + 1]
      /\ 1 \in DOMAIN searches[id].channel /\ DOMAIN s.channel \subseteq Nat \ {0}
  BY <1>1, <1>2
<1>4. SentOnce(s)
  <2>1. ASSUME NEW i \in DOMAIN s.channel PROVE s.channel[i] \in s.found
    BY <2>1, <1>1, <1>2, <1>3 DEF SentOnce
  <2>2. ASSUME NEW i \in DOMAIN s.channel, NEW j \in DOMAIN s.channel, s.channel[i] = s.channel[j]
        PROVE  i = j
    <3>1. i + 1 = j + 1
      BY <2>2, <1>1, <1>3 DEF SentOnce
    <3> QED
      BY <3>1, <1>3
  <2> QED
    BY <2>1, <2>2 DEF SentOnce
<1>5. Taken(s, file)
  BY <1>1, <1>2, <1>3 DEF SentOnce, Taken
<1>6. \A f \in Files : Taken(searches[id], f) => Taken(s, f)
  BY <1>2, <1>3 DEF Taken
<1>7. CASE current # id
  <2>1. results' = results
    BY <1>7 DEF OnBatch
  <2> QED
    BY <1>1, <1>2, <1>4, <1>6, <2>1, SearchGoesOn
<1>8. CASE current = id
  <2>1. results' = [results EXCEPT !.files = Append(@, <<id, file>>)]
    BY <1>8 DEF OnBatch, Shows, file
  <2>2. results' \in Lists /\ results'.files = Append(results.files, <<id, file>>)
        /\ results'.replaced = results.replaced /\ results.files \in Seq(Nat \X Files)
    <3>1. results.files \in Seq(Nat \X Files) /\ <<id, file>> \in Nat \X Files
      BY <1>1, <1>2 DEF Lists
    <3>2. Append(results.files, <<id, file>>) \in Seq(Nat \X Files)
      BY <3>1
    <3> QED
      BY <1>1, <2>1, <3>1, <3>2 DEF Lists
  <2>3. results.replaced = {}
    BY <1>1, <1>8 DEF ResultsInv, ReplacedAlone
  <2>4. /\ searches' \in Seq(Searches) /\ DOMAIN searches' = DOMAIN searches /\ searches'[id] = s
        /\ \A k \in DOMAIN searches : k # id => searches'[k] = searches[k]
    BY <1>1, <1>2
  <2>5. /\ \A i \in DOMAIN results'.files :
              \/ i \in DOMAIN results.files /\ results'.files[i] = results.files[i]
              \/ i = Len(results.files) + 1 /\ results'.files[i] = <<id, file>>
        /\ DOMAIN results.files = 1..Len(results.files) /\ Len(results.files) \in Nat
    <3>1. DOMAIN results.files = 1..Len(results.files) /\ Len(results.files) \in Nat
      BY <2>2
    <3>2. DOMAIN results'.files = 1..(Len(results.files) + 1)
      BY <2>2
    <3>3. \A i \in 1..Len(results.files) : results'.files[i] = results.files[i]
      BY <2>2
    <3>4. results'.files[Len(results.files) + 1] = <<id, file>>
      BY <2>2
    <3>5. \A i \in 1..(Len(results.files) + 1) : i \in 1..Len(results.files) \/ i = Len(results.files) + 1
      BY <3>1
    <3>6. ASSUME NEW i \in DOMAIN results'.files
          PROVE  \/ i \in DOMAIN results.files /\ results'.files[i] = results.files[i]
                 \/ i = Len(results.files) + 1 /\ results'.files[i] = <<id, file>>
      <4>1. CASE i \in 1..Len(results.files)
        BY <4>1, <3>1, <3>3
      <4>2. CASE i = Len(results.files) + 1
        BY <4>2, <3>4
      <4> QED
        BY <4>1, <4>2, <3>2, <3>5
    <3>7. \A i \in DOMAIN results'.files :
              \/ i \in DOMAIN results.files /\ results'.files[i] = results.files[i]
              \/ i = Len(results.files) + 1 /\ results'.files[i] = <<id, file>>
      BY <3>6
    <3> QED
      BY <3>1, <3>7
  <2>6. \A i \in DOMAIN results.files :
            /\ results.files[i][1] = current /\ Taken(searches[id], results.files[i][2])
            /\ results.files[i][2] \in Files /\ results.files[i][2] # file
    BY <1>1, <1>2, <1>3, <1>8, <2>2 DEF ResultsInv, ListedIsTaken, Taken
  <2>7. FindTypeOK' /\ ChannelsAreFound'
    BY <1>1, <1>4, <2>2, <2>4 DEF ResultsInv, FindTypeOK, ChannelsAreFound
  <2>8. ListedIsTaken'
    <3> SUFFICES ASSUME NEW i \in DOMAIN results'.files
                 PROVE  /\ results'.files[i][1] = current /\ Taken(s, results'.files[i][2])
      BY <1>1, <1>8, <2>4 DEF ListedIsTaken, Taken
    <3>1. CASE i \in DOMAIN results.files /\ results'.files[i] = results.files[i]
      BY <3>1, <1>6, <2>6
    <3>2. CASE results'.files[i] = <<id, file>>
      BY <3>2, <1>5, <1>8
    <3> QED
      BY <3>1, <3>2, <2>5
  <2>9. ListedOnce'
    <3> SUFFICES ASSUME NEW i \in DOMAIN results'.files, NEW j \in DOMAIN results'.files,
                        results'.files[i] = results'.files[j]
                 PROVE  i = j
      BY DEF ListedOnce
    <3>1. CASE i \in DOMAIN results.files /\ j \in DOMAIN results.files
      BY <3>1, <2>5 DEF ResultsInv, ListedOnce
    <3>2. ASSUME NEW k \in DOMAIN results.files PROVE results.files[k] # <<id, file>>
      BY <2>6
    <3> QED
      BY <3>1, <3>2, <2>5
  <2>10. ReplacedAlone'
    BY <2>2, <2>3 DEF ReplacedAlone
  <2> QED
    BY <2>7, <2>8, <2>9, <2>10 DEF ResultsInv
<1> QED
  BY <1>7, <1>8

LEMMA ResolvedKeeps ==
    ASSUME ResultsInv, NEW id \in DOMAIN searches, Resolved(id)
    PROVE  ResultsInv'
<1> DEFINE s == [searches[id] EXCEPT !.at = "done"]
<1>1. searches \in Seq(Searches) /\ searches[id] \in Searches /\ results \in Lists
      /\ SentOnce(searches[id]) /\ searches' = [searches EXCEPT ![id] = s] /\ current' = current
  BY SearchIsTyped DEF Resolved
<1>2. s \in Searches /\ s.channel = searches[id].channel /\ s.found = searches[id].found
      /\ searches[id].summary \in Summaries
  BY <1>1, SearchIsTyped, SearchFields
<1>3. SentOnce(s) /\ \A f \in Files : Taken(searches[id], f) => Taken(s, f)
  BY <1>1, <1>2 DEF SentOnce, Taken
<1>4. results' \in Lists /\ results'.files = results.files /\ results'.replaced = results.replaced
  <2>1. CASE current # id
    BY <1>1, <2>1 DEF Resolved
  <2>2. CASE current = id
    <3>1. PICK failed \in BOOLEAN, summary \in Summaries :
             results' = [results EXCEPT !.running = FALSE, !.failed = failed, !.summary = summary]
      <4>1. results.summary \in Summaries
        BY <1>1 DEF Lists
      <4>2. results' = [results EXCEPT !.running = FALSE, !.failed = (searches[id].summary = "error"),
                          !.summary = IF searches[id].summary = "error" THEN results.summary
                                      ELSE searches[id].summary]
        BY <2>2 DEF Resolved, Shows
      <4> QED
        BY <4>1, <4>2, <1>2
    <3> QED
      BY <3>1, <1>1 DEF Lists
  <2> QED
    BY <2>1, <2>2
<1> HIDE DEF s
<1> QED
  BY <1>1, <1>2, <1>3, <1>4, SearchGoesOn

LEMMA ListIsReplaced ==
    ASSUME ResultsInv, ClearFindResults \/ \E files \in SUBSET Files : ShowReplaceResults(files)
    PROVE  ResultsInv'
<1>1. searches' = searches
  BY DEF ClearFindResults, ShowReplaceResults
<1>2. CASE ClearFindResults
  <2>1. results' = EMPTY /\ current' = current
    BY <1>2 DEF ClearFindResults, Shows
  <2>2. results' \in Lists /\ results'.replaced = {} /\ results'.files = <<>>
    BY <2>1, EmptyList
  <2>3. DOMAIN results'.files = {}
    BY <2>2
  <2> QED
    BY <1>1, <2>1, <2>2, <2>3 DEF ResultsInv, FindTypeOK, ChannelsAreFound, ListedIsTaken, ListedOnce,
                                 ReplacedAlone, SentOnce
<1>3. CASE \E files \in SUBSET Files : ShowReplaceResults(files)
  <2>1. PICK files \in SUBSET Files : ShowReplaceResults(files)
    BY <1>3
  <2>2. results' = [EMPTY EXCEPT !.caption = MaxSearches + 1, !.replaced = files] /\ current' = 0
    BY <2>1 DEF ShowReplaceResults, Shows
  <2>3. results' \in Lists /\ results'.files = <<>>
    <3>1. MaxSearches + 1 \in Nat
      BY FindAssumption
    <3> QED
      BY <2>2, <3>1, EmptyList
  <2>4. DOMAIN results'.files = {}
    BY <2>3
  <2> QED
    BY <1>1, <2>2, <2>3, <2>4 DEF ResultsInv, FindTypeOK, ChannelsAreFound, ListedIsTaken, ListedOnce,
                                  ReplacedAlone, SentOnce
<1> QED
  BY <1>2, <1>3

LEMMA ResultsStepKeeps == ASSUME ResultsInv, ResultsNext PROVE ResultsInv'
<1>1. CASE RunFind
  BY <1>1, RunFindKeeps
<1>2. CASE \E id \in Ids : HostSteps(id)
  BY <1>2, HostKeeps
<1>3. CASE \E id \in Ids : StoreSteps(id)
  BY <1>3, BatchKeeps, ResolvedKeeps DEF StoreSteps
<1>4. CASE ClearFindResults \/ \E files \in SUBSET Files : ShowReplaceResults(files)
  BY <1>4, ListIsReplaced
<1>5. CASE CancelFind \/ HostCancels \/ ListSteps
  <2>1. UNCHANGED <<searches, current, results>>
    BY <1>5 DEF CancelFind, HostCancels, ListSteps, Select, KeyDown, ArrowLeft, ArrowRight, ClickTwisty,
                ListStep
  <2> QED
    BY <2>1, ListStays DEF ResultsInv, FindTypeOK
<1> QED
  BY <1>1, <1>2, <1>3, <1>4, <1>5 DEF ResultsNext

(* The window that is mounted, and the one that will be, hold what was        *)
(* entered last, and no draft is ahead of the request it answered.            *)
Entries == Patterns \cup {""}
Drafts == [pattern : Entries, mode : Modes, seq : Nat]
OpenRequests == [mode : Modes, seq : Nat]
NotAhead == drafts.seq <= request.seq
FormInv == /\ request \in OpenRequests /\ drafts \in Drafts
           /\ drafts.pattern = entered /\ NotAhead /\ (mounted => pattern = entered)

LEMMA BothZero == ASSUME NEW a, NEW b, a = 0, b = 0 PROVE a <= b
OBVIOUS
LEMMA SameNumber == ASSUME NEW a \in Nat, NEW b, a = b PROVE b <= a
OBVIOUS
LEMMA OneMore == ASSUME NEW a \in Nat, NEW b \in Nat, NEW c, a <= b, c = b + 1 PROVE a <= c /\ c \in Nat
OBVIOUS

(* The fields of a draft that is changed.                                     *)
LEMMA DraftFields ==
    ASSUME NEW d \in Drafts
    PROVE  d.seq \in Nat /\ d.pattern \in Entries /\ d.mode \in Modes
BY DEF Drafts
LEMMA DraftSeeded ==
    ASSUME NEW s \in Entries, NEW m \in Modes, NEW n \in Nat, NEW e,
           e = [pattern |-> s, mode |-> m, seq |-> n]
    PROVE  e \in Drafts /\ e.pattern = s /\ e.seq = n
BY DEF Drafts
LEMMA DraftAnswers ==
    ASSUME NEW d \in Drafts, NEW m \in Modes, NEW n \in Nat, NEW e,
           e = [d EXCEPT !.seq = n, !.mode = m]
    PROVE  e \in Drafts /\ e.pattern = d.pattern /\ e.seq = n
BY DEF Drafts
LEMMA DraftIsOf ==
    ASSUME NEW d \in Drafts, NEW m \in Modes, NEW e, e = [d EXCEPT !.mode = m]
    PROVE  e \in Drafts /\ e.pattern = d.pattern /\ e.seq = d.seq
BY DEF Drafts
LEMMA DraftTyped ==
    ASSUME NEW d \in Drafts, NEW s \in Entries, NEW e, e = [d EXCEPT !.pattern = s]
    PROVE  e \in Drafts /\ e.pattern = s /\ e.seq = d.seq
BY DEF Drafts

LEMMA FormInitially == ASSUME FormInit PROVE FormInv
<1>1. request = [mode |-> "find", seq |-> 0] /\ drafts = [pattern |-> "", mode |-> "find", seq |-> 0]
      /\ mounted = FALSE /\ entered = ""
  BY DEF FormInit
<1>2. request \in OpenRequests
  BY <1>1 DEF Modes, OpenRequests
<1>3. drafts \in Drafts /\ drafts.pattern = "" /\ drafts.seq = 0
  <2>1. "" \in Entries /\ "find" \in Modes /\ 0 \in Nat
    BY DEF Entries, Modes
  <2> QED
    BY <1>1, <2>1 DEF Drafts
<1>4. request.seq = 0
  BY <1>1
<1>5. NotAhead
  BY <1>3, <1>4, BothZero DEF NotAhead
<1> QED
  BY <1>1, <1>2, <1>3, <1>5 DEF FormInv

LEMMA RequestKeeps ==
    ASSUME FormInv, NEW m \in Modes, OpenFindInFiles(m)
    PROVE  FormInv'
<1>1. request' = [mode |-> m, seq |-> request.seq + 1]
  BY DEF OpenFindInFiles
<1>2. request.seq \in Nat
  BY DEF FormInv, OpenRequests
<1>3. drafts.seq \in Nat
  BY DraftFields DEF FormInv
<1>4. request'.seq = request.seq + 1
  BY <1>1
<1>5. drafts.seq <= request'.seq /\ request'.seq \in Nat
  BY <1>2, <1>3, <1>4, OneMore DEF FormInv, NotAhead
<1>6. request' \in OpenRequests
  BY <1>1, <1>2 DEF OpenRequests
<1>7. drafts' = drafts /\ mounted' = mounted /\ pattern' = pattern /\ entered' = entered
  BY DEF OpenFindInFiles
<1> QED
  BY <1>5, <1>6, <1>7 DEF FormInv, NotAhead

LEMMA SetModeKeeps ==
    ASSUME FormInv, NEW m \in Modes, SetMode(m)
    PROVE  FormInv'
<1>1. drafts' = [drafts EXCEPT !.mode = m]
  BY DEF SetMode
<1>2. drafts' \in Drafts /\ drafts'.pattern = drafts.pattern /\ drafts'.seq = drafts.seq
  BY <1>1, DraftIsOf DEF FormInv
<1>3. request' = request /\ mounted' = mounted /\ pattern' = pattern /\ entered' = entered
  BY DEF SetMode
<1> QED
  BY <1>2, <1>3 DEF FormInv, NotAhead

LEMMA SeedKeeps ==
    ASSUME FormInv, NEW s \in Entries, SeedOnRequest(s)
    PROVE  FormInv'
<1>1. request' = request /\ mounted' = mounted
  BY DEF SeedOnRequest
<1>2. request.seq \in Nat /\ request.mode \in Modes
  BY DEF FormInv, OpenRequests
<1>3. CASE s = ""
  <2>1. drafts' = [drafts EXCEPT !.seq = request.seq, !.mode = request.mode]
        /\ pattern' = pattern /\ entered' = entered
    BY <1>3 DEF SeedOnRequest
  <2>2. drafts' \in Drafts /\ drafts'.pattern = drafts.pattern /\ drafts'.seq = request.seq
    <3>1. drafts \in Drafts
      BY DEF FormInv
    <3>2. drafts' = [drafts EXCEPT !.seq = request.seq, !.mode = request.mode]
      BY <2>1
    <3> QED
      BY <1>2, <3>1, <3>2 DEF Drafts
  <2>3. NotAhead'
    BY <1>1, <1>2, <2>2, SameNumber DEF NotAhead
  <2> QED
    BY <1>1, <2>1, <2>2, <2>3 DEF FormInv
<1>4. CASE s # ""
  <2>1. drafts' = [pattern |-> s, mode |-> request.mode, seq |-> request.seq]
        /\ pattern' = s /\ entered' = s
    BY <1>4 DEF SeedOnRequest
  <2>2. drafts' \in Drafts /\ drafts'.pattern = s /\ drafts'.seq = request.seq
    BY <1>2, <2>1, DraftSeeded
  <2>3. NotAhead'
    BY <1>1, <1>2, <2>2, SameNumber DEF NotAhead
  <2> QED
    BY <1>1, <2>1, <2>2, <2>3 DEF FormInv
<1> QED
  BY <1>3, <1>4

LEMMA TypingKeeps ==
    ASSUME FormInv, NEW s \in Patterns, TypePattern(s)
    PROVE  FormInv'
<1>1. drafts' = [drafts EXCEPT !.pattern = s] /\ pattern' = s /\ entered' = s
      /\ request' = request /\ mounted' = mounted
  BY DEF TypePattern, SetPattern
<1>2. s \in Entries
  BY DEF Entries
<1>3. drafts' \in Drafts /\ drafts'.pattern = s /\ drafts'.seq = drafts.seq
  BY <1>1, <1>2, DraftTyped DEF FormInv
<1> QED
  BY <1>1, <1>3 DEF FormInv, NotAhead

LEMMA FormStepKeeps == ASSUME FormInv, FormNext PROVE FormInv'
<1>1. CASE \/ ReplaceAllAsked \/ ConfirmReplace \/ DeclineReplace \/ Replaced \/ ReplaceFails
           \/ \E l \in {"current", "open", "project"} : SetLookIn(l)
           \/ \E p \in Paths : TypeIn(p) \/ CloseTab(p) \/ OpenTab(p)
  <2>1. WindowStays
    BY <1>1 DEF ReplaceAllAsked, ConfirmReplace, DeclineReplace, Replaced, ReplaceFails, SetLookIn, TypeIn,
                CloseTab, OpenTab
  <2> QED
    BY <2>1 DEF WindowStays, FormInv, NotAhead
<1>2. CASE Unmount \/ EscapeKey \/ \E floats \in BOOLEAN : Mount(floats)
  <2>1. request' = request /\ drafts' = drafts /\ entered' = entered
        /\ (mounted' => pattern' = drafts.pattern)
    BY <1>2 DEF Unmount, EscapeKey, Mount
  <2> QED
    BY <2>1 DEF FormInv, NotAhead
<1> QED
  BY <1>1, <1>2, RequestKeeps, SetModeKeeps, SeedKeeps, TypingKeeps DEF FormNext, Entries

(* For any number of searches, files and requests: the list holds what the    *)
(* newest search has found, each file once, whatever older searches still     *)
(* send, and the form's field what was entered last (findStore.ts,            *)
(* useFindForm.ts).                                                           *)
THEOREM ResultsAreTheNewestHolds == FindSpec => []ResultsAreTheNewest
<1> DEFINE FindInv == ResultsInv /\ FormInv
<1>1. FindInit => FindInv
  BY ResultsInitially, FormInitially DEF FindInit
<1>2. FindInv /\ [FindNext]_<<findResultVars, findFormVars>> => FindInv'
  <2> SUFFICES ASSUME FindInv, [FindNext]_<<findResultVars, findFormVars>> PROVE FindInv'
    OBVIOUS
  <2>1. ASSUME UNCHANGED findResultVars PROVE ResultsInv'
    <3>1. UNCHANGED <<searches, current, results>>
      BY <2>1 DEF findResultVars
    <3> QED
      BY <3>1, ListStays DEF ResultsInv, FindTypeOK
  <2>2. ASSUME UNCHANGED findFormVars PROVE FormInv'
    BY <2>2 DEF findFormVars, FormInv, NotAhead
  <2> QED
    BY <2>1, <2>2, ResultsStepKeeps, FormStepKeeps DEF FindNext
<1>3. FindInv => ResultsAreTheNewest
  BY DEF ResultsInv, FormInv, ListedIsTaken, ListedOnce, ReplacedAlone, Taken, ResultsAreTheNewest,
         ListsTheNewest, FieldIsKept, NotAhead
<1> QED
  BY <1>1, <1>2, <1>3, PTL DEF FindSpec
------------------------------------------------------------------------------
(* The design surface (DesignSurface).                                        *)

(* A nonempty set of numbers has a least one.                                 *)
LEMMA Smallest ==
    ASSUME NEW S \in SUBSET Nat, S # {}
    PROVE  \E n \in S : \A m \in S : n <= m
<1>1. PICK n \in S : \A m \in S : ~(<<m, n>> \in OpToRel(<, Nat))
    BY NatLessThanWellFounded, WFMin
<1>2. \A m \in S : ~(m < n)
    BY <1>1 DEF OpToRel
<1> QED
    BY <1>2

(* Of finitely many, one has the largest value: else there would be a         *)
(* smallest set without, and without one of its elements it is smaller.       *)
LEMMA Largest ==
    ASSUME NEW S, IsFiniteSet(S), S # {}, NEW f \in [S -> Int]
    PROVE  \E a \in S : \A b \in S : f[b] <= f[a]
<1> DEFINE Tops(T) == {a \in T : \A b \in T : f[b] <= f[a]}
           Bad == {n \in Nat : \E T \in SUBSET S : T # {} /\ Cardinality(T) = n /\ Tops(T) = {}}
<1>1. SUFFICES ASSUME Tops(S) = {} PROVE FALSE
    OBVIOUS
<1>2. Bad # {}
    BY <1>1, FS_CardinalityType
<1>3. PICK n \in Bad : \A m \in Bad : n <= m
    BY <1>2, Smallest
<1>4. PICK T \in SUBSET S : T # {} /\ Cardinality(T) = n /\ Tops(T) = {}
    BY <1>3
<1>5. PICK a \in T : TRUE
    BY <1>4
<1>6. IsFiniteSet(T) /\ IsFiniteSet(T \ {a}) /\ Cardinality(T \ {a}) = n - 1
    BY <1>4, <1>5, FS_Subset, FS_RemoveElement
<1>7. n - 1 \in Nat
    BY <1>6, FS_CardinalityType
<1>8. T \ {a} # {}
    BY <1>4, <1>5
<1>9. Tops(T \ {a}) # {}
  <2>1. SUFFICES ASSUME Tops(T \ {a}) = {} PROVE FALSE
    OBVIOUS
  <2>2. n - 1 \in Bad
    BY <2>1, <1>6, <1>7, <1>8
  <2>3. n \in Nat /\ ~(n <= n - 1)
    OBVIOUS
  <2> HIDE DEF Bad
  <2> QED
    BY <2>2, <2>3, <1>3
<1>10. PICK c \in T \ {a} : \A b \in T \ {a} : f[b] <= f[c]
    BY <1>9
<1>11. \A b \in T : f[b] \in Int
    BY <1>4
<1>12. CASE f[a] <= f[c]
    BY <1>4, <1>10, <1>12
<1>13. CASE f[c] <= f[a]
    BY <1>4, <1>5, <1>10, <1>11, <1>13
<1> QED
    BY <1>5, <1>10, <1>11, <1>12, <1>13

(* The least and the greatest of finitely many values are among them.         *)
LEMMA ExtremesAre ==
    ASSUME NEW S, IsFiniteSet(S), S # {}, NEW f \in [S -> Int]
    PROVE  Max({f[i] : i \in S}) \in Int /\ Min({f[i] : i \in S}) \in Int
<1>1. PICK a \in S : \A b \in S : f[b] <= f[a]
    BY Largest
<1> DEFINE g == [i \in S |-> -f[i]]
<1>2. g \in [S -> Int]
    OBVIOUS
<1>3. PICK c \in S : \A b \in S : g[b] <= g[c]
  <2> HIDE DEF g
  <2> QED
    BY <1>2, Largest
<1>4. \A b \in S : f[c] <= f[b]
    BY <1>3
<1> DEFINE V == {f[i] : i \in S}
<1>5. V \subseteq Int /\ f[a] \in V /\ f[c] \in V
    OBVIOUS
<1>6. \A v \in V : f[a] >= v /\ f[c] <= v
    BY <1>1, <1>4
<1> HIDE DEF V
<1>7. Max(V) \in V /\ Min(V) \in V
    BY <1>5, <1>6 DEF Max, Min
<1> QED
    BY <1>5, <1>7 DEF V

(* A hit is an item that is there and was not skipped.                        *)
LEMMA HitIsThere ==
    ASSUME NEW p, NEW skipped, HitTest(p, skipped) # NoItem
    PROVE  HitTest(p, skipped) \in There \ skipped
<1> DEFINE hit == {k \in DOMAIN Order : /\ Order[k] \in There \ skipped
                                        /\ InPlace(items[Order[k]], p)}
           f == [k \in hit |-> k]
<1>1. DOMAIN Order = 1..Len(Order) /\ Len(Order) \in Nat
    BY SurfaceAssumption
<1>2. hit # {} /\ HitTest(p, skipped) = Order[Max(hit)]
  <2>1. HitTest(p, skipped) = IF hit = {} THEN NoItem ELSE Order[Max(hit)]
    BY DEF HitTest
  <2> HIDE DEF hit
  <2> QED
    BY <2>1
<1>3. IsFiniteSet(hit) /\ f \in [hit -> Int]
  <2>1. hit \in SUBSET (1..Len(Order))
    BY <1>1
  <2>2. IsFiniteSet(1..Len(Order))
    BY <1>1, FS_Interval
  <2>3. IsFiniteSet(hit)
    BY <2>1, <2>2, FS_Subset
  <2>4. f \in [hit -> Int]
    BY <1>1
  <2> QED
    BY <2>3, <2>4
<1>4. PICK a \in hit : \A b \in hit : f[b] <= f[a]
  <2> HIDE DEF hit, f
  <2> QED
    BY <1>2, <1>3, Largest
<1>5. hit \subseteq Int
    BY <1>1
<1>6. Max(hit) \in hit
  <2>1. a \in hit /\ \A b \in hit : a >= b
    BY <1>4, <1>5
  <2> HIDE DEF hit
  <2> QED
    BY <2>1 DEF Max
<1> QED
    BY <1>2, <1>6

------------------------------------------------------------------------------
(* Snapping keeps whole numbers whole.                                        *)

ItemsAre == items \in [There -> Boxes] /\ There \subseteq DOMAIN FirstPlaces

LEMMA LinesAre ==
    ASSUME ItemsAre, NEW i, NEW moving
    PROVE  SnapTo(i, moving) \subseteq Int
<1>1. \A box \in Boxes : SnapEdges(box) \subseteq Int
    BY DEF SnapEdges, Boxes
<1>2. \A j \in There : items[j] \in Boxes
    BY DEF ItemsAre
<1> QED
    BY <1>1, <1>2 DEF SnapTo

LEMMA NearestIs ==
    ASSUME NEW edges \in SUBSET Int, NEW lines \in SUBSET Int, Near(edges, lines) # {}
    PROVE  Nearest(edges, lines) \in Int
<1> DEFINE N == Near(edges, lines)
           D == {Abs(s) : s \in N}
<1>1. N \subseteq Int
    BY DEF Near, Shifts
<1>2. \A s \in N : Abs(s) \in Nat
    BY <1>1 DEF Abs
<1>3. D \in SUBSET Nat /\ D # {}
    BY <1>2
<1>4. PICK d \in D : \A e \in D : d <= e
  <2> HIDE DEF D
  <2> QED
    BY <1>3, Smallest
<1>5. \E s \in N : \A r \in N : Abs(s) <= Abs(r)
    BY <1>4
<1>6. Nearest(edges, lines) \in N
  <2>1. Nearest(edges, lines) = CHOOSE s \in N : \A r \in N : Abs(s) <= Abs(r)
    BY DEF Nearest
  <2> HIDE DEF N
  <2> QED
    BY <1>5, <2>1
<1> QED
    BY <1>1, <1>6

LEMMA RoundedIs ==
    ASSUME NEW v \in Int
    PROVE  Rounded(v) \in Int
<1>1. Grid \in Int /\ 2 * Grid \in Nat \ {0} /\ 2 * v + Grid \in Int
    BY SurfaceAssumption
<1>2. \A a \in Int, b \in Nat \ {0} : a \div b \in Int
    OBVIOUS
<1>3. (2 * v + Grid) \div (2 * Grid) \in Int
    BY <1>1, <1>2
<1>4. \A a, b \in Int : a * b \in Int
    OBVIOUS
<1> QED
    BY <1>1, <1>3, <1>4 DEF Rounded

LEMMA SnapMoveIs ==
    ASSUME ItemsAre, NEW box \in Boxes, NEW dx \in Int, NEW i, NEW moving, NEW free \in BOOLEAN
    PROVE  SnapMove(box, dx, i, moving, free) \in Int
<1> DEFINE moved == [box EXCEPT !.at = @ + dx]
           lines == SnapTo(i, moving)
<1>1. box.at \in Int /\ moved \in Boxes
    BY DEF Boxes
<1>2. lines \in SUBSET Int
    BY LinesAre
<1>3. SnapEdges(moved) \in SUBSET Int
    BY <1>1 DEF SnapEdges, Boxes
<1>4. Near(SnapEdges(moved), lines) # {} => Nearest(SnapEdges(moved), lines) \in Int
  <2> HIDE DEF moved, lines
  <2> QED
    BY <1>2, <1>3, NearestIs
<1>5. Rounded(box.at + dx) \in Int
    BY <1>1, RoundedIs
<1>6. SnapMove(box, dx, i, moving, free) =
         IF ~free THEN dx
         ELSE IF Near(SnapEdges(moved), lines) # {} THEN dx + Nearest(SnapEdges(moved), lines)
         ELSE Rounded(box.at + dx) - box.at
    BY DEF SnapMove
<1> HIDE DEF moved, lines
<1> QED
    BY <1>1, <1>4, <1>5, <1>6

LEMMA SnapEdgeIs ==
    ASSUME NEW v \in Int, NEW lines \in SUBSET Int, NEW snap \in BOOLEAN
    PROVE  SnapEdge(v, lines, snap) \in Int
<1>1. Near({v}, lines) # {} => Nearest({v}, lines) \in Int
    BY NearestIs
<1>2. Rounded(v) \in Int
    BY RoundedIs
<1> QED
    BY <1>1, <1>2 DEF SnapEdge

(* The other edge stays where it is, a unit away at least.                    *)
LEMMA ResizedIs ==
    ASSUME ItemsAre, NEW origin \in Boxes, NEW handle \in {"e", "w"}, NEW dx \in Int,
           NEW i, NEW snap \in BOOLEAN
    PROVE  LET new == Resized(origin, handle, dx, i, snap) IN
           /\ new \in Boxes /\ new.len >= 2
           /\ handle = "e" => new.at = origin.at
           /\ handle = "w" => new.at + new.len = origin.at + origin.len
<1> DEFINE lines == SnapTo(i, {i})
           left == IF handle = "w" THEN SnapEdge(origin.at + dx, lines, snap) ELSE origin.at
           right == IF handle = "e" THEN SnapEdge(origin.at + origin.len + dx, lines, snap)
                                    ELSE origin.at + origin.len
<1>1. origin.at \in Int /\ origin.len \in Int
    BY DEF Boxes
<1>2. lines \in SUBSET Int
    BY LinesAre
<1>3. SnapEdge(origin.at + dx, lines, snap) \in Int
  <2> HIDE DEF lines
  <2> QED
    BY <1>1, <1>2, SnapEdgeIs
<1>4. SnapEdge(origin.at + origin.len + dx, lines, snap) \in Int
  <2> HIDE DEF lines
  <2> QED
    BY <1>1, <1>2, SnapEdgeIs
<1>5. left \in Int /\ right \in Int
    BY <1>1, <1>3, <1>4
<1>6. /\ handle = "e" => left = origin.at
      /\ handle = "w" => right = origin.at + origin.len
    OBVIOUS
<1>7. Resized(origin, handle, dx, i, snap) =
          IF right - left >= 2 THEN [at |-> left, len |-> right - left]
          ELSE IF handle = "w" THEN [at |-> right - 2, len |-> 2]
          ELSE [at |-> left, len |-> 2]
    BY DEF Resized
<1> HIDE DEF left, right
<1>8. CASE right - left >= 2
    BY <1>1, <1>5, <1>6, <1>7, <1>8 DEF Boxes
<1>9. CASE ~(right - left >= 2) /\ handle = "w"
    BY <1>1, <1>5, <1>6, <1>7, <1>9 DEF Boxes
<1>10. CASE ~(right - left >= 2) /\ handle # "w"
    BY <1>1, <1>5, <1>6, <1>7, <1>10 DEF Boxes
<1> QED
    BY <1>8, <1>9, <1>10
------------------------------------------------------------------------------
(* A change that is shown or committed says where each item would be.         *)
Change(c) ==
    /\ c = NoChange \/ c.kind \in {"move", "resize"}
    /\ c.kind = "move" => c.places \in [c.ids -> Boxes]
    /\ c.kind = "resize" => c.place \in Boxes

Apart(ids) == \A i, j \in ids : i # j => ~IsWithin(i, j)

(* A drag has the places its items had when it began, and moves them once.    *)
DragIs ==
    /\ drag.type = "move" =>
        /\ drag = [type |-> "move", start |-> drag.start, ids |-> drag.ids,
                   origin |-> drag.origin, moved |-> drag.moved, click |-> drag.click,
                   additive |-> drag.additive]
        /\ drag.start \in Int /\ IsFiniteSet(drag.ids) /\ Apart(drag.ids)
        /\ drag.origin \in [drag.ids -> Boxes]
    /\ drag.type = "resize" => drag.start \in Int /\ drag.origin \in Boxes
                               /\ drag.handle \in {"e", "w"}

(* What is shown is of the drag under way.                                    *)
PreviewIs == preview.kind \in {"move", "resize"} => preview.kind = drag.type

SurfaceInv == ItemsAre /\ DragIs /\ Change(preview) /\ Change(settled) /\ PreviewIs /\ DesignHolds

(* Nothing is shown, nor settled, when there is no change.                    *)
LEMMA NoChangeIs == Change(NoChange) /\ NoChange.kind = "none"
BY DEF Change, NoChange

LEMMA NoDragIs == NoDrag.type = "none"
BY DEF NoDrag

LEMMA SurfaceStarts == SurfaceInit => SurfaceInv
<1> SUFFICES ASSUME SurfaceInit PROVE SurfaceInv
    OBVIOUS
<1>1. items = FirstPlaces /\ drag = NoDrag /\ preview = NoChange /\ settled = NoChange
    BY DEF SurfaceInit
<1>2. ItemsAre
    BY <1>1, SurfaceAssumption DEF ItemsAre, There
<1>3. drag.type = "none" /\ preview.kind = "none"
    BY <1>1, NoChangeIs, NoDragIs
<1>4. DragIs /\ PreviewIs /\ DesignHolds
    BY <1>3 DEF DragIs, PreviewIs, DesignHolds, MovesAsAWhole, ResizeHolds
<1> QED
    BY <1>1, <1>2, <1>4, NoChangeIs DEF SurfaceInv

(* A drag that begins shows nothing yet.                                      *)
LEMMA BeginsClear ==
    ASSUME SurfaceInv, drag = NoDrag, preview' = preview, items' = items,
           Change(settled)', DragIs'
    PROVE  SurfaceInv'
<1>1. preview.kind \notin {"move", "resize"}
    BY NoDragIs DEF SurfaceInv, PreviewIs
<1>2. ItemsAre'
    BY DEF SurfaceInv, ItemsAre, There
<1>3. Change(preview)'
    BY DEF SurfaceInv, Change
<1>4. PreviewIs' /\ DesignHolds'
    BY <1>1 DEF PreviewIs, DesignHolds, MovesAsAWhole, ResizeHolds
<1> QED
    BY <1>2, <1>3, <1>4 DEF SurfaceInv

LEMMA GrabHandleKeeps ==
    ASSUME SurfaceInv, NEW p \in Points, NEW handle \in {"e", "w"}, GrabHandle(handle, p)
    PROVE  SurfaceInv'
<1>1. p \in Int
    BY SurfaceAssumption DEF Points
<1>2. items[selection[1]] \in Boxes
    BY DEF SurfaceInv, ItemsAre, GrabHandle
<1>3. /\ drag'.type = "resize" /\ drag'.start = p /\ drag'.handle = handle
      /\ drag'.origin = items[selection[1]]
    BY DEF GrabHandle
<1>4. DragIs'
    BY <1>1, <1>2, <1>3 DEF DragIs
<1>5. Change(settled)'
    BY NoChangeIs DEF GrabHandle, Change
<1> QED
    BY <1>4, <1>5, BeginsClear DEF GrabHandle

LEMMA BeginMarqueeKeeps ==
    ASSUME SurfaceInv, NEW p \in Points, NEW b \in BOOLEAN, BeginMarquee(p, b)
    PROVE  SurfaceInv'
<1>1. drag'.type = "marquee"
    BY DEF BeginMarquee
<1>2. DragIs'
    BY <1>1 DEF DragIs
<1>3. Change(settled)'
    BY NoChangeIs DEF BeginMarquee, Change
<1> QED
    BY <1>2, <1>3, BeginsClear DEF BeginMarquee

LEMMA BeginMoveKeeps ==
    ASSUME SurfaceInv, NEW p \in Points, NEW b \in BOOLEAN, BeginMove(p, b)
    PROVE  SurfaceInv'
<1> DEFINE hit == HitTest(p, {})
           next == Pressed(hit, b)
           ids == Dragged(next)
           origin == [i \in ids |-> items[i]]
<1>1. p \in Int
    BY SurfaceAssumption DEF Points
<1>2. ids \subseteq There /\ Apart(ids)
    BY DEF Dragged, Apart
<1>3. IsFiniteSet(ids)
  <2>1. ids \in SUBSET (DOMAIN FirstPlaces)
    BY <1>2 DEF SurfaceInv, ItemsAre
  <2> QED
    BY <2>1, SurfaceAssumption, FS_Subset
<1>4. origin \in [ids -> Boxes]
    BY <1>2 DEF SurfaceInv, ItemsAre
<1>5. drag' = IF hit \in Range(next)
              THEN [type |-> "move", start |-> p, ids |-> ids, origin |-> origin,
                    moved |-> FALSE, click |-> hit, additive |-> b]
              ELSE NoDrag
    BY DEF BeginMove
<1> HIDE DEF hit, next, ids, origin
<1>6. DragIs'
  <2>1. CASE hit \in Range(next)
    <3>1. drag' = [type |-> "move", start |-> p, ids |-> ids, origin |-> origin,
                   moved |-> FALSE, click |-> hit, additive |-> b]
        BY <1>5, <2>1
    <3>2. /\ drag'.type = "move" /\ drag'.start = p /\ drag'.ids = ids
          /\ drag'.origin = origin /\ drag'.moved = FALSE /\ drag'.click = hit
          /\ drag'.additive = b
        BY <3>1
    <3> QED
        BY <1>1, <1>2, <1>3, <1>4, <3>1, <3>2 DEF DragIs, Apart
  <2>2. CASE hit \notin Range(next)
    BY <1>5, <2>2, NoDragIs DEF DragIs
  <2> QED
    BY <2>1, <2>2
<1>7. Change(settled)'
    BY NoChangeIs DEF BeginMove, Change
<1> QED
    BY <1>6, <1>7, BeginsClear DEF BeginMove

(* Only the places, the drag and what it shows matter.                        *)
LEMMA RestsSurface ==
    ASSUME SurfaceInv, UNCHANGED <<items, drag, preview, settled>>
    PROVE  SurfaceInv'
BY DEF SurfaceInv, ItemsAre, There, DragIs, Apart, Change, PreviewIs, DesignHolds,
       MovesAsAWhole, ResizeHolds

(* A move takes what is dragged along as a whole, to where none of it is.     *)
LEMMA DragMoveKeeps ==
    ASSUME SurfaceInv, NEW p \in Points, NEW alt \in BOOLEAN, DragMove(p, alt)
    PROVE  SurfaceInv'
<1> DEFINE ids == drag.ids
           at == Min({drag.origin[i].at : i \in ids})
           end == Max({drag.origin[i].at + drag.origin[i].len : i \in ids})
           free == Placed[Lead] = "free"
           dx == IF alt THEN p - drag.start
                 ELSE SnapMove([at |-> at, len |-> end - at], p - drag.start, Lead, ids, free)
           over == ContainerAt(p, ids)
           places == [i \in ids |-> [drag.origin[i] EXCEPT !.at = @ + dx]]
<1>1. p \in Int
    BY SurfaceAssumption DEF Points
<1>2. /\ drag.type = "move" /\ ids # {}
      /\ drag = [type |-> "move", start |-> drag.start, ids |-> drag.ids,
                 origin |-> drag.origin, moved |-> drag.moved, click |-> drag.click,
                 additive |-> drag.additive]
      /\ drag.start \in Int /\ IsFiniteSet(ids) /\ Apart(ids)
      /\ drag.origin \in [ids -> Boxes]
    BY DEF SurfaceInv, DragIs, DragMove
<1>3. ItemsAre
    BY DEF SurfaceInv
<1>4. \A i \in ids : drag.origin[i] \in Boxes /\ drag.origin[i].at \in Int /\ drag.origin[i].len \in Int
    BY <1>2 DEF Boxes
<1>5. at \in Int /\ end \in Int
  <2> DEFINE f == [i \in ids |-> drag.origin[i].at]
             g == [i \in ids |-> drag.origin[i].at + drag.origin[i].len]
  <2>1. f \in [ids -> Int] /\ g \in [ids -> Int]
    BY <1>4
  <2>2. at = Min({f[i] : i \in ids}) /\ end = Max({g[i] : i \in ids})
    OBVIOUS
  <2> HIDE DEF f, g, ids, at, end
  <2> QED
    BY <1>2, <2>1, <2>2, ExtremesAre
<1>6. dx \in Int
  <2>1. [at |-> at, len |-> end - at] \in Boxes
    <3> HIDE DEF at, end
    <3> QED
        BY <1>5 DEF Boxes
  <2>2. p - drag.start \in Int
    BY <1>1, <1>2
  <2> HIDE DEF at, end, ids
  <2>3. SnapMove([at |-> at, len |-> end - at], p - drag.start, Lead, ids, free) \in Int
    BY <1>3, <2>1, <2>2, SnapMoveIs
  <2> QED
    BY <2>2, <2>3
<1>7. preview' = [kind |-> "move", ids |-> ids, target |-> over, places |-> places]
    BY DEF DragMove
<1>8. drag' = [drag EXCEPT !.moved = TRUE] /\ items' = items /\ settled' = settled
    BY DEF DragMove
<1>9. places \in [ids -> Boxes]
  <2> HIDE DEF dx
  <2> QED
    BY <1>4, <1>6 DEF Boxes
<1>10. over # NoItem => \A i \in ids : ~IsWithin(over, i)
  <2> SUFFICES ASSUME over # NoItem PROVE \A i \in ids : ~IsWithin(over, i)
    OBVIOUS
  <2>1. over \in There \ {i \in There : \E m \in ids : IsWithin(i, m)}
    <3>1. over = HitTest(p, (There \ Containers) \cup {i \in There : \E m \in ids : IsWithin(i, m)})
        BY DEF ContainerAt
    <3> HIDE DEF over, ids
    <3> QED
        BY <3>1, HitIsThere
  <2> HIDE DEF over, ids
  <2> QED
    BY <2>1
<1> HIDE DEF ids, over, places, dx, at, end
<1>11. drag' = [type |-> "move", start |-> drag.start, ids |-> drag.ids,
                   origin |-> drag.origin, moved |-> TRUE, click |-> drag.click,
                   additive |-> drag.additive]
    BY <1>2, <1>8
<1>12. /\ drag'.type = "move" /\ drag'.start = drag.start /\ drag'.ids = drag.ids
       /\ drag'.origin = drag.origin /\ drag'.moved = TRUE /\ drag'.click = drag.click
       /\ drag'.additive = drag.additive
    BY <1>11
<1>13. DragIs'
    BY <1>2, <1>11, <1>12 DEF DragIs, Apart, ids
<1>14. preview'.kind = "move" /\ preview'.ids = ids /\ preview'.target = over /\ preview'.places = places
    BY <1>7
<1>15. Change(preview)' /\ PreviewIs'
    BY <1>9, <1>12, <1>14 DEF Change, PreviewIs
<1>16. DesignHolds'
    BY <1>2, <1>10, <1>14 DEF DesignHolds, MovesAsAWhole, ResizeHolds, Apart
<1>17. ItemsAre' /\ Change(settled)'
    BY <1>8 DEF SurfaceInv, ItemsAre, There, Change
<1> QED
    BY <1>13, <1>15, <1>16, <1>17 DEF SurfaceInv

LEMMA DragHandleKeeps ==
    ASSUME SurfaceInv, NEW p \in Points, NEW alt \in BOOLEAN, DragHandle(p, alt)
    PROVE  SurfaceInv'
<1> DEFINE new == Resized(drag.origin, drag.handle, p - drag.start, drag.item, ~alt)
<1>1. p \in Int
    BY SurfaceAssumption DEF Points
<1>2. drag.type = "resize" /\ drag.start \in Int /\ drag.origin \in Boxes /\ drag.handle \in {"e", "w"}
    BY DEF SurfaceInv, DragIs, DragHandle
<1>3. /\ new \in Boxes /\ new.len >= 2
      /\ drag.handle = "e" => new.at = drag.origin.at
      /\ drag.handle = "w" => new.at + new.len = drag.origin.at + drag.origin.len
  <2>1. p - drag.start \in Int /\ (~alt) \in BOOLEAN /\ ItemsAre
    BY <1>1, <1>2 DEF SurfaceInv
  <2> DEFINE dx == p - drag.start
             snap == ~alt
  <2>2. dx \in Int /\ snap \in BOOLEAN /\ new = Resized(drag.origin, drag.handle, dx, drag.item, snap)
    BY <2>1
  <2> HIDE DEF dx, snap, new
  <2> QED
    BY <1>2, <2>1, <2>2, ResizedIs
<1>4. preview' = [kind |-> "resize", item |-> drag.item, handle |-> drag.handle, place |-> new]
    BY DEF DragHandle
<1> HIDE DEF new
<1>5. preview'.kind = "resize" /\ preview'.handle = drag.handle /\ preview'.place = new
    BY <1>4
<1>6. drag' = drag /\ items' = items /\ settled' = settled
    BY DEF DragHandle
<1>7. Change(preview)' /\ PreviewIs' /\ DesignHolds'
    BY <1>2, <1>3, <1>5, <1>6 DEF Change, PreviewIs, DesignHolds, MovesAsAWhole, ResizeHolds
<1>8. ItemsAre' /\ DragIs' /\ Change(settled)'
    BY <1>6 DEF SurfaceInv, ItemsAre, There, DragIs, Apart, Change
<1> QED
    BY <1>7, <1>8 DEF SurfaceInv

LEMMA EndDragKeeps ==
    ASSUME SurfaceInv, NEW done \in BOOLEAN, EndDrag(done)
    PROVE  SurfaceInv'
<1>1. drag' = NoDrag /\ preview' = NoChange /\ items' = items
    BY DEF EndDrag
<1>2. settled' = preview \/ settled' = NoChange
    BY DEF EndDrag
<1>3. Change(settled)'
    BY <1>2, NoChangeIs DEF SurfaceInv, Change
<1>4. drag'.type = "none" /\ preview'.kind = "none" /\ Change(preview)'
    BY <1>1, NoDragIs, NoChangeIs DEF Change
<1>5. DragIs' /\ PreviewIs' /\ DesignHolds'
    BY <1>4 DEF DragIs, PreviewIs, DesignHolds, MovesAsAWhole, ResizeHolds
<1>6. ItemsAre'
    BY <1>1 DEF SurfaceInv, ItemsAre, There
<1> QED
    BY <1>3, <1>4, <1>5, <1>6 DEF SurfaceInv

(* Items move or go; what is dragged and shown is as before.                  *)
LEMMA ItemsChange ==
    ASSUME SurfaceInv, UNCHANGED <<drag, preview>>, ItemsAre', Change(settled)'
    PROVE  SurfaceInv'
<1>1. DragIs' /\ Change(preview)' /\ PreviewIs' /\ DesignHolds'
    BY DEF SurfaceInv, DragIs, Apart, Change, PreviewIs, DesignHolds, MovesAsAWhole, ResizeHolds
<1> QED
    BY <1>1 DEF SurfaceInv

LEMMA AppliedKeeps ==
    ASSUME SurfaceInv, Applied
    PROVE  SurfaceInv'
<1>1. settled # NoChange /\ Change(settled) /\ ItemsAre
    BY DEF SurfaceInv, Applied
<1>2. Change(settled)'
    BY NoChangeIs DEF Applied, Change
<1>3. CASE settled.kind = "resize"
  <2>1. settled.place \in Boxes
    BY <1>1, <1>3 DEF Change
  <2>2. items' = [i \in There |-> IF i = settled.item THEN settled.place ELSE items[i]]
    BY <1>3 DEF Applied
  <2>3. ItemsAre'
    BY <1>1, <2>1, <2>2 DEF ItemsAre, There
  <2> QED
    BY <1>2, <2>3, ItemsChange DEF Applied
<1>4. CASE settled.kind # "resize"
  <2>1. settled.places \in [settled.ids -> Boxes]
    BY <1>1, <1>4 DEF Change
  <2>2. items' = [i \in There |-> IF i \in settled.ids THEN settled.places[i] ELSE items[i]]
    BY <1>4 DEF Applied
  <2>3. ItemsAre'
    BY <1>1, <2>1, <2>2 DEF ItemsAre, There
  <2> QED
    BY <1>2, <2>3, ItemsChange DEF Applied
<1> QED
    BY <1>3, <1>4

LEMMA ItemGoesKeeps ==
    ASSUME SurfaceInv, NEW i, ItemGoes(i)
    PROVE  SurfaceInv'
<1>1. items' = [j \in {j \in There : ~IsWithin(j, i)} |-> items[j]]
    BY DEF ItemGoes, Restrict
<1>2. ItemsAre'
    BY <1>1 DEF SurfaceInv, ItemsAre, There
<1>3. Change(settled)'
    BY DEF ItemGoes, SurfaceInv, Change
<1> QED
    BY <1>2, <1>3, ItemsChange DEF ItemGoes

LEMMA SurfaceSteps == SurfaceInv /\ [SurfaceNext]_surfaceVars => SurfaceInv'
<1> SUFFICES ASSUME SurfaceInv, [SurfaceNext]_surfaceVars PROVE SurfaceInv'
    OBVIOUS
<1>1. CASE \E p \in Points, b \in BOOLEAN :
              BeginMarquee(p, b) \/ BeginMove(p, b) \/ DragMove(p, b) \/ DragHandle(p, b)
    BY <1>1, BeginMarqueeKeeps, BeginMoveKeeps, DragMoveKeeps, DragHandleKeeps
<1>2. CASE \E p \in Points : OpenMenu(p) \/ DragMarquee(p)
    BY <1>2, RestsSurface DEF OpenMenu, DragMarquee
<1>3. CASE \E p \in Points, handle \in {"e", "w"} : GrabHandle(handle, p)
    BY <1>3, GrabHandleKeeps
<1>4. CASE \E done \in BOOLEAN : EndDrag(done)
    BY <1>4, EndDragKeeps
<1>5. CASE Applied
    BY <1>5, AppliedKeeps
<1>6. CASE \E i \in Range(Order) : ItemGoes(i)
    BY <1>6, ItemGoesKeeps
<1>7. CASE UNCHANGED surfaceVars
    BY <1>7, RestsSurface DEF surfaceVars
<1> QED
    BY <1>1, <1>2, <1>3, <1>4, <1>5, <1>6, <1>7 DEF SurfaceNext

(* Nothing is dropped into itself or into what it holds, nothing moves both by *)
(* itself and with its container, and a resize moves the dragged edge alone    *)
(* and never turns an item inside out, for every document, grid and surface.   *)
THEOREM DesignIsKept == SurfaceSpec => []DesignHolds
<1>1. SurfaceInv => DesignHolds
    BY DEF SurfaceInv
<1> QED
    BY <1>1, SurfaceStarts, SurfaceSteps, PTL DEF SurfaceSpec
=============================================================================
