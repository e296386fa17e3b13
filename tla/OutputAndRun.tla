------------------------------ MODULE OutputAndRun ------------------------------
(* The Output window (ui/src/output, widgets/OutputPanel) and the run bar       *)
(* (widgets/RunBar, infra/hooks/useWorkflowRunner). Lines are buffered outside  *)
(* the panel, which is drawn once a frame and only while it is shown; the       *)
(* targets of a project are listed by its host, the chosen one is remembered    *)
(* with the project, and a run ends by an event of its own.                     *)
EXTENDS Integers, Sequences, SequencesExt

CONSTANTS Sources,        \* the Output window's sources, each with its event
          MaxKept,        \* the lines a buffer keeps (MAX_LINES_DEFAULT)
          MaxPrinted,     \* bound: lines printed by each
          MaxPanelSteps,  \* bound: what is done in the Output window
          Projects, Targets, \* [project -> its targets, in order]
          GroupOf, VariantOf, \* of each target; "" is no variant
          MaxOpens, MaxRuns, MaxPicks   \* bounds: projects opened, runs, targets chosen

VARIABLES
    printed,     \* [source -> lines heard of it]
    listening,   \* the sources whose event is listened to
    buffers,     \* [source -> the lines kept]
    dropped,     \* [source -> the lines dropped]
    source,      \* the window's source
    panel,       \* the panel: shown, subscribed, a frame asked for, lines it missed before that
    rendered,    \* what it shows: lines with their keys
    panelSteps,
    root, targets, listed,  \* the project, the targets shown, the projects whose listing has not come
    remembered,  \* [project -> the target remembered with it]
    running, starting, hosted, exits,  \* the bar's view; runs asked for, under way, and ended without its knowing
    opens, runs, picks

panelVars == <<printed, listening, buffers, dropped, source, panel, rendered, panelSteps>>
runVars == <<root, targets, listed, remembered, running, starting, hosted, exits, opens, runs, picks>>
outputVars == <<panelVars, runVars>>

Hidden == [shown |-> FALSE, subscribed |-> FALSE, frame |-> FALSE, missed |-> FALSE]
Mounted == [Hidden EXCEPT !.shown = TRUE]
Drawn(s) == [i \in 1..Len(buffers[s]) |-> [key |-> dropped[s] + i, line |-> buffers[s][i]]]

------------------------------------------------------------------------------
(* The buffers.                                                                 *)

\* A subscriber asks for a frame; a panel that has not subscribed yet is not told.
Notified(s) ==
    panel' = IF panel.shown /\ source = s
             THEN IF panel.subscribed THEN [panel EXCEPT !.frame = TRUE] ELSE [panel EXCEPT !.missed = TRUE]
             ELSE panel

\* appendOutputLine: the oldest beyond the limit is dropped. What is printed before anyone listens is not heard.
Line(s) ==
    /\ s \in listening
    /\ printed[s] < MaxPrinted /\ printed' = [printed EXCEPT ![s] = @ + 1]
    /\ buffers' = [buffers EXCEPT ![s] = LET b == Append(@, printed'[s]) IN IF Len(b) > MaxKept THEN Tail(b) ELSE b]
    /\ dropped' = [dropped EXCEPT ![s] = IF Len(buffers[s]) = MaxKept THEN @ + 1 ELSE @]
    /\ Notified(s)
    /\ UNCHANGED <<listening, source, rendered, panelSteps, runVars>>

StartOutputBuffer(s) ==
    /\ s \notin listening /\ listening' = listening \cup {s}
    /\ UNCHANGED <<printed, buffers, dropped, source, panel, rendered, panelSteps, runVars>>

ClearOutputBuffer ==
    /\ panel.shown /\ buffers[source] # <<>>
    /\ dropped' = [dropped EXCEPT ![source] = @ + Len(buffers[source])]
    /\ buffers' = [buffers EXCEPT ![source] = <<>>]
    /\ Notified(source)
    /\ UNCHANGED <<printed, listening, source, rendered, panelSteps, runVars>>

(* The window and its panel: mounted for one source, subscribed after it was drawn. *)
PanelStep == panelSteps < MaxPanelSteps /\ panelSteps' = panelSteps + 1
ShowWindow ==
    /\ PanelStep /\ ~panel.shown /\ panel' = Mounted /\ rendered' = Drawn(source)
    /\ UNCHANGED <<printed, listening, buffers, dropped, source, runVars>>
HideWindow ==
    /\ PanelStep /\ panel.shown /\ panel' = Hidden /\ rendered' = <<>>
    /\ UNCHANGED <<printed, listening, buffers, dropped, source, runVars>>

\* setOutputSource: from the window's menu, or as an operation shows its output; the panel is another one.
SetOutputSource ==
    /\ PanelStep
    /\ \E s \in Sources \ {source} :
        /\ source' = s
        /\ panel' = IF panel.shown THEN Mounted ELSE panel
        /\ rendered' = IF panel.shown THEN Drawn(s) ELSE rendered
    /\ UNCHANGED <<printed, listening, buffers, dropped, runVars>>

SubscribeOutput ==
    /\ panel.shown /\ ~panel.subscribed
    /\ panel' = [panel EXCEPT !.subscribed = TRUE] /\ listening' = listening \cup {source}
    /\ UNCHANGED <<printed, buffers, dropped, source, rendered, panelSteps, runVars>>

Frame ==
    /\ panel.frame /\ panel' = [panel EXCEPT !.frame = FALSE, !.missed = FALSE]
    /\ rendered' = Drawn(source)
    /\ UNCHANGED <<printed, listening, buffers, dropped, source, panelSteps, runVars>>

PanelNext ==
    \/ \E s \in Sources : Line(s) \/ StartOutputBuffer(s)
    \/ ClearOutputBuffer \/ ShowWindow \/ HideWindow \/ SetOutputSource \/ SubscribeOutput \/ Frame

------------------------------------------------------------------------------
(* The run bar. `targets` are those of the listing that came last.              *)
NoTarget == "-"
Current == IF remembered[root] \in ToSet(targets) THEN remembered[root] ELSE NoTarget
Preferred(ts) == ts[1]

\* The effect that follows the targets and the remembered choice: none listed is no reason to forget it.
Settled(ts, r, project) ==
    IF ts = <<>> \/ r[project] \in ToSet(ts) THEN r ELSE [r EXCEPT ![project] = Preferred(ts)]

OfferedGroups ==
    {g \in {GroupOf[t] : t \in ToSet(targets)} :
        Current = NoTarget \/ VariantOf[Current] = ""
        \/ \E t \in ToSet(targets) : GroupOf[t] = g /\ VariantOf[t] = VariantOf[Current]}
Variants == SelectSeq(targets, LAMBDA t : Current # NoTarget /\ GroupOf[t] = GroupOf[Current] /\ VariantOf[t] # "")

\* Another group keeps the variant when it has it, else takes its last.
InGroup(g) ==
    LET members == SelectSeq(targets, LAMBDA t : GroupOf[t] = g)
        same == SelectSeq(members, LAMBDA t : Current # NoTarget /\ VariantOf[t] # "" /\ VariantOf[t] = VariantOf[Current])
    IN IF same = <<>> THEN Last(members) ELSE same[1]

Chosen(t) ==
    /\ picks < MaxPicks /\ picks' = picks + 1
    /\ remembered' = [remembered EXCEPT ![root] = t]
    /\ UNCHANGED <<panelVars, root, targets, listed, running, starting, hosted, exits, opens, runs>>
PickGroup == \E g \in OfferedGroups : Chosen(InGroup(g))
PickVariant == \E t \in ToSet(Variants) : Chosen(t)

\* Another project: its listing is asked for, its remembered target read, and the effect runs over what is shown.
OpenProject(p) ==
    /\ p # root /\ opens < MaxOpens /\ opens' = opens + 1
    /\ root' = p /\ listed' = listed \cup {p}
    /\ remembered' = Settled(targets, remembered, p)
    /\ UNCHANGED <<panelVars, targets, running, starting, hosted, exits, runs, picks>>

\* A listing comes, whichever project's; one that fails lists nothing.
ListingComes(p) ==
    /\ p \in listed /\ listed' = listed \ {p}
    /\ \E ts \in {Targets[p], <<>>} : targets' = ts /\ remembered' = Settled(ts, remembered, root)
    /\ UNCHANGED <<panelVars, root, running, starting, hosted, exits, opens, runs, picks>>

Run ==
    /\ Current # NoTarget /\ ~running /\ runs < MaxRuns /\ runs' = runs + 1
    /\ running' = TRUE /\ starting' = starting + 1
    /\ UNCHANGED <<panelVars, root, targets, listed, remembered, hosted, exits, opens, picks>>

\* The host starts it, or refuses.
RunStarts ==
    /\ starting > 0 /\ starting' = starting - 1 /\ hosted' = hosted + 1
    /\ UNCHANGED <<panelVars, root, targets, listed, remembered, running, exits, opens, runs, picks>>
RunFails ==
    /\ starting > 0 /\ starting' = starting - 1 /\ running' = FALSE
    /\ UNCHANGED <<panelVars, root, targets, listed, remembered, hosted, exits, opens, runs, picks>>
RunEnds ==
    /\ hosted > 0 /\ hosted' = hosted - 1 /\ exits' = exits + 1
    /\ UNCHANGED <<panelVars, root, targets, listed, remembered, running, starting, opens, runs, picks>>
ExitTold ==
    /\ exits > 0 /\ exits' = exits - 1 /\ running' = FALSE
    /\ UNCHANGED <<panelVars, root, targets, listed, remembered, starting, hosted, opens, runs, picks>>

RunNext ==
    \/ PickGroup \/ PickVariant \/ Run \/ RunStarts \/ RunFails \/ RunEnds \/ ExitTold
    \/ \E p \in Projects : OpenProject(p) \/ ListingComes(p)

OutputInit ==
    /\ printed = [s \in Sources |-> 0] /\ listening = {} /\ buffers = [s \in Sources |-> <<>>]
    /\ dropped = [s \in Sources |-> 0] /\ source \in Sources /\ panel = Hidden /\ rendered = <<>> /\ panelSteps = 0
    /\ root \in Projects /\ targets = <<>> /\ listed = {root}
    /\ remembered \in [Projects -> {NoTarget}] /\ running = FALSE /\ starting = 0 /\ hosted = 0 /\ exits = 0
    /\ opens = 0 /\ runs = 0 /\ picks = 0

PanelSpec == OutputInit /\ [][PanelNext]_outputVars
RunSpec == OutputInit /\ [][RunNext]_outputVars
OutputNext == PanelNext \/ RunNext

------------------------------------------------------------------------------
(* A panel that shows a source shows all that is kept of it once the frame it   *)
(* asked for was drawn (but for what came between its mounting and its          *)
(* subscribing, which waits for the next line).                                 *)
PanelIsCurrent == panel.subscribed /\ ~panel.frame /\ ~panel.missed => rendered = Drawn(source)

(* A row's key stays with its line while older ones are dropped and the buffer  *)
(* is cleared (getOutputBufferStart).                                           *)
KeysAreTheLines == \A i \in 1..Len(rendered) : rendered[i].key = rendered[i].line

(* The bar is busy exactly while a run was asked for, is under way, or ended    *)
(* without the bar having been told (useWorkflowRunner).                        *)
BusyIsTrue == running <=> starting + hosted + exits > 0

(* Choosing another group keeps the variant (offeredGroups, pickGroup).         *)
VariantIsKept ==
    \A g \in OfferedGroups : Current # NoTarget /\ VariantOf[Current] # "" => VariantOf[InGroup(g)] = VariantOf[Current]

------------------------------------------------------------------------------
(* What is said of the code, or may be expected of it, and does not hold.    *)

(* The targets offered are the open project's once every listing came. Does  *)
(* not hold: listings are shown as they arrive, that of the project left     *)
(* before included (useWorkflowRunner.tsx).                                  *)
TargetsAreOfTheProject == listed = {} /\ targets # <<>> => targets = Targets[root]

(* A target remembered with a project is forgotten only for another choice   *)
(* there: targets that are still loading are no reason (RunBar). Does not    *)
(* hold: targets of the project left before take the place of the choice     *)
(* (RunBar.tsx).                                                             *)
ChoiceIsRemembered == \A p \in Projects : remembered[p] \in ToSet(Targets[p]) => remembered'[p] \in ToSet(Targets[p])
==============================================================================
