----------------------------- MODULE ShellLayout -----------------------------
(* Where every panel of the window lives (ui/src/dock): docked on an edge,    *)
(* pinned, flown out or collapsed to the strip, a tab of the center, floating *)
(* or closed. A project has its own layout, kept in its state; the panels of  *)
(* open files come and go as the product says. What a user can do to a panel  *)
(* is what the dock it is drawn in offers.                                    *)
EXTENDS Integers, Sequences, FiniteSets, SequencesExt

CONSTANTS Main,        \* the center's own panel, without a tab
          Home,        \* of each tool window: its edge
          Transient,   \* the tool windows that open floating
          DefaultPinned,
          Files,       \* the panels the product may add to the center
          PinnedFiles,
          Edges, Tabbed, \* the edges, and those whose panels share one pane
          Projects, NoLayout, NoPanel,
          MaxMoves, MaxSwitches   \* bounds: what the user does, projects opened

VARIABLES
    layout,    \* [at: each panel's placement, order: the panels', active: the center's]
    extra,     \* the open files' panels
    lastActive,\* of each tabbed edge
    dragged,   \* the panel under the pointer
    scope, loading, applied, \* the state's project; being read; a layout of its own was applied
    saved,     \* each project's layout
    leftAs,    \* where the tool windows were when the project was left
    moves, switches          \* bounds

shellVars == <<layout, extra, lastActive, dragged, scope, loading, applied, saved, leftAs,
               moves, switches>>

Tools == DOMAIN Home

\* A placement; spot is a float's rectangle, or that of a closed panel's float.
At(anchor, mode) == [anchor |-> anchor, mode |-> mode, reopen |-> "none", spot |-> 0]
Floating(spot) == [anchor |-> "float", mode |-> "float", reopen |-> "none", spot |-> spot]
ClosedAt(anchor, reopen, spot) ==
    [anchor |-> anchor, mode |-> "closed", reopen |-> reopen, spot |-> spot]

HomeAnchor(id) == IF id \in Tools THEN Home[id] ELSE "bottom"

\* A tool window's placement where none was kept.
DefaultPlacement(t) ==
    IF t \in Transient THEN ClosedAt(Home[t], "float", 0)
    ELSE At(Home[t], IF t \in DefaultPinned THEN "pinned" ELSE "hidden")

Known == {Main} \cup Tools \cup extra
InCenter(l, id) == id \in DOMAIN l.at /\ l.at[id].anchor = "center"
PinnedInAnchor(l, a) == SelectSeq(l.order, LAMBDA id : l.at[id].anchor = a /\ l.at[id].mode = "pinned")
FlyoutInAnchor(l, a) ==
    LET out == SelectSeq(l.order, LAMBDA id : l.at[id].anchor = a /\ l.at[id].mode = "flyout")
    IN  IF out = <<>> THEN NoPanel ELSE out[1]

\* The tabs of the center, as the strip lists them: pinned ones first.
Tabs(l, known) ==
    LET shown == SelectSeq(l.order, LAMBDA id : InCenter(l, id) /\ id \in known \ {Main})
    IN  SelectSeq(shown, LAMBDA id : id \in PinnedFiles)
        \o SelectSeq(shown, LAMBDA id : id \notin PinnedFiles)

\* Mutant: the tabs that are leaving are not looked at.
Successor_Leaving(l, leaving, known) ==
    LET left == Tabs(l, known) IN IF left = <<>> THEN Main ELSE left[1]

\* The tab shown once some leave.
Successor(l, leaving, known) ==
    LET left == SelectSeq(Tabs(l, known), LAMBDA id : id \notin leaving)
    IN  IF left = <<>> THEN Main ELSE left[1]

-----------------------------------------------------------------------------
(* What the layout does *)

Put(l, id, p) ==
    [l EXCEPT !.at = [i \in DOMAIN @ \cup {id} |-> IF i = id THEN p ELSE @[i]],
              !.order = IF id \in Range(@) THEN @ ELSE Append(@, id)]
Activate(l, id) == [l EXCEPT !.active = id]
Yields(l, id) ==
    [l EXCEPT !.active = IF @ = id THEN Successor(l, {id}, Known) ELSE @]

CloseOtherFlyouts(l, a, id) ==
    [l EXCEPT !.at = [i \in DOMAIN @ |-> IF i # id /\ @[i].anchor = a /\ @[i].mode = "flyout"
                                         THEN At(a, "hidden") ELSE @[i]]]

\* A file's panel is the product's to remove.
Closed(l, id) ==
    IF id \notin Tools THEN l
    ELSE LET cur == l.at[id]
             p == CASE cur.anchor = "float"  -> ClosedAt(Home[id], "float", cur.spot)
                    [] cur.anchor = "center" -> ClosedAt(Home[id], "center", 0)
                    [] cur.mode = "closed"   -> cur
                    [] cur.mode \in {"flyout", "hidden"} -> ClosedAt(cur.anchor, "flyout", 0)
                    [] OTHER -> ClosedAt(cur.anchor, "none", 0)
         IN  Put(Yields(l, id), id, p)

Shown(l, id) ==
    LET cur == l.at[id]
    IN  IF id \notin DOMAIN l.at \/ cur.anchor = "float" THEN l
        ELSE IF cur.anchor = "center" THEN Activate(l, id)
        ELSE IF cur.mode = "closed" /\ cur.reopen = "center"
             THEN Activate(Put(l, id, At("center", "pinned")), id)
        ELSE IF cur.mode = "closed" /\ cur.reopen = "float" THEN Put(l, id, Floating(cur.spot))
        ELSE IF cur.mode = "closed" /\ cur.reopen = "flyout"
             THEN Put(CloseOtherFlyouts(l, cur.anchor, id), id, At(cur.anchor, "flyout"))
        ELSE IF cur.mode \in {"hidden", "closed"} THEN Put(l, id, At(cur.anchor, "pinned"))
        ELSE l

Hid(l, id) ==
    IF l.at[id].anchor \in {"float", "center"} \/ id \in Transient THEN Closed(l, id)
    ELSE Put(l, id, At(l.at[id].anchor, "hidden"))

Toggled(l, id) ==
    LET cur == l.at[id]
    IN  IF cur.mode # "hidden" THEN Put(l, id, At(cur.anchor, "hidden"))
        ELSE Put(CloseOtherFlyouts(l, cur.anchor, id), id, At(cur.anchor, "flyout"))
Pinned(l, id) == Put(l, id, At(l.at[id].anchor, "pinned"))
Unpinned(l, id) == Put(l, id, At(l.at[id].anchor, "flyout"))

Docked(l, id, a) ==
    IF a = "center" THEN Activate(Put(l, id, At("center", "pinned")), id)
    ELSE Put(Yields(l, id), id, At(a, "pinned"))

PlacedInCenter(l, id, before) ==
    LET rest == SelectSeq(l.order, LAMBDA i : i # id)
        k == IF before \in Range(rest) THEN CHOOSE i \in DOMAIN rest : rest[i] = before
             ELSE Len(rest) + 1
    IN  [Activate(Put(l, id, At("center", "pinned")), id) EXCEPT !.order = InsertAt(rest, k, id)]

\* A float keeps its size where it moves; the spot stands for both.
Floated(l, id, spot) == Put(Yields(l, id), id, Floating(spot))
Moved(l, id, spot) == IF l.at[id].anchor = "float" THEN Put(l, id, Floating(spot)) ELSE l

-----------------------------------------------------------------------------
(* What every change is followed by: a tabbed edge keeps one panel pinned,    *)
(* and the layout is saved in the project's state.                            *)

TabOf(l, a) ==
    LET pinned == PinnedInAnchor(l, a)
        others == SelectSeq(pinned, LAMBDA id : id # lastActive[a])
    IN  IF Len(pinned) > 1 /\ others # <<>> THEN others[1]
        ELSE IF pinned # <<>> THEN pinned[1] ELSE NoPanel

StepBack(l, a) ==
    LET keep == TabOf(l, a)
    IN  FoldLeft(LAMBDA acc, id : IF id = keep THEN acc ELSE Hid(acc, id), l, PinnedInAnchor(l, a))
Grouped(l) == FoldLeft(StepBack, l, SetToSeq(Tabbed))

\* What is read back of a layout: where the tool windows are, and the active tab.
Kept(l) == [at |-> [t \in Tools |-> l.at[t]], active |-> l.active]

Saved(l) == IF loading' THEN saved ELSE [saved EXCEPT ![scope'] = Kept(l)]

Becomes(l) ==
    /\ layout' = Grouped(l)
    /\ lastActive' = [a \in Tabbed |-> TabOf(l, a)]
    /\ saved' = Saved(layout')

User(l) ==
    /\ moves < MaxMoves /\ moves' = moves + 1
    /\ UNCHANGED <<extra, scope, loading, applied, leftAs, switches>>
    /\ Becomes(l)

-----------------------------------------------------------------------------
(* The docks *)

Place(id) == layout.at[id]
Drawn == DOMAIN layout.at \cap Known
InStrip(id) == Place(id).anchor \in Edges \ Tabbed /\ Place(id).mode \in {"hidden", "flyout"}
InGroup(id) == Place(id).anchor \in Tabbed /\ Place(id).mode # "closed"
IsTab(id) == InCenter(layout, id) /\ id # Main
Slot(id) == Place(id).anchor \in Edges \ Tabbed /\ Place(id).mode = "pinned"
Flyout(id) == Place(id).anchor \in Edges \ Tabbed /\ FlyoutInAnchor(layout, Place(id).anchor) = id
Float(id) == Place(id).anchor = "float"
GroupActive(id) == Place(id).anchor \in Tabbed /\ Place(id).mode = "pinned"

\* A pointer pressed anywhere but on a flyout and its own tab hides it.
Pressed(l, on) ==
    FoldLeft(LAMBDA acc, a : LET out == FlyoutInAnchor(acc, a)
                             IN  IF out \in {NoPanel, on} THEN acc ELSE Hid(acc, out),
             l, SetToSeq(Edges \ Tabbed))
Press(on) == User(Pressed(layout, on)) /\ UNCHANGED dragged

StripTab(id) == InStrip(id) /\ User(Toggled(layout, id)) /\ UNCHANGED dragged
GroupTab(id) ==
    /\ InGroup(id)
    /\ User(Pinned(FoldLeft(LAMBDA acc, o : IF o = id THEN acc ELSE Hid(acc, o), layout,
                            PinnedInAnchor(layout, Place(id).anchor)), id))
    /\ UNCHANGED dragged
CenterTab(id) == IsTab(id) /\ User(Activate(layout, id)) /\ UNCHANGED dragged
PinButton(id) ==
    /\ \/ Slot(id) /\ User(Unpinned(layout, id))
       \/ Flyout(id) /\ User(Pinned(layout, id))
       \/ Float(id) /\ User(Docked(layout, id, HomeAnchor(id)))
    /\ UNCHANGED dragged
FloatButton(id) ==
    /\ Slot(id) \/ Flyout(id) \/ GroupActive(id)
    /\ User(Floated(layout, id, 1)) /\ UNCHANGED dragged
CloseButton(id) ==
    /\ Slot(id) \/ Flyout(id) \/ Float(id) \/ InGroup(id) \/ IsTab(id)
    /\ User(Closed(layout, id)) /\ UNCHANGED dragged

\* The product's menu: any tool window, wherever it is.
Show(t) == User(Shown(layout, t)) /\ UNCHANGED dragged
Hide(t) == User(Hid(layout, t)) /\ UNCHANGED dragged

\* A tab or a title bar is dragged, and dropped on a guide or a strip, along
\* the center's tabs, or where it then floats.
StartDrag(id) ==
    /\ dragged = NoPanel
    /\ Slot(id) \/ Flyout(id) \/ InStrip(id) \/ InGroup(id) \/ IsTab(id)
    /\ dragged' = id /\ User(Pressed(layout, id))
DropOn(a) == dragged # NoPanel /\ dragged' = NoPanel /\ User(Docked(layout, dragged, a))
DropOnTab(other, after) ==
    LET tabs == Tabs(layout, Known)
        k == (CHOOSE i \in DOMAIN tabs : tabs[i] = other) + IF after THEN 1 ELSE 0
        rest == SelectSeq(SubSeq(tabs, k, Len(tabs)), LAMBDA id : id # dragged)
    IN  /\ dragged \notin {NoPanel, other} /\ IsTab(other) /\ dragged' = NoPanel
        /\ User(PlacedInCenter(layout, dragged, IF rest = <<>> THEN NoPanel ELSE rest[1]))
DropFree == dragged # NoPanel /\ dragged' = NoPanel /\ User(Floated(layout, dragged, 2))

\* A floating panel is moved by its title bar, resized, or taken to a guide.
MoveFloat(id) ==
    /\ Float(id) /\ User(Moved(layout, id, 2)) /\ UNCHANGED dragged
DockFloat(id, a) == Float(id) /\ User(Docked(layout, id, a)) /\ UNCHANGED dragged

-----------------------------------------------------------------------------
(* The product's files and projects *)

Product == UNCHANGED <<dragged, moves>>

FileOpens(f) ==
    /\ f \notin extra /\ extra' = extra \cup {f}
    /\ Product /\ UNCHANGED <<scope, loading, applied, leftAs, switches>>
    /\ Becomes(Activate(Put(layout, f, At("center", "pinned")), f))

FileCloses(f) ==
    /\ f \in extra /\ extra' = extra \ {f}
    /\ Product /\ UNCHANGED <<scope, loading, applied, leftAs, switches>>
    /\ Becomes([layout EXCEPT
                    !.at = [i \in DOMAIN @ \ {f} |-> @[i]],
                    !.order = SelectSeq(@, LAMBDA i : i # f),
                    !.active = IF @ = f THEN Successor(layout, {f}, Known \ {f}) ELSE @])

\* A layout that is read is applied in place, the files' panels staying.
Restored(l, from) ==
    IF from = NoLayout
    THEN [l EXCEPT !.at = [i \in DOMAIN @ |-> IF i \in Tools THEN DefaultPlacement(i)
                                              ELSE IF i = Main THEN At("center", "pinned")
                                              ELSE @[i]]]
    ELSE [l EXCEPT !.at = [i \in DOMAIN @ |-> IF i \in Tools THEN from.at[i]
                                              ELSE IF i = Main THEN At("center", "pinned")
                                              ELSE @[i]],
                   !.active = IF from.active \in Known THEN from.active ELSE @]

\* Another project: until its state is read there is none, and nothing is kept.
OpenProject(p) ==
    /\ switches < MaxSwitches /\ p # scope /\ switches' = switches + 1
    /\ scope' = p /\ loading' = TRUE /\ applied' = FALSE
    /\ leftAs' = IF loading THEN leftAs ELSE [leftAs EXCEPT ![scope] = Kept(layout).at]
    /\ Becomes(IF applied THEN Restored(layout, NoLayout) ELSE layout)
    /\ Product /\ UNCHANGED extra

ProjectRead ==
    /\ loading /\ loading' = FALSE /\ applied' = (saved[scope] # NoLayout)
    /\ Product /\ UNCHANGED <<extra, scope, leftAs, switches>>
    /\ Becomes(IF saved[scope] = NoLayout THEN layout ELSE Restored(layout, saved[scope]))

-----------------------------------------------------------------------------
ShellInit ==
    /\ layout = [at |-> [i \in Tools \cup {Main} |-> IF i = Main THEN At("center", "pinned")
                                                     ELSE DefaultPlacement(i)],
                 order |-> <<Main>> \o SetToSeq(Tools), active |-> Main]
    /\ extra = {} /\ lastActive = [a \in Tabbed |-> NoPanel] /\ dragged = NoPanel
    /\ scope \in Projects /\ loading = FALSE /\ applied = FALSE
    /\ saved = [p \in Projects |-> IF p = scope THEN Kept(layout) ELSE NoLayout]
    /\ leftAs = [p \in Projects |-> NoLayout]
    /\ moves = 0 /\ switches = 0

Panels == Tools \cup Files

PanelNext(id) ==
    /\ id \in Drawn
    /\ \/ StripTab(id) \/ GroupTab(id) \/ CenterTab(id) \/ PinButton(id) \/ FloatButton(id)
       \/ CloseButton(id) \/ StartDrag(id) \/ MoveFloat(id)
       \/ \E a \in Edges \cup {"center"} : DockFloat(id, a)
       \/ \E after \in BOOLEAN : DropOnTab(id, after)
FileNext(f) == FileOpens(f) \/ FileCloses(f)

ShellNext ==
    \/ \E on \in Panels \cup {NoPanel} : Press(on)
    \/ \E id \in Panels : PanelNext(id)
    \/ \E t \in Tools : Show(t) \/ Hide(t)
    \/ \E a \in Edges \cup {"center"} : DropOn(a)
    \/ DropFree
    \/ \E f \in Files : FileNext(f)
    \/ \E p \in Projects : OpenProject(p)
    \/ ProjectRead

ShellSpec == ShellInit /\ [][ShellNext]_shellVars

-----------------------------------------------------------------------------
(* Properties *)

ShellTypeOK ==
    /\ extra \subseteq Files /\ dragged \in Panels \cup {NoPanel}
    /\ Range(layout.order) = DOMAIN layout.at /\ IsInjective(layout.order)
    /\ \A id \in DOMAIN layout.at : layout.at[id].anchor \in Edges \cup {"center", "float"}

CenterIsShown == layout.active \in Known /\ InCenter(layout, layout.active)

\* The center always shows one of its panels, and goes on to: closing, docking
\* elsewhere or floating the one shown brings up another (useAnchorQueries.ts:42,
\* usePanelMoves.ts:31). Only two things may leave it empty: another project's
\* layout, and dropping the tab of a file that was closed meanwhile.
StaysShown ==
    CenterIsShown => \/ CenterIsShown' \/ scope' # scope \/ loading' # loading
                     \/ dragged \notin Known \cup {NoPanel}

\* A project's tool windows come back where they were when it was left, whatever
\* was done in others and while its state was read (useLayoutState.ts:59).
ReturnsAsLeft ==
    loading /\ ~loading' /\ leftAs[scope] # NoLayout
        => Kept(layout').at = leftAs[scope]

=============================================================================
