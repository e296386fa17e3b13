------------------------------ MODULE PointerDrags ------------------------------
(* What is dragged with the pointer between parts of the window: an item onto   *)
(* a drop target (ui/src/infra/dnd), a floating panel by its title bar onto the *)
(* dock's guides (FloatingPanel, DockGuides), a docked panel's edge             *)
(* (ToolWindowDock's ResizeHandle). Each drag listens on the window itself, so  *)
(* what it began on may be gone, off, or of another size before it ends.        *)
EXTENDS Integers, Sequences, FiniteSets, SequencesExt

CONSTANTS Points,     \* where the pointer can be, [x, y]
          Grabbed,      \* where a press begins
          Threshold,  \* DRAG_THRESHOLD
          Targets, Under, Accepting, \* drop targets; [point -> those under it, innermost first]; those that take the item
          Frame,      \* the window's body, [left, top, right, bottom]
          GuideSize, GuideStep, Band, \* the dock guides' size and spacing; how near an edge docks
          MinSize, MaxSize, FirstSize, \* of a docked panel
          MaxDragSteps   \* bound

VARIABLES
    item,       \* <<>>, or <<[ghost, over]>>: an item's drag
    enabled,    \* the targets that are mounted and on; a target that is not is not registered
    hints,      \* the targets that show where the item would go
    switched,   \* the targets switched off while an item was over them
    dropped,    \* the target of the last drop, "" when there was none
    float,      \* the floating panel: open, its spot, its drag's anchor and spot, the guide shown
    docked,     \* where the panel was docked, "" while it floats
    edge,       \* the edge's drag: <<>>, or <<[from, next, frame]>>
    mounted,    \* whether the edge's panel is shown
    size,       \* the panel's remembered size
    grip,       \* what is there to drag: "item", "panel" or "edge"
    pointer,    \* where the pointer was last
    dragSteps

itemVars == <<item, enabled, hints, switched, dropped>>
floatVars == <<float, docked>>
edgeVars == <<edge, mounted, size>>
dragVars == <<itemVars, floatVars, edgeVars, grip, pointer, dragSteps>>

Abs(n) == IF n < 0 THEN -n ELSE n
Least(a, b) == IF a < b THEN a ELSE b
Counted == dragSteps < MaxDragSteps /\ dragSteps' = dragSteps + 1 /\ grip' = grip
To(p) == pointer' = p

------------------------------------------------------------------------------
(* An item.                                                                     *)

\* The innermost registered target that takes the item.
TargetAt(p) ==
    LET taking == SelectSeq(Under[p], LAMBDA t : t \in enabled /\ t \in Accepting)
    IN  IF taking = <<>> THEN "" ELSE Head(taking)

\* A target that was left is told; one that was switched off meanwhile cannot be told.
Left(over, next) == IF over # next THEN hints \ ({over} \cap enabled) ELSE hints

BeginItem ==
    /\ grip = "item" /\ item = <<>> /\ Counted
    /\ item' = <<[ghost |-> FALSE, over |-> ""]>> /\ dropped' = ""
    /\ To(Grabbed) /\ UNCHANGED <<enabled, hints, switched, floatVars, edgeVars>>

\* The first few pixels are still a click.
MoveItem(p) ==
    /\ item # <<>> /\ Counted /\ To(p)
    /\ IF ~item[1].ghost /\ Abs(p.x - Grabbed.x) + Abs(p.y - Grabbed.y) < Threshold
       THEN UNCHANGED <<item, hints>>
       ELSE LET next == TargetAt(p)
            IN  /\ item' = <<[ghost |-> TRUE, over |-> next]>>
                /\ hints' = Left(item[1].over, next) \cup ({next} \ {""})
    /\ UNCHANGED <<enabled, switched, dropped, floatVars, edgeVars>>

\* Released: the target under the pointer now gets it. A target that gets it takes its hint away.
DropItem(p) ==
    /\ item # <<>> /\ Counted /\ To(p)
    /\ item' = <<>>
    /\ dropped' = IF item[1].ghost THEN TargetAt(p) ELSE ""
    /\ hints' = Left(item[1].over, "") \ {dropped'}
    /\ UNCHANGED <<enabled, switched, floatVars, edgeVars>>

\* Escape, once it is a drag, or the pointer was taken away.
CancelItem(escape) ==
    /\ item # <<>> /\ Counted /\ (escape => item[1].ghost)
    /\ item' = <<>> /\ dropped' = ""
    /\ hints' = Left(item[1].over, "")
    /\ UNCHANGED <<enabled, switched, floatVars, edgeVars, pointer>>

\* A target is taken off (a surface that cannot take items for now) or put on; unmounted, its hint goes with it.
SwitchTarget(t, unmounts) ==
    /\ grip = "item" /\ Counted /\ (unmounts => t \in enabled)
    /\ enabled' = IF t \in enabled THEN enabled \ {t} ELSE enabled \cup {t}
    /\ hints' = IF unmounts THEN hints \ {t} ELSE hints
    /\ switched' = IF t \in enabled /\ ~unmounts /\ t \in hints THEN switched \cup {t} ELSE switched
    /\ UNCHANGED <<item, dropped, floatVars, edgeVars, pointer>>

------------------------------------------------------------------------------
(* A floating panel.                                                            *)

Guides(f) == LET cx == (f.left + f.right) \div 2  cy == (f.top + f.bottom) \div 2
             IN  [center |-> [x |-> cx, y |-> cy], left |-> [x |-> cx - GuideStep, y |-> cy],
                  right |-> [x |-> cx + GuideStep, y |-> cy], bottom |-> [x |-> cx, y |-> cy + GuideStep]]

\* A guide under the pointer, else the edge it is near: left, right and bottom, in this order.
DockTargetAt(f, p) ==
    LET on == {a \in DOMAIN Guides(f) : /\ 2 * Abs(p.x - Guides(f)[a].x) <= GuideSize
                                        /\ 2 * Abs(p.y - Guides(f)[a].y) <= GuideSize}
        band == Least(Band, Least((f.right - f.left) \div 4, (f.bottom - f.top) \div 4))
    IN  IF on # {} THEN CHOOSE a \in on : TRUE
        ELSE IF p.x < f.left \/ p.x > f.right \/ p.y < f.top \/ p.y > f.bottom THEN ""
        ELSE IF p.x - f.left < band THEN "left"
        ELSE IF f.right - p.x < band THEN "right"
        ELSE IF f.bottom - p.y < band THEN "bottom" ELSE ""

Spot(p) == [x |-> float.from.x + p.x - Grabbed.x, y |-> float.from.y + p.y - Grabbed.y]

\* The title bar is pressed: the body is measured once, as it is now.
PressTitle ==
    /\ grip = "panel" /\ float.open /\ ~float.dragged /\ Counted /\ To(Grabbed)
    /\ float' = [float EXCEPT !.dragged = TRUE, !.from = float.at, !.shown = float.at,
                              !.frame = float.body]
    /\ UNCHANGED <<docked, itemVars, edgeVars>>

MoveTitle(p) ==
    /\ float.dragged /\ Counted /\ To(p)
    /\ float' = [float EXCEPT !.shown = Spot(p), !.hover = DockTargetAt(float.frame, p)]
    /\ UNCHANGED <<docked, itemVars, edgeVars>>

\* Released on a guide it is docked there, elsewhere it floats on where it is. A panel
\* closed meanwhile is still listened for, and is docked all the same.
DropTitle(p) ==
    /\ float.dragged /\ Counted /\ To(p)
    /\ LET guide == DockTargetAt(float.frame, p)
       IN  /\ docked' = guide
           /\ float' = [float EXCEPT !.dragged = FALSE, !.hover = "", !.open = float.open /\ guide = "",
                                     !.at = IF guide = "" THEN Spot(p) ELSE float.at]
    /\ UNCHANGED <<itemVars, edgeVars>>

CancelTitle ==
    /\ float.dragged /\ Counted
    /\ float' = [float EXCEPT !.dragged = FALSE, !.hover = ""]
    /\ UNCHANGED <<docked, itemVars, edgeVars, pointer>>

\* The window's own size, and the panel's command to close, at any time.
ResizeWindow(f) ==
    /\ grip = "panel" /\ f # float.body /\ Counted /\ float' = [float EXCEPT !.body = f]
    /\ UNCHANGED <<docked, itemVars, edgeVars, pointer>>

CloseFloat ==
    /\ grip = "panel" /\ float.open /\ Counted /\ float' = [float EXCEPT !.open = FALSE]
    /\ UNCHANGED <<docked, itemVars, edgeVars, pointer>>

------------------------------------------------------------------------------
(* A docked panel's edge.                                                       *)

Fit(n) == IF n < MinSize THEN MinSize ELSE IF n > MaxSize THEN MaxSize ELSE n

\* A press ends the drag before it, with the frame it asked for.
PressEdge ==
    /\ grip = "edge" /\ mounted /\ Counted /\ To(Grabbed)
    /\ edge' = <<[from |-> size, next |-> size, frame |-> FALSE]>>
    /\ UNCHANGED <<mounted, size, itemVars, floatVars>>

\* The size follows once a frame.
MoveEdge(p) ==
    /\ edge # <<>> /\ Counted /\ To(p)
    /\ edge' = <<[edge[1] EXCEPT !.next = edge[1].from + p.x - Grabbed.x, !.frame = TRUE]>>
    /\ UNCHANGED <<mounted, size, itemVars, floatVars>>

EdgeFrame ==
    /\ edge # <<>> /\ edge[1].frame
    /\ size' = Fit(edge[1].next) /\ edge' = <<[edge[1] EXCEPT !.frame = FALSE]>>
    /\ UNCHANGED <<mounted, itemVars, floatVars, grip, pointer, dragSteps>>

\* The last size is taken at once, and no frame is left to come.
ReleaseEdge ==
    /\ edge # <<>> /\ Counted
    /\ size' = Fit(edge[1].next) /\ edge' = <<>>
    /\ UNCHANGED <<mounted, itemVars, floatVars, pointer>>

\* The panel is closed or comes back: an edge that is gone resizes nothing.
SwitchPanel ==
    /\ grip = "edge" /\ Counted /\ mounted' = ~mounted /\ edge' = <<>>
    /\ UNCHANGED <<size, itemVars, floatVars, pointer>>

------------------------------------------------------------------------------
DragsInit ==
    /\ item = <<>> /\ enabled = Targets /\ hints = {} /\ switched = {} /\ dropped = ""
    /\ float = [open |-> TRUE, at |-> Grabbed, dragged |-> FALSE, from |-> Grabbed, shown |-> Grabbed,
                frame |-> Frame, body |-> Frame, hover |-> ""]
    /\ grip \in {"item", "panel", "edge"}
    /\ docked = "" /\ edge = <<>> /\ mounted = TRUE /\ size = FirstSize /\ pointer = Grabbed /\ dragSteps = 0

Narrow == [Frame EXCEPT !.right = @ - GuideStep]

DragsNext ==
    \/ BeginItem \/ CancelItem(TRUE) \/ CancelItem(FALSE)
    \/ \E p \in Points : MoveItem(p) \/ DropItem(p)
    \/ \E t \in Targets, unmounts \in BOOLEAN : SwitchTarget(t, unmounts)
    \/ PressTitle \/ CancelTitle \/ CloseFloat
    \/ \E p \in Points : MoveTitle(p) \/ DropTitle(p)
    \/ \E f \in {Frame, Narrow} : ResizeWindow(f)
    \/ PressEdge \/ EdgeFrame \/ ReleaseEdge \/ SwitchPanel
    \/ \E p \in Points : MoveEdge(p)

DragsSpec == DragsInit /\ [][DragsNext]_dragVars

------------------------------------------------------------------------------
(* Only the target under the pointer shows where the item would go: whatever    *)
(* targets were crossed, nested, unmounted or put on meanwhile, none shows it   *)
(* after the item left it or the drag ended, but one switched off under it.     *)
HintsEnd == \A t \in hints : t \in switched \/ (item # <<>> /\ item[1].over = t)

(* What is let go where it was shown to go, goes there: the panel is docked at  *)
(* the guide that was shown, or floats where it was drawn, though the window    *)
(* was resized during the drag (FloatingPanel.tsx measures it as it begins);    *)
(* an edge's panel has the size the pointer gave it, though its frame was not   *)
(* drawn yet.                                                                   *)
DropsWhereShown ==
    /\ float.dragged /\ ~float'.dragged /\ pointer' = pointer /\ float.shown = Spot(pointer) /\ docked' # docked =>
           docked' = float.hover
    /\ edge # <<>> /\ edge' = <<>> /\ mounted' = mounted => size' = Fit(edge[1].from + pointer.x - Grabbed.x)

==============================================================================
