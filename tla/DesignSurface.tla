----------------------------- MODULE DesignSurface -----------------------------
(* Selecting, dragging and resizing on a design surface                       *)
(* (ui/src/widgets/DesignSurface), along one axis: x and y are treated alike. *)
(* Lengths are in half units, so that centers are whole numbers. The surface  *)
(* only reports what was dragged; the product applies it, and may change its  *)
(* items while a drag is under way.                                           *)
EXTENDS Integers, Sequences, FiniteSets, Functions, FiniteSetsExt

CONSTANTS Order,       \* the items, in paint order
          Parent,      \* of each item, NoItem at the top
          NoItem,
          Containers,
          Placed,      \* of each item: "free", "flow" or "fixed"
          FirstPlaces, \* of each item: [at, len] when the document is opened
          Size,        \* of the surface
          Grid, Threshold,
          MaxDrags     \* bound: drags

\* Lengths are half units, so even ones are what the program can hold.
Boxes == [at : Int, len : Int]

ASSUME SurfaceAssumption ==
    /\ IsFiniteSet(DOMAIN FirstPlaces) /\ FirstPlaces \in [DOMAIN FirstPlaces -> Boxes]
    /\ Order \in Seq(DOMAIN FirstPlaces) /\ Grid \in Nat \ {0} /\ Threshold \in Nat /\ Size \in Nat

VARIABLES
    items,     \* the items there are, with their places
    selection, \* the primary first
    drag,      \* the drag under way
    preview,   \* the change it would make
    target,    \* the container shown as a drop's
    drags,     \* bound
    settled    \* the last drag's end: what it committed

surfaceVars == <<items, selection, drag, preview, target, drags, settled>>

NoDrag == [type |-> "none"]
NoChange == [kind |-> "none"]
Points == 0..Size

SurfaceInit ==
    /\ items = FirstPlaces /\ selection = <<>> /\ drag = NoDrag /\ preview = NoChange
    /\ target = NoItem /\ drags = 0 /\ settled = NoChange

There == DOMAIN items
InPlace(place, p) == p >= place.at /\ p <= place.at + place.len

\* An item is within itself and within what holds it.
IsWithin(i, j) == i = j \/ Parent[i] = j \/ (Parent[i] # NoItem /\ Parent[Parent[i]] = j)

\* The topmost item at a point, of those not skipped.
HitTest(p, skipped) ==
    LET hit == {k \in DOMAIN Order : /\ Order[k] \in There \ skipped
                                     /\ InPlace(items[Order[k]], p)}
    IN  IF hit = {} THEN NoItem ELSE Order[Max(hit)]

\* Where a drop would go: never into what is moving.
ContainerAt(p, moving) ==
    HitTest(p, (There \ Containers) \cup {i \in There : \E m \in moving : IsWithin(i, m)})

-----------------------------------------------------------------------------
(* Snapping *)

Abs(n) == IF n < 0 THEN -n ELSE n
Rounded(v) == ((2 * v + Grid) \div (2 * Grid)) * Grid
SnapEdges(place) == {place.at, place.at + place.len \div 2, place.at + place.len}

\* The lines an item snaps to: its container's and its siblings'.
SnapTo(i, moving) ==
    UNION {SnapEdges(items[j]) : j \in
           {k \in There : k = Parent[i] \/ (Parent[k] = Parent[i] /\ k \notin moving
                                            /\ Placed[k] # "fixed")}}

\* The smallest shift that puts an edge on a line; 0 lines near enough is none.
Shifts(edges, lines) == {l - e : l \in lines, e \in edges}
Near(edges, lines) == {s \in Shifts(edges, lines) : Abs(s) <= Threshold}
Nearest(edges, lines) ==
    CHOOSE s \in Near(edges, lines) : \A r \in Near(edges, lines) : Abs(s) <= Abs(r)

SnapMove(box, dx, i, moving, free) ==
    LET moved == [box EXCEPT !.at = @ + dx]
        lines == SnapTo(i, moving)
    IN  IF ~free THEN dx
        ELSE IF Near(SnapEdges(moved), lines) # {} THEN dx + Nearest(SnapEdges(moved), lines)
        ELSE Rounded(box.at + dx) - box.at

SnapEdge(value, lines, snap) ==
    IF ~snap THEN value
    ELSE IF Near({value}, lines) # {} THEN value + Nearest({value}, lines)
    ELSE Rounded(value)

\* Mutant: an edge dragged past the other one pushes it.
Resized_Pushes(origin, handle, dx, i, snap) ==
    LET lines == SnapTo(i, {i})
        left == IF handle = "w" THEN SnapEdge(origin.at + dx, lines, snap) ELSE origin.at
        right == IF handle = "e" THEN SnapEdge(origin.at + origin.len + dx, lines, snap)
                                 ELSE origin.at + origin.len
    IN  IF right - left < 2 THEN [at |-> left, len |-> 2] ELSE [at |-> left, len |-> right - left]

\* The dragged edge moves, and stops a unit before the other one.
Resized(origin, handle, dx, i, snap) ==
    LET lines == SnapTo(i, {i})
        left == IF handle = "w" THEN SnapEdge(origin.at + dx, lines, snap) ELSE origin.at
        right == IF handle = "e" THEN SnapEdge(origin.at + origin.len + dx, lines, snap)
                                 ELSE origin.at + origin.len
    IN  IF right - left >= 2 THEN [at |-> left, len |-> right - left]
        ELSE IF handle = "w" THEN [at |-> right - 2, len |-> 2]
        ELSE [at |-> left, len |-> 2]

-----------------------------------------------------------------------------
(* The pointer *)

Handles(i) == IF Placed[i] = "free" THEN {"e", "w"} ELSE {"e"}

\* On a handle of the primary selection.
GrabHandle(handle, p) ==
    /\ drag = NoDrag /\ drags < MaxDrags /\ selection # <<>> /\ selection[1] \in There
    /\ handle \in Handles(selection[1])
    /\ drags' = drags + 1 /\ settled' = NoChange
    /\ drag' = [type |-> "resize", start |-> p, item |-> selection[1], handle |-> handle,
                origin |-> items[selection[1]]]
    /\ UNCHANGED <<items, selection, preview, target>>

\* Over nothing, or over what never moves: a rubber band.
BeginMarquee(p, additive) ==
    /\ drag = NoDrag /\ drags < MaxDrags
    /\ LET hit == HitTest(p, {}) IN
       /\ hit \notin {i \in There : Placed[i] # "fixed"}
       /\ selection' = IF additive THEN selection ELSE IF hit = NoItem THEN <<>> ELSE <<hit>>
    /\ drags' = drags + 1 /\ settled' = NoChange
    /\ drag' = [type |-> "marquee", start |-> p, base |-> IF additive THEN selection ELSE <<>>]
    /\ UNCHANGED <<items, preview, target>>

\* What is selected by pressing on an item.
Pressed(hit, additive) ==
    IF additive
    THEN IF hit \in Range(selection) THEN SelectSeq(selection, LAMBDA i : i # hit)
                                     ELSE <<hit>> \o selection
    ELSE IF hit \in Range(selection) THEN selection ELSE <<hit>>

\* What is dragged: not what its container takes along.
Dragged(next) ==
    {i \in Range(next) \cap There :
        Placed[i] # "fixed" /\ ~\E j \in Range(next) : j # i /\ IsWithin(i, j)}

BeginMove(p, additive) ==
    /\ drag = NoDrag /\ drags < MaxDrags
    /\ LET hit == HitTest(p, {}) next == Pressed(hit, additive) IN
       /\ hit # NoItem /\ Placed[hit] # "fixed"
       /\ selection' = next
       /\ drag' = IF hit \in Range(next)
                  THEN [type |-> "move", start |-> p, ids |-> Dragged(next),
                        origin |-> [i \in Dragged(next) |-> items[i]], moved |-> FALSE,
                        click |-> hit, additive |-> additive]
                  ELSE NoDrag
    /\ drags' = drags + 1 /\ settled' = NoChange
    /\ UNCHANGED <<items, preview, target>>

\* The outermost of what the rubber band holds joins the selection.
DragMarquee(p) ==
    /\ drag.type = "marquee" /\ p # drag.start
    /\ LET box == [at |-> Min({p, drag.start}), len |-> Abs(p - drag.start)]
           inside == {i \in There : /\ Placed[i] # "fixed" /\ InPlace(box, items[i].at)
                                    /\ InPlace(box, items[i].at + items[i].len)}
           outer == {i \in inside : ~\E j \in inside : j # i /\ IsWithin(i, j)}
       IN selection' = drag.base \o SelectSeq(Order, LAMBDA i : i \in outer /\ i \notin Range(drag.base))
    /\ UNCHANGED <<items, drag, preview, target, drags, settled>>

\* The first dragged item leads; without it the handler throws, and nothing moves.
Lead == CHOOSE i \in drag.ids : \A j \in drag.ids :
            \E a, b \in DOMAIN selection : selection[a] = i /\ selection[b] = j /\ a <= b

DragMove(p, alt) ==
    /\ drag.type = "move" /\ drag.ids # {} /\ (drag.moved \/ p # drag.start)
    /\ drag.ids \subseteq Range(selection) /\ Lead \in There
    /\ LET at == Min({drag.origin[i].at : i \in drag.ids})
           end == Max({drag.origin[i].at + drag.origin[i].len : i \in drag.ids})
           free == Placed[Lead] = "free"
           dx == IF alt THEN p - drag.start
                 ELSE SnapMove([at |-> at, len |-> end - at], p - drag.start, Lead, drag.ids, free)
           over == ContainerAt(p, drag.ids)
       IN /\ target' = IF over # Parent[Lead] \/ ~free THEN over ELSE NoItem
          /\ preview' = [kind |-> "move", ids |-> drag.ids, target |-> over,
                         places |-> [i \in drag.ids |-> [drag.origin[i] EXCEPT !.at = @ + dx]]]
    /\ drag' = [drag EXCEPT !.moved = TRUE]
    /\ UNCHANGED <<items, selection, drags, settled>>

DragHandle(p, alt) ==
    /\ drag.type = "resize" /\ drag.item \in There
    /\ preview' = [kind |-> "resize", item |-> drag.item, handle |-> drag.handle,
                   place |-> Resized(drag.origin, drag.handle, p - drag.start, drag.item, ~alt)]
    /\ UNCHANGED <<items, selection, drag, target, drags, settled>>

\* The pointer is let go of (done), or the drag cancelled or taken away. A plain
\* click on one of several selected items makes it the primary.
EndDrag(done) ==
    /\ drag # NoDrag
    /\ drag' = NoDrag /\ preview' = NoChange /\ target' = NoItem
    /\ selection' = IF drag.type = "move" /\ ~drag.moved /\ ~drag.additive /\ Len(selection) > 1
                    THEN <<drag.click>> \o SelectSeq(selection, LAMBDA i : i # drag.click)
                    ELSE selection
    /\ settled' = IF done /\ drag.type # "marquee" THEN preview ELSE NoChange
    /\ UNCHANGED <<items, drags>>

\* What was committed is applied by the product.
Applied ==
    /\ settled # NoChange
    /\ items' = IF settled.kind = "resize"
                THEN [i \in There |-> IF i = settled.item THEN settled.place ELSE items[i]]
                ELSE [i \in There |-> IF i \in settled.ids THEN settled.places[i] ELSE items[i]]
    /\ settled' = NoChange
    /\ UNCHANGED <<selection, drag, preview, target, drags>>

\* The document changes by itself, and what it holds goes with an item.
ItemGoes(i) ==
    /\ i \in There /\ Placed[i] # "fixed"
    /\ items' = Restrict(items, {j \in There : ~IsWithin(j, i)})
    /\ UNCHANGED <<selection, drag, preview, target, drags, settled>>

\* The context menu selects what it is opened on.
OpenMenu(p) ==
    /\ drag = NoDrag
    /\ LET hit == HitTest(p, {}) IN
       /\ hit # NoItem /\ hit \notin Range(selection)
       /\ selection' = <<hit>>
    /\ UNCHANGED <<items, drag, preview, target, drags, settled>>

SurfaceNext ==
    \/ \E p \in Points, b \in BOOLEAN :
          BeginMarquee(p, b) \/ BeginMove(p, b) \/ DragMove(p, b) \/ DragHandle(p, b)
    \/ \E p \in Points : OpenMenu(p) \/ DragMarquee(p)
    \/ \E p \in Points, handle \in {"e", "w"} : GrabHandle(handle, p)
    \/ \E done \in BOOLEAN : EndDrag(done)
    \/ Applied
    \/ \E i \in Range(Order) : ItemGoes(i)

SurfaceSpec == SurfaceInit /\ [][SurfaceNext]_surfaceVars

-----------------------------------------------------------------------------
(* Nothing is dropped into itself or into what it holds, and no item is moved *)
(* both by itself and with its container, whatever was selected.              *)
MovesAsAWhole ==
    preview.kind = "move" =>
        /\ \A i, j \in preview.ids : i # j => ~IsWithin(i, j)
        /\ \A i \in preview.ids : preview.target # NoItem => ~IsWithin(preview.target, i)

(* Resizing moves the dragged edge alone and never turns an item inside out,  *)
(* with the snapping to lines and to the grid.                                *)
ResizeHolds ==
    preview.kind = "resize" =>
        /\ preview.place.len >= 2
        /\ preview.handle = "e" => preview.place.at = drag.origin.at
        /\ preview.handle = "w" =>
               preview.place.at + preview.place.len = drag.origin.at + drag.origin.len

DesignHolds == MovesAsAWhole /\ ResizeHolds
=============================================================================
