------------------------------ MODULE TreeView ------------------------------
(* A tree of rows (widgets/Tree, FileTree): what is open and selected, the    *)
(* keyboard's row, dragging rows onto a folder, renaming one in place, while   *)
(* the nodes themselves come and go: files change on disk, a search narrows    *)
(* them. A press keeps the nodes and the selection of its moment.              *)
EXTENDS Integers, Sequences, FiniteSets, SequencesExt

CONSTANTS Order, Branches, Openable, Above, Found, NoNode, MaxSteps

VARIABLES
    shown,     \* the nodes there are
    searched,  \* only what a search found is listed
    expandedIds, chosen, activeId, lastAnchorRef, focused,
    drag, suppressClick,
    edit, renamed,  \* the row being renamed; how often its box reported an end
    treeMenu, steps

treeViewVars == <<shown, searched, expandedIds, chosen, activeId, lastAnchorRef, focused,
                  drag, suppressClick, edit, renamed, treeMenu, steps>>

Ids == ToSet(Order)
PositionOf(id) == CHOOSE i \in DOMAIN Order : Order[i] = id

\* A node and what it is under.
Lineage[id \in Ids \union {NoNode}] ==
    IF id = NoNode THEN {} ELSE {id} \union Lineage[Above[id]]
Under(id, a) == a \in Lineage[id]

\* filterFileTree(): what matches and what leads to it; a folder that matches
\* keeps all of its contents when nothing under it does.
Kept(set) == {id \in set : \E hit \in Found \cap set :
                 Under(hit, id) \/ (Under(id, hit) /\ ~\E other \in Found \cap set :
                                       other # hit /\ Under(other, hit))}
Nodes == IF searched THEN Kept(shown) ELSE shown
\* What leads to a match is opened to show it, over what the user left open.
Expanded == IF searched THEN {id \in Nodes : \E hit \in Found \cap Nodes : hit # id /\ Under(hit, id)}
            ELSE expandedIds

Listed(id, set, open) == id \in set /\ Lineage[id] \ {id} \subseteq open
RowsOf(set, open) == SelectSeq(Order, LAMBDA id : Listed(id, set, open))
Flat == RowsOf(Nodes, Expanded)
IsRow(id) == id \in Nodes /\ Listed(id, Nodes, Expanded)

\* The rows from one to another; from the first one when the anchor is gone.
RangeIds(a, b) ==
    LET flat == Flat
        at(id) == IF id \in ToSet(flat) THEN PositionOf(id) ELSE PositionOf(flat[1])
    IN  {id \in ToSet(flat) : \/ at(a) <= PositionOf(id) /\ PositionOf(id) <= at(b)
                              \/ at(b) <= PositionOf(id) /\ PositionOf(id) <= at(a)}

NoDrag == [phase |-> "none", ids |-> {}, nodes |-> {}, target |-> NoNode, escaped |-> FALSE]
NoEdit == [id |-> NoNode, done |-> FALSE]

TreeInit ==
    /\ shown = Ids /\ searched = FALSE /\ expandedIds \in {{Order[1]}, Branches} /\ chosen = {}
    /\ activeId = Flat[1] /\ lastAnchorRef = NoNode /\ focused = NoNode
    /\ drag = NoDrag /\ suppressClick = FALSE /\ edit = NoEdit /\ renamed = 0
    /\ treeMenu = NoNode /\ steps = 0

Step == steps < MaxSteps /\ steps' = steps + 1

\* The keyboard's row: the first one, or the first selected one, once the row it
\* had is no longer listed.
Settled(id) ==
    IF Listed(id, Nodes', Expanded') THEN activeId' = id
    ELSE LET rows == RowsOf(Nodes', Expanded')
             selected == SelectSeq(rows, LAMBDA r : r \in chosen')
         IN  activeId' = CASE selected # <<>> -> selected[1]
                           [] selected = <<>> /\ rows # <<>> -> rows[1]
                           [] OTHER -> id

SelectNode(id, toggle, range) ==
    IF range /\ lastAnchorRef # NoNode
    THEN /\ chosen' = (IF toggle THEN chosen ELSE {}) \union RangeIds(lastAnchorRef, id)
         /\ UNCHANGED lastAnchorRef
    ELSE /\ chosen' = IF toggle THEN (chosen \union {id}) \ (chosen \intersect {id}) ELSE {id}
         /\ lastAnchorRef' = id

ToggleOpen(id) ==
    expandedIds' = (expandedIds \union {id}) \ (expandedIds \intersect {id})

\* A click on a row: also the one that follows the release of a press on it,
\* swallowed after a drag.
Click(id, toggle, range) ==
    /\ drag = NoDrag /\ ~suppressClick /\ IsRow(id) /\ Step
    /\ SelectNode(id, toggle, range)
    /\ IF id \in Branches \ Openable /\ ~range /\ ~toggle THEN ToggleOpen(id)
       ELSE UNCHANGED expandedIds
    /\ UNCHANGED <<shown, searched, drag, suppressClick, edit, renamed, treeMenu>>
    /\ focused' = id /\ Settled(id)

\* A chevron of a row that is also an item opens it without selecting it.
ClickChevron(id) ==
    /\ IsRow(id) /\ id \in Openable /\ drag = NoDrag /\ Step /\ ToggleOpen(id)
    /\ UNCHANGED <<shown, searched, chosen, lastAnchorRef, drag, suppressClick,
                   edit, renamed, treeMenu, focused>>
    /\ Settled(activeId)

KeyUnchanged == UNCHANGED <<shown, searched, drag, suppressClick, edit, renamed, treeMenu>>

\* Arrows, Home and End, page keys, type-ahead: another row becomes the
\* keyboard's; it is selected unless only the focus moves.
MoveTo(id, focusOnly, range) ==
    /\ focused # NoNode /\ edit.id # focused /\ Step /\ IsRow(focused) /\ IsRow(id)
    /\ IF focusOnly THEN UNCHANGED <<chosen, lastAnchorRef>> ELSE SelectNode(id, FALSE, range)
    /\ focused' = id /\ UNCHANGED expandedIds /\ KeyUnchanged /\ Settled(id)

\* Left and Right, Enter, + and -: the branch opens or closes.
KeyOpens(open) ==
    /\ focused # NoNode /\ IsRow(focused) /\ edit.id # focused /\ focused \in Branches
    /\ (focused \in Expanded) # open /\ Step
    /\ expandedIds' = IF open THEN expandedIds \union {focused} ELSE expandedIds \ {focused}
    /\ UNCHANGED <<chosen, lastAnchorRef, focused>> /\ KeyUnchanged /\ Settled(activeId)

\* The space bar, Ctrl+A and `*`.
KeySelects(id, toggle) ==
    /\ id = focused /\ id # NoNode /\ IsRow(id) /\ edit.id # id /\ Step
    /\ SelectNode(id, toggle, FALSE)
    /\ UNCHANGED <<expandedIds, focused>> /\ KeyUnchanged /\ Settled(activeId)

SelectAll ==
    /\ focused # NoNode /\ IsRow(focused) /\ edit.id # focused /\ Step
    /\ chosen' = ToSet(Flat)
    /\ UNCHANGED <<expandedIds, lastAnchorRef, focused>> /\ KeyUnchanged /\ Settled(activeId)

ExpandAllUnder ==
    /\ focused # NoNode /\ IsRow(focused) /\ edit.id # focused /\ Step
    /\ expandedIds' = expandedIds \union {id \in Branches \cap Nodes : Under(id, focused)}
    /\ UNCHANGED <<chosen, lastAnchorRef, focused>> /\ KeyUnchanged /\ Settled(activeId)

\* Dragging. A press remembers what would be moved.
Press(id) ==
    /\ drag = NoDrag /\ IsRow(id) /\ edit.id # id /\ Step
    /\ drag' = [NoDrag EXCEPT !.phase = "pressed", !.nodes = Nodes,
                              !.ids = IF id \in chosen THEN chosen ELSE {id}]
    /\ UNCHANGED <<shown, searched, expandedIds, chosen, lastAnchorRef, focused,
                   suppressClick, edit, renamed, treeMenu>>
    /\ Settled(activeId)

\* The folder a drop on a row means: the row, or the nearest one above it that
\* takes drops; not where all of it is, and nothing that is moved.
RECURSIVE DropBranch(_)
DropBranch(id) == IF id = NoNode \/ id \in Branches \ Openable THEN id ELSE DropBranch(Above[id])

TargetAt(id) ==
    LET branch == IF id \in drag.nodes THEN DropBranch(id) ELSE NoNode
    IN  IF \/ \E d \in drag.ids : Under(branch, d)
           \/ \A d \in drag.ids : DropBranch(Above[d]) = branch
        THEN NoNode ELSE branch

DragUnchanged == UNCHANGED <<shown, searched, chosen, lastAnchorRef, focused, edit, renamed, treeMenu>>

DragMove(id) ==
    /\ drag.phase # "none" /\ IsRow(id) /\ Step
    /\ drag' = [drag EXCEPT !.phase = "dragging", !.target = TargetAt(id)]
    /\ DragUnchanged /\ UNCHANGED <<expandedIds, suppressClick>> /\ Settled(activeId)

\* A closed branch hovered for a while opens.
DragOpens ==
    /\ drag.phase = "dragging" /\ drag.target \in (Branches \cap Nodes) \ Expanded /\ Step
    /\ ToggleOpen(drag.target)
    /\ DragUnchanged /\ UNCHANGED <<drag, suppressClick>> /\ Settled(activeId)

\* Escape forgets the drag; the listeners stay until the button is released.
DragEscape ==
    /\ drag.phase # "none" /\ Step
    /\ drag' = [drag EXCEPT !.phase = "pressed", !.target = NoNode, !.escaped = TRUE]
    /\ DragUnchanged /\ UNCHANGED <<expandedIds, suppressClick>> /\ Settled(activeId)

\* The button is released over a row: what is dragged is dropped there; the
\* product moves it, which is not part of the tree.
Release(id) ==
    /\ drag.phase # "none" /\ IsRow(id) /\ Step
    /\ suppressClick' = (drag.phase = "dragging")
    /\ drag' = NoDrag
    /\ DragUnchanged /\ UNCHANGED expandedIds /\ Settled(activeId)

ClickSwallowed ==
    /\ suppressClick /\ suppressClick' = FALSE
    /\ UNCHANGED <<shown, searched, expandedIds, chosen, activeId, lastAnchorRef, focused,
                   drag, edit, renamed, treeMenu, steps>>

\* Renaming in place: the product shows the box on a row, which reports the
\* name typed or that it was given up; the product then takes the box away.
StartRename(id) ==
    /\ edit = NoEdit /\ drag = NoDrag /\ IsRow(id) /\ Step
    /\ edit' = [id |-> id, done |-> FALSE] /\ renamed' = 0 /\ focused' = NoNode
    /\ UNCHANGED <<shown, searched, expandedIds, chosen, lastAnchorRef, drag,
                   suppressClick, treeMenu>>
    /\ Settled(activeId)

\* Mutant: the box does not remember that it has reported.
Finish_Again ==
    /\ edit' = [edit EXCEPT !.done = TRUE]
    /\ renamed' = renamed + 1

Finish ==
    /\ edit' = [edit EXCEPT !.done = TRUE]
    /\ renamed' = IF edit.done THEN renamed ELSE renamed + 1

BoxUnchanged == UNCHANGED <<shown, searched, expandedIds, chosen, lastAnchorRef, drag,
                            suppressClick, treeMenu>>

\* Enter and Escape, then the blur of the box that is taken away.
BoxKey ==
    /\ edit # NoEdit /\ Step /\ Finish /\ UNCHANGED focused /\ BoxUnchanged /\ Settled(activeId)
BoxBlurs(id) ==
    /\ edit # NoEdit /\ IsRow(id) /\ Finish /\ focused' = id /\ BoxUnchanged
    /\ UNCHANGED steps /\ Settled(id)
BoxGoes ==
    /\ edit.done /\ edit' = NoEdit /\ UNCHANGED <<focused, renamed, steps>> /\ BoxUnchanged
    /\ Settled(activeId)

\* A row's menu stays for the node it was opened on.
OpenMenu(id) ==
    /\ treeMenu = NoNode /\ IsRow(id) /\ Step /\ treeMenu' = id
    /\ UNCHANGED <<shown, searched, expandedIds, chosen, lastAnchorRef, focused, drag,
                   suppressClick, edit, renamed>> /\ Settled(activeId)
CloseMenu ==
    /\ treeMenu # NoNode /\ treeMenu' = NoNode /\ UNCHANGED steps
    /\ UNCHANGED <<shown, searched, expandedIds, chosen, lastAnchorRef, focused, drag,
                   suppressClick, edit, renamed>> /\ Settled(activeId)

\* The nodes change: one goes with everything under it, or comes back; a search
\* starts or ends; a row is revealed.
NodesChange(id) ==
    /\ Step
    /\ shown' = IF id \in shown THEN {s \in shown : ~Under(s, id)} ELSE shown \union {id}
    /\ Above[id] \in shown
    /\ focused' = IF focused \in shown' THEN focused ELSE NoNode
    /\ edit' = IF edit.id \in shown' THEN edit ELSE NoEdit
    /\ UNCHANGED <<searched, expandedIds, chosen, lastAnchorRef, drag, suppressClick,
                   renamed, treeMenu>> /\ Settled(activeId)
Search ==
    /\ Step /\ searched' = ~searched
    /\ UNCHANGED <<shown, expandedIds, chosen, lastAnchorRef, drag, suppressClick,
                   renamed, treeMenu>>
    /\ edit' = IF edit.id \in Nodes' THEN edit ELSE NoEdit
    /\ focused' = NoNode /\ Settled(activeId)
Reveal(id) ==
    /\ IsRow(id) /\ Step
    /\ UNCHANGED <<shown, searched, expandedIds, chosen, lastAnchorRef, focused, drag,
                   suppressClick, edit, renamed, treeMenu>> /\ Settled(id)

TreeViewNext ==
    \/ \E id \in Ids : \/ ClickChevron(id) \/ Press(id) \/ DragMove(id) \/ Release(id)
                       \/ StartRename(id) \/ BoxBlurs(id) \/ OpenMenu(id)
                       \/ NodesChange(id) \/ Reveal(id)
    \/ \E id \in Ids, a, b \in BOOLEAN : Click(id, a, b) \/ MoveTo(id, a, b)
    \/ \E id \in Ids, a \in BOOLEAN : KeySelects(id, a)
    \/ \E open \in BOOLEAN : KeyOpens(open)
    \/ SelectAll \/ ExpandAllUnder \/ DragOpens \/ DragEscape \/ ClickSwallowed
    \/ BoxKey \/ BoxGoes \/ CloseMenu \/ Search

TreeViewSpec == TreeInit /\ [][TreeViewNext]_treeViewVars

\* The keyboard is never left without a row: while rows are listed, the one in
\* the tab order is one of them, through searches, closing and removals.
ActiveIsListed == Flat # <<>> => IsRow(activeId)

\* A folder is never dropped into itself or beneath itself, nor any other of
\* the rows dragged with it.
DropsOutside == drag.target # NoNode => \A d \in drag.ids : ~Under(drag.target, d)

\* A box reports one end, whatever keys and blurs come before it is taken away.
RenamedOnce == renamed <= 1

=============================================================================
