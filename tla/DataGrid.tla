------------------------------- MODULE DataGrid -------------------------------
(* The data grid (ui/src/widgets/DataGrid): rows filtered, sorted and grouped, *)
(* an active cell moved with the keyboard, rows selected, a cell edited in     *)
(* place. The product owns the rows and may change them at any time.           *)
EXTENDS Integers, Sequences, FiniteSets, SequencesExt, TLC

CONSTANTS Order,      \* the rows, as the product lists them
          Table,      \* of each row: its value in each column
          Columns,    \* the columns, in their first order
          Editable,   \* the columns that can be edited
          NoColumn, NoRow,
          MaxSteps    \* bound: what the user and the product do

VARIABLES
    rows,       \* the rows there are, with their values
    sort,       \* the columns sorted by, with their directions
    filters,    \* what each column is filtered by
    groupBy, collapsed, \* the columns grouped by; the folded groups
    columnOrder, hiddenColumns,
    activeIndex, activeColumn, \* the active cell
    selected, lastAnchor,      \* the selected rows; where a range starts
    anchorRow,  \* the row that was anchored
    editing,    \* the cell being edited
    edited,     \* edits: [begun, cancelled, written]
    dragKey,    \* the header under the pointer
    steps       \* bound

gridVars == <<rows, sort, filters, groupBy, collapsed, columnOrder, hiddenColumns, activeIndex,
              activeColumn, selected, lastAnchor, anchorRow, editing, edited, dragKey, steps>>

AllColumns == Range(Columns)
NoCell == [row |-> NoRow, column |-> NoColumn]
Every == -1
NoAnchor == 0

-----------------------------------------------------------------------------
(* The rows as the grid shows them *)

\* A blank filter keeps every row.
FilterRows == SelectSeq(Order, LAMBDA r : /\ r \in DOMAIN rows
                                          /\ \A c \in AllColumns : filters[c] \in {Every, rows[r][c]})

Position(r) == CHOOSE i \in DOMAIN Order : Order[i] = r

\* Each column sorted by in turn, then the product's own order.
Comes(r, s) ==
    LET differ == {i \in DOMAIN sort : rows[r][sort[i].key] # rows[s][sort[i].key]}
        i == CHOOSE k \in differ : \A m \in differ : k <= m
    IN  IF differ = {} THEN Position(r) < Position(s)
        ELSE IF sort[i].direction = "asc" THEN rows[r][sort[i].key] < rows[s][sort[i].key]
        ELSE rows[r][sort[i].key] > rows[s][sort[i].key]

SortRows == SortSeq(FilterRows, Comes)

RowItem(r) == [kind |-> "row", row |-> r, path |-> <<>>]
GroupItem(path) == [kind |-> "group", row |-> NoRow, path |-> path]
Values == {rows[r][c] : r \in DOMAIN rows, c \in AllColumns}
Ascending == SortSeq(SetToSeq(Values), <)

RECURSIVE GroupLevel(_, _, _)
GroupLevel(rs, level, path) ==
    IF level > Len(groupBy) THEN [i \in DOMAIN rs |-> RowItem(rs[i])]
    ELSE LET values == Ascending
             Bucket(v) == SelectSeq(rs, LAMBDA r : rows[r][groupBy[level]] = v)
             Group(v) == LET key == Append(path, v)
                         IN  IF Bucket(v) = <<>> THEN <<>>
                             ELSE <<GroupItem(key)>> \o
                                  (IF key \in collapsed THEN <<>>
                                   ELSE GroupLevel(Bucket(v), level + 1, key))
         IN  FlattenSeq([i \in DOMAIN values |-> Group(values[i])])

DisplayItems == GroupLevel(SortRows, 1, <<>>)
VisibleColumns == SelectSeq(columnOrder, LAMBDA c : c \notin Range(groupBy) \cup hiddenColumns)
SortedIndexOf(r) == IF r \in Range(SortRows) THEN CHOOSE i \in DOMAIN SortRows : SortRows[i] = r ELSE 0
IndexOfRow(r) ==
    LET items == DisplayItems
        at == {i \in DOMAIN items : items[i].row = r}
    IN  IF at = {} THEN 0 ELSE CHOOSE i \in at : TRUE
ActiveCellKey ==
    IF activeColumn \in Range(VisibleColumns) THEN activeColumn
    ELSE IF VisibleColumns = <<>> THEN NoColumn ELSE VisibleColumns[1]
AllSelected == SortRows # <<>> /\ Range(SortRows) \subseteq selected

-----------------------------------------------------------------------------
Step == steps < MaxSteps /\ steps' = steps + 1
Clamp(i, n) == IF i < 1 THEN 1 ELSE IF i > n THEN n ELSE i
Focused(i) == i = activeIndex /\ i \in DOMAIN DisplayItems

\* The active cell goes to item i, or as near as there is one.
MoveTo(i, column) ==
    IF DisplayItems = <<>> THEN UNCHANGED <<activeIndex, activeColumn>>
    ELSE /\ activeIndex' = Clamp(i, Len(DisplayItems))
         /\ activeColumn' = IF column = NoColumn THEN activeColumn ELSE column

MoveAcross(i, column, by) ==
    LET keys == VisibleColumns
        at == (IF column \in Range(keys) THEN CHOOSE k \in DOMAIN keys : keys[k] = column ELSE 0) + by
        wraps == IF at > Len(keys) THEN 1 ELSE IF at < 1 THEN -1 ELSE 0
        row == i + wraps
    IN  IF keys = <<>> THEN UNCHANGED <<activeIndex, activeColumn>>
        ELSE IF row \notin DOMAIN DisplayItems THEN MoveTo(i, column)
        ELSE MoveTo(row, CASE wraps = 1 -> keys[1] [] wraps = -1 -> Last(keys) [] OTHER -> keys[at])

\* A click selects one, adds or takes it (toggle), or adds all up to it (range);
\* from an anchor past the last row it throws, and selects nothing.
SelectRow(k, how) ==
    LET id == SortRows[k]
        lo == IF lastAnchor < k THEN lastAnchor ELSE k
        hi == IF lastAnchor < k THEN k ELSE lastAnchor
    IN  IF how = "range" /\ lastAnchor # NoAnchor
        THEN /\ hi <= Len(SortRows)
             /\ selected' = selected \cup {SortRows[i] : i \in lo..hi}
             /\ UNCHANGED <<lastAnchor, anchorRow>>
        ELSE /\ selected' = IF how # "toggle" THEN {id}
                            ELSE IF id \in selected THEN selected \ {id} ELSE selected \cup {id}
             /\ lastAnchor' = k /\ anchorRow' = id

-----------------------------------------------------------------------------
(* Editing in place *)

\* An edit ends once: a late call finds another cell, or none.
EndEdit(cell, ref) == cell = ref

\* The editor goes when its cell is no longer the one edited, and blurs.
Blur(cell, ref) == IF cell # NoCell /\ EndEdit(cell, ref) THEN 1 ELSE 0

StartEdit(r, c) ==
    /\ c \in Editable /\ editing' = [row |-> r, column |-> c]
    /\ edited' = [edited EXCEPT !.begun = @ + 1]

CommitEdit(move) ==
    /\ editing # NoCell /\ EndEdit(editing, editing) /\ Step
    /\ editing' = NoCell
    /\ edited' = [edited EXCEPT !.written = @ + 1 + Blur(editing, NoCell)]
    /\ LET i == IndexOfRow(editing.row)
       IN  CASE move = "down" -> MoveTo(i + 1, editing.column)
             [] move = "next" -> MoveAcross(i, editing.column, 1)
             [] move = "prev" -> MoveAcross(i, editing.column, -1)
             [] OTHER -> MoveTo(i, editing.column)
    /\ UNCHANGED <<rows, sort, filters, groupBy, collapsed, columnOrder, hiddenColumns, selected,
                   lastAnchor, anchorRow, dragKey>>

CancelEdit ==
    /\ editing # NoCell /\ Step
    /\ editing' = NoCell
    /\ edited' = [edited EXCEPT !.cancelled = @ + 1, !.written = @ + Blur(editing, NoCell)]
    /\ MoveTo(IndexOfRow(editing.row), editing.column)
    /\ UNCHANGED <<rows, sort, filters, groupBy, collapsed, columnOrder, hiddenColumns, selected,
                   lastAnchor, anchorRow, dragKey>>

\* Another cell is edited by the product: the first one's editor goes.
EditCell(r, c) ==
    /\ IndexOfRow(r) # 0 /\ Step
    /\ [row |-> r, column |-> c] # editing /\ StartEdit(r, c)
    /\ MoveTo(IndexOfRow(r), c)
    /\ UNCHANGED <<rows, sort, filters, groupBy, collapsed, columnOrder, hiddenColumns, selected,
                   lastAnchor, anchorRow, dragKey>>

-----------------------------------------------------------------------------
(* The keyboard and the mouse, with no edit under way *)

Idle == editing = NoCell /\ Step
Shape == <<rows, sort, filters, groupBy, collapsed, columnOrder, hiddenColumns>>
Pick == <<selected, lastAnchor, anchorRow>>
Edit == <<editing, edited>>

\* Up and Down take the selection along, alone or from the anchor.
Arrow(by, how) ==
    /\ Idle /\ Focused(activeIndex)
    /\ MoveTo(activeIndex + by, NoColumn)
    /\ LET item == DisplayItems[Clamp(activeIndex + by, Len(DisplayItems))]
           k == SortedIndexOf(item.row)
       IN  IF how = "move" \/ item.kind # "row" \/ k = 0 THEN UNCHANGED Pick
           ELSE IF how = "range" /\ lastAnchor = NoAnchor
           THEN selected' = selected \cup {item.row} /\ lastAnchor' = k /\ anchorRow' = item.row
           ELSE SelectRow(k, how)
    /\ UNCHANGED <<Shape, Edit, dragKey>>

\* Left and Right go along a row, fold and unfold a group.
Across(by) ==
    /\ Idle /\ Focused(activeIndex) /\ DisplayItems[activeIndex].kind = "row"
    /\ MoveAcross(activeIndex, ActiveCellKey, by)
    /\ UNCHANGED <<Shape, Pick, Edit, dragKey>>

Fold(i) ==
    /\ Idle /\ i \in DOMAIN DisplayItems /\ DisplayItems[i].kind = "group"
    /\ activeIndex' = i
    /\ collapsed' = IF DisplayItems[i].path \in collapsed THEN collapsed \ {DisplayItems[i].path}
                    ELSE collapsed \cup {DisplayItems[i].path}
    /\ UNCHANGED <<rows, sort, filters, groupBy, columnOrder, hiddenColumns, activeColumn, Pick,
                   Edit, dragKey>>

TypeOnCell ==
    /\ Idle /\ Focused(activeIndex) /\ DisplayItems[activeIndex].kind = "row"
    /\ StartEdit(DisplayItems[activeIndex].row, ActiveCellKey)
    /\ UNCHANGED <<Shape, Pick, activeIndex, activeColumn, dragKey>>

ClickRow(i, how) ==
    /\ Idle /\ i \in DOMAIN DisplayItems /\ DisplayItems[i].kind = "row"
    /\ activeIndex' = i /\ SelectRow(SortedIndexOf(DisplayItems[i].row), how)
    /\ UNCHANGED <<Shape, Edit, activeColumn, dragKey>>

SelectAll ==
    /\ Idle /\ selected' = IF AllSelected THEN {} ELSE Range(SortRows)
    /\ UNCHANGED <<Shape, Edit, lastAnchor, anchorRow, activeIndex, activeColumn, dragKey>>

-----------------------------------------------------------------------------
(* The header, the filters and the group panel *)

Reshape == Idle /\ UNCHANGED <<Pick, Edit, activeIndex, activeColumn>>

NextSortState(c, additive) ==
    LET at == {i \in DOMAIN sort : sort[i].key = c}
        i == CHOOSE k \in at : TRUE
    IN  IF at = {} THEN (IF additive THEN sort ELSE <<>>) \o <<[key |-> c, direction |-> "asc"]>>
        ELSE IF sort[i].direction = "desc" THEN IF additive THEN RemoveAt(sort, i) ELSE <<>>
        ELSE IF additive THEN [sort EXCEPT ![i].direction = "desc"]
        ELSE <<[key |-> c, direction |-> "desc"]>>

HeaderClick(c, additive) ==
    /\ Reshape /\ c \in Range(VisibleColumns) /\ dragKey = NoColumn
    /\ sort' = NextSortState(c, additive)
    /\ UNCHANGED <<rows, filters, groupBy, collapsed, columnOrder, hiddenColumns, dragKey>>

Filter(c, v) ==
    /\ Reshape /\ c \in Range(VisibleColumns) /\ v # filters[c] /\ filters' = [filters EXCEPT ![c] = v]
    /\ UNCHANGED <<rows, sort, groupBy, collapsed, columnOrder, hiddenColumns, dragKey>>

HeaderDragStart(c) ==
    /\ Reshape /\ dragKey = NoColumn /\ c \in Range(VisibleColumns) /\ dragKey' = c
    /\ UNCHANGED Shape
HeaderDrop(c, after) ==
    LET rest == SelectSeq(columnOrder, LAMBDA k : k # dragKey)
        i == CHOOSE k \in DOMAIN rest : rest[k] = c
    IN  /\ Reshape /\ dragKey # NoColumn /\ c \in Range(VisibleColumns) /\ dragKey' = NoColumn
        /\ columnOrder' = IF c = dragKey THEN columnOrder
                          ELSE InsertAt(rest, IF after THEN i + 1 ELSE i, dragKey)
        /\ UNCHANGED <<rows, sort, filters, groupBy, collapsed, hiddenColumns>>
GroupPanelDrop ==
    /\ Reshape /\ dragKey # NoColumn /\ dragKey' = NoColumn
    /\ groupBy' = IF dragKey \in Range(groupBy) THEN groupBy ELSE Append(groupBy, dragKey)
    /\ UNCHANGED <<rows, sort, filters, collapsed, columnOrder, hiddenColumns>>
StopGrouping(c) ==
    /\ Reshape /\ c \in Range(groupBy) /\ groupBy' = SelectSeq(groupBy, LAMBDA k : k # c)
    /\ UNCHANGED <<rows, sort, filters, collapsed, columnOrder, hiddenColumns, dragKey>>

\* Hiding the last column shown ends the grouping.
ToggleColumn(c) ==
    LET hide == IF c \in hiddenColumns THEN hiddenColumns \ {c} ELSE hiddenColumns \cup {c}
    IN  /\ Reshape /\ hiddenColumns' = hide
        /\ groupBy' = IF AllColumns \subseteq hide \cup Range(groupBy) THEN <<>> ELSE groupBy
        /\ UNCHANGED <<rows, sort, filters, collapsed, columnOrder, dragKey>>

\* The menu of a header: sorted one way or not at all, grouped or not.
MenuNext(c) ==
    /\ Reshape /\ c \in Range(VisibleColumns) \cup Range(groupBy)
    /\ \/ /\ sort' \in {<<[key |-> c, direction |-> d]>> : d \in {"asc", "desc"}}
                       \cup {SelectSeq(sort, LAMBDA k : k.key # c)}
          /\ UNCHANGED groupBy
       \/ /\ groupBy' = IF c \in Range(groupBy) THEN SelectSeq(groupBy, LAMBDA k : k # c)
                        ELSE Append(groupBy, c)
          /\ UNCHANGED sort
    /\ UNCHANGED <<rows, filters, collapsed, columnOrder, hiddenColumns, dragKey>>
ResetToDefaults ==
    /\ Reshape /\ columnOrder' = Columns /\ hiddenColumns' = {} /\ sort' = <<>> /\ groupBy' = <<>>
    /\ collapsed' = {} /\ UNCHANGED <<rows, filters, dragKey>>

\* The product adds, removes or changes a row.
RowChanges(r) ==
    /\ Step
    /\ \/ r \in DOMAIN rows /\ rows' = [s \in DOMAIN rows \ {r} |-> rows[s]]
       \/ r \notin DOMAIN rows /\ rows' = [s \in DOMAIN rows \cup {r} |-> IF s = r THEN Table[r] ELSE rows[s]]
    /\ editing' = IF editing.row = r THEN NoCell ELSE editing
    /\ UNCHANGED <<sort, filters, groupBy, collapsed, columnOrder, hiddenColumns, activeIndex,
                   activeColumn, Pick, edited, dragKey>>

-----------------------------------------------------------------------------
GridInit ==
    /\ rows = Table /\ sort = <<>> /\ filters = [c \in AllColumns |-> Every] /\ groupBy = <<>>
    /\ collapsed = {} /\ columnOrder = Columns /\ hiddenColumns = {} /\ activeIndex = 1
    /\ activeColumn = NoColumn /\ selected = {} /\ lastAnchor = NoAnchor /\ anchorRow = NoRow
    /\ editing = NoCell /\ edited = [begun |-> 0, cancelled |-> 0, written |-> 0]
    /\ dragKey = NoColumn /\ steps = 0

Hows == {"one", "toggle", "range"}
KeyNext ==
    \/ \E by \in {-1, 1} : Across(by) \/ \E how \in {"one", "range", "move"} : Arrow(by, how)
    \/ TypeOnCell \/ SelectAll \/ CancelEdit
    \/ \E move \in {"down", "next", "prev", "blur"} : CommitEdit(move)
MouseNext ==
    \/ \E i \in 1..(2 * Len(Order) + 2) : Fold(i) \/ \E how \in Hows : ClickRow(i, how)
    \/ \E c \in AllColumns :
         \/ \E additive \in BOOLEAN : HeaderClick(c, additive) \/ HeaderDrop(c, additive)
         \/ \E v \in {Every} \cup {Table[r][c] : r \in DOMAIN Table} : Filter(c, v)
         \/ HeaderDragStart(c) \/ MenuNext(c) \/ StopGrouping(c) \/ ToggleColumn(c)
    \/ GroupPanelDrop \/ ResetToDefaults
ProductNext ==
    \E r \in DOMAIN Table : RowChanges(r) \/ \E c \in AllColumns : EditCell(r, c)

GridNext == KeyNext \/ MouseNext \/ ProductNext
GridSpec == GridInit /\ [][GridNext]_gridVars

-----------------------------------------------------------------------------
(* Properties *)

GridTypeOK ==
    /\ DOMAIN rows \subseteq DOMAIN Table /\ selected \subseteq DOMAIN Table
    /\ Range(columnOrder) = AllColumns /\ IsInjective(columnOrder) /\ IsInjective(groupBy)

\* A row is listed once, unless it is filtered out or one of the groups it is in
\* is folded; and under its groups only, in their order (dataGridRows.ts:124).
InFolded(r) == \E n \in 1..Len(groupBy) : [i \in 1..n |-> rows[r][groupBy[i]]] \in collapsed
ListedOnce ==
    /\ \A r \in DOMAIN rows :
         Cardinality({i \in DOMAIN DisplayItems : DisplayItems[i].row = r})
         = IF r \in Range(FilterRows) /\ ~InFolded(r) THEN 1 ELSE 0
    /\ \A i, j \in DOMAIN DisplayItems :
         i < j /\ DisplayItems[i].kind = "row" /\ DisplayItems[j].kind = "row"
         => LET r == DisplayItems[i].row
                s == DisplayItems[j].row
                differ == {n \in DOMAIN groupBy : rows[r][groupBy[n]] # rows[s][groupBy[n]]}
                n == CHOOSE k \in differ : \A m \in differ : k <= m
            IN  IF differ = {}
                THEN \A k \in DOMAIN sort :
                       \/ \E m \in 1..(k - 1) : rows[r][sort[m].key] # rows[s][sort[m].key]
                       \/ rows[r][sort[k].key] = rows[s][sort[k].key]
                       \/ (rows[r][sort[k].key] < rows[s][sort[k].key]) = (sort[k].direction = "asc")
                ELSE rows[r][groupBy[n]] < rows[s][groupBy[n]]

\* Every edit is written once at most, and a cancelled one never, though its
\* editor still blurs when it goes (dataGridEditing.ts:19, useDataGridState.ts:49).
WrittenOnce == edited.written + edited.cancelled <= edited.begun

=============================================================================
