----------------------------- MODULE PropertyGrid -----------------------------
(* The Properties window (widgets/PropertyGrid): the rows it lays out and the  *)
(* keyboard walks, and the editing of values, each applied by the product in a *)
(* call that may take a while and may refuse: meanwhile another property is    *)
(* edited, or another object is shown. And the window's one selection with the *)
(* property contexts of its windows (infra/selection), which decides what is   *)
(* shown there and shares no state with the grid.                              *)
EXTENDS Integers, Sequences, FiniteSets, SequencesExt

CONSTANTS
    Objects, Properties,
    Order,              \* the properties by name, as a sequence
    KindOf, CategoryOf, Categories,     \* the categories as a sequence, by name
    Editable, Named,    \* what a search for each query finds
    Values, NotANumber, NoKey, MaxCommits, MaxSessions, MaxGridSteps,
    Windows, Owner,     \* of the selection: [window -> what names it, its document's path]
    Elements, Items,    \* what can be picked in a window; what is selected elsewhere
    Nothing,            \* no selection
    MaxRenders          \* bound: changes of what windows show

VARIABLES
    shown, values,
    editing, focused, error, busyId, session, scrub,
    inFlight, refused, told, dropped,   \* commits: under way, refused, reported, given up
    commits,
    mode, query, collapsed, cursor,
    gridSteps,                  \* bound; and the selection's:
    current,     \* the selection: Nothing, an item elsewhere, or a window's context
    contexts,    \* [owner -> <<>>, or <<set>>]
    windows,     \* [window -> <<>>, or <<[set, owed]>>]: mounted, what it shows, its effect still owed
    renders

editVars == <<shown, values, editing, focused, error, busyId, session, scrub, inFlight, refused, told, dropped, commits>>
rowVars == <<mode, query, collapsed>>
propertyVars == <<editVars, rowVars, cursor, gridSteps>>

NoEdit == [id |-> NoKey, object |-> NoKey, draft |-> NoKey, session |-> 0]
NoError == [id |-> NoKey, object |-> NoKey]
InPlace == {"bool", "enum", "vector"}
EditedInPlace(p) == KindOf[p] \in InPlace
Free(p) == p \in Editable /\ busyId # p

PropertyGridInit ==
    /\ shown = (CHOOSE o \in Objects : TRUE) /\ values \in [Objects -> [Properties -> {CHOOSE v \in Values : TRUE}]]
    /\ editing = NoEdit /\ focused = FALSE /\ error = NoError /\ busyId = NoKey /\ session = 0
    /\ scrub = NoEdit /\ inFlight = {} /\ refused = {} /\ told = {} /\ dropped = {} /\ commits = 0
    /\ mode = "categorized" /\ query = "" /\ collapsed = {} /\ cursor = NoKey /\ gridSteps = 0

Stepped == gridSteps < MaxGridSteps /\ gridSteps' = gridSteps + 1

(* ---- Editing ---- *)

GivenUp == dropped' = dropped \union {c.n : c \in {d \in inFlight : d.how # "choice" /\ d.session = session}}
EndSession == session' = session + 1 /\ editing' = NoEdit /\ error' = NoError /\ focused' = FALSE

\* Another object: the old one's edit and error are dropped, the row stays.
ShowObject(o) ==
    /\ o # shown /\ Stepped /\ shown' = o /\ EndSession /\ GivenUp
    /\ UNCHANGED <<values, busyId, scrub, inFlight, refused, told, commits, rowVars, cursor>>

\* Opening a text box; a control that is always there is only given the keyboard.
BeginEdit(p) ==
    /\ ~focused /\ cursor' = p
    /\ IF ~Free(p) \/ KindOf[p] = "custom" \/ EditedInPlace(p)
       THEN UNCHANGED <<editing, session, focused>> /\ cursor # p
       ELSE /\ session < MaxSessions /\ session' = session + 1 /\ focused' = TRUE
            /\ editing' = [id |-> p, object |-> shown, draft |-> values[shown][p], session |-> session + 1]
    /\ UNCHANGED <<shown, values, error, busyId, scrub, inFlight, refused, told, dropped, commits, rowVars, gridSteps>>
EnterBox ==
    /\ editing # NoEdit /\ ~focused /\ focused' = TRUE
    /\ UNCHANGED <<shown, values, editing, error, busyId, session, scrub, inFlight, refused, told, dropped, commits, rowVars,
                   cursor, gridSteps>>
Type(text) ==
    /\ focused /\ busyId # editing.id /\ text # editing.draft
    /\ editing' = [editing EXCEPT !.draft = text]
    /\ error' = IF error.id = editing.id THEN NoError ELSE error
    /\ UNCHANGED <<shown, values, focused, busyId, session, scrub, inFlight, refused, told, dropped, commits, rowVars, cursor,
                   gridSteps>>
CancelEdit ==
    /\ focused /\ EndSession /\ GivenUp
    /\ UNCHANGED <<shown, values, busyId, scrub, inFlight, refused, told, commits, rowVars, cursor, gridSteps>>

\* A commit of the grid's; the values stay the product's to change.
Sent(object, p, value, how) ==
    /\ commits < MaxCommits /\ commits' = commits + 1 /\ busyId' = p
    /\ inFlight' = inFlight \union {[n |-> commits + 1, object |-> object, id |-> p, value |-> value,
                                     session |-> session, how |-> how]}

\* Why an edit was refused: under its row, or as a notification once its text
\* box was left.
Refused(object, p, how) ==
    IF how = "blur" THEN EndSession
    ELSE error' = [id |-> p, object |-> object] /\ UNCHANGED <<session, editing, focused>>

CommitText(how) ==
    LET p == editing.id
        left == how = "blur"
    IN  /\ editing # NoEdit /\ busyId # p
        /\ IF KindOf[p] = "number" /\ editing.draft = NotANumber
           THEN /\ (IF left THEN EndSession
                    ELSE error' = [id |-> p, object |-> editing.object] /\ UNCHANGED <<session, editing, focused>>)
                /\ UNCHANGED <<busyId, inFlight, commits>>
           ELSE IF editing.draft = values[shown][p]
           THEN EndSession /\ UNCHANGED <<busyId, inFlight, commits>>
           ELSE /\ Sent(shown, p, editing.draft, how) /\ focused' = ~left /\ UNCHANGED <<session, editing, error>>
        /\ UNCHANGED <<shown, values, scrub, refused, told, dropped, rowVars, cursor, gridSteps>>
EnterText == focused /\ CommitText("enter")
\* Leaving the box applies it, unless it is being applied.
LeaveBox ==
    /\ focused
    /\ IF busyId = editing.id \/ editing.session # session
       THEN /\ focused' = FALSE
            /\ UNCHANGED <<shown, values, editing, error, busyId, session, scrub, inFlight, refused, told, dropped, commits,
                           rowVars, cursor, gridSteps>>
       ELSE CommitText("blur")

CommitChoice(object, p, value) ==
    /\ IF value = values[object][p] THEN error' = NoError /\ UNCHANGED <<busyId, inFlight, commits>>
       ELSE Sent(object, p, value, "choice") /\ error' = error
    /\ UNCHANGED <<shown, values, editing, focused, session, refused, told, dropped, rowVars, cursor, gridSteps>>
Choose(p, value) ==
    /\ KindOf[p] \in {"bool", "enum"} /\ Free(p) /\ ~focused /\ value # values[shown][p]
    /\ CommitChoice(shown, p, value) /\ UNCHANGED scrub
Cycle(p) ==
    /\ KindOf[p] \in {"bool", "enum"} /\ Free(p) /\ ~focused
    /\ CommitChoice(shown, p, CHOOSE v \in Values : v # values[shown][p]) /\ UNCHANGED scrub

\* A component of a vector, typed into a field of its own.
CommitAt(p, value) ==
    /\ KindOf[p] = "vector" /\ Free(p) /\ ~focused /\ scrub' = scrub
    /\ IF value = NotANumber
       THEN /\ error' = [id |-> p, object |-> shown]
            /\ UNCHANGED <<shown, values, editing, focused, busyId, session, inFlight, refused, told, dropped,
                           commits, rowVars, cursor, gridSteps>>
       ELSE value # values[shown][p] /\ CommitChoice(shown, p, value)

\* A number dragged by its label: committed once, on release, for what it was
\* a value of when the drag began.
StartScrub(p) ==
    /\ KindOf[p] \in {"number", "vector"} /\ Free(p) /\ scrub = NoEdit /\ ~focused /\ Stepped
    /\ scrub' = [id |-> p, object |-> shown, draft |-> values[shown][p], session |-> 0]
    /\ UNCHANGED <<shown, values, editing, focused, error, busyId, session, inFlight, refused, told, dropped, commits, rowVars,
                   cursor>>
EndScrub(value) ==
    /\ scrub # NoEdit /\ scrub' = NoEdit
    /\ IF value = scrub.draft
       THEN UNCHANGED <<shown, values, editing, focused, error, busyId, session, inFlight, refused, told, dropped, commits,
                        rowVars, cursor, gridSteps>>
       ELSE CommitChoice(scrub.object, scrub.id, value)

\* The answer to a commit: a text's is dropped if its session is over.
Answered(c, message) ==
    IF c.how = "choice" THEN error' = (IF message THEN [id |-> c.id, object |-> c.object] ELSE NoError)
                             /\ UNCHANGED <<session, editing, focused>>
    ELSE IF c.session # session THEN UNCHANGED <<error, session, editing, focused>>
    ELSE IF ~message THEN EndSession
    ELSE Refused(c.object, c.id, c.how)
Accepts(c) ==
    /\ c \in inFlight /\ inFlight' = inFlight \ {c} /\ busyId' = NoKey
    /\ values' = [values EXCEPT ![c.object][c.id] = c.value] /\ Answered(c, FALSE)
    /\ UNCHANGED <<shown, scrub, refused, told, dropped, commits, rowVars, cursor, gridSteps>>
Refuses(c) ==
    /\ c \in inFlight /\ inFlight' = inFlight \ {c} /\ busyId' = NoKey
    /\ refused' = refused \union {c.n} /\ Answered(c, TRUE)
    /\ told' = (IF c.how = "choice" \/ c.session = session THEN told \union {c.n} ELSE told)
    /\ UNCHANGED <<shown, values, scrub, dropped, commits, rowVars, cursor, gridSteps>>

EditNext ==
    \/ EnterBox \/ CancelEdit \/ EnterText \/ LeaveBox
    \/ \E o \in Objects : ShowObject(o)
    \/ \E p \in Properties : BeginEdit(p) \/ Cycle(p) \/ StartScrub(p)
    \/ \E v \in Values \union {NotANumber} : Type(v) \/ \E p \in Properties : CommitAt(p, v)
    \/ \E v \in Values : EndScrub(v) \/ \E p \in Properties : Choose(p, v)
    \/ \E c \in inFlight : Accepts(c) \/ Refuses(c)

(* ---- The rows ---- *)

Searching == query # ""
Shown(names) == SelectSeq(names, LAMBDA p : Searching => p \in Named[query])

\* The rows, by category or by name; while searching, every match shows.
LayoutItems ==
    LET group(c) == LET members == SelectSeq(Shown(Order), LAMBDA p : CategoryOf[p] = c)
                    IN  IF members = <<>> THEN <<>>
                        ELSE IF c \in collapsed /\ ~Searching THEN <<c>> ELSE <<c>> \o members
    IN  IF mode = "alphabetical" THEN Shown(Order)
        ELSE FlattenSeq([i \in DOMAIN Categories |-> group(Categories[i])])
IsCategory(key) == \E i \in DOMAIN Categories : Categories[i] = key
Index == LET rows == LayoutItems
         IN  IF cursor \in ToSet(rows) THEN CHOOSE i \in DOMAIN rows : rows[i] = cursor ELSE 0
Current == IF Index = 0 THEN NoKey ELSE cursor

RowsStay == UNCHANGED <<editVars, mode, query>>
MoveTo(i) ==
    LET rows == LayoutItems
        to == IF i < 1 THEN 1 ELSE IF i > Len(rows) THEN Len(rows) ELSE i
    IN  rows # <<>> /\ cursor' = rows[to] /\ RowsStay /\ UNCHANGED <<collapsed, gridSteps>>
MoveKey == \E i \in {1, Len(LayoutItems), Index + 1, Index - 1} : MoveTo(i)
ToggleCategory(c) == collapsed' = (IF c \in collapsed THEN collapsed \ {c} ELSE collapsed \union {c})
\* Left folds and Right unfolds the category the cursor is on.
FoldKey(left) ==
    /\ IsCategory(Current) /\ ~Searching /\ (left <=> Current \notin collapsed)
    /\ ToggleCategory(Current) /\ Stepped /\ RowsStay /\ UNCHANGED cursor
EnterCategory == IsCategory(Current) /\ ToggleCategory(Current) /\ Stepped /\ RowsStay /\ UNCHANGED cursor
ClickRow(key) ==
    /\ key \in ToSet(LayoutItems)
    /\ cursor' = key /\ RowsStay /\ UNCHANGED <<collapsed, gridSteps>>
ClickChevron(c) ==
    /\ c \in ToSet(LayoutItems)
    /\ cursor' = c /\ IF Searching THEN UNCHANGED collapsed ELSE ToggleCategory(c)
    /\ Stepped /\ RowsStay
SetMode(m) == m # mode /\ mode' = m /\ Stepped /\ UNCHANGED <<editVars, query, collapsed, cursor>>
SetQuery(q) == q # query /\ query' = q /\ Stepped /\ UNCHANGED <<editVars, mode, collapsed, cursor>>

RowsNext ==
    \/ MoveKey \/ EnterCategory
    \/ \E left \in BOOLEAN : FoldKey(left)
    \/ \E p \in Properties : ClickRow(p)
    \/ \E i \in DOMAIN Categories : ClickChevron(Categories[i]) \/ ClickRow(Categories[i])
    \/ \E m \in {"categorized", "alphabetical"} : SetMode(m)
    \/ \E q \in DOMAIN Named \union {""} : SetQuery(q)

PropertyGridNext == EditNext \/ RowsNext
PropertyGridSpec == PropertyGridInit /\ [][PropertyGridNext]_propertyVars
EditSpec == PropertyGridInit /\ [][EditNext]_propertyVars

\* The text box on the screen is of the object shown, and so is a refusal of
\* what was typed in one; and the grid's session is that of its box.
EditIsOfTheObject ==
    /\ editing # NoEdit => editing.object = shown /\ editing.session = session
    /\ (error # NoError /\ KindOf[error.id] = "string") => error.object = shown

\* Every property the search finds has one row, under its category, unless that
\* is folded and nothing is searched for.
RowsAreComplete ==
    LET rows == LayoutItems
    IN  \A p \in Properties :
        LET at == {i \in DOMAIN rows : rows[i] = p}
            found == Searching => p \in Named[query]
            hidden == mode = "categorized" /\ ~Searching /\ CategoryOf[p] \in collapsed
        IN  IF found /\ ~hidden
            THEN /\ Cardinality(at) = 1
                 /\ mode = "categorized" =>
                      \E i \in DOMAIN rows :
                          /\ rows[i] = CategoryOf[p] /\ \A k \in at : i < k
                          /\ \A k \in at : \A j \in (i + 1)..k : ~IsCategory(rows[j])
            ELSE at = {}

------------------------------------------------------------------------------
(* The selection: a window publishes its context after each of its renders and *)
(* drops it as it goes; what is published is the selection while the window's  *)
(* context is. Trees and tabs set the selection at any time.                   *)

selectionVars == <<current, contexts, windows, renders>>

Owners == {Owner[w] : w \in Windows}
IsOf(owner) == current.kind = "properties" /\ current.source = owner
Published(owner, set) == [kind |-> "properties", source |-> owner, data |-> set]
Item(i) == [kind |-> "item", source |-> i, data |-> <<>>]

\* A new set shows at once where the old one is shown; dropped, nothing is selected.
SetPropertyContext(owner, set) ==
    /\ contexts' = [contexts EXCEPT ![owner] = set]
    /\ current' = IF ~IsOf(owner) THEN current ELSE IF set = <<>> THEN Nothing ELSE Published(owner, set)

SetSelection(i) ==
    /\ current # Item(i) /\ current' = Item(i)
    /\ UNCHANGED <<contexts, windows, renders>>

ClearSelection ==
    /\ current # Nothing /\ current' = Nothing
    /\ UNCHANGED <<contexts, windows, renders>>

\* A window that gets the focus shows its context, or (it has none) its file.
Focus(w) ==
    /\ windows[w] # <<>>
    /\ current' = IF contexts[Owner[w]] # <<>> THEN Published(Owner[w], contexts[Owner[w]]) ELSE Item(Owner[w])
    /\ UNCHANGED <<contexts, windows, renders>>

\* A window renders: another element picked, a value changed (the version), or nothing to show.
Render(w, set) ==
    /\ renders < MaxRenders /\ renders' = renders + 1
    /\ windows' = [windows EXCEPT ![w] = <<[set |-> set, owed |-> TRUE]>>]
    /\ UNCHANGED <<current, contexts>>

\* usePropertyContext, once the render is done.
Effect(w) ==
    /\ windows[w] # <<>> /\ windows[w][1].owed
    /\ windows' = [windows EXCEPT ![w][1].owed = FALSE]
    /\ LET set == windows[w][1].set
       IN  IF set = <<>> /\ contexts[Owner[w]] = <<>> THEN UNCHANGED <<current, contexts>>
           ELSE SetPropertyContext(Owner[w], set)
    /\ UNCHANGED renders

Unmount(w) ==
    /\ windows[w] # <<>> /\ windows' = [windows EXCEPT ![w] = <<>>]
    /\ SetPropertyContext(Owner[w], <<>>)
    /\ UNCHANGED renders

SelectionInit ==
    /\ current = Nothing /\ contexts = [o \in Owners |-> <<>>] /\ windows = [w \in Windows |-> <<>>] /\ renders = 0

SelectionNext ==
    \/ \E i \in Items : SetSelection(i)
    \/ ClearSelection
    \/ \E w \in Windows : Focus(w) \/ Effect(w) \/ Unmount(w)
    \/ \E w \in Windows, e \in Elements : Render(w, <<[element |-> e, version |-> renders]>>)
    \/ \E w \in Windows : Render(w, <<>>)

SelectionSpec == SelectionInit /\ [][SelectionNext]_selectionVars

(* Properties never shows a window's element that is not there any more: what   *)
(* it shows of a window is the window's context as last published, of a window  *)
(* that is open (or, two windows being named alike, of one of them), and once   *)
(* the window's renders are done it is what the window shows.                   *)
ShownIsThere ==
    current.kind = "properties" =>
        LET open == {w \in Windows : Owner[w] = current.source /\ windows[w] # <<>>}
        IN  /\ contexts[current.source] = current.data
            /\ open # {}
            /\ (\A w \in open : ~windows[w][1].owed) => \E w \in open : windows[w][1].set = current.data

------------------------------------------------------------------------------
(* What is said of the code, or may be expected of it, and does not hold.    *)

(* An error under a row is about the object shown. Does not hold: the        *)
(* refusal of a choice made for the object shown before is put under this    *)
(* one's row.                                                                *)
ErrorsAreOfTheObject == error # NoError => error.object = shown

(* An edit that was refused was reported, under its row or as a              *)
(* notification, unless the user gave it up or went to another object. Does  *)
(* not hold: a refusal that arrives while the next property is edited is     *)
(* told nowhere.                                                             *)
RefusalsAreTold == refused \subseteq told \union dropped
=============================================================================
