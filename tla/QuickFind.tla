------------------------------ MODULE QuickFind ------------------------------
(* The find box over a text editor and the Go To Line dialog                  *)
(* (widgets/Editor/code/findWidget). The box is a component of its own that    *)
(* registers with the view only after it was drawn; it counts the matches at   *)
(* every update of the view; the text may be edited, reloaded or undone while  *)
(* the box is open or the dialog waits. "n" is a line break, "(" is no regular *)
(* expression. One stored query is shared by every editor.                     *)
EXTENDS Integers, Sequences, FiniteSets

CONSTANTS Texts, Searches, MaxFinds

VARIABLES
    text, selected,    \* the view's document and its selection [from, to]
    query,             \* the view's search query
    panel,             \* the box is open
    info,              \* what the box shows: how many matches, which is selected
    controller,        \* who answers a request to focus the box
    wanted,            \* such a request kept until the box is drawn
    origin,            \* where typing in the box started
    unfolded,          \* the replace row is shown
    dialog,            \* the Go To Line dialog: the number of lines it was told, 0 closed
    stored,            \* the query the state store keeps for the next editor
    finds              \* bound

findVars == <<text, selected, query, panel, info, controller, wanted, origin, unfolded, dialog,
              stored, finds>>

NoQuery == [search |-> <<>>, regexp |-> FALSE, whole |-> FALSE]
NoRequest == [replace |-> FALSE, seed |-> <<>>, kept |-> FALSE]
At(from, to) == [from |-> from, to |-> to]
Least(S) == CHOOSE x \in S : \A y \in S : x <= y
Valid(q) == ~(q.regexp /\ \E i \in DOMAIN q.search : q.search[i] = "(")
Letter(d, i) == i \in DOMAIN d /\ d[i] \notin {"n", "("}
WholeWord(d, from, to) == ~Letter(d, from) /\ ~Letter(d, to + 1)

\* Where the query matches (the starts of its matches).
Matches(d, q) ==
    {from \in 0..(Len(d) - Len(q.search)) :
        /\ SubSeq(d, from + 1, from + Len(q.search)) = q.search
        /\ q.whole => WholeWord(d, from, from + Len(q.search))}

MatchInfo(d, s, q) ==
    IF q.search = <<>> \/ ~Valid(q) THEN [total |-> 0, current |-> 0, invalid |-> ~Valid(q)]
    ELSE [total |-> Cardinality(Matches(d, q)),
          current |-> IF s.from \in Matches(d, q) /\ s.to = s.from + Len(q.search)
                      THEN Cardinality({m \in Matches(d, q) : m <= s.from}) ELSE 0,
          invalid |-> FALSE]

\* The selection of the first match at or after a position, or of the first.
MatchFrom(d, s, q, from) ==
    LET all == Matches(d, q)
        later == {m \in all : m >= from}
        first == Least(IF later = {} THEN all ELSE later)
    IN  IF q.search = <<>> \/ ~Valid(q) \/ all = {} THEN s ELSE At(first, first + Len(q.search))

\* What opening starts a search for: one line's selection, or the word at the cursor.
SeedText ==
    IF selected.from < selected.to
    THEN LET chosen == SubSeq(text, selected.from + 1, selected.to)
         IN  IF \E i \in DOMAIN chosen : chosen[i] = "n" THEN <<>> ELSE chosen
    ELSE IF Letter(text, selected.from + 1) THEN <<text[selected.from + 1]>> ELSE <<>>

\* An update of the view: the open box counts again, a new query is stored.
Updated(d, s, q) ==
    /\ text' = d /\ selected' = s /\ query' = q
    /\ info' = IF panel' THEN MatchInfo(d, s, q) ELSE info
    /\ stored' = IF q # query THEN q ELSE stored

Finding == finds < MaxFinds /\ finds' = finds + 1
BoxStays == UNCHANGED <<panel, controller, wanted, origin, unfolded>>
Clamped(s, d) == At(IF s.from > Len(d) THEN Len(d) ELSE s.from, IF s.to > Len(d) THEN Len(d) ELSE s.to)

FindInit ==
    /\ stored \in {[NoQuery EXCEPT !.search = s] : s \in Searches \union {<<>>}}
    /\ query = stored /\ text \in Texts /\ selected = At(0, 0)
    /\ panel = FALSE /\ info = MatchInfo(text, At(0, 0), NoQuery) /\ controller = "none"
    /\ wanted = NoRequest /\ origin = 0 /\ unfolded = FALSE /\ dialog = 0 /\ finds = 0

\* The document is edited or reloaded, the cursor or the selection moved.
Edit(d) ==
    /\ d # text /\ Finding /\ BoxStays /\ UNCHANGED dialog
    /\ Updated(d, Clamped(selected, d), query)
MoveTo(s) ==
    /\ s.from <= s.to /\ s.to <= Len(text) /\ s # selected
    /\ BoxStays /\ UNCHANGED <<dialog, finds>> /\ Updated(text, s, query)

\* A request to focus the drawn box starts the next typing from here.
Focus(request) ==
    /\ unfolded' = (unfolded \/ request.replace) /\ origin' = selected.from
    /\ Updated(text, selected, IF request.seed \in {<<>>, query.search} THEN query
                               ELSE [query EXCEPT !.search = request.seed])

\* The library's own opening searches for what is selected, if anything is.
OpenedWith == IF selected.from = selected.to THEN query
              ELSE [query EXCEPT !.search = SubSeq(text, selected.from + 1, selected.to)]

OpenQuickFind(replace) ==
    LET request == [replace |-> replace, seed |-> SeedText, kept |-> TRUE]
    IN  /\ Finding /\ panel' = TRUE /\ UNCHANGED dialog
        /\ IF panel /\ controller = "box"
           THEN Focus(request) /\ UNCHANGED <<controller, wanted>>
           ELSE /\ controller' = "panel" /\ wanted' = request
                /\ Updated(text, selected, IF panel THEN query ELSE OpenedWith)
                /\ IF panel THEN UNCHANGED <<origin, unfolded>>
                   ELSE origin' = selected.from /\ unfolded' = FALSE

\* The box is drawn: it registers itself and takes the request kept for it.
Register ==
    /\ panel /\ controller = "panel" /\ controller' = "box" /\ wanted' = NoRequest
    /\ UNCHANGED <<panel, dialog, finds>>
    /\ IF wanted.kept THEN Focus(wanted)
       ELSE UNCHANGED <<unfolded, origin, text, selected, query, info, stored>>

\* Typing in the box searches from where typing started, an option from the
\* selection.
SetSearch(search) ==
    LET q == [query EXCEPT !.search = search]
    IN  /\ controller = "box" /\ search # query.search /\ Finding /\ BoxStays /\ UNCHANGED dialog
        /\ Updated(text, MatchFrom(text, selected, q, origin), q)
SetOption(q) ==
    /\ controller = "box" /\ Finding /\ BoxStays /\ UNCHANGED dialog
    /\ Updated(text, MatchFrom(text, selected, q, selected.from), q)
FocusField == controller = "box" /\ origin' = selected.from /\ origin' # origin
    /\ UNCHANGED <<text, selected, query, panel, info, controller, wanted, unfolded, dialog, stored, finds>>
Unfold == controller = "box" /\ unfolded' = ~unfolded
    /\ UNCHANGED <<text, selected, query, panel, info, controller, wanted, origin, dialog, stored, finds>>

\* The editor's own commands: the next match after the selection or the last
\* before it; replacing one, or all.
After(s) == MatchFrom(text, s, query, s.to)
Before(s) ==
    LET all == Matches(text, query)
        earlier == {m \in all : m < s.from}
        last == CHOOSE x \in (IF earlier = {} THEN all ELSE earlier) :
                    \A y \in (IF earlier = {} THEN all ELSE earlier) : y <= x
    IN  IF query.search = <<>> \/ ~Valid(query) \/ all = {} THEN s
        ELSE At(last, last + Len(query.search))
Found == query.search # <<>> /\ Valid(query) /\ Matches(text, query) # {}
FindNext == panel /\ Found /\ BoxStays /\ UNCHANGED <<dialog, finds>>
    /\ Updated(text, After(selected), query)
FindPrevious == panel /\ Found /\ BoxStays /\ UNCHANGED <<dialog, finds>>
    /\ Updated(text, Before(selected), query)
ReplaceNext(with) ==
    LET there == info.current > 0
        d == SubSeq(text, 1, selected.from) \o with \o SubSeq(text, selected.to + 1, Len(text))
        s == At(selected.from + Len(with), selected.from + Len(with))
    IN  /\ controller = "box" /\ unfolded /\ Found /\ Finding /\ BoxStays /\ UNCHANGED dialog
        /\ IF there THEN Updated(d, MatchFrom(d, s, query, s.to), query)
           ELSE Updated(text, After(selected), query)
Erased(d, q) == SelectSeq([i \in DOMAIN d |-> [at |-> i, piece |-> d[i]]],
                          LAMBDA x : ~\E m \in Matches(d, q) : x.at \in (m + 1)..(m + Len(q.search)))
ReplaceAll ==
    LET left == Erased(text, query)
        d == [i \in DOMAIN left |-> left[i].piece]
    IN  /\ controller = "box" /\ unfolded /\ Found /\ Finding /\ BoxStays /\ UNCHANGED dialog
        /\ Updated(d, Clamped(selected, d), query)

CloseFind ==
    /\ panel /\ panel' = FALSE /\ controller' = "none" /\ wanted' = NoRequest
    /\ UNCHANGED <<text, selected, query, info, origin, unfolded, dialog, stored, finds>>

\* Go To Line: the dialog accepts the numbers there were lines when it opened.
LineStarts(d) == {0} \union {i \in DOMAIN d : d[i] = "n"}
LineStart(d, line) ==
    IF line > Cardinality(LineStarts(d)) THEN Len(d) + 1
    ELSE CHOOSE p \in LineStarts(d) : Cardinality({x \in LineStarts(d) : x <= p}) = line
GoToLineDialog ==
    /\ dialog = 0 /\ Finding /\ dialog' = Cardinality(LineStarts(text))
    /\ BoxStays /\ UNCHANGED <<text, selected, query, info, stored>>

GoToLine(line) ==
    LET lines == Cardinality(LineStarts(text))
        at == LineStart(text, IF line > lines THEN lines ELSE line)
    IN  /\ line <= dialog /\ dialog' = 0 /\ BoxStays /\ UNCHANGED finds
        /\ Updated(text, At(at, at), query)
CancelGoTo ==
    /\ dialog > 0 /\ dialog' = 0 /\ BoxStays
    /\ UNCHANGED <<text, selected, query, info, stored, finds>>

\* The editor is closed and another opened: it starts with the stored query.
AnotherEditor(d) ==
    /\ dialog = 0 /\ Finding /\ text' = d /\ selected' = At(0, 0)
    /\ query' = IF stored.search = <<>> THEN NoQuery ELSE stored
    /\ panel' = FALSE /\ controller' = "none" /\ wanted' = NoRequest
    /\ UNCHANGED <<info, origin, unfolded, dialog, stored>>

FindNextAction ==
    \/ \E d \in Texts : Edit(d) \/ AnotherEditor(d)
    \/ \E f, t \in 0..3 : MoveTo(At(f, t))
    \/ \E replace \in BOOLEAN : OpenQuickFind(replace)
    \/ \E s \in Searches \union {<<>>} : SetSearch(s)
    \/ \E o \in {1, 2} : SetOption(IF o = 1 THEN [query EXCEPT !.regexp = ~@]
                                   ELSE [query EXCEPT !.whole = ~@])
    \/ Register \/ FocusField \/ Unfold \/ FindNext \/ FindPrevious \/ ReplaceAll \/ CloseFind
    \/ \E with \in {<<>>, <<"b">>} : ReplaceNext(with)
    \/ GoToLineDialog \/ CancelGoTo \/ \E line \in 1..3 : GoToLine(line)

FindSpec == FindInit /\ [][FindNextAction]_findVars

\* The open box tells the matches of its query in the text as it is, and which
\* of them is selected, however the text, the selection or the query changed.
CountIsCurrent == panel => info = MatchInfo(text, selected, query)

\* A line is gone to inside the text, though the text lost lines while the
\* dialog asked for one.
SelectionInside == selected.from <= selected.to /\ selected.to <= Len(text)
=============================================================================
