-------------------------------- MODULE Problems --------------------------------
(* The problems a build and the language servers report (ui/src/infra/          *)
(* diagnostics) and the Error List that shows them (widgets/ErrorList). A       *)
(* build's output is read line by line; what is found is kept in named sets,    *)
(* each replaced as its producer runs again while the list is open.             *)
EXTENDS Integers, FiniteSets, Sequences, SequencesExt

CONSTANTS LineKinds,     \* kinds of lines the build prints, of those below
          Files,         \* files problems are in
          Severities,
          MaxLines,      \* bound: lines of one build
          MaxUpdates,    \* bound: sets replaced, added to or cleared
          MaxListSteps   \* bound: what is done in the list

VARIABLES
    parser,      \* the rustc parser: the problem not complete, whether it has a place, the crate
    fed,         \* the lines the build printed
    found,       \* the problems read out of them
    sets,        \* the named sets, in the order they were first filled
    snapshot,    \* the problems the list was last told of
    filter,      \* the list's scope, origins and toggles
    active,      \* the focused editor's file, "-" none
    selected,    \* the rows selected, by their place in the snapshot
    chosen,      \* the problems those were when they were selected
    clipboard,
    updates, listSteps

parseVars == <<parser, fed, found>>
listVars == <<sets, snapshot, filter, active, selected, chosen, clipboard, updates, listSteps>>
problemVars == <<parseVars, listVars>>

Nowhere == "-"
NoCode == "-"

------------------------------------------------------------------------------
(* createRustcParser, over kinds of lines: "error" and "warning" headers (an    *)
(* error's with its code), "place1" and "place2" locations, "lint" a line that  *)
(* names the lint's level, "summary" cargo's and rustc's tallies, "compiling"   *)
(* a crate, "json" a diagnostic in one line, "artifact" any other JSON line,    *)
(* "blank" and "text".                                                          *)
Headers == {"error", "warning"}
Places == {"place1", "place2"}
Opening(kind) == [severity |-> kind, code |-> IF kind = "error" THEN "E0425" ELSE NoCode, at |-> Nowhere]
FromJson == [severity |-> "error", code |-> "E0308", at |-> "span"]

NothingOpen == [open |-> <<>>, located |-> FALSE]

\* close: the open problem is done, and the next one has no place yet.
Closed(p) == [p EXCEPT !.open = <<>>, !.located = FALSE]

\* push: the parser after a line, and what the line completed.
Push(p, kind) ==
    CASE kind = "json" -> [p |-> Closed(p), out |-> p.open \o <<FromJson>>]
      [] kind \in {"artifact", "compiling", "summary"} -> [p |-> Closed(p), out |-> p.open]
      [] kind \in Headers -> [p |-> [Closed(p) EXCEPT !.open = <<Opening(kind)>>], out |-> p.open]
      [] p.open = <<>> -> [p |-> p, out |-> <<>>]
      [] kind = "blank" -> [p |-> Closed(p), out |-> p.open]
      [] kind \in Places /\ ~p.located ->
            [p |-> [open |-> <<[p.open[1] EXCEPT !.at = kind]>>, located |-> TRUE], out |-> <<>>]
      [] kind = "lint" /\ p.open[1].code = NoCode ->
            [p |-> [p EXCEPT !.open = <<[@[1] EXCEPT !.code = "lint"]>>], out |-> <<>>]
      [] OTHER -> [p |-> p, out |-> <<>>]

BuildPrints ==
    /\ Len(fed) < MaxLines
    /\ \E kind \in LineKinds : /\ fed' = Append(fed, kind)
                               /\ parser' = Push(parser, kind).p
                               /\ found' = found \o Push(parser, kind).out
    /\ UNCHANGED listVars

------------------------------------------------------------------------------
(* The store: sets by key, flattened as they change.                            *)
Flat(s) == FlattenSeq([i \in 1..Len(s) |-> s[i].items])
KeyAt(s, key) == SelectInSeq(s, LAMBDA set : set.key = key)

SetDiagnostics(s, key, items) ==
    IF items = <<>> THEN SelectSeq(s, LAMBDA set : set.key # key)
    ELSE IF KeyAt(s, key) = 0 THEN Append(s, [key |-> key, items |-> items])
    ELSE [s EXCEPT ![KeyAt(s, key)].items = items]

AddDiagnostics(s, key, items) ==
    IF KeyAt(s, key) = 0 THEN Append(s, [key |-> key, items |-> items])
    ELSE [s EXCEPT ![KeyAt(s, key)].items = @ \o items]

ClearDiagnostics(s, origin) ==
    SelectSeq(s, LAMBDA set : \A i \in 1..Len(set.items) : set.items[i].origin # origin)

\* A problem's severity is the list's own three; the number tells problems of one place apart.
Problem(severity, file, origin) == [severity |-> severity, file |-> file, origin |-> origin, number |-> updates]

Told(s) ==
    /\ sets' = s
    /\ snapshot' = IF s = sets THEN snapshot ELSE Flat(s)
    /\ updates < MaxUpdates /\ updates' = updates + 1
    /\ UNCHANGED <<parseVars, filter, active, selected, chosen, clipboard, listSteps>>

LiveReplaced ==
    \E f \in Files, sv \in Severities \cup {"none"} :
        Told(SetDiagnostics(sets, f, IF sv = "none" THEN <<>> ELSE <<Problem(sv, f, "live")>>))
BuildAdds == \E sv \in Severities, f \in Files \cup {Nowhere} : Told(AddDiagnostics(sets, "build", <<Problem(sv, f, "build")>>))
BuildBegins == Told(ClearDiagnostics(sets, "build"))

------------------------------------------------------------------------------
(* The list: scope, origin and severity choose the rows among the snapshot.     *)
Narrowed(i) ==
    /\ filter.origins \in {"all", snapshot[i].origin}
    /\ filter.scope = "current" => snapshot[i].file # Nowhere /\ snapshot[i].file = active

Rows == {i \in 1..Len(snapshot) : Narrowed(i) /\ snapshot[i].severity \in filter.shown}

ListStep == listSteps < MaxListSteps /\ listSteps' = listSteps + 1

ChangeFilter ==
    /\ ListStep
    /\ \/ \E s \in {"solution", "current"} \ {filter.scope} : filter' = [filter EXCEPT !.scope = s]
       \/ \E o \in {"all", "build", "live"} \ {filter.origins} : filter' = [filter EXCEPT !.origins = o]
       \/ \E s \in Severities : filter' = [filter EXCEPT !.shown = IF s \in @ THEN @ \ {s} ELSE @ \cup {s}]
    /\ UNCHANGED <<parseVars, sets, snapshot, active, selected, chosen, clipboard, updates>>

EditorFocused ==
    /\ ListStep /\ \E f \in Files \ {active} : active' = f
    /\ UNCHANGED <<parseVars, sets, snapshot, filter, selected, chosen, clipboard, updates>>

Select ==
    /\ ListStep
    /\ \E i \in Rows : \/ selected' = {i} /\ chosen' = {snapshot[i]}
                       \/ i \notin selected /\ selected' = selected \cup {i} /\ chosen' = chosen \cup {snapshot[i]}
    /\ UNCHANGED <<parseVars, sets, snapshot, filter, active, clipboard, updates>>

\* Ctrl+C, and Copy of a row's menu when something is selected.
Copied == {snapshot[i] : i \in selected \cap Rows}
Copy ==
    /\ ListStep /\ selected # {}
    /\ clipboard' = Copied
    /\ UNCHANGED <<parseVars, sets, snapshot, filter, active, selected, chosen, updates>>

ProblemsInit ==
    /\ parser = NothingOpen /\ fed = <<>> /\ found = <<>>
    /\ sets = <<>> /\ snapshot = <<>> /\ active = Nowhere /\ selected = {} /\ chosen = {} /\ clipboard = {}
    /\ filter = [scope |-> "solution", origins |-> "all", shown |-> Severities]
    /\ updates = 0 /\ listSteps = 0

ListNext == LiveReplaced \/ BuildAdds \/ BuildBegins \/ ChangeFilter \/ EditorFocused \/ Select \/ Copy
ProblemsNext == BuildPrints \/ ListNext

ParseSpec == ProblemsInit /\ [][BuildPrints]_problemVars
ListSpec == ProblemsInit /\ [][ListNext]_problemVars

------------------------------------------------------------------------------
(* A build's problems, read off its whole output: one for every header and      *)
(* every JSON diagnostic, in order, each with the first place and the first     *)
(* lint before the line that closes it.                                         *)
Closing == Headers \cup {"json", "artifact", "compiling", "summary", "blank"}
FirstOf(i, kinds) ==    \* the first line of these kinds within the problem that line i begins, 0 if none
    LET within == {j \in (i + 1)..Len(fed) : /\ fed[j] \in kinds
                                             /\ \A k \in (i + 1)..(j - 1) : fed[k] \notin Closing \cup kinds}
    IN IF within = {} THEN 0 ELSE CHOOSE j \in within : TRUE
Expected ==
    [n \in 1..Len(SelectSeq(fed, LAMBDA k : k \in Headers \cup {"json"})) |->
        LET i == CHOOSE j \in 1..Len(fed) : /\ fed[j] \in Headers \cup {"json"}
                                            /\ n = Len(SelectSeq(SubSeq(fed, 1, j), LAMBDA k : k \in Headers \cup {"json"}))
            place == FirstOf(i, Places)
        IN IF fed[i] = "json" THEN FromJson
           ELSE [severity |-> fed[i], at |-> IF place = 0 THEN Nowhere ELSE fed[place],
                 code |-> IF fed[i] = "error" THEN "E0425" ELSE IF FirstOf(i, {"lint"}) = 0 THEN NoCode ELSE "lint"]]

(* The parser has read what the output says, the problem still open included:   *)
(* none is lost, doubled, or given the place of another (createRustcParser).    *)
EachProblemOnce == found \o parser.open = Expected

(* The list has the last word of every producer: of a file's live problems no   *)
(* two are of different publications, and a build's are there in the order it   *)
(* printed them, each once, whatever was published, cleared or printed between. *)
ListsTheLatest ==
    \A i, j \in 1..Len(snapshot) :
        i < j /\ snapshot[i].origin = snapshot[j].origin =>
            IF snapshot[i].origin = "live" THEN snapshot[i].file # snapshot[j].file
            ELSE snapshot[i].number < snapshot[j].number

------------------------------------------------------------------------------
(* What is said of the code, or may be expected of it, and does not hold.    *)

(* What is copied was selected: a set that changes under the selection does  *)
(* not put another problem in its place (ErrorList keeps rows by their       *)
(* index). Does not hold: rows are known by their place, and a set that      *)
(* grows or goes moves those after it.                                       *)
SelectedIsChosen == Copied \subseteq chosen
==============================================================================
