----------------------------- MODULE FindInFiles -----------------------------
(* Find in Files (search/): its results and its form. The two share no state:  *)
(* the form starts a search or a Replace All, whose outcome the results list.  *)
(* A search (findStore, FindResultsPanel, the SearchResults list) streams the  *)
(* files it finds from a command of the host over a channel of its own, while  *)
(* newer searches, a cancel, Clear All and a Replace All come in between. The  *)
(* host keeps the id of the one search that may go on; commands begin there in *)
(* any order. A file stands for its group of hits, of which it has one.        *)
EXTENDS Integers, Sequences, FiniteSets

Seqs == INSTANCE SequencesExt

CONSTANTS Files, MaxSearches, MaxListSteps,            \* of the results
          Paths, Patterns, MaxRequests, MaxTyped       \* of the form

ASSUME FindAssumption == MaxSearches \in Nat

VARIABLES
    searches,    \* each search: its command, its channel and what it has found
    allowed,     \* the host's id of the search that may go on (0: none)
    cancels,     \* cancel commands the host has not handled
    current,     \* the id whose news the store takes
    results,     \* what the store shows
    collapsed, chosen,  \* the list: folded groups, the selected row's group and hit
    listSteps,   \* bound; and the form's:
    request,           \* the last request to open the window
    drafts,            \* what a window leaves for the next one
    mounted, mode, pattern,  \* the window
    entered,           \* what its field held last, by the user's hand or a request
    lookIn, floating,
    open, front,       \* the documents open in tabs, the one in front
    buffers,           \* each document's text: in its tab, and on disk
    confirm, replace,  \* the question, and the host's command with what it was sent
    typed              \* bound

findResultVars == <<searches, allowed, cancels, current, results, collapsed, chosen, listSteps>>

EMPTY == [caption |-> 0, files |-> <<>>, running |-> FALSE, summary |-> "none",
          replaced |-> {}, failed |-> FALSE]
NoRow == [group |-> "", hit |-> FALSE]

ResultsInit ==
    /\ searches = <<>> /\ allowed = 0 /\ cancels = 0 /\ current = 0 /\ results = EMPTY
    /\ collapsed = {} /\ chosen = NoRow /\ listSteps = 0

\* A list that comes up empty starts expanded, with nothing selected.
Shows(next) ==
    /\ results' = next
    /\ IF next.files = <<>> /\ next.replaced = {} THEN collapsed' = {} /\ chosen' = NoRow
       ELSE UNCHANGED <<collapsed, chosen>>

\* Find All.
RunFind ==
    /\ Len(searches) < MaxSearches
    /\ searches' = Append(searches, [at |-> "sent", channel |-> <<>>, found |-> {}, summary |-> "none"])
    /\ current' = Len(searches')
    /\ Shows([EMPTY EXCEPT !.caption = Len(searches'), !.running = TRUE])
    /\ UNCHANGED <<allowed, cancels, listSteps>>

\* The host: the command names itself the search that may go on; each file it
\* finds is sent until another one does, or a cancel; it ends with a summary.
HostBegins(id) ==
    /\ searches[id].at = "sent" /\ allowed' = id
    /\ searches' = [searches EXCEPT ![id].at = "searching"]
    /\ UNCHANGED <<cancels, current, results, collapsed, chosen, listSteps>>
HostRefuses(id) ==
    /\ searches[id].at = "sent"
    /\ searches' = [searches EXCEPT ![id].at = "ended", ![id].summary = "error"]
    /\ UNCHANGED <<allowed, cancels, current, results, collapsed, chosen, listSteps>>
HostFinds(id, file) ==
    /\ searches[id].at = "searching" /\ allowed = id /\ file \notin searches[id].found
    /\ searches' = [searches EXCEPT ![id].found = @ \union {file}, ![id].channel = Append(@, file)]
    /\ UNCHANGED <<allowed, cancels, current, results, collapsed, chosen, listSteps>>
HostEnds(id) ==
    /\ searches[id].at = "searching"
    /\ searches' = [searches EXCEPT ![id].at = "ended",
                                    ![id].summary = IF allowed = id THEN "whole" ELSE "cancelled"]
    /\ UNCHANGED <<allowed, cancels, current, results, collapsed, chosen, listSteps>>
HostCancels ==
    /\ cancels > 0 /\ cancels' = cancels - 1 /\ allowed' = 0
    /\ UNCHANGED <<searches, current, results, collapsed, chosen, listSteps>>

\* Mutant: what any search sends is listed.
OnBatch_Any(id) ==
    /\ searches[id].channel # <<>>
    /\ searches' = [searches EXCEPT ![id].channel = Tail(@)]
    /\ Shows([results EXCEPT !.files = Append(@, <<id, Head(searches[id].channel)>>)])
    /\ UNCHANGED <<allowed, cancels, current, listSteps>>

\* What a search sent is listed if it is still the newest.
OnBatch(id) ==
    /\ searches[id].channel # <<>>
    /\ searches' = [searches EXCEPT ![id].channel = Tail(@)]
    /\ IF current = id
       THEN Shows([results EXCEPT !.files = Append(@, <<id, Head(searches[id].channel)>>)])
       ELSE UNCHANGED <<results, collapsed, chosen>>
    /\ UNCHANGED <<allowed, cancels, current, listSteps>>

\* The command has answered, and what was in flight has been given a moment.
Resolved(id) ==
    /\ searches[id].at = "ended"
    /\ searches' = [searches EXCEPT ![id].at = "done"]
    /\ IF current # id THEN UNCHANGED <<results, collapsed, chosen>>
       ELSE Shows([results EXCEPT !.running = FALSE, !.failed = searches[id].summary = "error",
                                  !.summary = IF searches[id].summary = "error" THEN @
                                              ELSE searches[id].summary])
    /\ UNCHANGED <<allowed, cancels, current, listSteps>>

\* Stop Search, and Clear All.
CancelFind ==
    /\ results.running /\ cancels < 1 /\ cancels' = cancels + 1
    /\ UNCHANGED <<searches, allowed, current, results, collapsed, chosen, listSteps>>
ClearFindResults ==
    /\ results.caption > 0 /\ results # EMPTY /\ cancels < 1
    /\ cancels' = cancels + (IF results.running THEN 1 ELSE 0)
    /\ Shows(EMPTY) /\ UNCHANGED <<searches, allowed, current, listSteps>>

\* A Replace All shows the files it changed instead.
ShowReplaceResults(files) ==
    /\ listSteps < MaxListSteps /\ listSteps' = listSteps + 1
    /\ current' = 0 /\ Shows([EMPTY EXCEPT !.caption = MaxSearches + 1, !.replaced = files])
    /\ UNCHANGED <<searches, allowed, cancels>>

\* The list: a group for each file with its hit below unless it is folded; after
\* a Replace All the groups have no hits. The summary is a row nobody selects.
Groups == IF results.replaced # {} THEN Seqs!SetToSeq(results.replaced)
          ELSE [i \in DOMAIN results.files |-> results.files[i][2]]
GroupRows(file) ==
    <<[group |-> file, hit |-> FALSE]>> \o
    (IF results.replaced = {} /\ file \notin collapsed THEN <<[group |-> file, hit |-> TRUE]>> ELSE <<>>)
Rows == Seqs!FlattenSeq([i \in DOMAIN Groups |-> GroupRows(Groups[i])])
SelectedRow == IF \E i \in DOMAIN Rows : Rows[i] = chosen
               THEN CHOOSE i \in DOMAIN Rows : Rows[i] = chosen /\ \A j \in 1..(i - 1) : Rows[j] # chosen
               ELSE 0
ListStep == listSteps < MaxListSteps /\ listSteps' = listSteps + 1
    /\ UNCHANGED <<searches, allowed, cancels, current, results>>

Select(row) == row \in DOMAIN Rows /\ Rows[row] # chosen /\ chosen' = Rows[row] /\ UNCHANGED collapsed /\ ListStep
KeyDown(by) ==
    LET to == SelectedRow + by
    IN  Rows # <<>> /\ Select(IF to < 1 THEN 1 ELSE IF to > Len(Rows) THEN Len(Rows) ELSE to)
ArrowLeft ==
    /\ SelectedRow > 0 /\ ListStep
    /\ IF chosen.hit THEN chosen' = [chosen EXCEPT !.hit = FALSE] /\ UNCHANGED collapsed
       ELSE collapsed' = collapsed \union {chosen.group} /\ UNCHANGED chosen
ArrowRight ==
    /\ SelectedRow > 0 /\ ~chosen.hit /\ ListStep
    /\ collapsed' = collapsed \ {chosen.group} /\ UNCHANGED chosen
ClickTwisty(file) ==
    /\ \E i \in DOMAIN Groups : Groups[i] = file
    /\ collapsed' = IF file \in collapsed THEN collapsed \ {file} ELSE collapsed \union {file}
    /\ UNCHANGED chosen /\ ListStep

Ids == 1..MaxSearches
HostSteps(id) ==
    /\ id \in DOMAIN searches
    /\ HostBegins(id) \/ HostRefuses(id) \/ HostEnds(id) \/ \E f \in Files : HostFinds(id, f)
StoreSteps(id) == id \in DOMAIN searches /\ (OnBatch(id) \/ Resolved(id))
ListSteps ==
    \/ \E row \in 1..4 : Select(row)
    \/ \E by \in {-1, 1} : KeyDown(by)
    \/ ArrowLeft \/ ArrowRight \/ \E f \in Files : ClickTwisty(f)
ResultsNext ==
    \/ RunFind \/ CancelFind \/ ClearFindResults \/ HostCancels
    \/ \E id \in Ids : HostSteps(id) \/ StoreSteps(id)
    \/ \E files \in SUBSET Files : files # {} /\ ShowReplaceResults(files)
    \/ ListSteps

\* The list shows what the search it is captioned with has found, each file
\* once, whatever older searches still send; a Replace All's outcome is not
\* mixed with hits.
ListsTheNewest ==
    /\ \A i \in DOMAIN results.files :
        /\ results.files[i][1] = current
        /\ results.files[i][2] \in searches[current].found
    /\ \A i, j \in DOMAIN results.files : results.files[i] = results.files[j] => i = j
    /\ results.replaced # {} => results.files = <<>>

------------------------------------------------------------------------------
(* The Find and Replace window and Replace All (search/useFindForm, findUi,    *)
(* findActions): the window is mounted anew whenever it moves to another dock, *)
(* requests to open it reseed its field from the editor, and a Replace All     *)
(* asks first and then waits for the host while documents are still edited,    *)
(* opened and closed. A document's text is told by its version and by whether  *)
(* its occurrences were replaced.                                              *)

findFormVars == <<request, drafts, mounted, mode, pattern, entered, lookIn, floating, open, front,
                  buffers, confirm, replace, typed>>

NoReplace == [underway |-> FALSE, scope |-> "none", sent |-> [p \in {} |-> 0]]
Modes == {"find", "replace"}

FormInit ==
    /\ request = [mode |-> "find", seq |-> 0] /\ drafts = [pattern |-> "", mode |-> "find", seq |-> 0]
    /\ mounted = FALSE /\ mode = "find" /\ pattern = "" /\ entered = ""
    /\ lookIn = "project" /\ floating = TRUE
    /\ open = Paths /\ front \in Paths
    /\ buffers = [p \in Paths |-> [tab |-> 0, disk |-> 0, lost |-> FALSE]]
    /\ confirm = FALSE /\ replace = NoReplace /\ typed = 0

FormStays == UNCHANGED <<lookIn, open, front, buffers, confirm, replace>>
WindowStays == UNCHANGED <<request, drafts, mounted, mode, pattern, entered, floating>>

SetPattern(to) == pattern' = to /\ entered' = to /\ drafts' = [drafts EXCEPT !.pattern = to]

\* Ctrl+Shift+F and Ctrl+Shift+H; the tool window is brought up.
OpenFindInFiles(m) ==
    /\ request.seq < MaxRequests /\ request' = [mode |-> m, seq |-> request.seq + 1]
    /\ UNCHANGED <<drafts, mounted, mode, pattern, entered, floating, typed>> /\ FormStays
Mount(floats) ==
    /\ ~mounted /\ request.seq > 0 /\ mounted' = TRUE /\ floating' = floats
    /\ mode' = drafts.mode /\ pattern' = drafts.pattern
    /\ UNCHANGED <<request, drafts, entered, typed>> /\ FormStays
Unmount ==
    /\ mounted /\ ~confirm /\ mounted' = FALSE
    /\ UNCHANGED <<request, drafts, mode, pattern, entered, floating, typed>> /\ FormStays

\* A request the window has not acted on switches its tab and takes what the
\* editor has selected, if anything.
SeedOnRequest(seed) ==
    /\ mounted /\ request.seq # drafts.seq /\ mode' = request.mode
    /\ IF seed = "" THEN /\ drafts' = [drafts EXCEPT !.seq = request.seq, !.mode = request.mode]
                         /\ UNCHANGED <<pattern, entered>>
       ELSE /\ pattern' = seed /\ entered' = seed
            /\ drafts' = [pattern |-> seed, mode |-> request.mode, seq |-> request.seq]
    /\ UNCHANGED <<request, mounted, floating, typed>> /\ FormStays

TypePattern(to) ==
    /\ mounted /\ to # pattern /\ typed < MaxTyped /\ typed' = typed + 1 /\ SetPattern(to)
    /\ UNCHANGED <<request, mounted, mode, floating>> /\ FormStays
SetMode(m) ==
    /\ mounted /\ m # mode /\ mode' = m /\ drafts' = [drafts EXCEPT !.mode = m]
    /\ UNCHANGED <<request, mounted, pattern, entered, floating, typed>> /\ FormStays

\* A remembered scope that is not possible now falls back to the widest that is.
Available == {"project"} \union (IF front \in open THEN {"current"} ELSE {})
                         \union (IF open # {} THEN {"open"} ELSE {})
LookIn == IF lookIn \in Available THEN lookIn ELSE "project"
SetLookIn(l) ==
    /\ mounted /\ l \in Available /\ l # lookIn /\ lookIn' = l
    /\ UNCHANGED <<open, front, buffers, confirm, replace, typed>> /\ WindowStays

\* Escape closes the window while it floats.
EscapeKey ==
    /\ mounted /\ floating /\ ~confirm /\ mounted' = FALSE
    /\ UNCHANGED <<request, drafts, mode, pattern, entered, floating, typed>> /\ FormStays

Documents == IF LookIn = "current" THEN open \intersect {front} ELSE open
CanRun == pattern # "" /\ ~replace.underway

\* Replace All asks, then sends the texts of the documents in scope.
ReplaceAllAsked ==
    /\ mounted /\ mode = "replace" /\ CanRun /\ ~confirm /\ confirm' = TRUE
    /\ UNCHANGED <<lookIn, open, front, buffers, replace, typed>> /\ WindowStays
DeclineReplace ==
    /\ confirm /\ confirm' = FALSE
    /\ UNCHANGED <<lookIn, open, front, buffers, replace, typed>> /\ WindowStays
ConfirmReplace ==
    /\ confirm /\ confirm' = FALSE /\ typed < MaxTyped /\ typed' = typed + 1
    /\ replace' = [underway |-> TRUE, scope |-> LookIn, sent |-> [p \in Documents |-> buffers[p].tab]]
    /\ UNCHANGED <<lookIn, open, front, buffers>> /\ WindowStays

\* The host rewrites the other files of the scope on disk and answers with the
\* documents' new texts; they are put into their tabs, the rest is reloaded.
\* Every text is replaced by a newer one; what was typed since it was sent is lost.
Replaced ==
    LET onDisk(p) == replace.scope = "project" /\ p \notin DOMAIN replace.sent
    IN  /\ replace.underway /\ replace' = NoReplace
        /\ buffers' = [p \in Paths |->
             IF p \in DOMAIN replace.sent /\ p \in open
             THEN [tab |-> buffers[p].tab + 1, disk |-> buffers[p].disk,
                   lost |-> buffers[p].lost \/ replace.sent[p] # buffers[p].tab]
             ELSE IF onDisk(p)
             THEN [tab |-> buffers[p].disk + 1, disk |-> buffers[p].disk + 1, lost |-> buffers[p].lost]
             ELSE buffers[p]]
        /\ UNCHANGED <<lookIn, open, front, confirm, typed>> /\ WindowStays
ReplaceFails ==
    /\ replace.underway /\ replace' = NoReplace
    /\ UNCHANGED <<lookIn, open, front, buffers, confirm, typed>> /\ WindowStays

\* Documents are typed in, opened, closed and brought to front meanwhile.
TypeIn(p) ==
    /\ p \in open /\ ~confirm /\ typed < MaxTyped /\ typed' = typed + 1
    /\ buffers' = [buffers EXCEPT ![p].tab = @ + 1]
    /\ UNCHANGED <<lookIn, open, front, confirm, replace>> /\ WindowStays
CloseTab(p) ==
    /\ p \in open /\ ~confirm /\ buffers[p].tab = buffers[p].disk /\ open' = open \ {p}
    /\ UNCHANGED <<lookIn, front, buffers, confirm, replace, typed>> /\ WindowStays
OpenTab(p) ==
    /\ ~confirm /\ (p \notin open \/ p # front) /\ open' = open \union {p} /\ front' = p
    /\ UNCHANGED <<lookIn, buffers, confirm, replace, typed>> /\ WindowStays

FormNext ==
    \/ \E m \in Modes : OpenFindInFiles(m) \/ SetMode(m)
    \/ \E floats \in BOOLEAN : Mount(floats)
    \/ Unmount \/ EscapeKey \/ ReplaceAllAsked \/ ConfirmReplace \/ DeclineReplace \/ Replaced \/ ReplaceFails
    \/ \E s \in Patterns \union {""} : SeedOnRequest(s)
    \/ \E s \in Patterns : TypePattern(s)
    \/ \E l \in {"current", "open", "project"} : SetLookIn(l)
    \/ \E p \in Paths : TypeIn(p) \/ CloseTab(p) \/ OpenTab(p)

FindInit == ResultsInit /\ FormInit
FindNext == \/ ResultsNext /\ UNCHANGED findFormVars
            \/ FormNext /\ UNCHANGED findResultVars
FindSpec == FindInit /\ [][FindNext]_<<findResultVars, findFormVars>>

\* The field holds what was typed in it, or what a request put there, last,
\* however often the window is moved; one request seeds it once.
FieldIsKept == mounted => pattern = entered /\ drafts.seq <= request.seq

(* The list shows the newest search's results, and the form keeps what is      *)
(* typed (search/findStore.ts, useFindForm.ts).                                *)
ResultsAreTheNewest == ListsTheNewest /\ FieldIsKept

------------------------------------------------------------------------------
(* What is said of the code, or may be expected of it, and does not hold.    *)

(* Clear All leaves nothing listed until another search. Does not hold:      *)
(* Clear All leaves the search the current one, and its later batches fill   *)
(* the list again (findStore.ts:101).                                        *)
ClearedStaysClear == results.caption = 0 => results.files = <<>> /\ results.summary = "none"

(* Replace All loses nothing typed into a document while the host replaced.  *)
(* Does not hold: what is typed between the host's command and its answer is *)
(* replaced by the file read back (findActions.ts).                          *)
TypedIsKept == \A p \in Paths : ~buffers[p].lost
=============================================================================
