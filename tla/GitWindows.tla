------------------------------ MODULE GitWindows ------------------------------
(* What the Git windows read from the repository by themselves (the history,  *)
(* a commit's files, a diff tab) and the commit box (ui/src/git/windows). A   *)
(* view reads again when what it is about or the store's revision changes and *)
(* drops the answer of the read before; "Load More" is a read of its own.     *)
EXTENDS Integers, Sequences, FiniteSets, SequencesExt

CONSTANTS Branches,      \* the branches, the first one checked out
          Diffs,         \* the diff tabs there may be
          MaxRevisions,  \* bound: refreshes of the store
          MaxPages,      \* bound: the pages of a branch's history
          MaxMore,       \* bound: "Load More" reads under way
          MaxTyped,      \* bound: edits of the message
          MaxTicks       \* bound: clicks on Amend

VARIABLES
    revision,  \* of the store
    branches,  \* the branches there are
    selected,  \* the branch whose history is shown
    commits,   \* the history: the pages shown
    pages,     \* "Load More" reads under way
    commit,    \* the selected commit
    tabs,      \* the open diff tabs
    front,     \* the tab brought to the front
    reads,     \* each view's read under way: the live one and cancelled ones
    views,     \* what each view shows, by what it was read for
    box        \* the commit box

gitWindowVars == <<revision, branches, selected, commits, pages, commit, tabs, front,
                   reads, views, box>>

Nothing == [what |-> "nothing"]
Kinds == {"history", "files", "diff"}
Box == [typed |-> 0, put |-> 0, amend |-> FALSE, inserted |-> FALSE, edited |-> FALSE,
        asked |-> 0, ticks |-> 0]

GitWindowsInit ==
    /\ revision = 0 /\ branches = Range(Branches) /\ selected = Branches[1]
    /\ commits = <<>> /\ pages = {} /\ commit = Nothing /\ tabs = {} /\ front = Nothing
    /\ reads = {} /\ views = [v \in Kinds |-> Nothing] /\ box = Box

\* What a view shows is for: an effect's dependencies.
HistoryKey(b, r) == [what |-> b, revision |-> r]
FilesKey(c) == c
DiffKey(d, r) == IF d = Nothing THEN Nothing ELSE [what |-> d.what, revision |-> r]

\* An effect that runs again cancels its last read; nothing to read shows nothing.
Rereads(keys) ==
    LET again == {v \in DOMAIN keys : TRUE}
        kept == {IF r.view \in again THEN [r EXCEPT !.live = FALSE] ELSE r : r \in reads}
    IN  kept \cup {[view |-> v, key |-> keys[v], live |-> TRUE] :
                       v \in {w \in again : keys[w] # Nothing}}

Refreshed ==
    /\ revision < MaxRevisions
    /\ revision' = revision + 1
    /\ reads' = Rereads([v \in {"history", "diff"} |->
                            IF v = "history" THEN HistoryKey(selected, revision')
                                             ELSE DiffKey(front, revision')])
    /\ UNCHANGED <<branches, selected, commits, pages, commit, tabs, front, views, box>>

SelectBranch(b) ==
    /\ b \in branches \ {selected}
    /\ selected' = b
    /\ reads' = Rereads([v \in {"history"} |-> HistoryKey(b, revision)])
    /\ UNCHANGED <<revision, branches, commits, pages, commit, tabs, front, views, box>>

\* A branch is deleted or pruned: the history falls back to the current one.
BranchGoes(b) ==
    /\ b \in branches \ {Branches[1]} /\ revision < MaxRevisions
    /\ branches' = branches \ {b}
    /\ selected' = IF selected = b THEN Branches[1] ELSE selected
    /\ revision' = revision + 1
    /\ reads' = Rereads([v \in {"history", "diff"} |->
                            IF v = "history" THEN HistoryKey(selected', revision')
                                             ELSE DiffKey(front, revision')])
    /\ UNCHANGED <<commits, pages, commit, tabs, front, views, box>>

-----------------------------------------------------------------------------
(* The history *)

\* The first page; the selected commit stays if it is in it.
HistoryArrives(r) ==
    /\ r.view = "history"
    /\ LET stays == commit # Nothing /\ commit.what = r.key.what
           others == reads \ {r}
       IN IF r.live
          THEN /\ views' = [views EXCEPT !["history"] = r.key,
                                         !["files"] = IF stays THEN @ ELSE Nothing]
               /\ commits' = <<[branch |-> r.key.what, page |-> 1]>>
               /\ commit' = IF stays THEN commit ELSE Nothing
               /\ reads' = IF stays THEN others
                           ELSE {IF q.view = "files" THEN [q EXCEPT !.live = FALSE] ELSE q : q \in others}
          ELSE /\ reads' = others
               /\ UNCHANGED <<views, commits, commit>>
    /\ UNCHANGED <<revision, branches, selected, pages, tabs, front, box>>

\* "Load More" is offered while the last page was full.
LoadMore ==
    /\ commits # <<>> /\ Last(commits).page < MaxPages /\ Cardinality(pages) < MaxMore
    /\ pages' = pages \cup {[branch |-> selected, page |-> Len(commits) + 1]}
    /\ UNCHANGED <<revision, branches, selected, commits, commit, tabs, front, reads, views, box>>

\* Nothing cancels it: the page goes behind whatever is listed now.
MoreArrives(p) ==
    /\ pages' = pages \ {p}
    /\ commits' = Append(commits, p)
    /\ UNCHANGED <<revision, branches, selected, commit, tabs, front, reads, views, box>>

-----------------------------------------------------------------------------
(* A commit's files and the diff tabs *)

SelectCommit(p) ==
    /\ commit' = [what |-> p.branch, page |-> p.page] /\ commit' # commit
    /\ reads' = Rereads([v \in {"files"} |-> FilesKey(commit')])
    /\ views' = [views EXCEPT !["files"] = Nothing]
    /\ UNCHANGED <<revision, branches, selected, commits, pages, tabs, front, box>>

\* Mutant: files read for another commit are listed.
FilesArrive_Any(r) ==
    /\ r.view \in {"files", "diff"}
    /\ reads' = reads \ {r}
    /\ views' = [views EXCEPT ![r.view] = r.key]
    /\ UNCHANGED <<revision, branches, selected, commits, pages, commit, tabs, front, box>>

FilesArrive(r) ==
    /\ r.view \in {"files", "diff"}
    /\ reads' = reads \ {r}
    /\ views' = IF r.live THEN [views EXCEPT ![r.view] = r.key] ELSE views
    /\ UNCHANGED <<revision, branches, selected, commits, pages, commit, tabs, front, box>>

\* A diff's tab: opened, or brought to the front again.
OpenDiff(d) ==
    /\ tabs' = tabs \cup {d}
    /\ front' = [what |-> d] /\ front' # front
    /\ reads' = Rereads([v \in {"diff"} |-> DiffKey(front', revision)])
    /\ views' = [views EXCEPT !["diff"] = Nothing]
    /\ UNCHANGED <<revision, branches, selected, commits, pages, commit, box>>

CloseDiff(d) ==
    /\ d \in tabs
    /\ tabs' = tabs \ {d}
    /\ IF front = [what |-> d]
       THEN /\ front' = Nothing
            /\ reads' = Rereads([v \in {"diff"} |-> Nothing])
            /\ views' = [views EXCEPT !["diff"] = Nothing]
       ELSE UNCHANGED <<front, reads, views>>
    /\ UNCHANGED <<revision, branches, selected, commits, pages, commit, box>>

-----------------------------------------------------------------------------
(* The commit box: what was typed, and how often the last commit's message    *)
(* was put in front of it                                                     *)

Type(atTheStart) ==
    /\ box.typed < MaxTyped
    /\ box' = [box EXCEPT !.typed = @ + 1, !.edited = @ \/ (atTheStart /\ box.put > 0)]
    /\ UNCHANGED <<revision, branches, selected, commits, pages, commit, tabs, front, reads, views>>

\* Ticking asks for the last commit's message.
Tick ==
    /\ ~box.amend /\ box.ticks < MaxTicks
    /\ box' = [box EXCEPT !.amend = TRUE, !.asked = @ + 1, !.ticks = @ + 1]
    /\ UNCHANGED <<revision, branches, selected, commits, pages, commit, tabs, front, reads, views>>

MessageArrives ==
    /\ box.asked > 0
    /\ box' = IF box.amend
              THEN [box EXCEPT !.asked = @ - 1, !.put = @ + 1, !.inserted = TRUE]
              ELSE [box EXCEPT !.asked = @ - 1]
    /\ UNCHANGED <<revision, branches, selected, commits, pages, commit, tabs, front, reads, views>>

\* Unticking takes it back, if the message still starts with it.
Untick ==
    /\ box.amend
    /\ box' = [box EXCEPT !.amend = FALSE, !.inserted = FALSE,
                          !.put = IF box.inserted /\ ~box.edited THEN @ - 1 ELSE @]
    /\ UNCHANGED <<revision, branches, selected, commits, pages, commit, tabs, front, reads, views>>

\* A commit landed: the store clears the draft.
Committed ==
    /\ box.typed + box.put > 0
    /\ box' = [Box EXCEPT !.typed = 0, !.asked = box.asked, !.ticks = box.ticks]
    /\ UNCHANGED <<revision, branches, selected, commits, pages, commit, tabs, front, reads, views>>

ReadArrives == \E r \in reads : HistoryArrives(r) \/ FilesArrive(r)
PageArrives == \E p \in pages : MoreArrives(p)
PickCommit == \E p \in ToSet(commits) : SelectCommit(p)

\* The three windows share no state of their own: each may be checked by itself.
HistoryNext ==
    \/ Refreshed \/ ReadArrives \/ LoadMore \/ PageArrives \/ PickCommit
    \/ \E b \in Range(Branches) : SelectBranch(b) \/ BranchGoes(b)
DiffNext == Refreshed \/ ReadArrives \/ \E d \in Diffs : OpenDiff(d) \/ CloseDiff(d)
BoxNext ==
    \/ Tick \/ MessageArrives \/ Untick \/ Committed
    \/ \E atTheStart \in BOOLEAN : Type(atTheStart)
GitWindowsNext == HistoryNext \/ DiffNext \/ BoxNext

-----------------------------------------------------------------------------
Pending(v) == \E r \in reads : r.view = v /\ r.live

(* However often branches, commits, tabs and the repository change while the  *)
(* reads are under way: once a view's own read is over it shows what it is    *)
(* about, as of the store's revision, never the answer to an earlier question.*)
ViewsAreCurrent ==
    /\ ~Pending("files") => views["files"] = commit
    /\ ~Pending("diff") => views["diff"] = DiffKey(front, revision)
    /\ revision > 0 /\ ~Pending("history") => views["history"] \in {HistoryKey(selected, revision), Nothing}

(* "Unticking takes back the last commit's message if it wasn't edited"       *)
(* (GitChangesWindow.tsx): nothing of it is left.                             *)
UntickTakesBack == ~box.amend /\ ~box.edited => box.put = 0

------------------------------------------------------------------------------
(* What is said of the code, or may be expected of it, and does not hold.    *)

(* The history listed is the selected branch's, page after page. Does not    *)
(* hold: a page of Load More that arrives late is added to another branch's  *)
(* history.                                                                  *)
HistoryIsOfBranch ==
    ~Pending("history") /\ revision > 0 =>
        \A i \in DOMAIN commits : commits[i] = [branch |-> selected, page |-> i]
=============================================================================
