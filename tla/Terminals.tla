------------------------------ MODULE Terminals ------------------------------
(* The Terminal window (terminal/): its tabs, remembered per state scope (the  *)
(* open project, a loading scope until its file is read) and reopened as fresh *)
(* shells; and each terminal's session, a component that starts a shell in the *)
(* host when it is mounted and kills it when it goes, by commands the host     *)
(* runs each on a thread of its own.                                           *)
EXTENDS Integers, Sequences, FiniteSets, SequencesExt

CONSTANTS Projects, Shells, DefaultShell, NoTab, MaxTabs, MaxTerminalSteps

VARIABLES
    scope,             \* the state store: its project and whether its file was read
    remembered,        \* what each project's state remembers
    known,             \* the host has told its shells
    tabs, activeId, restoredScope, pendingCwds,
    sessions,          \* each terminal ever opened: its component and the host's shell
    renaming,
    terminalSteps      \* bound

terminalVars == <<scope, remembered, known, tabs, activeId, restoredScope, pendingCwds, sessions,
                  renaming, terminalSteps>>

Fresh(n) == [mounted |-> TRUE, spawn |-> "sent", kill |-> "none", shell |-> "none",
             timer |-> FALSE, typed |-> FALSE, autoCleared |-> FALSE, wiped |-> FALSE]
Ids == DOMAIN sessions
HasTab(all, id) == \E i \in DOMAIN all : all[i].id = id
TabOf(all, id) == all[CHOOSE i \in DOMAIN all : all[i].id = id]
Lowest(S) == CHOOSE x \in S : \A y \in S : x <= y

\* A new tab takes its shell's lowest free number and, unless it is split from
\* another, a group of its own.
NextNumber(shell) ==
    Lowest({n \in 1..(Len(tabs) + 1) : ~\E i \in DOMAIN tabs : tabs[i].shell = shell /\ tabs[i].n = n})
NewTab(shell, group) ==
    LET id == Cardinality(Ids) + 1
    IN  [id |-> id, shell |-> shell, n |-> NextNumber(shell), label |-> "",
         group |-> IF group = NoTab THEN id ELSE group]

ToPersisted(all, active) ==
    [tabs |-> [i \in DOMAIN all |->
                 [shell |-> all[i].shell, n |-> all[i].n, label |-> all[i].label,
                  group |-> CHOOSE g \in DOMAIN all : /\ all[g].group = all[i].group
                                                      /\ \A h \in 1..(g - 1) : all[h].group # all[i].group]],
     active |-> IF HasTab(all, active) THEN CHOOSE i \in DOMAIN all : all[i].id = active ELSE 1]

\* The remembered terminals of known shells as fresh tabs, split as they were.
RestoredTabs(saved) ==
    LET kept == SelectSeq(saved.tabs, LAMBDA t : t.shell \in Shells)
        id(i) == Cardinality(Ids) + i
        first(i) == CHOOSE j \in DOMAIN kept : /\ kept[j].group = kept[i].group
                                               /\ \A h \in 1..(j - 1) : kept[h].group # kept[i].group
    IN  [i \in DOMAIN kept |-> [id |-> id(i), shell |-> kept[i].shell, n |-> kept[i].n,
                                label |-> kept[i].label, group |-> id(first(i))]]

TerminalInit ==
    /\ scope = [root |-> CHOOSE p \in Projects : TRUE, loaded |-> FALSE]
    /\ remembered \in [Projects -> {[tabs |-> <<>>, active |-> 1],
         [tabs |-> <<[shell |-> DefaultShell, n |-> 1, label |-> "", group |-> 1],
                     [shell |-> "gone", n |-> 1, label |-> "", group |-> 1]>>, active |-> 2]}]
    /\ known = FALSE /\ tabs = <<>> /\ activeId = NoTab
    /\ restoredScope = [root |-> "none", loaded |-> FALSE] /\ pendingCwds = 0
    /\ sessions = [i \in {} |-> Fresh(0)] /\ renaming = NoTab /\ terminalSteps = 0

Stepped == terminalSteps < MaxTerminalSteps /\ terminalSteps' = terminalSteps + 1

\* A change of the tabs on screen: the components of new ones are mounted and
\* start their shells, those of the ones gone kill theirs; nothing is timed any
\* more. The tabs are remembered if they are the scope's.
Rendered(all, active, at) ==
    /\ tabs' = all /\ activeId' = active
    /\ sessions' = [id \in Ids \union {all[i].id : i \in DOMAIN all} |->
         IF id \notin Ids THEN Fresh(0)
         ELSE IF sessions[id].mounted /\ ~HasTab(all, id)
         THEN [sessions[id] EXCEPT !.mounted = FALSE, !.kill = "sent", !.timer = FALSE]
         ELSE sessions[id]]
    /\ remembered' = IF scope.loaded /\ at = scope
                     THEN [remembered EXCEPT ![scope.root] = ToPersisted(all, active)]
                     ELSE remembered

\* Once the shells are known, and at every new scope: the terminals remembered
\* there, or with none what is open, or one of the first shell. What is on
\* screen is remembered only by the next change.
ScopeEntered(now) ==
    LET saved == IF now.loaded THEN remembered[now.root] ELSE [tabs |-> <<>>, active |-> 1]
        restored == RestoredTabs(saved)
        active == restored[IF saved.active > Len(restored) THEN Len(restored) ELSE saved.active].id
        first == NewTab(DefaultShell, NoTab)
    IN  /\ restoredScope' = now /\ remembered' = remembered
        /\ IF restored # <<>> THEN tabs' = restored /\ activeId' = active
           ELSE IF tabs = <<>> /\ pendingCwds = 0 THEN tabs' = <<first>> /\ activeId' = first.id
           ELSE UNCHANGED <<tabs, activeId>>
        /\ sessions' = [id \in Ids \union {tabs'[i].id : i \in DOMAIN tabs'} |->
             IF id \notin Ids THEN Fresh(0)
             ELSE IF sessions[id].mounted /\ ~HasTab(tabs', id)
             THEN [sessions[id] EXCEPT !.mounted = FALSE, !.kill = "sent", !.timer = FALSE]
             ELSE sessions[id]]

\* The tabs are remembered once they are those of their scope.
Remember ==
    /\ scope.loaded /\ restoredScope = scope
    /\ remembered' = [remembered EXCEPT ![scope.root] = ToPersisted(tabs, activeId)]
    /\ remembered' # remembered
    /\ UNCHANGED <<scope, known, tabs, activeId, restoredScope, pendingCwds, sessions, renaming, terminalSteps>>

ShellsTold ==
    /\ ~known /\ known' = TRUE /\ ScopeEntered(scope)
    /\ UNCHANGED <<scope, pendingCwds, renaming, terminalSteps>>
NewScope(now) ==
    /\ Cardinality(Ids) < MaxTabs /\ scope' = now
    /\ IF known THEN ScopeEntered(now)
       ELSE UNCHANGED <<remembered, tabs, activeId, restoredScope, sessions>>
    /\ UNCHANGED <<known, pendingCwds, renaming>>
StoreLoads == ~scope.loaded /\ NewScope([scope EXCEPT !.loaded = TRUE]) /\ UNCHANGED terminalSteps
OpenProject(p) == p # scope.root /\ Stepped /\ NewScope([root |-> p, loaded |-> FALSE])

Room == Len(tabs) < 2 /\ Cardinality(Ids) < MaxTabs
AddTerminal(shell, group) ==
    LET new == NewTab(shell, group)
    IN  Room /\ Rendered(Append(tabs, new), new.id, restoredScope)
Add(shell) ==
    /\ known /\ Stepped /\ AddTerminal(shell, NoTab)
    /\ UNCHANGED <<scope, known, restoredScope, pendingCwds, renaming>>
SplitTerminal ==
    /\ known /\ HasTab(tabs, activeId) /\ Stepped
    /\ AddTerminal(TabOf(tabs, activeId).shell, TabOf(tabs, activeId).group)
    /\ UNCHANGED <<scope, known, restoredScope, pendingCwds, renaming>>

\* "Open in Terminal": kept till the panel is ready in its scope.
OpenTerminalIn ==
    /\ pendingCwds = 0 /\ Stepped /\ pendingCwds' = 1
    /\ UNCHANGED <<scope, remembered, known, tabs, activeId, restoredScope, sessions, renaming>>
TakePendingCwds ==
    /\ known /\ restoredScope = scope /\ pendingCwds > 0 /\ pendingCwds' = pendingCwds - 1
    /\ AddTerminal(DefaultShell, NoTab)
    /\ UNCHANGED <<scope, known, restoredScope, renaming, terminalSteps>>

\* Closing shows a split sibling first, then the next tab or the one before.
CloseTerminal(id) ==
    LET at == CHOOSE i \in DOMAIN tabs : tabs[i].id = id
        next == SelectSeq(tabs, LAMBDA t : t.id # id)
        siblings == {i \in DOMAIN next : next[i].group = tabs[at].group}
        shown == IF siblings # {} THEN next[Lowest(siblings)].id
                 ELSE IF next = <<>> THEN NoTab
                 ELSE next[IF at \in DOMAIN next THEN at ELSE Len(next)].id
    IN  /\ HasTab(tabs, id)
        /\ Rendered(next, IF activeId = id THEN shown ELSE activeId, restoredScope)
        /\ UNCHANGED <<scope, known, restoredScope, pendingCwds, terminalSteps>>
Close(id) == CloseTerminal(id) /\ renaming' = (IF renaming = id THEN NoTab ELSE renaming)
Activate(id) ==
    /\ HasTab(tabs, id) /\ id # activeId /\ Rendered(tabs, id, restoredScope)
    /\ UNCHANGED <<scope, known, restoredScope, pendingCwds, renaming, terminalSteps>>
StartRename(id) ==
    /\ HasTab(tabs, id) /\ renaming = NoTab /\ Stepped /\ renaming' = id
    /\ UNCHANGED <<scope, remembered, known, tabs, activeId, restoredScope, pendingCwds, sessions>>
RenameTerminal(label) ==
    /\ renaming # NoTab /\ renaming' = NoTab
    /\ Rendered([i \in DOMAIN tabs |-> IF tabs[i].id = renaming THEN [tabs[i] EXCEPT !.label = label]
                                       ELSE tabs[i]], activeId, restoredScope)
    /\ UNCHANGED <<scope, known, restoredScope, pendingCwds, terminalSteps>>

\* The host's side of one session. Each command runs on a thread of its own: a
\* kill that finds no session yet does nothing.
SessionStays == UNCHANGED <<scope, remembered, known, tabs, activeId, restoredScope, pendingCwds,
                            renaming, terminalSteps>>
\* A first clear is timed at each output until one was done or the user typed
\* (and once more when a shell starts whose component is gone).
Scheduled(s) == s.timer \/ ~s.autoCleared

Spawned(id) ==
    /\ sessions[id].spawn = "sent" /\ SessionStays
    /\ sessions' = [sessions EXCEPT ![id].spawn = "done", ![id].shell = "running",
                                    ![id].timer = Scheduled(sessions[id])]
SpawnFails(id) ==
    /\ sessions[id].spawn = "sent" /\ SessionStays
    /\ sessions' = [sessions EXCEPT ![id].spawn = "failed"]
Output(id) ==
    /\ sessions[id].shell = "running" /\ sessions[id].mounted /\ SessionStays
    /\ ~sessions[id].timer /\ Scheduled(sessions[id])
    /\ sessions' = [sessions EXCEPT ![id].timer = TRUE]
Killed(id) ==
    /\ sessions[id].kill = "sent" /\ SessionStays
    /\ sessions' = [sessions EXCEPT ![id].kill = "done",
                                    ![id].shell = IF @ = "running" THEN "ended" ELSE @]
\* The shell exits by itself; its tab closes.
Exits(id) ==
    /\ sessions[id].shell = "running" /\ sessions[id].mounted /\ Close(id)

\* Typing cancels the first clear for good.
Type(id) ==
    /\ sessions[id].mounted /\ ~sessions[id].typed /\ Stepped
    /\ sessions' = [sessions EXCEPT ![id].typed = TRUE, ![id].timer = FALSE, ![id].autoCleared = TRUE]
    /\ UNCHANGED <<scope, remembered, known, tabs, activeId, restoredScope, pendingCwds, renaming>>
QuietClear(id) ==
    /\ sessions[id].timer /\ SessionStays
    /\ sessions' = [sessions EXCEPT ![id].timer = FALSE, ![id].autoCleared = TRUE,
                                    ![id].wiped = @ \/ (sessions[id].typed /\ ~sessions[id].autoCleared)]

SessionSteps(id) ==
    /\ id \in Ids
    /\ Spawned(id) \/ SpawnFails(id) \/ Output(id) \/ Killed(id) \/ Exits(id) \/ Type(id) \/ QuietClear(id)
TabSteps(id) == id \in Ids /\ (Close(id) \/ Activate(id) \/ StartRename(id))
TerminalNext ==
    \/ ShellsTold \/ StoreLoads \/ Remember \/ SplitTerminal \/ OpenTerminalIn \/ TakePendingCwds
    \/ \E p \in Projects : OpenProject(p)
    \/ \E s \in Shells : Add(s)
    \/ \E label \in {"", "mine"} : RenameTerminal(label)
    \/ \E id \in 1..MaxTabs : SessionSteps(id) \/ TabSteps(id)
TerminalSpec == TerminalInit /\ [][TerminalNext]_terminalVars

\* Entering a scope never remembers there what was on screen before, and the
\* terminals of a project that is not open stay remembered as they were left.
ScopeKeeps ==
    \A p \in Projects :
        remembered'[p] # remembered[p] => scope = [root |-> p, loaded |-> TRUE] /\ scope' = scope

\* The first clear never erases what the user has typed, and the keyboard goes
\* to a terminal that is there.
NeverClearsTyped == \A id \in Ids : ~sessions[id].wiped
ActiveIsOpen == IF tabs = <<>> THEN activeId = NoTab ELSE HasTab(tabs, activeId)

------------------------------------------------------------------------------
(* What is said of the code, or may be expected of it, and does not hold.    *)

(* A shell lives as long as its component: none is left when the commands of *)
(* those gone have all been carried out. Does not hold: a kill that is       *)
(* carried out before its spawn finds nothing, and the shell stays           *)
(* (terminal/commands.rs:84).                                                *)
NoneOutlives ==
    \A id \in Ids : (~sessions[id].mounted /\ sessions[id].kill = "done" /\ sessions[id].spawn # "sent")
                        => sessions[id].shell # "running"
=============================================================================
