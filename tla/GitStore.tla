------------------------------- MODULE GitStore -------------------------------
(* The source control state every Git window shows (ui/src/git/store and the  *)
(* host and windows that drive it): which project it is of, its status as     *)
(* last read, the operation under way and what follows it. A repository is    *)
(* its version, which every change of it raises; NoRepo is a folder that is   *)
(* in none.                                                                   *)
EXTENDS Integers, FiniteSets

CONSTANTS Roots, NoRoot,
          MaxVersion,        \* bound: the changes of a repository
          MaxLate,           \* bound: the overtaken reads that are followed
          MaxOperations      \* bound: what runs and goes on at once

ASSUME GitAssumption == NoRoot \notin Roots

VARIABLES
    gitRoot,   \* the open project
    status,    \* the status shown
    known,     \* a first answer for gitRoot has arrived
    busy,      \* the operation shown as running
    refresh,   \* the last read that was begun
    late,      \* earlier reads whose answers are still to come
    repo,      \* each project's repository
    unseen,    \* the repository changed outside since the last read was begun
    operations,\* what runs in the host
    question,  \* the dialog that waits for an answer
    after      \* what goes on once an operation's own refresh is over

gitVars == <<gitRoot, status, known, busy, refresh, late, repo, unseen, operations,
             question, after>>

None == [project |-> NoRoot]
Idle == "idle"
NoRepo == 0
Unread == -1
NoStatus == [project |-> NoRoot, status |-> NoRepo, lists |-> NoRepo, own |-> FALSE]

GitInit ==
    /\ gitRoot = NoRoot /\ status = NoStatus /\ known = TRUE /\ busy = Idle
    /\ refresh = None /\ late = {} /\ repo \in [Roots -> {NoRepo, 1}] /\ unseen = FALSE
    /\ operations = {} /\ question = None /\ after = {}

InRepo == status # NoStatus

\* refreshGit(): the newest read alone may answer.
Reading(p, own) ==
    /\ refresh' = [project |-> p, status |-> Unread, lists |-> Unread, own |-> own]
    /\ late' = IF refresh # None /\ Cardinality(late) < MaxLate THEN late \cup {refresh} ELSE late
    /\ unseen' = FALSE

Refresh(own) ==
    IF gitRoot = NoRoot
    THEN /\ status' = NoStatus /\ known' = TRUE /\ refresh' = None /\ unseen' = FALSE
         /\ late' = IF refresh # None /\ Cardinality(late) < MaxLate
                    THEN late \cup {refresh} ELSE late
    ELSE Reading(gitRoot, own) /\ UNCHANGED <<status, known>>

Free == question = None      \* a dialog is over everything else

SetGitRoot(p) ==
    /\ Free /\ p # gitRoot
    /\ gitRoot' = p
    /\ status' = NoStatus /\ known' = (p = NoRoot)
    /\ IF p = NoRoot
       THEN refresh' = None /\ unseen' = FALSE /\ UNCHANGED late
       ELSE Reading(p, FALSE)
    /\ UNCHANGED <<busy, repo, operations, question, after>>

\* The window got the focus, a file was saved, Refresh.
RefreshAgain ==
    /\ gitRoot # NoRoot
    /\ Refresh(FALSE)
    /\ UNCHANGED <<gitRoot, busy, repo, operations, question, after>>

\* Every few seconds, unless something runs.
Poll ==
    /\ busy = Idle /\ gitRoot # NoRoot
    /\ Refresh(FALSE)
    /\ UNCHANGED <<gitRoot, busy, repo, operations, question, after>>

Changed(r, field) == [r EXCEPT ![field] = repo[r.project]]

\* The status is read first, the branches and stashes after it.
HostReadsStatus ==
    /\ refresh # None /\ refresh.status = Unread
    /\ refresh' = Changed(refresh, "status")
    /\ UNCHANGED <<gitRoot, status, known, busy, late, repo, unseen, operations, question, after>>

HostReadsLists ==
    /\ refresh # None /\ refresh.status \notin {Unread, NoRepo} /\ refresh.lists = Unread
    /\ refresh' = Changed(refresh, "lists")
    /\ UNCHANGED <<gitRoot, status, known, busy, late, repo, unseen, operations, question, after>>

HostReadsLate(r) ==
    /\ r.lists = Unread
    /\ late' = (late \ {r})
               \cup {IF r.status = Unread THEN Changed(r, "status") ELSE Changed(r, "lists")}
    /\ UNCHANGED <<gitRoot, status, known, busy, refresh, repo, unseen, operations, question, after>>

\* What a read found is shown.
Show(r) ==
    /\ status' = IF r.status = NoRepo THEN NoStatus ELSE [r EXCEPT !.own = FALSE]
    /\ known' = TRUE

RefreshArrives ==
    /\ refresh # None /\ (refresh.lists # Unread \/ refresh.status = NoRepo)
    /\ Show(refresh)
    /\ refresh' = None
    /\ UNCHANGED <<gitRoot, busy, late, repo, unseen, operations, question, after>>

\* Git is missing, the repository is broken: the status is nothing.
RefreshFails ==
    /\ refresh # None
    /\ refresh' = None /\ status' = NoStatus /\ known' = TRUE
    /\ unseen' = TRUE
    /\ UNCHANGED <<gitRoot, busy, late, repo, operations, question, after>>

\* Quietly ignored: a newer read was begun, or the project is not open any more.
LateArrives(r) ==
    /\ r.lists # Unread \/ r.status = NoRepo
    /\ late' = late \ {r}
    /\ UNCHANGED <<gitRoot, status, known, busy, refresh, repo, unseen, operations, question, after>>

-----------------------------------------------------------------------------
(* Operations *)

Ready == InRepo /\ busy = Idle

\* What each part of the window offers. Menus and tool bars are disabled while
\* something runs; the rows' own buttons and a branch's double click are not.
WindowOffers ==
    IF gitRoot = NoRoot \/ ~known THEN {}
    ELSE IF ~InRepo THEN (IF busy = Idle THEN {"init"} ELSE {})
    ELSE {"rows", "stashes"}
RowOffers == IF "rows" \in WindowOffers THEN {"change", "ask"} ELSE {}
StashOffers == IF "stashes" \in WindowOffers THEN {"change", "ask"} ELSE {}
BarOffers == IF Ready THEN {"change", "ask"} ELSE {}
BannerOffers == IF Ready THEN {"change"} ELSE {}
CommitOffers == IF Ready THEN {"commit", "change"} ELSE {}
BranchOffers == IF InRepo THEN {"change"} \cup (IF busy = Idle THEN {"ask", "delete"} ELSE {}) ELSE {}
MenuOffers ==
    (IF Ready THEN {"change", "ask"} ELSE {})
    \cup (IF busy = Idle THEN {"clone"} ELSE {})
    \cup (IF gitRoot # NoRoot /\ ~InRepo /\ busy = Idle THEN {"init"} ELSE {})
StatusBarOffers == IF gitRoot # NoRoot /\ known /\ ~InRepo THEN {"init"} ELSE {}
GitOffers == RowOffers \cup StashOffers \cup BarOffers \cup BannerOffers \cup CommitOffers
           \cup BranchOffers \cup MenuOffers \cup StatusBarOffers \cup WindowOffers

\* runGit: the project is the one open when it begins.
RunGit(what, asked) ==
    IF Ready /\ Cardinality(operations) < MaxOperations
    THEN /\ busy' = what
         /\ operations' = operations \cup {[what |-> what, project |-> gitRoot, asked |-> asked]}
    ELSE UNCHANGED <<busy, operations>>

\* Stage, unstage, switch, stash, continue or abort; commit; push, pull, sync, fetch.
Run(what) ==
    /\ Free /\ what \in GitOffers
    /\ RunGit(what, gitRoot)
    /\ UNCHANGED <<gitRoot, status, known, refresh, late, repo, unseen, question, after>>

\* Undo changes, merge, rebase, drop a stash, a new branch, deleting one: asked about first.
AskFirst(what) ==
    /\ Free /\ what \in GitOffers
    /\ question' = [what |-> what, project |-> gitRoot]
    /\ UNCHANGED <<gitRoot, status, known, busy, refresh, late, repo, unseen, operations, after>>

\* GitOffers in the menu, the status bar and Git Changes of a folder in no repository.
AskToInit ==
    /\ Free /\ "init" \in GitOffers /\ Cardinality(operations) < MaxOperations
    /\ question' = [what |-> "init", project |-> gitRoot]
    /\ UNCHANGED <<gitRoot, status, known, busy, refresh, late, repo, unseen, operations, after>>

\* Creating a repository does not look at what is running. Force only in the same project.
AnswerGiven ==
    /\ question # None
    /\ question' = None
    /\ CASE question.what = "init" ->
              /\ busy' = "init"
              /\ operations' = operations \cup {[what |-> "init", project |-> question.project,
                                                 asked |-> question.project]}
         [] question.what = "force" /\ question.project # gitRoot ->
              UNCHANGED <<busy, operations>>
         [] OTHER -> RunGit(question.what, question.project)
    /\ UNCHANGED <<gitRoot, status, known, refresh, late, repo, unseen, after>>

SayNo ==
    /\ question # None
    /\ question' = None
    /\ UNCHANGED <<gitRoot, status, known, busy, refresh, late, repo, unseen, operations, after>>

\* Cloning is of no project, and refreshes nothing.
Clone ==
    /\ Free /\ "clone" \in MenuOffers /\ Cardinality(operations) < MaxOperations
    /\ busy' = "clone"
    /\ operations' = operations \cup {[what |-> "clone", project |-> NoRoot, asked |-> NoRoot]}
    /\ UNCHANGED <<gitRoot, status, known, refresh, late, repo, unseen, question, after>>

CloneEnds(o) ==
    /\ o.what = "clone"
    /\ operations' = operations \ {o} /\ busy' = Idle
    /\ UNCHANGED <<gitRoot, status, known, refresh, late, repo, unseen, question, after>>

\* What a successful commit that pushes, or a branch that would not go, goes on with.
Follow(o, done) ==
    IF Cardinality(after) = MaxOperations THEN {}
    ELSE IF o.what = "commit" /\ done THEN {[what |-> "push", project |-> o.project]}
    ELSE IF o.what = "delete" /\ ~done THEN {[what |-> "force", project |-> o.project]}
    ELSE {}

\* Mutant: the status is left to the poll.
OperationEnds_Unread(o, done) ==
    /\ o.what # "clone"
    /\ done => repo[o.project] < MaxVersion
    /\ operations' = operations \ {o} /\ busy' = Idle
    /\ repo' = IF done THEN [repo EXCEPT ![o.project] = @ + 1] ELSE repo
    /\ after' = after \cup Follow(o, done)
    /\ UNCHANGED <<gitRoot, status, known, refresh, late, unseen, question>>

\* finally: nothing runs, and the status is read again.
OperationEnds(o, done) ==
    /\ o.what # "clone"
    /\ done => repo[o.project] < MaxVersion
    /\ operations' = operations \ {o} /\ busy' = Idle
    /\ repo' = IF done THEN [repo EXCEPT ![o.project] = @ + 1] ELSE repo
    /\ after' = after \cup Follow(o, done)
    /\ Refresh(Follow(o, done) # {})
    /\ UNCHANGED <<gitRoot, question>>

\* The operation's own refresh is over, whether it was shown or ignored.
GoOn(f) ==
    /\ Free /\ ~\E r \in late \cup {refresh} : r # None /\ r.own
    /\ after' = after \ {f}
    /\ IF f.what = "force"
       THEN question' = f /\ UNCHANGED <<busy, operations>>
       ELSE RunGit(f.what, f.project) /\ UNCHANGED question
    /\ UNCHANGED <<gitRoot, status, known, refresh, late, repo, unseen>>

\* A terminal, another tool.
ChangedOutside(p) ==
    /\ repo[p] < MaxVersion
    /\ repo' = [repo EXCEPT ![p] = @ + 1]
    /\ unseen' = (unseen \/ p = gitRoot)
    /\ UNCHANGED <<gitRoot, status, known, busy, refresh, late, operations, question, after>>

ReadLate == \E r \in late : HostReadsLate(r)
ArriveLate == \E r \in late : LateArrives(r)
EndClone == \E o \in operations : CloneEnds(o)
EndOperation == \E o \in operations, done \in BOOLEAN : OperationEnds(o, done)
Continue == \E f \in after : GoOn(f)

GitNext ==
    \/ RefreshAgain \/ Poll \/ HostReadsStatus \/ HostReadsLists \/ RefreshArrives \/ RefreshFails
    \/ ReadLate \/ ArriveLate \/ AskToInit \/ AnswerGiven \/ SayNo \/ Clone \/ EndClone
    \/ EndOperation \/ Continue
    \/ \E p \in Roots \cup {NoRoot} : SetGitRoot(p)
    \/ \E what \in {"change", "commit"} : Run(what)
    \/ \E what \in {"ask", "delete"} : AskFirst(what)
    \/ \E p \in Roots : ChangedOutside(p)

GitSpec == GitInit /\ [][GitNext]_gitVars

\* The host answers and operations end; neither the user nor a poll overtakes
\* every read (a read is shorter than the five seconds between polls).
GitFairness == /\ SF_gitVars(Poll) /\ WF_gitVars(EndOperation) /\ WF_gitVars(EndClone)
               /\ WF_gitVars(HostReadsStatus) /\ SF_gitVars(HostReadsLists)
               /\ SF_gitVars(RefreshArrives)

-----------------------------------------------------------------------------
(* However reads overtake each other and projects are switched: when nothing  *)
(* runs and no read is under way, the status shown is the open project's and  *)
(* is its repository as it is, unless it was changed outside since.           *)
ShownIsCurrent ==
    refresh = None /\ busy = Idle /\ ~unseen /\ gitRoot # NoRoot
        => /\ known
           /\ IF repo[gitRoot] = NoRepo THEN ~InRepo
              ELSE status.project = gitRoot /\ status.status = repo[gitRoot]

(* An operation runs in the project it was asked for in, a forced deletion    *)
(* whose first try was in another project included. (A push after a commit    *)
(* is the exception: PushedIsCommitted.)                                      *)
RunsWhereAsked == \A o \in operations : o.what # "push" => o.asked = o.project

(* The Git windows show the open project's repository as it is, and an        *)
(* operation runs in the project it was asked in (git/store/gitStore.ts).     *)
RepositoryIsAsShown == ShownIsCurrent /\ RunsWhereAsked

(* "keeps it fresh": a change made outside is shown in the end, if reading    *)
(* the status does not fail.                                                  *)
IsStale(p) == gitRoot = p /\ unseen
IsFresh(p) == gitRoot # p \/ status.status = repo[p] \/ ~InRepo

------------------------------------------------------------------------------
(* What is said of the code, or may be expected of it, and does not hold.    *)

(* "Commit, then push" pushes the project that was committed. Does not hold: *)
(* the push after a commit asks for the project open by then (gitStore.ts);  *)
(* it takes two operations and two versions.                                 *)
PushedIsCommitted == \A o \in operations : o.what = "push" => o.asked = o.project
=============================================================================
