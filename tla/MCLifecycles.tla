---------------------------- MODULE MCLifecycles ----------------------------
(* What must come to an end, side by side: a behaviour is one of one of these  *)
(* specifications, named by `runs`, which never changes.  Download keeps its   *)
(* own variables, which rest in the other behaviours; x1, x2, ... are those of *)
(* the specification named.                                                    *)
EXTENDS Download, Integers, FiniteSets

VARIABLES
    runs,  \* the specification this behaviour is of; then its variables,
           \* in the order it declares them
    x1, x2, x3, x4, x5, x6, x7, x8, x9, x10, x11, x12, x13

Flow == INSTANCE Workflow WITH
    Names <- {"a", "b", "c"}, Main <- "a", Commands <- {"x"},
    MaxSteps <- [n \in {"a", "b", "c"} |-> IF n = "c" THEN 1 ELSE 2], file <- x1,
    cancel <- x2, pc <- x3, stack <- x4, ok <- x5, launched <- x6, failed <- x7,
    result <- x8, heard <- x9
Sync == INSTANCE LspDocuments WITH
    Views <- {"v"}, MaxEdits <- 2, text <- x1, mounted <- x2, timer <- x3, queue <- x4,
    started <- x5, server <- x6, copy <- x7, request <- x8, about <- x9,
    diagnostics <- x10, stopping <- x11
Saved == INSTANCE SavedState WITH
    Projects <- {"p", "q"}, NoProject <- "none", MaxSets <- 2, MaxSwitches <- 3,
    MaxFaults <- 1, root <- x1, loaded <- x2, memory <- x3, pending <- x4, timer <- x5,
    lately <- x6, calls <- x7, file <- x8, partial <- x9, window <- x10, edits <- x11,
    switches <- x12, faults <- x13
Git == INSTANCE GitStore WITH
    Roots <- {"p"}, NoRoot <- "none", MaxVersion <- 2, MaxLate <- 0,
    MaxOperations <- 1, gitRoot <- x1, status <- x2, known <- x3, busy <- x4,
    refresh <- x5, late <- x6, repo <- x7, unseen <- x8, operations <- x9,
    question <- x10, after <- x11

ASSUME ConstantsAssumption == Flow!WorkflowAssumption /\ SizesAssumption

parts == <<runs, x1, x2, x3, x4, x5, x6, x7, x8, x9, x10, x11, x12, x13, vars>>

\* The variables from the k-th on, which a shorter specification leaves alone.
Rest1 == <<x1, x2, x3, x4, x5, x6, x7, x8, x9, x10, x11, x12, x13>>
Rest12 == <<x12, x13, vars>>
Rest10 == <<x10, x11, Rest12>>

NoDownload == Init /\ digest /\ ranges
Free12 == x12 = 0 /\ x13 = 0 /\ NoDownload
Free10 == x10 = 0 /\ x11 = 0 /\ Free12

LifecyclesInit ==
    \/ runs = "workflow" /\ Flow!Init /\ Free10
    \/ runs = "download" /\ Init /\ x1 = 0 /\ x2 = 0 /\ x3 = 0 /\ x4 = 0 /\ x5 = 0 /\ x6 = 0 /\ x7 = 0 /\ x8 = 0
                            /\ x9 = 0 /\ x10 = 0 /\ x11 = 0 /\ x12 = 0 /\ x13 = 0
    \/ runs = "sync" /\ Sync!LspInit /\ Free12
    \/ runs = "saving" /\ Saved!SavedInit /\ NoDownload
    \/ runs = "git" /\ Git!GitInit /\ Free12

LifecyclesNext ==
    \/ runs = "workflow" /\ Flow!Next /\ UNCHANGED <<runs, Rest10>>
    \/ runs = "download" /\ Next /\ UNCHANGED <<runs, Rest1>>
    \/ runs = "sync" /\ Sync!LspNext /\ UNCHANGED <<runs, Rest12>>
    \/ runs = "saving" /\ Saved!SavedNext /\ UNCHANGED <<runs, vars>>
    \/ runs = "git" /\ Git!GitNext /\ UNCHANGED <<runs, Rest12>>

\* The window may rest; the program's threads stop only where their own
\* specifications let them, so that a deadlock is reported.
Rest == runs \in {"sync", "saving", "git"} /\ UNCHANGED parts

\* Each specification's own fairness, side by side: `runs` never changes, so
\* that one of these conditions is one for every part.
Fairness ==
    /\ WF_parts(\/ runs = "workflow" /\ Flow!RunThread /\ UNCHANGED <<runs, Rest10>>
                \/ runs = "download" /\ DownloadThread /\ UNCHANGED <<runs, Rest1>>
                \/ runs = "sync" /\ Sync!Flush("v") /\ UNCHANGED <<runs, Rest12>>
                \/ runs = "saving" /\ Saved!HostLoads /\ UNCHANGED <<runs, vars>>
                \/ runs = "git" /\ Git!EndOperation /\ UNCHANGED <<runs, Rest12>>)
    /\ WF_parts(\/ runs = "workflow" /\ Flow!CancelledEnds /\ UNCHANGED <<runs, Rest10>>
                \/ runs = "download" /\ UnpackThread /\ UNCHANGED <<runs, Rest1>>
                \/ runs = "sync" /\ Sync!Send("v") /\ UNCHANGED <<runs, Rest12>>
                \/ runs = "saving" /\ Saved!HostWrites /\ UNCHANGED <<runs, vars>>
                \/ runs = "git" /\ Git!EndClone /\ UNCHANGED <<runs, Rest12>>)
    /\ WF_parts(\/ runs = "sync" /\ Sync!StartServer /\ UNCHANGED <<runs, Rest12>>
                \/ runs = "saving" /\ Saved!HostRenames /\ UNCHANGED <<runs, vars>>
                \/ runs = "git" /\ Git!HostReadsStatus /\ UNCHANGED <<runs, Rest12>>)
    /\ WF_parts(\/ runs = "sync" /\ (Sync!Started \/ Sync!StartFailed) /\ UNCHANGED <<runs, Rest12>>
                \/ runs = "saving" /\ Saved!TimerFires("p") /\ UNCHANGED <<runs, vars>>)
    /\ WF_parts(runs = "saving" /\ Saved!TimerFires("q") /\ UNCHANGED <<runs, vars>>)
    /\ SF_parts(runs = "git" /\ Git!Poll /\ UNCHANGED <<runs, Rest12>>)
    /\ SF_parts(runs = "git" /\ Git!HostReadsLists /\ UNCHANGED <<runs, Rest12>>)
    /\ SF_parts(runs = "git" /\ Git!RefreshArrives /\ UNCHANGED <<runs, Rest12>>)

LifecyclesSpec == LifecyclesInit /\ [][LifecyclesNext \/ Rest]_parts /\ Fairness

(* Workflow: the commands run are the workflow's with what it composes         *)
(* inlined, in that order; the outcome is the truth; nothing is launched after *)
(* a failure, and after `cancel` at most the command that was about to be      *)
(* (run-app/workflow/runner.rs).                                               *)
WorkflowIsTrue ==
    /\ [](runs = "workflow" => Flow!RunsThePlan /\ Flow!OutcomeIsTrue /\ Flow!CancelStops)
    /\ [][runs = "workflow" => Flow!FailureStops]_parts

(* Workflow, Download: a cancelled run ends, and one that composes never works *)
(* for ever between two commands; a try at a download ends unless it is        *)
(* paused, and when it is cancelled, paused or not.                            *)
ThreadsEnd ==
    (\/ runs = "workflow" /\ Flow!MustGoOn
     \/ runs = "download" /\ MustEnd)
    ~> (\/ runs = "workflow" /\ Flow!HasGoneOn
        \/ runs = "download" /\ HasEnded)

(* LspDocuments, GitStore, SavedState: what is typed reaches the language      *)
(* server, a change of the repository made outside is shown, and what was set  *)
(* is saved, each without anything else happening.  Project q is p by          *)
(* symmetry.                                                                   *)
WindowCatchesUp ==
    (\/ runs = "sync" /\ Sync!IsBehind
     \/ runs = "git" /\ Git!IsStale("p")
     \/ runs = "saving" /\ Saved!IsSet("p"))
    ~> (\/ runs = "sync" /\ Sync!HasCaughtUp
        \/ runs = "git" /\ Git!IsFresh("p")
        \/ runs = "saving" /\ Saved!IsSaved("p"))
==============================================================================
