----------------------------- MODULE SavedState -----------------------------
(* What the window remembers of each project (ui/src/workspace, infra/state,  *)
(* state-json): widgets set values in a store in memory, the store saves them *)
(* a moment later, when another project is opened and when the window closes. *)
(* The host carries out loads and saves one after the other, each save into a *)
(* partial file that is then renamed.                                         *)
EXTENDS Integers, Sequences

CONSTANTS Projects, NoProject, MaxSets, MaxSwitches, MaxFaults

VARIABLES
    root,      \* the open project
    loaded,    \* its store is provided; until then an empty one is
    memory,    \* each store's values: how often the user changed something
    pending,   \* the projects whose store has changes it has not saved
    timer,     \* the projects whose store will save in a moment
    lately,    \* a value a collector gathers only right before a save
    calls,     \* commands on their way to the host, in order
    file,      \* each project's file
    partial,   \* the sibling file a save writes first
    window,    \* "open", "asking", "flushing", "closed"
    edits, switches, faults  \* bounds

savedVars == <<root, loaded, memory, pending, timer, lately, calls, file, partial,
               window, edits, switches, faults>>

Torn == -1
Empty == 0

SavedInit ==
    /\ root = NoProject /\ loaded = FALSE
    /\ memory = [p \in Projects |-> Empty] /\ pending = {} /\ timer = {} /\ lately = Empty
    /\ calls = <<>> /\ file = [p \in Projects |-> Empty]
    /\ partial = [p \in Projects |-> Empty] /\ window = "open"
    /\ edits = 0 /\ switches = 0 /\ faults = 0

\* What a widget shows of its stored state: re-read when the store changes.
Provided == IF loaded THEN memory[root] ELSE Empty

Call(what, p) == [what |-> what, project |-> p, value |-> memory[p]]

\* What flush() has to write: the collectors first add what they gather.
Collected(p) == IF p = root /\ lately # Empty THEN [memory EXCEPT ![p] = lately] ELSE memory
Unsaved(p) == p \in pending \/ (p = root /\ lately # Empty)

Flush(p) ==
    /\ timer' = timer \ {p}
    /\ memory' = Collected(p)
    /\ lately' = IF p = root THEN Empty ELSE lately
    /\ pending' = pending \ {p}
    /\ calls' = IF Unsaved(p)
                THEN Append(calls, [what |-> "save", project |-> p, value |-> Collected(p)[p]])
                ELSE calls

-----------------------------------------------------------------------------
(* The store *)

\* Mutant: only the first change of a store starts its timer.
Set_OneTimer ==
    /\ window = "open" /\ loaded /\ edits < MaxSets
    /\ edits' = edits + 1
    /\ memory' = [memory EXCEPT ![root] = edits + 1]
    /\ lately' = Empty
    /\ pending' = pending \cup {root} /\ timer' = IF edits = 0 THEN {root} ELSE timer
    /\ UNCHANGED <<root, loaded, calls, file, partial, window, switches, faults>>

\* Until the project's file is read nothing is kept.
Set ==
    /\ window = "open" /\ loaded /\ edits < MaxSets
    /\ edits' = edits + 1
    /\ memory' = [memory EXCEPT ![root] = edits + 1]
    /\ lately' = Empty
    /\ pending' = pending \cup {root} /\ timer' = timer \cup {root}
    /\ UNCHANGED <<root, loaded, calls, file, partial, window, switches, faults>>

\* A value too chatty to set (a cursor): it waits for a save.
Move ==
    /\ window = "open" /\ loaded /\ edits < MaxSets
    /\ edits' = edits + 1
    /\ lately' = edits + 1
    /\ UNCHANGED <<root, loaded, memory, pending, timer, calls, file, partial, window,
                   switches, faults>>

TimerFires(p) ==
    /\ p \in timer /\ window # "closed"
    /\ Flush(p)
    /\ UNCHANGED <<root, loaded, file, partial, window, edits, switches, faults>>

\* Mutant: the outgoing project's store is dropped as it is.
Open_Drops(p) ==
    /\ window = "open" /\ p # root /\ switches < MaxSwitches
    /\ switches' = switches + 1
    /\ root' = p /\ loaded' = FALSE
    /\ lately' = Empty
    /\ calls' = IF p # NoProject THEN Append(calls, Call("load", p)) ELSE calls
    /\ timer' = timer \ {root} /\ pending' = pending \ {root}
    /\ UNCHANGED <<memory, file, partial, window, edits, faults>>

\* Another project: the outgoing one's state is written, the new one's read.
Open(p) ==
    /\ window = "open" /\ p # root /\ switches < MaxSwitches
    /\ switches' = switches + 1
    /\ root' = p /\ loaded' = FALSE
    /\ LET saves == loaded /\ Unsaved(root) IN
       /\ memory' = IF saves THEN Collected(root) ELSE memory
       /\ calls' = (IF saves THEN Append(calls, [what |-> "save", project |-> root,
                                                 value |-> Collected(root)[root]])
                             ELSE calls)
                   \o (IF p # NoProject THEN <<Call("load", p)>> ELSE <<>>)
    /\ lately' = Empty
    /\ timer' = timer \ {root} /\ pending' = pending \ {root}
    /\ UNCHANGED <<file, partial, window, edits, faults>>

-----------------------------------------------------------------------------
(* The host: one command at a time *)

Next1 == calls[1]

\* A load read for a project that is not open any more is dropped.
HostLoads ==
    /\ calls # <<>> /\ Next1.what = "load"
    /\ calls' = Tail(calls)
    /\ IF Next1.project = root /\ ~loaded
          /\ ~\E i \in 2..Len(calls) : calls[i].what = "load" /\ calls[i].project = root
       THEN /\ loaded' = TRUE
            /\ memory' = [memory EXCEPT ![root] = IF file[root] = Torn THEN Empty ELSE file[root]]
       ELSE UNCHANGED <<loaded, memory>>
    /\ UNCHANGED <<root, pending, timer, lately, file, partial, window, edits, switches, faults>>

HostWrites ==
    /\ calls # <<>> /\ Next1.what = "save"
    /\ partial' = [partial EXCEPT ![Next1.project] = Next1.value]
    /\ calls' = [calls EXCEPT ![1].what = "rename"]
    /\ UNCHANGED <<root, loaded, memory, pending, timer, lately, file, window, edits,
                   switches, faults>>

HostRenames ==
    /\ calls # <<>> /\ Next1.what = "rename"
    /\ file' = [file EXCEPT ![Next1.project] = partial[Next1.project]]
    /\ calls' = Tail(calls)
    /\ UNCHANGED <<root, loaded, memory, pending, timer, lately, partial, window, edits,
                   switches, faults>>

\* A folder that cannot be written: this state is not remembered.
SaveFails ==
    /\ calls # <<>> /\ Next1.what \in {"save", "rename"} /\ faults < MaxFaults
    /\ faults' = faults + 1
    /\ calls' = Tail(calls)
    /\ UNCHANGED <<root, loaded, memory, pending, timer, lately, file, partial, window,
                   edits, switches>>

-----------------------------------------------------------------------------
(* The window *)

\* The guards are asked first (unsaved documents); one may keep it open.
AskToClose ==
    /\ window = "open"
    /\ window' = "asking"
    /\ UNCHANGED <<root, loaded, memory, pending, timer, lately, calls, file, partial,
                   edits, switches, faults>>

StayOpen ==
    /\ window = "asking"
    /\ window' = "open"
    /\ UNCHANGED <<root, loaded, memory, pending, timer, lately, calls, file, partial,
                   edits, switches, faults>>

FlushToClose ==
    /\ window = "asking"
    /\ window' = "flushing"
    /\ IF loaded THEN Flush(root) ELSE UNCHANGED <<memory, pending, timer, lately, calls>>
    /\ UNCHANGED <<root, loaded, file, partial, edits, switches, faults>>

\* The request to close reaches the host after the saves.
Close ==
    /\ window = "flushing" /\ calls = <<>>
    /\ window' = "closed"
    /\ UNCHANGED <<root, loaded, memory, pending, timer, lately, calls, file, partial,
                   edits, switches, faults>>

\* The program is killed: the next one starts from the files.
Crash ==
    /\ faults < MaxFaults
    /\ faults' = faults + 1
    /\ root' = NoProject /\ loaded' = FALSE /\ window' = "open"
    /\ memory' = [p \in Projects |-> Empty]
    /\ pending' = {} /\ timer' = {} /\ lately' = Empty /\ calls' = <<>>
    /\ UNCHANGED <<file, partial, edits, switches>>

SavedNext ==
    \/ Set \/ Move \/ HostLoads \/ HostWrites \/ HostRenames \/ SaveFails
    \/ AskToClose \/ StayOpen \/ FlushToClose \/ Close \/ Crash
    \/ \E p \in Projects : TimerFires(p)
    \/ \E p \in Projects \cup {NoProject} : Open(p)

SavedSpec == SavedInit /\ [][SavedNext]_savedVars

SavedFairness == /\ WF_savedVars(HostLoads) /\ WF_savedVars(HostWrites)
                 /\ WF_savedVars(HostRenames)
                 /\ \A p \in Projects : WF_savedVars(TimerFires(p))

-----------------------------------------------------------------------------
Calls == [what : {"load", "save", "rename"}, project : Projects, value : Nat]

SavedTypeOK ==
    /\ root \in Projects \cup {NoProject} /\ loaded \in BOOLEAN
    /\ memory \in [Projects -> Nat] /\ lately \in Nat /\ edits \in Nat
    /\ pending \subseteq Projects /\ timer \subseteq Projects
    /\ calls \in Seq(Calls) /\ file \in [Projects -> Nat] /\ partial \in [Projects -> Nat]
    /\ window \in {"open", "asking", "flushing", "closed"}
    /\ switches \in Nat /\ faults \in Nat

(* "So each project reopens the way it was left" (WorkspaceProvider.tsx):     *)
(* when a project's state has been read it is what the project's store had,   *)
(* however quickly projects are switched, unless a save failed or the program *)
(* was killed in between.                                                     *)
ReopensAsLeft ==
    ~loaded /\ loaded' /\ faults = 0 => Provided' = memory[root]

(* Closing loses nothing: once the window is closed every project's file has  *)
(* the state its store had, what is gathered only before a save included.     *)
ClosedIsSaved ==
    window = "closed" /\ faults = 0 => lately = Empty /\ \A p \in Projects : file[p] = memory[p]

(* A save that is cut off anywhere leaves a file that can be read: the one    *)
(* from before it or the one after it.                                        *)
FileIsWhole == \A p \in Projects : file[p] # Torn

ProjectsReopenAsLeft == [](ClosedIsSaved /\ FileIsWhole) /\ [][ReopensAsLeft]_savedVars

(* What was set is saved without anything else happening: no change waits for *)
(* the project to be closed.                                                  *)
IsSet(p) == p \in pending
IsSaved(p) == file[p] = memory[p] \/ faults > 0 \/ window = "closed"
=============================================================================
