---------------------------- MODULE DirectoryTree ----------------------------
(* A file explorer's tree over a real directory (widgets/FileTree, infra/host *)
(* watchedFolders): folders are listed by the host when they are opened, again *)
(* after each operation on them and whenever a watched one changed, while the  *)
(* user goes on to another project. The folders left open are remembered.      *)
(* A folder is <<root, name>>; the root itself has the name Top.               *)
EXTENDS Integers, Sequences, FiniteSets, SequencesExt

CONSTANTS Roots, Names, Folders, Up, Top, SavedAtFirst, Limit,
          MaxJobs, MaxChanges, MaxOpens

VARIABLES
    root,      \* the root shown
    store,     \* whose remembered state is provided: a root, or Loading
    saved,     \* the open folders' names each root's state remembers
    disk,      \* what is on disk under each root
    nodes, expanded, loaded, parentById,
    restored,  \* restoredRef: the remembered folders are open again
    jobs,      \* listings and operations underway, by slot
    watched, changed,  \* folders the host watches, and what it has to report
    changes, opens     \* bounds

treeVars == <<root, store, saved, disk, nodes, expanded, loaded, parentById, restored,
              jobs, watched, changed, changes, opens>>

Loading == "loading"
Slots == 1..MaxJobs
NoJob == [kind |-> "none"]

RECURSIVE NameWithin(_, _)
NameWithin(n, a) == n = a \/ a = Top \/ (n # Top /\ NameWithin(Up[n], a))
IsWithin(f, a) == f[1] = a[1] /\ NameWithin(f[2], a[2])
WithoutSubtree(set, a) == {f \in set : ~IsWithin(f, a)}
ParentOf(f) == <<f[1], Up[f[2]]>>
Exists(f) == f[2] = Top \/ f[2] \in disk[f[1]]
IsFolder(f) == f[2] = Top \/ f[2] \in Folders
OnDisk(f) == {<<f[1], n>> : n \in {m \in disk[f[1]] : Up[m] = f[2]}}

\* What a job asks the host for next; it remembers the root shown as it asks.
Reading(job, folder) == [job EXCEPT !.at = folder, !.asked = root, !.phase = "reading"]
Job(kind, queue) == [kind |-> kind, of |-> root, queue |-> queue, opened |-> {},
                     at |-> Head(queue), asked |-> root, phase |-> "reading", seen |-> {}]
Free == {s \in Slots : jobs[s] = NoJob}
Start(job) == \E s \in Free : (\A r \in Free : s <= r) /\ jobs' = [jobs EXCEPT ![s] = job]

Relative(set, r) == {f[2] : f \in {g \in set : g[1] = r /\ g[2] # Top}}

\* Opening and closing folders: the effect of it saves what is open, once the
\* remembered folders were opened again.
SetExpanded(set) ==
    /\ expanded' = set
    /\ saved' = IF restored' /\ store \in Roots
                THEN [saved EXCEPT ![store] = Relative(set, root)] ELSE saved

ParentsFirst(set) == SetToSortSeq(set, LAMBDA m, n : NameWithin(n, m))

\* The remembered folders are opened again: the root is listed, then they are.
Restore(r, names) ==
    LET folders == [i \in 1..Cardinality(names) |-> <<r, ParentsFirst(names)[i]>>]
    IN  [kind |-> "restore", of |-> r, queue |-> <<<<r, Top>>>> \o folders,
         opened |-> {}, at |-> <<r, Top>>, asked |-> r,
         phase |-> "reading", seen |-> {}]

DirInit ==
    /\ root \in Roots /\ store = root /\ saved = SavedAtFirst
    /\ disk = [r \in Roots |-> Names]
    /\ nodes = {<<root, Top>>} /\ expanded = {<<root, Top>>} /\ loaded = {}
    /\ parentById = [f \in {} |-> f] /\ restored = FALSE
    /\ jobs = [s \in Slots |-> IF s = 1 THEN Restore(root, SavedAtFirst[root]) ELSE NoJob]
    /\ watched = {} /\ changed = {} /\ changes = 0 /\ opens = 0

DirUnchanged == UNCHANGED <<store, disk, watched, changed, changes, opens>>

\* Another project is opened. The tree's effect runs before the provider's: it
\* reads the store it has, which is still the former project's, and runs again
\* for the empty one that is provided meanwhile.
OpenRoot(r) ==
    /\ opens < MaxOpens /\ r # root /\ Cardinality(Free) >= 2
    /\ root' = r /\ store' = Loading /\ opens' = opens + 1
    /\ nodes' = {<<r, Top>>} /\ expanded' = {<<r, Top>>} /\ loaded' = {}
    /\ parentById' = [f \in {} |-> f] /\ restored' = FALSE
    /\ \E s, t \in Free :
        /\ s < t /\ \A u \in Free : u = s \/ t <= u
        /\ jobs' = [jobs EXCEPT
                    ![s] = Restore(r, IF store = Loading THEN {} ELSE saved[store]),
                    ![t] = Restore(r, {})]
    /\ UNCHANGED <<saved, disk, watched, changed, changes>>

StoreLoads ==
    /\ store = Loading
    /\ store' = root /\ restored' = FALSE
    /\ Start(Restore(root, saved[root]))
    /\ UNCHANGED <<root, saved, disk, nodes, expanded, loaded, parentById, watched,
                   changed, changes, opens>>

\* The user opens or closes a folder.
ToggleFolder(f) ==
    /\ f \in nodes /\ IsFolder(f)
    /\ UNCHANGED restored
    /\ IF f \in expanded
       THEN SetExpanded(expanded \ {f}) /\ UNCHANGED jobs
       ELSE /\ SetExpanded(expanded \union {f})
            /\ IF f \in loaded THEN UNCHANGED jobs ELSE Start(Job("load", <<f>>))
    /\ DirUnchanged /\ UNCHANGED <<root, nodes, loaded, parentById>>

\* Opens everything under a folder, or the folders down to one, or lists
\* everything again.
ExpandSubtree(f) ==
    /\ f \in nodes /\ IsFolder(f) /\ Start([Job("subtree", <<f>>) EXCEPT !.opened = {f}])
    /\ DirUnchanged /\ UNCHANGED <<root, saved, nodes, expanded, loaded, parentById, restored>>

Chain(f) == SetToSortSeq({a \in {<<root, n>> : n \in Names \union {Top}} :
                            a # f /\ IsWithin(f, a)}, LAMBDA m, n : IsWithin(n, m))
Reveal(f) ==
    LET toList == SelectSeq(Chain(f), LAMBDA a : a \notin loaded)
    IN  /\ f[1] = root /\ f[2] # Top /\ UNCHANGED restored
        /\ IF toList = <<>>
           THEN SetExpanded(expanded \union ToSet(Chain(f))) /\ UNCHANGED jobs
           ELSE /\ Start([Job("reveal", toList) EXCEPT !.opened = ToSet(Chain(f))])
                /\ UNCHANGED <<saved, expanded>>
        /\ DirUnchanged /\ UNCHANGED <<root, nodes, loaded, parentById>>

RefreshAll ==
    /\ loaded # {} /\ Start(Job("refresh", SetToSeq(loaded)))
    /\ DirUnchanged /\ UNCHANGED <<root, saved, nodes, expanded, loaded, parentById, restored>>

\* The user's own operations: the host carries one out and answers; then what
\* was known of the old name is forgotten and the folder is listed again.
Operate(kind, f) ==
    /\ changes < MaxChanges /\ changes' = changes + 1
    /\ \/ kind = "create" /\ ~Exists(f) /\ Exists(ParentOf(f))
       \/ kind = "remove" /\ Exists(f) /\ f \in DOMAIN parentById
    /\ f[1] = root /\ ParentOf(f) \in nodes
    /\ Start([Job(kind, <<f>>) EXCEPT !.phase = "command"])
    /\ UNCHANGED <<root, store, saved, disk, nodes, expanded, loaded, parentById,
                   restored, watched, changed, opens>>

Toggled(f) == IF Exists(f) THEN {n \in disk[f[1]] : ~NameWithin(n, f[2])}
              ELSE disk[f[1]] \union {f[2]}
Report(f) == IF {f, ParentOf(f)} \intersect watched # {} THEN {f} ELSE {}

HostOperates(s) ==
    LET f == jobs[s].at
    IN  /\ jobs[s] # NoJob /\ jobs[s].phase = "command"
        /\ disk' = [disk EXCEPT ![f[1]] =
                       IF Exists(f) = (jobs[s].kind = "remove") THEN Toggled(f) ELSE @]
        /\ changed' = changed \union Report(f)
        /\ jobs' = [jobs EXCEPT ![s].phase = "done"]
        /\ UNCHANGED <<root, store, saved, nodes, expanded, loaded, parentById, restored,
                       watched, changes, opens>>

Operated(s) ==
    LET f == jobs[s].at
        gone == jobs[s].kind = "remove"
    IN  /\ jobs[s] # NoJob /\ jobs[s].phase = "done"
        /\ UNCHANGED restored
        /\ SetExpanded(IF gone THEN WithoutSubtree(expanded, f) ELSE expanded)
        /\ loaded' = IF gone THEN WithoutSubtree(loaded, f) ELSE loaded
        /\ parentById' = IF gone THEN [g \in WithoutSubtree(DOMAIN parentById, f) |-> parentById[g]]
                         ELSE parentById
        /\ jobs' = [jobs EXCEPT ![s] = Job("load", <<ParentOf(f)>>)]
        /\ DirUnchanged /\ UNCHANGED <<root, nodes>>

\* Something else changes the disk; the host reports it for what it watches,
\* which is what the tree had listed a moment ago.
DiskChanges(f) ==
    /\ changes < MaxChanges /\ changes' = changes + 1
    /\ Exists(f) \/ Exists(ParentOf(f))
    /\ disk' = [disk EXCEPT ![f[1]] = Toggled(f)]
    /\ changed' = changed \union Report(f)
    /\ UNCHANGED <<root, store, saved, nodes, expanded, loaded, parentById, restored, jobs,
                   watched, opens>>

WatchSync ==
    /\ watched # loaded /\ watched' = loaded
    /\ UNCHANGED <<root, store, saved, disk, nodes, expanded, loaded, parentById, restored,
                   jobs, changed, changes, opens>>

RefreshPaths ==
    LET folders == {f \in loaded : \E p \in changed : f = p \/ f = ParentOf(p)}
    IN  /\ changed # {} /\ changed' = {}
        /\ IF folders = {} THEN UNCHANGED jobs
           ELSE \E order \in SetToSeqs(folders) : Start(Job("refresh", order))
        /\ UNCHANGED <<root, store, saved, disk, nodes, expanded, loaded, parentById,
                       restored, watched, changes, opens>>

\* The host lists a folder; its answer comes later.
HostLists(s) ==
    /\ jobs[s] # NoJob /\ jobs[s].phase = "reading"
    /\ jobs' = [jobs EXCEPT ![s].phase = IF Exists(jobs[s].at) THEN "listed" ELSE "failed",
                            ![s].seen = OnDisk(jobs[s].at)]
    /\ UNCHANGED <<root, store, saved, disk, nodes, expanded, loaded, parentById, restored,
                   watched, changed, changes, opens>>

\* replaceChildren(): what was listed beneath a child that stays is kept.
ReplaceChildren(f, children) ==
    IF f \notin nodes THEN nodes
    ELSE {g \in nodes : g = f \/ ~IsWithin(g, f)
                        \/ \E c \in children : c \in nodes /\ IsWithin(g, c)} \union children

\* What a job does next: another folder, or its end.
Continue(s, listed) ==
    LET job == jobs[s]
        opened == CASE job.kind = "restore" /\ listed /\ job.at[2] # Top -> job.opened \union {job.at}
                    [] job.kind = "subtree" /\ listed ->
                         LET more == {c \in job.seen : IsFolder(c)}
                         IN  IF Cardinality(job.opened \union more) > Limit THEN job.opened
                             ELSE job.opened \union more
                    [] OTHER -> job.opened
        found == IF job.kind = "subtree" THEN SetToSeq(opened \ job.opened) ELSE <<>>
        Listable(f) == job.kind # "restore" \/ f[2] = Top \/ Up[f[2]] = Top \/ ParentOf(f) \in opened
        queue == Tail(job.queue) \o found
        first == {i \in DOMAIN queue : Listable(queue[i]) /\ \A j \in 1..(i - 1) : ~Listable(queue[j])}
        rest == IF first = {} THEN <<>> ELSE SubSeq(queue, CHOOSE i \in first : TRUE, Len(queue))
        stops == \/ ~listed /\ (job.kind = "reveal" \/ (job.kind = "restore" /\ job.at[2] = Top))
                 \/ job.kind = "restore" /\ root # job.of
        ends == stops \/ rest = <<>> \/ (job.kind = "subtree" /\ Cardinality(opened) >= Limit)
        opens_ == ~stops /\ job.kind \in {"restore", "subtree", "reveal"}
    IN  /\ jobs' = [jobs EXCEPT ![s] = IF ends THEN NoJob
                    ELSE Reading([job EXCEPT !.queue = rest, !.opened = opened], Head(rest))]
        /\ restored' = (restored \/ (ends /\ ~stops /\ job.kind = "restore"))
        /\ IF ends /\ opens_ /\ opened # {} THEN SetExpanded(expanded \union opened)
           ELSE UNCHANGED <<saved, expanded>>

\* The listing is shown, unless the root was changed since it was asked for.
Listed(s) ==
    LET job == jobs[s]
        listed == job.phase = "listed" /\ job.asked = root
    IN  /\ job # NoJob /\ job.phase \in {"listed", "failed"}
        /\ IF listed
           THEN /\ nodes' = ReplaceChildren(job.at, job.seen)
                /\ loaded' = loaded \union {job.at}
                /\ parentById' = [g \in DOMAIN parentById \union job.seen |->
                                    IF g \in job.seen THEN job.at ELSE parentById[g]]
           ELSE UNCHANGED <<nodes, loaded, parentById>>
        /\ Continue(s, listed)
        /\ DirUnchanged /\ UNCHANGED root

AllNames == {<<r, n>> : r \in Roots, n \in Names}
DirNext ==
    \/ \E r \in Roots : OpenRoot(r)
    \/ StoreLoads \/ RefreshAll \/ WatchSync \/ RefreshPaths
    \/ \E f \in AllNames : ToggleFolder(f) \/ ExpandSubtree(f) \/ Reveal(f) \/ DiskChanges(f)
    \/ \E f \in AllNames, k \in {"create", "remove"} : Operate(k, f)
    \/ \E s \in Slots : HostOperates(s) \/ Operated(s) \/ HostLists(s) \/ Listed(s)

DirSpec == DirInit /\ [][DirNext]_treeVars

\* Every row is of the project shown and beneath a folder that is shown, however
\* late a listing comes: a folder gone meanwhile takes what was listed in it
\* along, and a listing of it or of another project shows nothing.
TreeIsRooted ==
    \A f \in nodes : f[1] = root /\ (f[2] = Top \/ ParentOf(f) \in nodes)

------------------------------------------------------------------------------
(* What is said of the code, or may be expected of it, and does not hold.    *)

(* The folders a project was left with are not overwritten before they were  *)
(* opened again: one goes from the remembered ones only as the user closes   *)
(* or removes it, or because it is no longer there. Does not hold: a         *)
(* project's tree stores what it has open before it opened what was          *)
(* remembered there (useDirectoryTree.tsx:94).                               *)
SavedIsKept ==
    \A r \in Roots : \A n \in saved[r] \ saved'[r] :
       \/ <<r, n>> \in expanded \ expanded'
       \/ n \notin disk[r]
=============================================================================
