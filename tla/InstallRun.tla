----------------------------- MODULE InstallRun -----------------------------
(***************************************************************************)
(* The installer's plans and the runs that carry them out                  *)
(* (crates/substrate-installer-app plans and installing,                   *)
(* substrate-installer-domain changes, substrate-installer-fs promote and  *)
(* products, substrate-installer-data store): what is on the disk and what *)
(* is recorded of it, when a run may fail, be cancelled or die with the    *)
(* process between any two steps, and the next one plans from the record.  *)
(*                                                                         *)
(* A component is unpacked into a staging folder and moved into place; a   *)
(* program (a product or the installer) is put together in its place.      *)
(* Ids are numbers, in the order of the ids.                               *)
(***************************************************************************)
EXTENDS Naturals, FiniteSets, SequencesExt

CONSTANTS
    Components,  \* the catalog's components
    Programs,    \* the products, and the installer itself
    MaxVersion,  \* bound: versions of each
    MaxRuns      \* bound: runs

Items == Components \cup Programs
Versions == 1 .. MaxVersion
Places == Items \X Versions

ASSUME InstallAssumption ==
    /\ Items \subseteq Nat /\ IsFiniteSet(Items)
    /\ Components \cap Programs = {}
    /\ MaxVersion \in Nat \ {0} /\ MaxRuns \in Nat

VARIABLES
    requires,   \* the components each component requires
    system,     \* the components the machine had before
    published,  \* each item's newest release for this host, or 0
    stored,     \* the records in the store's file
    disk,       \* what is in each place: <<item, version>>
    aside,      \* what is in its `.old`
    staging,    \* what is in its staging folder
    goal,       \* what the run was asked for
    plan,       \* its changes
    index,      \* the change it is at
    pc,         \* where in it
    outcome,    \* how the last run ended
    runs, cut,  \* runs, and those that crashed, failed, were cancelled
    condemned   \* items a removal was begun of and not recorded

catalog == <<requires, system, published>>
files == <<disk, aside, staging>>
asked == <<goal, plan, runs>>
vars == <<catalog, stored, files, asked, index, pc, outcome, cut, condemned>>

Contents == {"none", "part", "whole"}
Record(i, v) == [id |-> i, version |-> v]
Records == [id : Items, version : Versions]
Change(op, i, from, to) == [op |-> op, id |-> i, from |-> from, to |-> to]
Changes ==
    [op : {"install"}, id : Items, from : {0}, to : Versions]
    \cup [op : {"update"}, id : Items, from : Versions, to : Versions]
    \cup [op : {"remove"}, id : Items, from : Versions, to : {0}]
Goals == [kind : {"none", "selection", "program", "removal"}, of : SUBSET Items]
Steps == {"idle", "next", "unpack", "clear_aside", "set_aside", "move", "drop",
          "clear", "fill", "list", "replace", "forget", "remove", "write"}

TypeOK ==
    /\ requires \in [Components -> SUBSET Components]
    /\ system \subseteq Components
    /\ published \in [Items -> 0 .. MaxVersion]
    /\ stored \in Seq(Records)
    /\ disk \in [Places -> Contents]
    /\ aside \in [Places -> Contents]
    /\ staging \in [Places -> Contents]
    /\ goal \in Goals
    /\ plan \in Seq(Changes)
    /\ index \in 1 .. Len(plan) + 1
    /\ pc \in Steps
    /\ outcome \in {"none", "completed", "crashed", "failed", "cancelled"}
    /\ runs \in 0 .. MaxRuns
    /\ cut \in [{"crashed", "failed", "cancelled"} -> 0 .. runs]
    /\ condemned \subseteq Items

\* Catalogs with a cycle of requirements are refused (validate).
Acyclic(r) ==
    \A S \in SUBSET Components : S # {} => \E c \in S : r[c] \cap S = {}

\* A set of items in the order of their ids (BTreeSet).
Sorted(S) ==
    CHOOSE ids \in [1 .. Cardinality(S) -> S] :
        \A j, k \in DOMAIN ids : j < k => ids[j] < ids[k]

\* Anything the installer put there before, and the machine had.
Init ==
    /\ requires \in {r \in [Components -> SUBSET Components] : Acyclic(r)}
    /\ system \in SUBSET Components
    /\ published \in [Items -> 0 .. MaxVersion]
    /\ \E managed \in SUBSET Items :
        /\ stored = [k \in DOMAIN Sorted(managed) |-> Record(Sorted(managed)[k], 1)]
        /\ disk = [p \in Places |->
                      IF p[1] \in managed /\ p[2] = 1 THEN "whole" ELSE "none"]
    /\ aside = [p \in Places |-> "none"]
    /\ staging = [p \in Places |-> "none"]
    /\ goal = [kind |-> "none", of |-> {}]
    /\ plan = <<>>
    /\ index = 1
    /\ pc = "idle"
    /\ outcome = "none"
    /\ runs = 0
    /\ cut = [how \in {"crashed", "failed", "cancelled"} |-> 0]
    /\ condemned = {}

-----------------------------------------------------------------------------
(* Planning.                                                               *)

Recorded(i) == \E k \in DOMAIN stored : stored[k].id = i
IsFirst(k, i) == stored[k].id = i /\ \A j \in 1 .. k - 1 : stored[j].id # i
VersionOf(i) == stored[CHOOSE k \in DOMAIN stored : IsFirst(k, i)].version

\* The records that are not in `gone`, in their order.
Without(records, gone) ==
    LET kept[n \in 0 .. Len(records)] ==
            IF n = 0 THEN <<>>
            ELSE IF records[n] \in gone THEN kept[n - 1]
            ELSE Append(kept[n - 1], records[n])
    IN  kept[Len(records)]

\* What brings an item to its newest release (derive_item), if it has one.
DeriveItem(i) ==
    IF Recorded(i)
    THEN IF published[i] > VersionOf(i)
         THEN <<Change("update", i, VersionOf(i), published[i])>> ELSE <<>>
    ELSE IF i \in system \/ published[i] = 0 THEN <<>>
    ELSE <<Change("install", i, 0, published[i])>>

\* The order after some components were visited one after the other.
InTurn(Visit, order, ids) ==
    LET upto[n \in 0 .. Len(ids)] ==
            IF n = 0 THEN order ELSE Visit[ids[n]][upto[n - 1]]
    IN  upto[Len(ids)]

\* The wanted components, each after what it requires: a visit of each by id,
\* depth first, through its requirements in whatever order the catalog lists
\* them.  The mutant goes by id alone.
DependencyOrder_ById(wanted) == Sorted(wanted)
Ordered(needs, wanted) ==
    LET Visit[c \in Components] == [order \in Seq(Components) |->
            IF Contains(order, c) THEN order
            ELSE Append(InTurn(Visit, order, SetToSeq(needs[c] \cap wanted)), c)]
    IN  InTurn(Visit, <<>>, Sorted(wanted))
DependencyOrder(wanted) == Ordered(requires, wanted)

RemovalsOf(items) ==
    LET going == Without(stored, {r \in Records : r.id \notin items})
    IN [k \in DOMAIN going |-> Change("remove", going[k].id, going[k].version, 0)]

UpdatesOf(order) ==
    LET upto[n \in 0 .. Len(order)] ==
            IF n = 0 THEN <<>> ELSE upto[n - 1] \o DeriveItem(order[n])
    IN  upto[Len(order)]
Derive(wanted) ==
    UpdatesOf(DependencyOrder(wanted)) \o RemovalsOf(Components \ wanted)

\* A selection comes with all its components require.
Selections == {S \in SUBSET Components : \A c \in S : requires[c] \subseteq S}

\* for_selection, for_program and for_removal.
PlanOf(g) ==
    CASE g.kind = "selection" -> Derive(g.of)
      [] g.kind = "program" -> DeriveItem(CHOOSE i \in g.of : TRUE)
      [] g.kind = "removal" -> RemovalsOf(g.of)

StartRun ==
    /\ pc = "idle"
    /\ runs < MaxRuns
    /\ runs' = runs + 1
    /\ \/ \E S \in Selections : goal' = [kind |-> "selection", of |-> S]
       \/ \E i \in Programs : goal' = [kind |-> "program", of |-> {i}]
       \/ \E i \in Items : goal' = [kind |-> "removal", of |-> {i}]
    /\ plan' = PlanOf(goal')
    /\ index' = 1
    /\ pc' = "next"
    /\ outcome' = "none"
    /\ UNCHANGED <<catalog, stored, files, cut, condemned>>

-----------------------------------------------------------------------------
(* The changes of the plan, one after the other.                           *)

Current == plan[index]
Place == <<Current.id, Current.to>>
Old == <<Current.id, Current.from>>
OtherVersions ==
    {p \in Places : p[1] = Current.id /\ p[2] # Current.to}

Ends(how) ==
    /\ pc' = "idle"
    /\ outcome' = how

Goto(step) ==
    /\ pc' = step
    /\ UNCHANGED outcome

NextChange ==
    /\ pc = "next"
    /\ \/ index > Len(plan) /\ Ends("completed")
       \/ /\ index <= Len(plan)
          /\ Goto(IF Current.op = "remove" THEN "remove"
                  ELSE IF Current.id \in Components THEN "unpack" ELSE "clear")
    /\ UNCHANGED <<catalog, stored, files, asked, index, cut, condemned>>

\* Installed(and, after an update, the older version still there).
Placed == IF Current.op = "update" THEN "replace" ELSE "write"

\* The staging folder is emptied, then the archive unpacked into it.  The
\* mutant unpacks over what an earlier run left there.
Unpack_Over ==
    /\ pc = "unpack"
    /\ staging' = [staging EXCEPT ![Place] = IF @ = "none" THEN "whole" ELSE "part"]
    /\ Goto("clear_aside")
    /\ UNCHANGED <<catalog, stored, disk, aside, asked, index, cut, condemned>>
Unpack ==
    /\ pc = "unpack"
    /\ staging' = [staging EXCEPT ![Place] = "whole"]
    /\ Goto("clear_aside")
    /\ UNCHANGED <<catalog, stored, disk, aside, asked, index, cut, condemned>>

\* promote: what is in place is set aside, the staging folder moved there,
\* and what was set aside removed, if that works.
ClearAside ==
    /\ pc = "clear_aside"
    /\ aside' = [aside EXCEPT ![Place] = "none"]
    /\ Goto("set_aside")
    /\ UNCHANGED <<catalog, stored, disk, staging, asked, index, cut, condemned>>

SetAside ==
    /\ pc = "set_aside"
    /\ aside' = [aside EXCEPT ![Place] = disk[Place]]
    /\ disk' = [disk EXCEPT ![Place] = "none"]
    /\ Goto("move")
    /\ UNCHANGED <<catalog, stored, staging, asked, index, cut, condemned>>

Move ==
    /\ pc = "move"
    /\ disk' = [disk EXCEPT ![Place] = staging[Place]]
    /\ staging' = [staging EXCEPT ![Place] = "none"]
    /\ Goto("drop")
    /\ UNCHANGED <<catalog, stored, aside, asked, index, cut, condemned>>

DropAside ==
    /\ pc = "drop"
    /\ \E left \in {"none", "part", aside[Place]} :
        /\ aside[Place] = "none" => left = "none"
        /\ aside' = [aside EXCEPT ![Place] = left]
    /\ Goto(Placed)
    /\ UNCHANGED <<catalog, stored, disk, staging, asked, index, cut, condemned>>

\* A program's folder is emptied, filled, and the program listed.
ClearPlace ==
    /\ pc = "clear"
    /\ disk' = [disk EXCEPT ![Place] = "part"]
    /\ Goto("fill")
    /\ UNCHANGED <<catalog, stored, aside, staging, asked, index, cut, condemned>>

Fill ==
    /\ pc = "fill"
    /\ disk' = [disk EXCEPT ![Place] = "whole"]
    /\ Goto("list")
    /\ UNCHANGED <<catalog, stored, aside, staging, asked, index, cut, condemned>>

ListProgram ==
    /\ pc = "list"
    /\ Goto(Placed)
    /\ UNCHANGED <<catalog, stored, files, asked, index, cut, condemned>>

\* replace_old: the older version's files go, and a program's others.
ReplaceOld ==
    /\ pc = "replace"
    /\ disk' = [disk EXCEPT ![Old] = "none"]
    /\ Goto(IF Current.id \in Programs THEN "forget" ELSE "write")
    /\ UNCHANGED <<catalog, stored, aside, staging, asked, index, cut, condemned>>

ForgetOthers ==
    /\ pc = "forget"
    /\ disk' = [p \in Places |-> IF p \in OtherVersions THEN "none" ELSE disk[p]]
    /\ Goto("write")
    /\ UNCHANGED <<catalog, stored, aside, staging, asked, index, cut, condemned>>

RemoveFiles ==
    /\ pc = "remove"
    /\ disk' = [disk EXCEPT ![Old] = "none"]
    /\ condemned' = condemned \cup {Current.id}
    /\ Goto("write")
    /\ UNCHANGED <<catalog, stored, aside, staging, asked, index, cut>>

\* The record after the current change: the old version's is forgotten, the
\* new one's put last.  The mutant does not forget.
RecordAfter_Keeps ==
    IF Current.op = "remove"
    THEN Without(stored, {Record(Current.id, Current.from)})
    ELSE Append(Without(stored, {Record(Current.id, Current.to)}),
                Record(Current.id, Current.to))
RecordAfter ==
    LET others == Without(stored, {Record(Current.id, Current.from),
                                   Record(Current.id, Current.to)})
    IN IF Current.op = "remove" THEN others
       ELSE Append(others, Record(Current.id, Current.to))

\* The whole set is written beside the store's file and renamed over it.
\* The mutant counts a change that is not the next one.
Write_Twice ==
    /\ pc = "write"
    /\ stored' = RecordAfter
    /\ condemned' = condemned \ {Current.id}
    /\ index' = index + 2
    /\ Goto("next")
    /\ UNCHANGED <<catalog, files, asked, cut>>
Write ==
    /\ pc = "write"
    /\ stored' = RecordAfter
    /\ condemned' = condemned \ {Current.id}
    /\ index' = index + 1
    /\ Goto("next")
    /\ UNCHANGED <<catalog, files, asked, cut>>

-----------------------------------------------------------------------------
(* How a run is cut short.                                                 *)

Tears(places) ==
    \E p \in places :
        /\ disk[p] # "none"
        /\ disk' = [disk EXCEPT ![p] = "part"]
        /\ UNCHANGED <<aside, staging>>

\* A step that does not come to its end may have done a part of its work.
Torn ==
    \/ UNCHANGED <<files, condemned>>
    \/ /\ pc = "unpack"
       /\ staging' = [staging EXCEPT ![Place] = "part"]
       /\ UNCHANGED <<disk, aside, condemned>>
    \/ /\ pc = "clear_aside" /\ aside[Place] # "none"
       /\ aside' = [aside EXCEPT ![Place] = "part"]
       /\ UNCHANGED <<disk, staging, condemned>>
    \/ pc \in {"clear", "fill"} /\ Tears({Place}) /\ UNCHANGED condemned
    \/ pc = "replace" /\ Tears({Old}) /\ UNCHANGED condemned
    \/ pc = "forget" /\ Tears(OtherVersions) /\ UNCHANGED condemned
    \/ /\ pc = "remove"
       /\ Tears({Old})
       /\ condemned' = condemned \cup {Current.id}

\* A move that fails puts back what it set aside.  The mutant does not.
PutBack_Not ==
    UNCHANGED <<files, condemned>>
PutBack ==
    /\ disk' = [disk EXCEPT ![Place] = aside[Place]]
    /\ aside' = [aside EXCEPT ![Place] = "none"]
    /\ UNCHANGED <<staging, condemned>>

CutShort(how) ==
    /\ cut' = [cut EXCEPT ![how] = @ + 1]
    /\ Ends(how)
    /\ UNCHANGED <<catalog, stored, asked, index>>

\* Every step but the removal of what was set aside may fail: before the
\* first change, reading the record or a download ahead.
Fail ==
    /\ pc \notin {"idle", "drop"}
    /\ pc = "next" => index = 1
    /\ IF pc = "move" THEN PutBack ELSE Torn
    /\ CutShort("failed")

\* Where the token is looked at: before a change, while an archive is
\* downloaded and unpacked, and on every way into and through a program's
\* installer.
CancelPoints ==
    {"unpack", "clear", "fill", "list"}
    \cup (IF index <= Len(plan) THEN {"next"} ELSE {})
    \cup (IF index <= Len(plan) /\ Current.id \in Programs
          THEN {"replace", "remove"} ELSE {})

Cancel ==
    /\ pc \in CancelPoints
    /\ IF pc \in {"unpack", "fill"} THEN Torn ELSE UNCHANGED <<files, condemned>>
    /\ CutShort("cancelled")

Crash ==
    /\ pc # "idle"
    /\ Torn
    /\ CutShort("crashed")

\* A release comes out between two runs.
Publish ==
    /\ pc = "idle"
    /\ \E i \in Items :
        /\ published[i] < MaxVersion
        /\ published' = [published EXCEPT ![i] = @ + 1]
    /\ outcome' = "none"
    /\ UNCHANGED <<requires, system, stored, files, asked, index, pc, cut, condemned>>

Finished ==
    /\ pc = "idle"
    /\ runs = MaxRuns
    /\ UNCHANGED vars

Step ==
    \/ NextChange \/ Unpack \/ ClearAside \/ SetAside \/ Move \/ DropAside
    \/ ClearPlace \/ Fill \/ ListProgram \/ ReplaceOld \/ ForgetOthers
    \/ RemoveFiles \/ Write

Next == StartRun \/ Step \/ Fail \/ Cancel \/ Crash \/ Publish \/ Finished

Spec == Init /\ [][Next]_vars

-----------------------------------------------------------------------------
(* Properties.                                                             *)

\* An installed item that nobody asked to remove is there in some version
\* whenever no run is under way, though an update has removed the version on
\* record: a component after any number of failed and cancelled runs, or
\* after one crash; a program, put together in its place, after one run cut
\* short ("A promotion keeps the old folder until the new one is in place,
\* and puts it back if moving fails", DiskFiles).
Survives(i) ==
    \/ cut["crashed"] + cut["failed"] + cut["cancelled"] <= 1
    \/ i \in Components /\ cut["crashed"] = 0
    \/ i \in Components /\ cut["crashed"] + cut["failed"] <= 1
StillThere ==
    pc = "idle" =>
        \A i \in Items \ condemned :
            Recorded(i) /\ Survives(i) => \E v \in Versions : disk[<<i, v>>] = "whole"

\* After a selection's run completed, all of it that is published is there as
\* the record says, up to date, and nothing else of the installer's is on
\* record, whatever earlier runs left half done.
InPlace(c) ==
    IF Recorded(c)
    THEN VersionOf(c) >= published[c] /\ disk[<<c, VersionOf(c)>>] = "whole"
    ELSE c \in system
Completed(kind) == pc = "idle" /\ outcome = "completed" /\ goal.kind = kind
SelectionIsInstalled ==
    Completed("selection") =>
        \A c \in Components :
            /\ c \in goal.of \ condemned /\ published[c] # 0 => InPlace(c)
            /\ Recorded(c) => c \in goal.of

\* A component is only put on record when what it requires is there already,
\* if it is published at all: a run that stops leaves nothing installed
\* without its requirements.
Present(c) == Recorded(c) \/ c \in system
RequirementsFirst ==
    [][\A c \in Components :
          ~Recorded(c) /\ Recorded(c)' =>
              \A r \in requires[c] : published[r] # 0 => Present(r)']_vars

\* "Stops at the first error; what was done stays done and recorded"
\* (Installer::apply): every change before the one a run is at, or stopped
\* at, is on the disk and on record, with one version of each item.
Done(change) ==
    /\ \A k \in DOMAIN stored :
          stored[k].id = change.id =>
              change.op # "remove" /\ stored[k].version = change.to
    /\ change.op = "remove" => disk[<<change.id, change.from>>] = "none"
    /\ change.op # "remove" =>
          Recorded(change.id) /\ disk[<<change.id, change.to>>] = "whole"
DoneStaysDone == \A k \in 1 .. index - 1 : Done(plan[k])

\* The order of a selection's components has each of them once, and after what
\* it requires (dependency_order).
IsOrder(order, S) ==
    /\ order \in Seq(S)
    /\ \A c \in S : \E k \in DOMAIN order : order[k] = c
    /\ \A j, k \in DOMAIN order :
        /\ order[j] = order[k] => j = k
        /\ order[j] \in requires[order[k]] => j < k
OrdersAreSound == \A S \in Selections : IsOrder(DependencyOrder(S), S)

\* The record is of the right types and true: what a run did before it stopped
\* is done and recorded, and nothing is recorded before what it requires
\* (Installer::apply, derive).
RecordIsTrue ==
    [](TypeOK /\ DoneStaysDone /\ (runs = 0 => OrdersAreSound)) /\ RequirementsFirst

-----------------------------------------------------------------------------
(* The inductive invariant.                                                *)

\* An item has one record, whatever was updated and removed.
HasRecord(i, v) == \E k \in DOMAIN stored : stored[k] = Record(i, v)
OneRecord == \A j, k \in DOMAIN stored : stored[j].id = stored[k].id => j = k

\* A run is cut once at most.
CutsCounted ==
    cut["crashed"] + cut["failed"] + cut["cancelled"]
        + (IF pc = "idle" THEN 0 ELSE 1) <= runs

\* A plan has one change of each item, and what lies ahead of a run fits the
\* record as it is then.
Fits(change) ==
    \/ change.op = "install" /\ ~Recorded(change.id)
       /\ change.to = published[change.id] /\ change.to \in Versions
    \/ change.op = "update" /\ HasRecord(change.id, change.from)
       /\ change.to = published[change.id] /\ change.from < change.to
    \/ change.op = "remove" /\ HasRecord(change.id, change.from)
Ahead == index .. Len(plan)
PlanFits ==
    /\ \A j, k \in DOMAIN plan : plan[j].id = plan[k].id => j = k
    /\ pc # "idle" => \A k \in Ahead : Fits(plan[k])

\* Which steps are of which changes, and what they have in their places.
AtChange == pc \notin {"idle", "next"}
StepsFit ==
    /\ AtChange => index <= Len(plan)
    /\ pc \in {"unpack", "clear_aside", "set_aside", "move", "drop"} =>
          Current.op # "remove" /\ Current.id \in Components
    /\ pc \in {"clear", "fill", "list"} =>
          Current.op # "remove" /\ Current.id \in Programs
    /\ pc = "replace" => Current.op = "update"
    /\ pc = "forget" => Current.op = "update" /\ Current.id \in Programs
    /\ pc = "remove" => Current.op = "remove"
PlacesFit ==
    /\ pc \in {"clear_aside", "set_aside", "move"} => staging[Place] = "whole"
    /\ pc = "move" => disk[Place] = "none"
    /\ pc \in {"drop", "list", "replace", "forget"} => disk[Place] = "whole"
    /\ pc = "write" =>
          IF Current.op = "remove" THEN disk[Old] = "none" ELSE disk[Place] = "whole"

\* What is there of an item on record that nobody asked to remove: the version
\* on record, if no release is newer, or as long as nothing that could have
\* damaged it was cut short; some version, as long as it survives.
Whole(i) == \E v \in Versions : disk[<<i, v>>] = "whole"
AsRecorded(i) == disk[<<i, VersionOf(i)>>] = "whole"
Untroubled(i) ==
    /\ cut["crashed"] = 0 /\ cut["failed"] = 0
    /\ i \in Components \/ cut["cancelled"] = 0
Replaced(i) == pc \in {"forget", "write"} /\ Current.id = i /\ Current.op = "update"
InHand(i) ==
    /\ AtChange /\ Current.id = i
    /\ pc = "fill" \/ (pc = "move" /\ aside[Place] = "whole")
ItemHolds(i) ==
    Recorded(i) /\ i \notin condemned =>
        /\ VersionOf(i) >= published[i] => AsRecorded(i)
        /\ Untroubled(i) => AsRecorded(i) \/ Replaced(i)
        /\ Survives(i) => Whole(i) \/ InHand(i)
ItemsHold == \A i \in Items : ItemHolds(i)

\* What a selection still has to do: each of its components is ahead or
\* settled, what is on record and not wanted is ahead, and so is what is
\* required and not there, before what requires it.
Settled(c) ==
    \/ c \in condemned \/ published[c] = 0
    \/ IF Recorded(c) THEN VersionOf(c) >= published[c] ELSE c \in system
ComesBefore(r, k) == \E j \in index .. k - 1 : plan[j].id = r
SelectionAhead ==
    /\ \A k \in Ahead : plan[k].id \in IF plan[k].op = "remove" THEN Components \ goal.of
                                       ELSE goal.of
    /\ \A c \in goal.of : Settled(c) \/ \E k \in Ahead : plan[k].id = c
    /\ \A c \in Components \ goal.of : Recorded(c) => \E k \in Ahead : plan[k].id = c
    /\ \A k \in Ahead : plan[k].op = "install" =>
          \A r \in requires[plan[k].id] :
              published[r] = 0 \/ Present(r) \/ ComesBefore(r, k)
OtherGoalAhead ==
    \A k \in Ahead : plan[k].op = "install" => plan[k].id \in Programs
GoalAhead ==
    /\ goal.kind = "selection" => goal.of \in Selections
    /\ pc # "idle" => IF goal.kind = "selection" THEN SelectionAhead ELSE OtherGoalAhead

Inv ==
    /\ TypeOK /\ OneRecord /\ CutsCounted /\ PlanFits /\ StepsFit /\ PlacesFit
    /\ ItemsHold /\ GoalAhead /\ DoneStaysDone /\ SelectionIsInstalled

-----------------------------------------------------------------------------
(* A bound on where a behaviour that TLC explores starts: one component is not *)
(* published yet and the rest is in its newest version; a machine with         *)
(* components of its own has none of the installer's.                          *)
Late == CHOOSE c \in Components : \A d \in Components : d <= c
Workload ==
    runs = 0 =>
        /\ \A i \in Items \ {Late} : published[i] = MaxVersion
        /\ system = {} \/ stored = <<>>

-----------------------------------------------------------------------------
(* What the documentation says and the code does not do.                   *)

\* "The plan that makes `selection` installed" (for_selection): also after a
\* removal that was cut short.
SelectionMadeInstalled ==
    Completed("selection") =>
        \A c \in goal.of : published[c] # 0 => InPlace(c)

=============================================================================
