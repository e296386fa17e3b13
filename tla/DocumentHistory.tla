---------------------------- MODULE DocumentHistory ----------------------------
(* Undo in a designer (ui/src/infra/history, MultiViewEditor): what is        *)
(* recorded for one document as its views change its text, and its pixels,    *)
(* which are not text. Bursts merge, an action is one step, and undoing       *)
(* writes through the document's writer without being recorded itself.        *)
EXTENDS Integers, Sequences, SequencesExt

CONSTANTS MaxChanges,   \* bound: changes of the document
          MaxSteps,     \* the steps kept (LIMIT)
          MaxGroup      \* bound: changes one action makes

ASSUME HistoryAssumption == MaxSteps \in Nat \ {0}

VARIABLES
    doc,        \* the document: its text and its pixels, each by its change
    rendered,   \* the text the shown view was rendered with
    past, future,
    acting,     \* an action is under way
    group,      \* the changes it made
    mergeable,     \* the last step was recorded within the merging time
    changes,    \* the document's changes so far
    lost,       \* a step was dropped at the limit, or something was not recorded as it was
    original    \* the document when its history began

historyVars == <<doc, rendered, past, future, acting, group, mergeable, changes, lost, original>>

Blank == [text |-> 0, pixels |-> 0]

HistoryInit ==
    /\ doc = Blank /\ rendered = 0 /\ past = <<>> /\ future = <<>> /\ acting = FALSE /\ group = <<>>
    /\ mergeable = FALSE /\ changes = 0 /\ lost = FALSE /\ original = Blank

\* A step is the changes it takes back together, each with the value before and after.
Change(field, before, after) == [field |-> field, before |-> before, after |-> after]

OfField(step, field) == {k \in DOMAIN step : step[k].field = field}

\* Mutant: a step's changes are taken back in the order they were made.
Undone_InOrder(d, step) ==
    [field \in DOMAIN d |-> IF OfField(step, field) = {} THEN d[field]
                            ELSE step[Max(OfField(step, field))].before]

\* Taken back last first, so that the first of a field's changes decides.
Undone(d, step) ==
    [field \in DOMAIN d |-> IF OfField(step, field) = {} THEN d[field]
                            ELSE step[Min(OfField(step, field))].before]

Redone(d, step) ==
    [field \in DOMAIN d |-> IF OfField(step, field) = {} THEN d[field]
                            ELSE step[Max(OfField(step, field))].after]

\* push: within an action, to its group; else a step, the oldest dropped at the limit.
Push(step) ==
    IF acting
    THEN /\ group' = group \o step
         /\ UNCHANGED <<past, future, mergeable>>
    ELSE /\ past' = IF Len(past) = MaxSteps THEN Append(Tail(past), step) ELSE Append(past, step)
         /\ future' = <<>> /\ mergeable' = TRUE /\ UNCHANGED group

\* Whether a change goes on from the one recorded last.
Continues(field, before) ==
    LET last == IF acting THEN group ELSE IF past = <<>> THEN <<>> ELSE Last(past)
    IN  /\ last # <<>> /\ (acting \/ (mergeable /\ Len(last) = 1))
        /\ Last(last).field = field /\ Last(last).after = before

Merge(after) ==
    IF acting
    THEN group' = [group EXCEPT ![Len(group)].after = after] /\ UNCHANGED <<past, future, mergeable>>
    ELSE /\ past' = [past EXCEPT ![Len(past)][1].after = after]
         /\ future' = <<>> /\ mergeable' = TRUE /\ UNCHANGED group

Drops(field, before) == ~acting /\ ~Continues(field, before) /\ Len(past) = MaxSteps

\* recordDocumentChange and pushDocumentStep: text goes on from the text it
\* replaces, anything else from a step with its key.
Record(field, before, after) ==
    IF Continues(field, before) THEN Merge(after) ELSE Push(<<Change(field, before, after)>>)

-----------------------------------------------------------------------------
(* The views *)

\* A designer writes the text: what was there before is what it was rendered with.
DesignerChanges ==
    /\ changes < MaxChanges /\ (acting => Len(group) < MaxGroup)
    /\ changes' = changes + 1
    /\ doc' = [doc EXCEPT !.text = changes + 1]
    /\ Record("text", rendered, changes + 1)
    /\ lost' = (lost \/ rendered # doc.text \/ Drops("text", rendered))
    /\ UNCHANGED <<rendered, acting, original>>

\* A designer records a step of its own.
PixelsChange ==
    /\ changes < MaxChanges /\ (acting => Len(group) < MaxGroup)
    /\ changes' = changes + 1
    /\ doc' = [doc EXCEPT !.pixels = changes + 1]
    /\ IF acting THEN Push(<<Change("pixels", doc.pixels, changes + 1)>>)
       ELSE Record("pixels", doc.pixels, changes + 1)
    /\ lost' = (lost \/ Drops("pixels", doc.pixels))
    /\ UNCHANGED <<rendered, acting, original>>

\* A text view keeps a history of its own.
TextViewChanges ==
    /\ changes < MaxChanges
    /\ changes' = changes + 1
    /\ doc' = [doc EXCEPT !.text = changes + 1] /\ rendered' = changes + 1
    /\ lost' = TRUE
    /\ UNCHANGED <<past, future, acting, group, mergeable, original>>

Render ==
    /\ rendered # doc.text
    /\ rendered' = doc.text
    /\ UNCHANGED <<doc, past, future, acting, group, mergeable, changes, lost, original>>

\* The merging time is over.
Pause ==
    /\ mergeable
    /\ mergeable' = FALSE
    /\ UNCHANGED <<doc, rendered, past, future, acting, group, changes, lost, original>>

BeginAction ==
    /\ ~acting /\ changes < MaxChanges
    /\ acting' = TRUE
    /\ UNCHANGED <<doc, rendered, past, future, group, mergeable, changes, lost, original>>

\* A step of an action's only change, with the last one's key, joins it.
Joins == /\ Len(group) = 1 /\ group[1].field = "pixels"
         /\ mergeable /\ past # <<>> /\ Len(Last(past)) = 1 /\ Last(past)[1].field = "pixels"

\* It returned, threw or its promise settled: what it changed is one step.
EndAction ==
    /\ acting
    /\ acting' = FALSE /\ group' = <<>>
    /\ IF group = <<>> THEN UNCHANGED <<past, future, mergeable, lost>>
       ELSE /\ past' = IF Joins THEN [past EXCEPT ![Len(past)][1].after = group[1].after]
                       ELSE IF Len(past) = MaxSteps THEN Append(Tail(past), group) ELSE Append(past, group)
            /\ lost' = (lost \/ (~Joins /\ Len(past) = MaxSteps))
            /\ future' = <<>> /\ mergeable' = TRUE
    /\ UNCHANGED <<doc, rendered, changes, original>>

\* While an asynchronous action is under way too: its own steps are not in the past yet.
Undo ==
    /\ past # <<>>
    /\ doc' = Undone(doc, Last(past))
    /\ past' = Front(past) /\ future' = Append(future, Last(past))
    /\ mergeable' = FALSE
    /\ lost' = (lost \/ acting)
    /\ UNCHANGED <<rendered, acting, group, changes, original>>

Redo ==
    /\ future # <<>>
    /\ doc' = Redone(doc, Last(future))
    /\ future' = Front(future) /\ past' = Append(past, Last(future))
    /\ mergeable' = FALSE
    /\ lost' = (lost \/ acting)
    /\ UNCHANGED <<rendered, acting, group, changes, original>>

\* The tab is closed, or the document reloaded from disk.
Forget ==
    /\ past # <<>> \/ future # <<>>
    /\ past' = <<>> /\ future' = <<>> /\ acting' = FALSE /\ group' = <<>> /\ mergeable' = FALSE
    /\ lost' = FALSE /\ original' = doc /\ rendered' = doc.text
    /\ UNCHANGED <<doc, changes>>

HistoryNext ==
    \/ DesignerChanges \/ PixelsChange \/ TextViewChanges \/ Render \/ Pause
    \/ BeginAction \/ EndAction \/ Undo \/ Redo \/ Forget

HistorySpec == HistoryInit /\ [][HistoryNext]_historyVars

-----------------------------------------------------------------------------
(* Everything undone is the document as it was opened, however changes were   *)
(* merged and grouped and whatever was undone and redone in between, if every *)
(* change was recorded as it was made (none in a text view, none before the   *)
(* view shows the last one, no undo within an action).                        *)
UndoneIsOriginal == past = <<>> /\ ~acting /\ ~lost => doc = original

(* Undoing a step and redoing it is the document before the undo: the steps   *)
(* fit each other and what they can be redone to.                             *)
RedoIsBack ==
    ~lost /\ ~acting =>
        /\ past # <<>> => Redone(Undone(doc, Last(past)), Last(past)) = doc
        /\ future # <<>> => Undone(Redone(doc, Last(future)), Last(future)) = doc

(* What undo and redo promise of a document (history.tsx, MultiViewEditor).    *)
HistoryComesBack == UndoneIsOriginal /\ RedoIsBack
=============================================================================
