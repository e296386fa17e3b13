-------------------------------- MODULE Popups --------------------------------
(* What opens over the window and goes again: the queue of modal dialogs that  *)
(* any code may ask for (widgets/Dialog), toasts (widgets/Notifications), the  *)
(* quick pick with results that arrive while one chooses (widgets/QuickPick),  *)
(* and context menus with their submenus (widgets/ContextMenu). Each part has  *)
(* a next-state relation of its own.                                           *)
EXTENDS Integers, Sequences, FiniteSets, SequencesExt

CONSTANTS
    Kinds,          \* the dialogs asked for: their buttons, input and first value
    Texts,          \* what is typed; a dialog's validation refuses ""
    Places,         \* what may have the keyboard
    Results,        \* the lists of results a quick pick may be given
    MaxVisible, MaxAsked, MaxSteps

VARIABLES
    queue, nextKey, value, returnFocus, keyboard, answers, before, typed,
    notifications, timers, nextId,
    items, active, previewed, accepted, filter,
    target, origin, submenu, closeTimer, pointer,
    popupSteps      \* bound

dialogVars == <<queue, nextKey, value, returnFocus, keyboard, answers, before, typed>>
toastVars == <<notifications, timers, nextId>>
pickVars == <<items, active, previewed, accepted, filter>>
menuVars == <<target, origin, submenu, closeTimer, pointer>>
popupVars == <<dialogVars, toastVars, pickVars, menuVars, popupSteps>>

PopupsInit ==
    /\ queue = <<>> /\ nextKey = 0 /\ value = "" /\ returnFocus = "none" /\ keyboard \in Places
    /\ answers = <<>> /\ before = keyboard /\ typed = ""
    /\ notifications = <<>> /\ timers = {} /\ nextId = 0
    /\ items = <<>> /\ active = 1 /\ previewed = "none" /\ accepted = {} /\ filter = 0
    /\ target = "none" /\ origin = "still" /\ submenu = FALSE /\ closeTimer = FALSE /\ pointer = "out"
    /\ popupSteps = 0

Stepped == popupSteps < MaxSteps /\ popupSteps' = popupSteps + 1

(* ---- Dialogs ---- *)

\* The queue's front is shown, each dialog in a view of its own: it starts from
\* its own value, and keeps in mind what had the keyboard.
Mounted(all, at) ==
    IF all = <<>> \/ (queue # <<>> /\ all[1] = queue[1]) THEN UNCHANGED <<value, returnFocus, typed>> /\ keyboard' = at
    ELSE /\ value' = all[1].kind.first /\ typed' = all[1].kind.first
         /\ returnFocus' = at /\ keyboard' = "dialog"
ShowDialog(kind) ==
    /\ nextKey < MaxAsked /\ nextKey' = nextKey + 1
    /\ queue' = Append(queue, [key |-> nextKey, kind |-> kind]) /\ Mounted(queue', keyboard)
    /\ before' = (IF queue = <<>> THEN keyboard ELSE before) /\ UNCHANGED answers

Error == queue[1].kind.input /\ value = ""
DefaultButton(kind) == IF "confirm" \in kind.buttons THEN "confirm" ELSE "ok"
CancelButton(kind) == IF kind.cancel \in kind.buttons THEN kind.cancel ELSE "cancel"

\* The dialog goes, its asker is answered, and the keyboard goes back.
OnDone(button) ==
    /\ queue' = Tail(queue) /\ Mounted(queue', returnFocus)
    /\ answers' = Append(answers, [key |-> queue[1].key, kind |-> queue[1].kind, button |-> button,
                                   value |-> value, typed |-> typed])
    /\ UNCHANGED <<nextKey, before>>
Choose(button) ==
    /\ queue # <<>> /\ button \in queue[1].kind.buttons
    /\ ~(Error /\ button = DefaultButton(queue[1].kind)) /\ OnDone(button)
EnterInDialog ==
    /\ queue # <<>> /\ queue[1].kind.input /\ ~Error /\ OnDone(DefaultButton(queue[1].kind))
EscapeDialog == queue # <<>> /\ OnDone(CancelButton(queue[1].kind))
TypeInDialog(text) ==
    /\ queue # <<>> /\ queue[1].kind.input /\ value # text /\ value' = text /\ typed' = text
    /\ UNCHANGED <<queue, nextKey, returnFocus, keyboard, answers, before>>
FocusMoves(place) ==
    /\ queue = <<>> /\ keyboard' = place /\ place # keyboard /\ Stepped
    /\ UNCHANGED <<queue, nextKey, value, returnFocus, answers, before, typed>>

DialogNext ==
    /\ \/ (\/ EnterInDialog \/ EscapeDialog
           \/ \E k \in Kinds : ShowDialog(k)
           \/ \E b \in {"cancel", "confirm", "ok"} : Choose(b)
           \/ \E x \in Texts : TypeInDialog(x)) /\ UNCHANGED popupSteps
       \/ \E p \in Places : FocusMoves(p)
    /\ UNCHANGED <<toastVars, pickVars, menuVars>>

(* ---- Toasts ---- *)

\* A toast's timer lives as long as the toast is shown.
Shown(all) ==
    /\ notifications' = all
    /\ timers' = {all[i].id : i \in {j \in DOMAIN all : all[j].timeout}}
Notify(timeout) ==
    LET all == Append(notifications, [id |-> nextId, timeout |-> timeout])
    IN  /\ nextId < MaxAsked + MaxVisible /\ nextId' = nextId + 1
        /\ Shown(IF Len(all) > MaxVisible THEN SubSeq(all, Len(all) - MaxVisible + 1, Len(all)) ELSE all)
Dismiss(id) ==
    /\ \E i \in DOMAIN notifications : notifications[i].id = id
    /\ Shown(SelectSeq(notifications, LAMBDA n : n.id # id)) /\ UNCHANGED nextId
TimesOut(id) == id \in timers /\ Dismiss(id)

ToastNext ==
    /\ \/ \E b \in BOOLEAN : Notify(b)
       \/ \E id \in 0..(MaxAsked + MaxVisible) : Dismiss(id) \/ TimesOut(id)
    /\ UNCHANGED <<dialogVars, pickVars, menuVars, popupSteps>>

(* ---- The quick pick ---- *)

Clipped(i, all) == IF i > Len(all) THEN Len(all) ELSE i
ActiveItem(all, i) == IF all = <<>> THEN "none" ELSE all[Clipped(i, all)]

\* A new result set starts at its top; the product hears of the row highlighted.
ItemsArrive(all) ==
    /\ all # items /\ Stepped /\ items' = all /\ active' = 1 /\ previewed' = ActiveItem(all, 1)
    /\ UNCHANGED <<accepted, filter>>
Highlighted(i) == active' = i /\ previewed' = ActiveItem(items, i) /\ UNCHANGED <<items, accepted, filter, popupSteps>>
Move(delta) ==
    LET to == Clipped(active, items) + delta
    IN  items # <<>> /\ Highlighted(IF to < 1 THEN 1 ELSE IF to > Len(items) THEN Len(items) ELSE to)
Hover(i) == i \in DOMAIN items /\ i # Clipped(active, items) /\ Highlighted(i)
CycleFilter(delta) ==
    /\ filter' = (filter + delta + 2) % 2 /\ Stepped /\ UNCHANGED <<items, active, previewed, accepted>>
Accept(item) ==
    /\ item # "none" /\ accepted' = accepted \union {<<item, previewed>>}
    /\ UNCHANGED <<items, active, previewed, filter, popupSteps>>
EnterInPick == Accept(ActiveItem(items, active))

PickNext ==
    /\ \/ EnterInPick
       \/ \E all \in Results : ItemsArrive(all)
       \/ \E delta \in {-2, -1, 1, 2} : Move(delta)
       \/ \E i \in 1..2 : Hover(i)
       \/ \E delta \in {-1, 1} : CycleFilter(delta)
    /\ UNCHANGED <<dialogVars, toastVars, menuVars>>

(* ---- Context menus ---- *)

OpenMenu(mode) ==
    /\ Stepped /\ target' = mode /\ origin' = "still" /\ submenu' = FALSE /\ closeTimer' = FALSE /\ pointer' = "out"
CloseMenu ==
    /\ target # "none" /\ target' = "none" /\ origin' = "still" /\ submenu' = FALSE /\ closeTimer' = FALSE
    /\ pointer' = "out" /\ UNCHANGED popupSteps

\* Mutant: whatever scrolls closes the menu.
ScrollMoves_Any(inside, moves) == TRUE

\* Only a scroll of what holds the spot the menu was opened over, and that
\* moved it; never once a refresh has replaced it.
ScrollMoves(inside, moves) == origin # "replaced" /\ inside /\ (moves \/ origin = "moved")
Scroll(inside, moves) ==
    /\ target # "none" /\ (moves => inside /\ origin = "still") /\ Stepped
    /\ IF target = "viewport" /\ ScrollMoves(inside, moves)
       THEN target' = "none" /\ origin' = "still" /\ submenu' = FALSE /\ closeTimer' = FALSE /\ pointer' = "out"
       ELSE /\ origin' = (IF moves THEN "moved" ELSE origin)
            /\ UNCHANGED <<target, submenu, closeTimer, pointer>>
Refreshed(how) ==
    /\ target = "viewport" /\ origin = "still" /\ origin' = how
    /\ UNCHANGED <<target, submenu, closeTimer, pointer, popupSteps>>

\* The pointer on a row with a submenu opens it; leaving the row or the submenu
\* closes it a little later, unless the pointer comes into one of them by then.
EnterRow ==
    /\ target # "none" /\ pointer # "row" /\ pointer' = "row" /\ submenu' = TRUE /\ closeTimer' = FALSE
    /\ UNCHANGED <<target, origin, popupSteps>>
Leave ==
    /\ pointer # "out" /\ pointer' = "out" /\ closeTimer' = TRUE /\ UNCHANGED <<target, origin, submenu, popupSteps>>
EnterSub ==
    /\ submenu /\ pointer # "sub" /\ pointer' = "sub" /\ closeTimer' = FALSE
    /\ UNCHANGED <<target, origin, submenu, popupSteps>>
SubmenuTimesOut ==
    /\ closeTimer /\ closeTimer' = FALSE /\ submenu' = FALSE /\ UNCHANGED <<target, origin, pointer, popupSteps>>
ClickRow ==
    /\ pointer = "row" /\ Stepped /\ closeTimer' = FALSE /\ submenu' = ~submenu /\ UNCHANGED <<target, origin, pointer>>

MenuNext ==
    /\ \/ CloseMenu \/ EnterRow \/ Leave \/ EnterSub \/ SubmenuTimesOut \/ ClickRow
       \/ \E mode \in {"viewport", "anchor"} : OpenMenu(mode)
       \/ \E inside, moves \in BOOLEAN : Scroll(inside, moves)
       \/ \E how \in {"moved", "replaced"} : Refreshed(how)
    /\ UNCHANGED <<dialogVars, toastVars, pickVars>>

PopupsNext == DialogNext \/ ToastNext \/ PickNext \/ MenuNext
PopupsSpec == PopupsInit /\ [][PopupsNext]_popupVars

\* Every dialog is answered in the order it was asked for, with what was typed
\* in it and in no other, and an answer that confirms has passed its check; with
\* none left, the keyboard is where it was before the first.
AnswersAreOwn ==
    /\ \A i \in DOMAIN answers :
         /\ answers[i].key = i - 1 /\ answers[i].value = answers[i].typed
         /\ (answers[i].kind.input /\ answers[i].button = "confirm") => answers[i].value # ""
    /\ Len(answers) + Len(queue) = nextKey
FocusComesBack == queue # <<>> /\ queue' = <<>> => keyboard' = before

\* What a timer will dismiss is a toast on the screen, and all that have a time
\* are timed.
ToastsAreTimed ==
    timers = {notifications[i].id : i \in {j \in DOMAIN notifications : notifications[j].timeout}}

\* What the product previews is the row highlighted, and the row Enter takes.
PreviewIsActive ==
    /\ previewed = ActiveItem(items, active)
    /\ \A a \in accepted : a[1] = a[2]

\* A submenu stays while the pointer is in it, and a menu stays open when
\* something else in the window scrolls.
SubmenuStays == pointer = "sub" => submenu
MenuStays ==
    \A inside, moves \in BOOLEAN : Scroll(inside, moves) /\ target' = "none" => inside
=============================================================================
