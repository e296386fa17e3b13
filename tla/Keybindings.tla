----------------------------- MODULE Keybindings -----------------------------
(* The window's keys (infra/keys): bindings that unrelated components register *)
(* and drop, a user keymap that rebinds them, chords of two steps that wait    *)
(* for their second one, whatever the keyboard layout types; and the text      *)
(* fields' own Ctrl+V and Ctrl+A, done here where the layout's letter hides    *)
(* them from the webview.                                                      *)
EXTENDS Integers, Sequences, FiniteSets, SequencesExt

CONSTANTS
    Bindings,       \* what components register: an id and its default shortcuts
    Keymaps,        \* the user keymaps: a command's id to its shortcuts
    Typed,          \* what each layout types for each physical key
    Latin,          \* the letters taken as typed
    Fields, NoField, NoStep, MaxPresses

(* An id names one command, which has its shortcuts however many components    *)
(* register it; a shortcut has at least one step.                              *)
Written(shortcuts) == shortcuts = <<>> \/ (1 \in DOMAIN shortcuts /\ shortcuts[1] # <<>>)
ASSUME KeysAssumption ==
    /\ \A b, c \in Bindings : b.id = c.id => b.keys = c.keys
    /\ \A b \in Bindings : Written(b.keys)
    /\ \A map \in Keymaps : \A id \in DOMAIN map : Written(map[id])

VARIABLES
    registered, overrides, pending, recent,
    modal,          \* a dialog is open
    lastTaken,      \* the step of the last key press the listener took
    ran,            \* what the last press ran: the steps, and the prefix it followed
    focus, gone, reading, pasted,
    presses         \* bound

keyVars == <<registered, overrides, pending, recent, modal, lastTaken, ran, focus, gone, reading,
             pasted, presses>>

Nothing == [steps |-> <<>>, after |-> NoStep]

\* A letter the layout types is taken as is; anything else is what the physical
\* key types on a US layout.
EventKey(layout, code) == IF Typed[layout][code] \in Latin THEN Typed[layout][code] ELSE code
EventShortcut(layout, code, ctrl) == <<ctrl, EventKey(layout, code)>>

\* A command's shortcuts: the user's if the keymap has any for it, none included.
StepsOf(binding, map) == IF binding.id \in DOMAIN map THEN map[binding.id] ELSE binding.keys
KeybindingLabel(id) ==
    LET all == IF id \in DOMAIN overrides THEN overrides[id]
               ELSE registered[CHOOSE i \in DOMAIN registered :
                      registered[i].binding.id = id /\ \A j \in 1..(i - 1) : registered[j].binding.id # id].binding.keys
    IN  IF all = <<>> THEN <<>> ELSE all[1]

KeyInit ==
    /\ registered = <<>> /\ overrides = [id \in {} |-> <<>>] /\ pending = NoStep /\ recent = FALSE
    /\ modal = FALSE /\ lastTaken = NoStep /\ ran = Nothing
    /\ focus = NoField /\ gone = {} /\ reading = NoField /\ pasted = {} /\ presses = 0

Stepped == presses < MaxPresses /\ presses' = presses + 1
FieldsStay == UNCHANGED <<focus, gone, reading, pasted>>

RegisterKeybinding(binding) ==
    /\ \A i \in DOMAIN registered : registered[i].binding # binding
    /\ registered' = Append(registered, [binding |-> binding, steps |-> StepsOf(binding, overrides)])
    /\ ran' = Nothing /\ FieldsStay /\ UNCHANGED <<overrides, pending, recent, modal, lastTaken, presses>>
Unregister(i) ==
    /\ i \in DOMAIN registered /\ registered' = RemoveAt(registered, i)
    /\ ran' = Nothing /\ FieldsStay /\ UNCHANGED <<overrides, pending, recent, modal, lastTaken, presses>>

SetKeymapOverrides(map) ==
    /\ overrides' = map /\ map # overrides
    /\ registered' = [i \in DOMAIN registered |->
                        [registered[i] EXCEPT !.steps = StepsOf(registered[i].binding, map)]]
    /\ ran' = Nothing /\ FieldsStay /\ UNCHANGED <<pending, recent, modal, lastTaken, presses>>

ChordTimesOut ==
    /\ recent /\ recent' = FALSE /\ ran' = Nothing
    /\ FieldsStay /\ UNCHANGED <<registered, overrides, pending, modal, lastTaken, presses>>
ModalToggles ==
    /\ Stepped /\ modal' = ~modal /\ ran' = Nothing
    /\ FieldsStay /\ UNCHANGED <<registered, overrides, pending, recent, lastTaken>>

Prefix == IF recent THEN pending ELSE NoStep
\* The bindings that take these keys: the last registered of them runs.
Takers(wanted, willing) == {i \in willing : \E n \in DOMAIN registered[i].steps : registered[i].steps[n] = wanted}
StartsChord(step, active) ==
    \E i \in active : \E n \in DOMAIN registered[i].steps :
        Len(registered[i].steps[n]) > 1 /\ registered[i].steps[n][1] = step

\* Mutant: a second step that is bound to nothing leaves the chord waiting.
Waiting_Kept(step, active) ==
    IF StartsChord(step, active) THEN step ELSE Prefix

\* A chord's first step waits for its second; every other press ends the wait.
Waiting(step, active) == IF StartsChord(step, active) THEN step ELSE NoStep

\* What the press of step runs, of the bindings active now and those of them
\* that do not decline. A terminal keeps Ctrl and a letter for itself.
Runs(step, native, active, willing) ==
    IF native /\ step[1] THEN Nothing
    ELSE IF Prefix # NoStep /\ Takers(<<Prefix, step>>, willing) # {}
    THEN [steps |-> <<Prefix, step>>, after |-> lastTaken]
    ELSE IF ~StartsChord(step, active) /\ Takers(<<step>>, willing) # {}
    THEN [steps |-> <<step>>, after |-> lastTaken]
    ELSE Nothing

\* A key press no dialog stands before.
OnKeyDown(step, native, active, willing) ==
    /\ ~modal /\ Stepped /\ ran' = Runs(step, native, active, willing) /\ lastTaken' = step
    /\ pending' = IF ran' # Nothing \/ (native /\ step[1]) THEN NoStep ELSE Waiting(step, active)
    /\ recent' = (pending' # NoStep)
    /\ UNCHANGED <<registered, overrides, modal>>

\* Ctrl+V where the layout types no v: the clipboard is read, then the field
\* gets the keyboard again, if it is still there, and the text is typed.
OnTextFieldKeyDown(layout, code, ctrl) ==
    IF focus # NoField /\ ctrl /\ EventKey(layout, code) = "v" /\ Typed[layout][code] # "v"
    THEN reading = NoField /\ reading' = focus
    ELSE reading' = reading
PasteArrives ==
    /\ reading # NoField /\ reading' = NoField
    /\ focus' = IF reading \in gone THEN focus ELSE reading
    /\ pasted' = pasted \union {<<reading, focus'>>}
    /\ ran' = Nothing /\ UNCHANGED <<registered, overrides, pending, recent, modal, lastTaken, gone, presses>>
PasteRefused ==
    /\ reading # NoField /\ reading' = NoField
    /\ ran' = Nothing /\ UNCHANGED <<registered, overrides, pending, recent, modal, lastTaken, focus, gone,
                                     pasted, presses>>

Press(layout, code, ctrl, native, active, willing) ==
    /\ OnKeyDown(EventShortcut(layout, code, ctrl), native, active, willing)
    /\ IF ran' = Nothing /\ ~native THEN OnTextFieldKeyDown(layout, code, ctrl) ELSE reading' = reading
    /\ UNCHANGED <<focus, gone, pasted>>

Focus(field) ==
    /\ field # focus /\ field \notin gone /\ focus' = field /\ Stepped /\ ran' = Nothing
    /\ UNCHANGED <<registered, overrides, pending, recent, modal, lastTaken, gone, reading, pasted>>
FieldGoes(field) ==
    /\ field \notin gone /\ gone' = gone \union {field} /\ ran' = Nothing
    /\ focus' = IF focus = field THEN NoField ELSE focus
    /\ UNCHANGED <<registered, overrides, pending, recent, modal, lastTaken, reading, pasted, presses>>

Presses ==
    \E layout \in DOMAIN Typed : \E code \in DOMAIN Typed[layout], ctrl, native \in BOOLEAN :
        \E active \in SUBSET DOMAIN registered : \E willing \in SUBSET active :
            Press(layout, code, ctrl, native, active, willing)
KeyNext ==
    \/ Presses \/ ChordTimesOut \/ ModalToggles \/ PasteArrives \/ PasteRefused
    \/ \E b \in Bindings : RegisterKeybinding(b)
    \/ \E i \in 1..Cardinality(Bindings) : Unregister(i)
    \/ \E map \in Keymaps : SetKeymapOverrides(map)
    \/ \E f \in Fields : Focus(f) \/ FieldGoes(f)
KeySpec == KeyInit /\ [][KeyNext]_keyVars

\* A chord runs only when its second step was the very next key press after its
\* first that the window took: nothing typed in between counts as part of it.
ChordsAreTyped == Len(ran.steps) = 2 => ran.after = ran.steps[1]

\* The shortcut a menu shows for a command is one that runs it, in whatever
\* order commands were registered and the keymap was set.
LabelRuns ==
    \A i \in DOMAIN registered :
        LET label == KeybindingLabel(registered[i].binding.id)
        IN  IF label = <<>> THEN registered[i].steps = <<>>
            ELSE \E n \in DOMAIN registered[i].steps : registered[i].steps[n] = label

\* What the clipboard held is typed into the field Ctrl+V was pressed in.
PastesWhereAsked == \A p \in pasted : p[1] = p[2] \/ p[1] \in gone

(* A chord's command runs after both its strokes and nothing in between, the   *)
(* shortcut a menu shows runs its command, and a paste goes where it was asked *)
(* for (infra/keys/keys.tsx).                                                  *)
KeysArriveAsTyped == ChordsAreTyped /\ LabelRuns /\ PastesWhereAsked
=============================================================================
