-------------------------------- MODULE Settings --------------------------------
(* The Options window (ui/src/infra/theme, pages/AppearanceSettings,            *)
(* pages/EditorSettings, windows/SettingsWindow): the accent, the code editor's *)
(* color profiles and preferences, each kept in the browser's storage as it     *)
(* changes, and the history that takes every change back. Dialogs and picked    *)
(* files answer later than they were asked for.                                 *)
EXTENDS Integers, Sequences, SequencesExt

CONSTANTS Accents,        \* accent colors, the first the default
          BuiltIn,        \* the ids of the built-in profiles, the default first
          SchemeOf,       \* the colors of each
          Keys, Colors,   \* the color keys, and their values
          Names,          \* names a profile may be given
          Letters,        \* letters of a font's name, " " among them
          Sizes,          \* numbers typed as a font's size; those in Fitting are in range
          Fitting, DefaultSize,
          Sections,       \* the window's sections, in order
          FoundBy,        \* [search -> the sections it matches]
          CustomIds,      \* the ids of the profiles made, in order: as many as may be made
          Limit,          \* the steps the history keeps (LIMIT)
          MaxChanges,     \* bound: changes made
          MaxRestarts     \* bound: the window opened anew

\* Every color there is.
Shades == Colors \cup {SchemeOf[id][k] : id \in ToSet(BuiltIn), k \in Keys}

\* A profile made gets an id no other has (randomId).
ASSUME SettingsAssumption ==
    /\ Accents \in Seq(ToSet(Accents)) \ {<<>>}
    /\ BuiltIn \in Seq(ToSet(BuiltIn)) \ {<<>>}
    /\ SchemeOf \in [ToSet(BuiltIn) -> [Keys -> Shades]]
    /\ CustomIds \in Seq(ToSet(CustomIds)) /\ IsInjective(CustomIds)
    /\ ToSet(CustomIds) \cap ToSet(BuiltIn) = {}
    /\ Limit \in Nat \ {0}

VARIABLES
    shown,      \* the settings in effect
    stored,     \* what storage holds of each
    persists,   \* storage is available
    past, future,   \* the history of the Options
    recent,     \* its last step was recorded within the merging time
    asking,     \* the dialog that is open, and what was captured when it was
    reading,    \* the picked files whose text has not come
    importError,
    draft,      \* what is typed in the size's field
    typedFont,      \* the font's name as it was last typed
    picking,    \* the key whose color picker is open
    page,       \* the window: the search, the section clicked and the one remembered
    made, changed, restarts,
    original    \* the settings when the window was opened, <<>> once a step that led from them was dropped

settingsVars == <<shown, stored, persists, past, future, recent, asking, reading, importError, draft, typedFont,
                  picking, page, made, changed, restarts, original>>

Absent == "-"
NoDialog == [kind |-> "none"]
DefaultTheme == BuiltIn[1]
DefaultPrefs == [font |-> <<>>, size |-> DefaultSize]
IsBuiltIn(id) == id \in ToSet(BuiltIn)
ColorSchemeFor(id) == IF IsBuiltIn(id) THEN SchemeOf[id] ELSE SchemeOf[DefaultTheme]

\* The colors of a profile: a custom one's own, else a built-in's, the default's for an id nobody has.
SchemeForId(profiles, id) ==
    IF \E p \in profiles : p.id = id THEN (CHOOSE p \in profiles : p.id = id).colors ELSE ColorSchemeFor(id)

Profile(id, name, colors) == [id |-> id, name |-> name, colors |-> colors]

------------------------------------------------------------------------------
(* Storage: each setting under a key of its own; what is absent or not of the   *)
(* expected shape is the default.                                               *)
Or(value, default) == IF value = <<>> THEN default ELSE value[1]

LoadStoredAccent(s) == Or(s.accent, Accents[1])
LoadStoredEditorTheme(s) == Or(s.theme, DefaultTheme)
LoadCustomProfiles(s) == Or(s.profiles, {})
LoadStoredEditorColors(s) == Or(s.colors, SchemeForId(LoadCustomProfiles(s), LoadStoredEditorTheme(s)))
LoadEditorPreferences(s) == Or(s.prefs, DefaultPrefs)

Loaded(s) ==
    [accent |-> LoadStoredAccent(s), theme |-> LoadStoredEditorTheme(s), profiles |-> LoadCustomProfiles(s),
     colors |-> LoadStoredEditorColors(s), prefs |-> LoadEditorPreferences(s)]

Fields == {"accent", "theme", "colors", "prefs", "profiles"}
Store(fields) ==
    stored' = IF persists THEN [f \in Fields |-> IF f \in fields THEN <<shown'[f]>> ELSE stored[f]] ELSE stored

------------------------------------------------------------------------------
(* What each change does to the settings, `made` the profiles made so far.      *)
Trim(t) == LET kept == {i \in 1..Len(t) : t[i] # " "}
           IN IF kept = {} THEN <<>> ELSE SubSeq(t, Min(kept), Max(kept))
Clamped(prefs) == [font |-> Trim(prefs.font), size |-> prefs.size]

Change(op, arg, held) == <<op, arg, held>>    \* held: what the change's closure captured
Op(c) == c[1]
Arg(c) == c[2]
Held(c) == c[3]

SetEditorTheme(s, id) == [s EXCEPT !.theme = id, !.colors = SchemeForId(s.profiles, id)]
ResetEditorColors(s, held) == IF IsBuiltIn(held) THEN [s EXCEPT !.colors = ColorSchemeFor(held)] ELSE s
CreateEditorProfile(s, name, colors) ==
    [s EXCEPT !.profiles = @ \cup {Profile(CustomIds[made + 1], name, colors)}, !.theme = CustomIds[made + 1]]
DeleteEditorProfile(s, id) ==
    LET kept == {p \in s.profiles : p.id # id}
    IN IF s.theme = id THEN [s EXCEPT !.profiles = kept, !.theme = DefaultTheme, !.colors = ColorSchemeFor(DefaultTheme)]
       ELSE [s EXCEPT !.profiles = kept]
\* A file that is no profile changes nothing.
ImportEditorProfile(s, file) ==
    IF file = <<>> THEN s
    ELSE [s EXCEPT !.profiles = @ \cup {Profile(CustomIds[made + 1], file[1].name, file[1].colors)},
                   !.theme = CustomIds[made + 1], !.colors = file[1].colors]

Result(s, c) ==
    CASE Op(c) = "setAccent" -> [s EXCEPT !.accent = Arg(c)]
      [] Op(c) = "setEditorTheme" -> SetEditorTheme(s, Arg(c))
      [] Op(c) = "setEditorColor" -> [s EXCEPT !.colors[Arg(c)] = Held(c)]
      [] Op(c) = "resetEditorColors" -> ResetEditorColors(s, Held(c))
      [] Op(c) = "createEditorProfile" -> CreateEditorProfile(s, Arg(c), Held(c))
      [] Op(c) = "deleteEditorProfile" -> DeleteEditorProfile(s, Arg(c))
      [] Op(c) = "importEditorProfile" -> ImportEditorProfile(s, Held(c))
      [] Op(c) = "font" -> [s EXCEPT !.prefs = Clamped([@ EXCEPT !.font = Held(c)])]
      [] Op(c) = "size" -> [s EXCEPT !.prefs = Clamped([@ EXCEPT !.size = Held(c)])]
      [] Op(c) = "resetEditorPreferences" -> [s EXCEPT !.prefs = DefaultPrefs]

Makes(c) == Op(c) = "createEditorProfile" \/ (Op(c) = "importEditorProfile" /\ Held(c) # <<>>)

\* Mutant: a new profile is kept, which one is in use is not.
Written_ProfilesOnly(c) ==
    CASE Op(c) = "setAccent" -> {"accent"}
      [] Op(c) = "setEditorTheme" -> {"theme", "colors"}
      [] Op(c) \in {"setEditorColor", "resetEditorColors"} -> {"colors"}
      [] Op(c) = "createEditorProfile" -> {"profiles"}
      [] Op(c) = "deleteEditorProfile" -> {"profiles", "theme", "colors"}
      [] Op(c) = "importEditorProfile" -> {"profiles", "theme", "colors"}
      [] OTHER -> {"prefs"}

\* What each of them writes.
Written(c) ==
    CASE Op(c) = "setAccent" -> {"accent"}
      [] Op(c) = "setEditorTheme" -> {"theme", "colors"}
      [] Op(c) = "setEditorColor" -> {"colors"}
      [] Op(c) = "resetEditorColors" -> IF IsBuiltIn(Held(c)) THEN {"colors"} ELSE {}
      [] Op(c) = "createEditorProfile" -> {"profiles", "theme"}
      [] Op(c) = "deleteEditorProfile" -> IF shown.theme = Arg(c) THEN {"profiles", "theme", "colors"} ELSE {"profiles"}
      [] Op(c) = "importEditorProfile" -> IF Held(c) = <<>> THEN {} ELSE {"profiles", "theme", "colors"}
      [] OTHER -> {"prefs"}

Made(c) ==
    /\ shown' = Result(shown, c)
    /\ made' = IF Makes(c) THEN made + 1 ELSE made
    /\ Store(Written(c))

Key(c) == <<Op(c), Arg(c)>>

\* push: a step with the last one's key within the merging time joins it.
Joins(c) == past # <<>> /\ recent /\ Key(Last(past).change) = Key(c)

\* It takes back what the first did and does again what the last did; the oldest is dropped at the limit.
Pushed(before, c) ==
    IF Joins(c) THEN [past EXCEPT ![Len(past)].change = c]
    ELSE Append(IF Len(past) = Limit THEN Tail(past) ELSE past, [before |-> before, change |-> c])

\* tracked: the change, and its step, whether it changed anything or not.
Tracked(c) ==
    /\ changed < MaxChanges /\ changed' = changed + 1
    /\ Makes(c) => made < Len(CustomIds)
    /\ Made(c)
    /\ past' = Pushed(shown, c) /\ future' = <<>> /\ recent' = TRUE
    /\ original' = IF ~Joins(c) /\ Len(past) = Limit THEN <<>> ELSE original
    /\ UNCHANGED <<persists, restarts>>

------------------------------------------------------------------------------
(* The pages' controls.                                                         *)
NotAsking == asking = NoDialog
OthersStay == UNCHANGED <<asking, reading, importError, draft, typedFont, picking, page>>

SetAccent == NotAsking /\ \E a \in ToSet(Accents) : Tracked(Change("setAccent", a, Absent)) /\ OthersStay

\* The profiles the picker lists, built-in first.
EditorProfiles == ToSet(BuiltIn) \cup {p.id : p \in shown.profiles}
ChooseProfile == NotAsking /\ \E id \in EditorProfiles \ {shown.theme} : Tracked(Change("setEditorTheme", id, Absent)) /\ OthersStay

\* A color's row opens the picker, which changes that color while it is open, or resets it.
OpenPicker ==
    /\ NotAsking /\ \E k \in Keys : picking' = k
    /\ UNCHANGED <<shown, stored, persists, past, future, recent, asking, reading, importError, draft, typedFont, page, made,
                   changed, restarts, original>>
ClosePicker ==
    /\ picking # Absent /\ picking' = Absent
    /\ UNCHANGED <<shown, stored, persists, past, future, recent, asking, reading, importError, draft, typedFont, page, made,
                   changed, restarts, original>>
PickerOffers == Colors \cup {ColorSchemeFor(shown.theme)[picking]}
PickColor ==
    /\ NotAsking /\ picking # Absent
    /\ \E c \in PickerOffers : Tracked(Change("setEditorColor", picking, c))
    /\ OthersStay

\* Offered for a built-in profile only.
ResetColors == NotAsking /\ IsBuiltIn(shown.theme) /\ Tracked(Change("resetEditorColors", "", shown.theme)) /\ OthersStay

\* New Profile and Delete ask first; what they then change was captured as they were clicked.
AskNew ==
    /\ NotAsking /\ asking' = [kind |-> "new", colors |-> shown.colors]
    /\ UNCHANGED <<shown, stored, persists, past, future, recent, reading, importError, draft, typedFont, picking, page, made,
                   changed, restarts, original>>
AskDelete ==
    /\ NotAsking /\ ~IsBuiltIn(shown.theme) /\ shown.theme \in EditorProfiles
    /\ asking' = [kind |-> "delete", id |-> shown.theme]
    /\ UNCHANGED <<shown, stored, persists, past, future, recent, reading, importError, draft, typedFont, picking, page, made,
                   changed, restarts, original>>
Cancel ==
    /\ ~NotAsking /\ asking' = NoDialog
    /\ UNCHANGED <<shown, stored, persists, past, future, recent, reading, importError, draft, typedFont, picking, page, made,
                   changed, restarts, original>>
NewProfile ==
    /\ asking.kind = "new" /\ asking' = NoDialog
    /\ \E name \in Names : Tracked(Change("createEditorProfile", name, asking.colors))
    /\ UNCHANGED <<reading, importError, draft, typedFont, picking, page>>
DeleteProfile ==
    /\ asking.kind = "delete" /\ asking' = NoDialog
    /\ Tracked(Change("deleteEditorProfile", asking.id, Absent))
    /\ UNCHANGED <<reading, importError, draft, typedFont, picking, page>>

\* What Export writes: the profile as it is kept, not the colors in effect.
Exported(id) ==
    [name |-> IF \E p \in shown.profiles : p.id = id THEN (CHOOSE p \in shown.profiles : p.id = id).name ELSE id,
     colors |-> SchemeForId(shown.profiles, id)]

\* Import: a profile's file, or one that is none; its text comes later, whatever is open by then.
PickFile ==
    /\ NotAsking /\ reading = {}
    /\ \E file \in {<<>>, <<Exported(shown.theme)>>} : reading' = {file}
    /\ UNCHANGED <<shown, stored, persists, past, future, recent, asking, importError, draft, typedFont, picking, page, made,
                   changed, restarts, original>>
FileRead ==
    /\ \E file \in reading : Tracked(Change("importEditorProfile", file, file)) /\ importError' = (file = <<>>)
    /\ reading' = {}
    /\ UNCHANGED <<asking, draft, typedFont, picking, page>>

\* The font's field writes each letter through; the size's keeps what is typed and commits what is in range.
TypeFont ==
    /\ NotAsking /\ Len(shown.prefs.font) < 3
    /\ \E l \in Letters : /\ typedFont' = Append(shown.prefs.font, l)
                          /\ Tracked(Change("font", "font", typedFont'))
    /\ UNCHANGED <<asking, reading, importError, draft, picking, page>>
TypeSize ==
    /\ NotAsking
    /\ \E n \in Sizes :
        /\ draft' = n
        /\ IF n \in Fitting THEN Tracked(Change("size", "size", n))
           ELSE UNCHANGED <<shown, stored, persists, past, future, recent, made, changed, restarts, original>>
    /\ UNCHANGED <<asking, reading, importError, typedFont, picking, page>>
LeaveSize ==
    /\ draft # Absent /\ draft' = Absent
    /\ UNCHANGED <<shown, stored, persists, past, future, recent, asking, reading, importError, typedFont, picking, page, made,
                   changed, restarts, original>>
ResetPreferences ==
    /\ NotAsking /\ Tracked(Change("resetEditorPreferences", "", Absent))
    /\ typedFont' = <<>> /\ UNCHANGED <<asking, reading, importError, draft, picking, page>>

------------------------------------------------------------------------------
(* Undo and Redo in the window.                                                 *)

\* restore puts every setting back.
Restored(s) == s

Undo ==
    /\ NotAsking /\ past # <<>>
    /\ shown' = Restored(Last(past).before)
    /\ Store(Fields)
    /\ past' = Front(past) /\ future' = Append(future, Last(past)) /\ recent' = FALSE
    /\ typedFont' = shown'.prefs.font
    /\ UNCHANGED <<persists, asking, reading, importError, draft, picking, page, made, changed, restarts, original>>

Redo ==
    /\ NotAsking /\ future # <<>>
    /\ Makes(Last(future).change) => made < Len(CustomIds)
    /\ Made(Last(future).change)
    /\ future' = Front(future) /\ past' = Append(past, Last(future)) /\ recent' = FALSE
    /\ typedFont' = shown'.prefs.font
    /\ UNCHANGED <<persists, asking, reading, importError, draft, picking, page, changed, restarts, original>>

\* The merging time passes.
Pause ==
    /\ recent /\ recent' = FALSE
    /\ UNCHANGED <<shown, stored, persists, past, future, asking, reading, importError, draft, typedFont, picking, page, made,
                   changed, restarts, original>>

------------------------------------------------------------------------------
(* The window: its sections, the search over them, and the one remembered.      *)
Filtered == SelectSeq(Sections, LAMBDA s : s \in FoundBy[page.search])
SectionShown == IF page.clicked \in ToSet(Filtered) THEN page.clicked
            ELSE IF Filtered = <<>> THEN Absent ELSE Filtered[1]
Opened(last) == [search |-> "", last |-> last, clicked |-> IF last = Absent THEN Sections[1] ELSE last]

Search ==
    /\ NotAsking
    /\ \E q \in DOMAIN FoundBy \ {page.search} : page' = [page EXCEPT !.search = q]
    /\ UNCHANGED <<shown, stored, persists, past, future, recent, asking, reading, importError, draft, typedFont, picking, made,
                   changed, restarts, original>>
ShowSection ==
    /\ NotAsking /\ picking = Absent
    /\ \E s \in ToSet(Filtered) \ {SectionShown} : page' = [page EXCEPT !.clicked = s, !.last = s]
    /\ UNCHANGED <<shown, stored, persists, past, future, recent, asking, reading, importError, draft, typedFont, picking, made,
                   changed, restarts, original>>

\* The window closed and the program started anew: the settings are read from storage.
Restart ==
    /\ restarts < MaxRestarts /\ restarts' = restarts + 1
    /\ shown' = Loaded(stored) /\ original' = <<shown'>>
    /\ past' = <<>> /\ future' = <<>> /\ recent' = FALSE
    /\ asking' = NoDialog /\ reading' = {} /\ importError' = FALSE /\ draft' = Absent /\ typedFont' = shown'.prefs.font
    /\ picking' = Absent /\ page' = Opened(page.last)
    /\ UNCHANGED <<stored, persists, made, changed>>

NothingStored == [f \in Fields |-> <<>>]
SettingsInit ==
    /\ stored = NothingStored /\ persists \in BOOLEAN
    /\ shown = Loaded(NothingStored) /\ original = <<shown>>
    /\ past = <<>> /\ future = <<>> /\ recent = FALSE /\ asking = NoDialog /\ reading = {} /\ importError = FALSE
    /\ draft = Absent /\ typedFont = <<>> /\ picking = Absent /\ page = Opened(Absent)
    /\ made = 0 /\ changed = 0 /\ restarts = 0

ProfileNext ==
    \/ ChooseProfile \/ OpenPicker \/ ClosePicker \/ PickColor \/ ResetColors \/ AskNew \/ AskDelete
    \/ Cancel \/ NewProfile \/ DeleteProfile \/ PickFile \/ FileRead \/ Undo \/ Redo \/ Pause \/ Restart
PreferencesNext ==
    \/ SetAccent \/ TypeFont \/ TypeSize \/ LeaveSize \/ ResetPreferences \/ Undo \/ Redo \/ Pause \/ Restart
SectionNext == Search \/ ShowSection \/ Restart
SettingsNext == ProfileNext \/ PreferencesNext \/ SectionNext

SettingsSpec == SettingsInit /\ [][SettingsNext]_settingsVars

------------------------------------------------------------------------------
(* Where storage is available, a restart shows what is shown: the profiles, the *)
(* one in use and its colors are stored by different writes (ThemeProvider).    *)
RestartShowsTheSame == persists => Loaded(stored) = shown

(* With every step taken back the settings are those the window opened with,    *)
(* profiles made, deleted and imported included, unless a step was dropped      *)
(* (tracked, restore).                                                          *)
AllUndoneIsOriginal == past = <<>> => original \in {<<>>, <<shown>>}

(* What the Options promise: the two together.                                  *)
SettingsComeBack == RestartShowsTheSame /\ AllUndoneIsOriginal

------------------------------------------------------------------------------
(* What is said of the code, or may be expected of it, and does not hold.    *)

(* The profile in use is one of those listed, also after Redo, which does    *)
(* the change again (tracked). Does not hold: Redo after other changes uses  *)
(* a profile whose creation was undone; it takes four changes.               *)
ThemeIsListed == shown.theme \in EditorProfiles

(* The font's field shows what is typed into it ("JetBrains Mono" is what    *)
(* its placeholder suggests). Does not hold: the name is cleaned as it is    *)
(* typed (presets.tsx:23), so a space at its end is lost before the next     *)
(* word.                                                                     *)
FontIsAsTyped == typedFont = shown.prefs.font
==============================================================================
