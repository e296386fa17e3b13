------------------------------ MODULE MCWindows ------------------------------
(* The windows around the editor, side by side: a behaviour is one of one of   *)
(* these specifications, named by `part`, which never changes. DapSession,     *)
(* SavedState, GitStore, FindInFiles, DesignSurface, Settings and Localization *)
(* keep their own variables, which rest in the other behaviours; x1, x2, ...   *)
(* are those of the specification named. They share no state in the program    *)
(* either: what one hands another (a file opened from the results, a setting   *)
(* read by a view) is an input of the other.                                   *)
EXTENDS DapSession, SavedState, GitStore, FindInFiles, DesignSurface, Settings, Localization, TLC

CONSTANTS NoLayout

VARIABLES
    part,  \* the specification this behaviour is of; then its variables,
           \* in the order it declares them
    x1, x2, x3, x4, x5, x6, x7, x8, x9, x10, x11, x12, x13, x14, x15, x16, x17,
    x18, x19, x20, x21, x22

(* A tree on the left, results and a terminal at the bottom. *)
Home == [tree |-> "left", find |-> "bottom", term |-> "bottom"]

(* A form with a panel, which holds a button. *)
Holder == [form |-> "none", panel |-> "form", button |-> "panel"]
PlacedAs == [form |-> "fixed", panel |-> "free", button |-> "flow"]
PaintOrder == <<"form", "panel", "button">>
Areas == [form |-> [at |-> 0, len |-> 7], panel |-> [at |-> 1, len |-> 6], button |-> [at |-> 3, len |-> 2]]

(* Four properties in two categories. *)
ByName == <<"age", "name", "on", "size">>
KindOf == [age |-> "number", name |-> "string", on |-> "bool", size |-> "vector"]
CategoryOf == [age |-> "A", name |-> "B", on |-> "A", size |-> "B"]
Named == [q |-> {"name", "on"}]

(* A prompt and a message; what is found for what is typed. *)
Dialogs == {[input |-> TRUE, first |-> "", buttons |-> {"cancel", "confirm"}, cancel |-> "cancel"],
            [input |-> FALSE, first |-> "", buttons |-> {"ok"}, cancel |-> "ok"]}
Found == {<<"a">>, <<"b", "a">>, <<>>}

(* A window of 16 by 16 with drop targets inside each other. *)
Pt(x, y) == [x |-> x, y |-> y]
Mouse == {Pt(1, 3), Pt(15, 3), Pt(8, 8), Pt(5, 8), Pt(8, 11), Pt(3, 15), Pt(12, 3), Pt(20, 3)}
Under == [p \in Mouse \cup {Pt(3, 3)} |->
            CASE p = Pt(8, 8) -> <<"inner", "outer">> [] p = Pt(5, 8) -> <<"plain", "outer">>
              [] p = Pt(12, 3) -> <<"other">> [] OTHER -> <<>>]
Frame == [left |-> 0, top |-> 0, right |-> 16, bottom |-> 16]

(* Two windows on one document. *)
OwnerOf == [a |-> "a", b |-> "b", c |-> "a"]

(* Two color profiles, and two sections with a search over them. *)
AccentPresets == <<"emerald", "azure">>
ProfileIds == <<"dark", "classic">>
ColorsOf == [dark |-> [bg |-> 0], classic |-> [bg |-> 1]]
SectionList == <<"appearance", "editor">>
MatchedBy == [s \in {"", "color"} |-> IF s = "" THEN {"appearance", "editor"} ELSE {"appearance"}]
MadeIds == <<"c1">>

FallsBackTo == [l \in {"en", "ru", "de", "ru-RU"} |-> IF l = "ru-RU" THEN "ru" ELSE l]
PluralForms == [l \in {"en", "ru", "de"} |-> IF l = "ru" THEN <<"one", "few">> ELSE <<"one", "other">>]

(* Two groups of run targets and one without a group. *)
Targets == [p |-> <<"win-a", "win-b", "mac-a">>, q |-> <<"only">>]
GroupOf == [t \in {"win-a", "win-b", "mac-a", "only"} |->
              CASE t \in {"win-a", "win-b"} -> "win" [] t = "mac-a" -> "mac" [] OTHER -> "only"]
VariantOf == [t \in {"win-a", "win-b", "mac-a", "only"} |->
                CASE t \in {"win-a", "mac-a"} -> "a" [] t = "win-b" -> "b" [] OTHER -> ""]

Shell == INSTANCE ShellLayout WITH
    Main <- "main", Home <- Home, Transient <- {"find"}, DefaultPinned <- {"term"},
    Files <- {"f", "g"}, PinnedFiles <- {"g"}, Edges <- {"left", "bottom"},
    Tabbed <- {"bottom"}, Projects <- {"p", "q"}, NoPanel <- "-", MaxMoves <- 2,
    MaxSwitches <- 2, NoLayout <- NoLayout, layout <- x1, extra <- x2,
    lastActive <- x3, dragged <- x4, scope <- x5, loading <- x6, applied <- x7,
    saved <- x8, leftAs <- x9, moves <- x10, switches <- x11
Props == INSTANCE PropertyGrid WITH
    Objects <- {"o", "u"}, Properties <- ToSet(ByName), Order <- ByName, KindOf <- KindOf,
    CategoryOf <- CategoryOf, Categories <- <<"A", "B">>, Editable <- ToSet(ByName),
    Named <- Named, Values <- {"v", "w"}, NotANumber <- "x", NoKey <- "-",
    MaxCommits <- 1, MaxSessions <- 2, MaxGridSteps <- 1, shown <- x1, values <- x2,
    editing <- x3, focused <- x4, error <- x5, busyId <- x6, session <- x7,
    scrub <- x8, inFlight <- x9, refused <- x10, told <- x11, dropped <- x12,
    commits <- x13, mode <- x14, query <- x15, collapsed <- x16, cursor <- x17,
    gridSteps <- x18, Windows <- DOMAIN OwnerOf, Owner <- OwnerOf, Elements <- {"e", "f"},
    Items <- {"file"}, Nothing <- [kind |-> "none", source |-> "", data |-> <<>>],
    MaxRenders <- 3, current <- x19, contexts <- x20, windows <- x21, renders <- x22
Popup == INSTANCE Popups WITH
    Kinds <- Dialogs, Texts <- {"", "x"}, Places <- {"editor", "tree"}, Results <- Found,
    MaxVisible <- 2, MaxAsked <- 3, MaxSteps <- 3, queue <- x1, nextKey <- x2,
    value <- x3, returnFocus <- x4, keyboard <- x5, answers <- x6, before <- x7,
    typed <- x8, notifications <- x9, timers <- x10, nextId <- x11, items <- x12,
    active <- x13, previewed <- x14, accepted <- x15, filter <- x16, target <- x17,
    origin <- x18, submenu <- x19, closeTimer <- x20, pointer <- x21, popupSteps <- x22
Drags == INSTANCE PointerDrags WITH
    Points <- Mouse, Grabbed <- Pt(3, 3), Threshold <- 5,
    Targets <- {"inner", "outer", "plain", "other"}, Under <- Under,
    Accepting <- {"inner", "outer", "other"}, Frame <- Frame, GuideSize <- 2,
    GuideStep <- 3, Band <- 2, MinSize <- 3, MaxSize <- 12, FirstSize <- 6,
    MaxDragSteps <- 5, item <- x1, enabled <- x2, hints <- x3, switched <- x4,
    dropped <- x5, float <- x6, docked <- x7, edge <- x8, mounted <- x9, size <- x10,
    grip <- x11, pointer <- x12, dragSteps <- x13
GitViews == INSTANCE GitWindows WITH
    Branches <- <<"main", "b">>, Diffs <- {"d", "e"}, MaxRevisions <- 1, MaxPages <- 2,
    MaxMore <- 1, MaxTyped <- 2, MaxTicks <- 1, revision <- x1, branches <- x2,
    selected <- x3, commits <- x4, pages <- x5, commit <- x6, tabs <- x7, front <- x8,
    reads <- x9, views <- x10, box <- x11
Terminal == INSTANCE Terminals WITH
    Projects <- {"p", "q"}, Shells <- {"bash"}, DefaultShell <- "bash", NoTab <- 0,
    MaxTabs <- 3, MaxTerminalSteps <- 1, scope <- x1, remembered <- x2, known <- x3,
    tabs <- x4, activeId <- x5, restoredScope <- x6, pendingCwds <- x7, sessions <- x8,
    renaming <- x9, terminalSteps <- x10
Build == INSTANCE Problems WITH
    LineKinds <- {"error", "warning", "place1", "place2", "lint", "summary", "compiling", "json",
              "artifact", "blank", "text"},
    Files <- {"f", "g"}, Severities <- {"error", "warning"}, MaxLines <- 4,
    MaxUpdates <- 2, MaxListSteps <- 2, parser <- x1, fed <- x2, found <- x3,
    sets <- x4, snapshot <- x5, filter <- x6, active <- x7, selected <- x8,
    chosen <- x9, clipboard <- x10, updates <- x11, listSteps <- x12
Panel == INSTANCE OutputAndRun WITH
    Sources <- {"ide", "git"}, MaxKept <- 2, MaxPrinted <- 3, MaxPanelSteps <- 3,
    Projects <- {"p", "q"}, Targets <- Targets, GroupOf <- GroupOf,
    VariantOf <- VariantOf, MaxOpens <- 2, MaxRuns <- 2, MaxPicks <- 2, printed <- x1,
    listening <- x2, buffers <- x3, dropped <- x4, source <- x5, panel <- x6,
    rendered <- x7, panelSteps <- x8, root <- x9, targets <- x10, listed <- x11,
    remembered <- x12, running <- x13, starting <- x14, hosted <- x15, exits <- x16,
    opens <- x17, runs <- x18, picks <- x19

findVars == <<findResultVars, findFormVars>>
optionVars == <<settingsVars, localeVars>>
parts == <<part, x1, x2, x3, x4, x5, x6, x7, x8, x9, x10, x11, x12, x13, x14, x15,
    x16, x17, x18, x19, x20, x21, x22, dapVars, savedVars, gitVars, findVars,
    surfaceVars, optionVars>>

\* The variables from the k-th on, which a shorter specification leaves alone.
Rest23 == <<dapVars, savedVars, gitVars, findVars, surfaceVars, optionVars>>
Rest22 == <<x22, Rest23>>
Rest21 == <<x21, Rest22>>
Rest20 == <<x20, Rest21>>
Rest19 == <<x19, Rest20>>
Rest18 == <<x18, Rest19>>
Rest17 == <<x17, Rest18>>
Rest16 == <<x16, Rest17>>
Rest15 == <<x15, Rest16>>
Rest14 == <<x14, Rest15>>
Rest13 == <<x13, Rest14>>
Rest12 == <<x12, Rest13>>
Rest11 == <<x11, Rest12>>

\* Those up to the k-th.
Parts8 == <<x1, x2, x3, x4, x5, x6, x7, x8>>
Parts18 == <<Parts8, x9, x10, x11, x12, x13, x14, x15, x16, x17, x18>>
Parts22 == <<Parts18, x19, x20, x21, x22>>

NoGit == GitInit /\ repo = [p \in Roots |-> NoRepo]
NoFind == FindInit /\ front = "f"
NoOptions == /\ SettingsInit /\ persists
             /\ LocaleInit /\ saved = NoLocale /\ writable /\ catalogs = [w \in Windows |-> Locales]
Free23 == DapInit /\ SavedInit /\ NoGit /\ NoFind /\ SurfaceInit /\ NoOptions
Free22 == x22 = 0 /\ Free23
Free21 == x21 = 0 /\ Free22
Free20 == x20 = 0 /\ Free21
Free19 == x19 = 0 /\ Free20
Free18 == x18 = 0 /\ Free19
Free17 == x17 = 0 /\ Free18
Free16 == x16 = 0 /\ Free17
Free15 == x15 = 0 /\ Free16
Free14 == x14 = 0 /\ Free15
Free13 == x13 = 0 /\ Free14
Free12 == x12 = 0 /\ Free13
Free11 == x11 = 0 /\ Free12

Idle8 == x1 = 0 /\ x2 = 0 /\ x3 = 0 /\ x4 = 0 /\ x5 = 0 /\ x6 = 0 /\ x7 = 0 /\ x8 = 0
Idle18 == Idle8 /\ x9 = 0 /\ x10 = 0 /\ x11 = 0 /\ x12 = 0 /\ x13 = 0 /\ x14 = 0 /\ x15 = 0 /\ x16 = 0
                /\ x17 = 0 /\ x18 = 0
Idle22 == Idle18 /\ x19 = 0 /\ x20 = 0 /\ x21 = 0 /\ x22 = 0

Init ==
    \/ part \in {"debug", "saving", "results", "surface"} /\ Idle22 /\ Free23
    \/ part = "git" /\ Idle22 /\ DapInit /\ SavedInit /\ GitInit /\ NoFind /\ SurfaceInit /\ NoOptions
    \/ part = "form" /\ Idle22 /\ DapInit /\ SavedInit /\ NoGit /\ FindInit /\ SurfaceInit /\ NoOptions
    \/ /\ part \in {"profiles", "preferences", "sections", "language"} /\ Idle22
       /\ DapInit /\ SavedInit /\ NoGit /\ NoFind /\ SurfaceInit
       /\ SettingsInit /\ (part = "language" => persists)
       /\ LocaleInit /\ (part # "language" => saved = NoLocale /\ writable /\ catalogs = [w \in Windows |-> Locales])
    \/ part = "shell" /\ Shell!ShellInit /\ Free12
    \/ part \in {"properties", "contexts"} /\ Props!PropertyGridInit /\ Props!SelectionInit /\ Free23
    \/ part \in {"dialogs", "toasts", "quickpick", "menus"} /\ Popup!PopupsInit /\ Free23
    \/ part = "drags" /\ Drags!DragsInit /\ Free14
    \/ part \in {"commits", "diffs", "box"} /\ GitViews!GitWindowsInit /\ Free12
    \/ part = "terminals" /\ Terminal!TerminalInit /\ Free11
    \/ part \in {"parser", "list"} /\ Build!ProblemsInit /\ Free13
    \/ part \in {"panel", "bar"} /\ Panel!OutputInit /\ Free20

Next ==
    \/ part = "shell" /\ Shell!ShellNext /\ UNCHANGED <<part, Rest12>>
    \/ part = "surface" /\ SurfaceNext /\ UNCHANGED <<part, Parts22, dapVars, savedVars, gitVars, findVars, optionVars>>
    \/ part = "properties" /\ Props!PropertyGridNext /\ UNCHANGED <<part, Rest19>>
    \/ part = "dialogs" /\ Popup!DialogNext /\ UNCHANGED <<part, Rest23>>
    \/ part = "toasts" /\ Popup!ToastNext /\ UNCHANGED <<part, Rest23>>
    \/ part = "quickpick" /\ Popup!PickNext /\ UNCHANGED <<part, Rest23>>
    \/ part = "menus" /\ Popup!MenuNext /\ UNCHANGED <<part, Rest23>>
    \/ part = "drags" /\ Drags!DragsNext /\ UNCHANGED <<part, Rest14>>
    \/ part = "contexts" /\ Props!SelectionNext /\ UNCHANGED <<part, Parts18, Rest23>>
    \/ part = "profiles" /\ ProfileNext /\ UNCHANGED <<part, Parts22, dapVars, savedVars, gitVars, findVars, surfaceVars, localeVars>>
    \/ part = "preferences" /\ PreferencesNext /\ UNCHANGED <<part, Parts22, dapVars, savedVars, gitVars, findVars, surfaceVars, localeVars>>
    \/ part = "sections" /\ SectionNext /\ UNCHANGED <<part, Parts22, dapVars, savedVars, gitVars, findVars, surfaceVars, localeVars>>
    \/ part = "language" /\ LocaleNext /\ UNCHANGED <<part, Parts22, dapVars, savedVars, gitVars, findVars, surfaceVars, settingsVars>>
    \/ part = "debug" /\ DapNext /\ UNCHANGED <<part, Parts22, savedVars, gitVars, findVars, surfaceVars, optionVars>>
    \/ part = "git" /\ GitNext /\ UNCHANGED <<part, Parts22, dapVars, savedVars, findVars, surfaceVars, optionVars>>
    \/ part = "commits" /\ GitViews!HistoryNext /\ UNCHANGED <<part, Rest12>>
    \/ part = "diffs" /\ GitViews!DiffNext /\ UNCHANGED <<part, Rest12>>
    \/ part = "box" /\ GitViews!BoxNext /\ UNCHANGED <<part, Rest12>>
    \/ part = "results" /\ ResultsNext /\ UNCHANGED <<part, Parts22, dapVars, savedVars, gitVars, findFormVars, surfaceVars, optionVars>>
    \/ part = "form" /\ FormNext /\ UNCHANGED <<part, Parts22, dapVars, savedVars, gitVars, findResultVars, surfaceVars, optionVars>>
    \/ part = "terminals" /\ Terminal!TerminalNext /\ UNCHANGED <<part, Rest11>>
    \/ part = "parser" /\ Build!BuildPrints /\ UNCHANGED <<part, Rest13>>
    \/ part = "list" /\ Build!ListNext /\ UNCHANGED <<part, Rest13>>
    \/ part = "panel" /\ Panel!PanelNext /\ UNCHANGED <<part, Rest20>>
    \/ part = "bar" /\ Panel!RunNext /\ UNCHANGED <<part, Rest20>>
    \/ part = "saving" /\ SavedNext /\ UNCHANGED <<part, Parts22, dapVars, gitVars, findVars, surfaceVars, optionVars>>

Spec == Init /\ [][Next]_parts

(* ShellLayout, PointerDrags, Terminals: a panel or a file that is on screen   *)
(* stays somewhere on screen or is closed by the user, and a project that is   *)
(* opened again comes back as it was left; what is dragged is let go where it  *)
(* was shown to go, and only the target under the pointer says that it would   *)
(* take it, whatever ended the drag; terminals stay while another project is   *)
(* open, the active tab is one of those listed, and what was typed in a shell  *)
(* is not cleared away (dock/hooks/layout: useLayoutState, usePanelMoves,      *)
(* usePinning; infra/dnd, dock/FloatingPanel, ToolWindowDock; terminal/).      *)
ArrangementIsKept ==
    /\ [](/\ part = "shell" => Shell!ShellTypeOK
          /\ part = "drags" => Drags!HintsEnd
          /\ part = "terminals" => Terminal!NeverClearsTyped /\ Terminal!ActiveIsOpen)
    /\ [][/\ part = "shell" => Shell!StaysShown /\ Shell!ReturnsAsLeft
          /\ part = "drags" => Drags!DropsWhereShown
          /\ part = "terminals" => Terminal!ScopeKeeps]_parts

(* Popups: every dialog answers its own question once and gives the focus      *)
(* back, a toast goes only when its time is over or the user closes it, the    *)
(* quick pick previews the active item, and a menu stays while what scrolls is *)
(* not what it hangs on (Dialog, Notifications, QuickPick, ContextMenu).       *)
PopupsAnswer ==
    /\ [](/\ part = "dialogs" => Popup!AnswersAreOwn
          /\ part = "toasts" => Popup!ToastsAreTimed
          /\ part = "quickpick" => Popup!PreviewIsActive
          /\ part = "menus" => Popup!SubmenuStays)
    /\ [][/\ part = "dialogs" => Popup!FocusComesBack
          /\ part = "menus" => Popup!MenuStays]_parts

(* PropertyGrid, GitWindows, Problems, OutputAndRun: an edit is of the object  *)
(* whose value the field showed, every property has its row, and the Properties *)
(* window shows something a mounted window selected; a Git window shows the    *)
(* commits, the files and the difference of what was chosen last, and unticking *)
(* Amend leaves nothing of the last commit's message; each problem of a build  *)
(* is read once, the Error List has each producer's last word, the Output      *)
(* panel shows its source's lines, and the run bar tells whether something     *)
(* runs (widgets/PropertyGrid, infra/selection, git/windows,                   *)
(* infra/diagnostics, widgets/ErrorList, OutputPanel, RunBar).                 *)
WindowsShowTheLatest ==
    /\ part = "properties" => Props!EditIsOfTheObject /\ Props!RowsAreComplete
    /\ part = "contexts" => Props!ShownIsThere
    /\ part \in {"commits", "diffs", "box"} => GitViews!ViewsAreCurrent /\ GitViews!UntickTakesBack
    /\ part = "parser" => Build!EachProblemOnce
    /\ part = "list" => Build!ListsTheLatest
    /\ part = "panel" => Panel!PanelIsCurrent /\ Panel!KeysAreTheLines
    /\ part = "bar" => Panel!BusyIsTrue /\ Panel!VariantIsKept
==============================================================================
