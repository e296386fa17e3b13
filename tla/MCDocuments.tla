----------------------------- MODULE MCDocuments -----------------------------
(* What is edited and what lists it, side by side: a behaviour is one of one   *)
(* of these specifications, named by `part`, which never changes.              *)
(* LspDocuments, Keybindings and DocumentHistory keep their own variables,     *)
(* which rest in the other behaviours; x1, x2, ... are those of the            *)
(* specification named.                                                        *)
EXTENDS LspDocuments, Keybindings, DocumentHistory, TLC

CONSTANTS NoText

VARIABLES
    part,  \* the specification this behaviour is of; then its variables,
           \* in the order it declares them
    x1, x2, x3, x4, x5, x6, x7, x8, x9, x10, x11, x12, x13, x14, x15, x16

(* Texts with a line break and an unclosed bracket, and what is searched in    *)
(* them; lines of code, comments and doc comments.                             *)
FoundTexts == {<<"a", "b">>, <<"b", "n", "a">>, <<"a", "(">>}
SearchedFor == {<<"a">>, <<"a", "b">>, <<"(">>}
CodeLines == {<<>>, <<" ", "x">>, <<"x">>, <<"/", "/", "/", "x">>, <<"/", "/", "!">>, <<"/", "/", "x">>,
              <<"/", "x">>}

(* A text editor, a look view that shows text as well and a form designer. *)
ExtensionOf == [f \in {"a.md", "lang/a.md"} |-> "md"]
Extensions == [md |-> {"md"}, lang |-> {"md"}]
Matches == [md |-> {"unsaid"}, lang |-> {"lang/a.md"}]
FileTypes == [src |-> {"md"}, look |-> {"md"}, form |-> {"lang"}]
KindOf == [src |-> "text", look |-> "binary", form |-> "designer"]
Priority == [src |-> 0, look |-> 0, form |-> 10]

(* Two folders, a file whose name differs in its case from another, and its sidecar. *)
N(stem) == [stem |-> stem, n |-> <<>>, side |-> ""]
Lower == [s \in {"x", "X", "b", "c"} |-> IF s = "X" THEN "x" ELSE s]
Sidecar == [stem |-> "x", n |-> <<>>, side |-> "s"]
Folders == {<<N("a")>>, <<N("a"), N("b")>>, <<N("a"), N("c")>>}
OnDisk == [p \in Folders |-> "folder"] @@ (<<N("a"), N("x")>> :> "1")
          @@ (<<N("a"), N("b"), N("x")>> :> "2") @@ (<<N("a"), Sidecar>> :> "s")

(* Rows that two columns group; a tree with a branch that is opened on demand; *)
(* a folder with a file in it.                                                 *)
Table == [x |-> [a |-> 1, b |-> 0], y |-> [a |-> 0, b |-> 0], z |-> [a |-> 0, b |-> 1]]
Above == [root |-> "", src |-> "root", a |-> "src", b |-> "a", lib |-> "root"]
Up == [src |-> "", f |-> "src"]

(* Ctrl+S saves, Ctrl+K Ctrl+S formats, on a Latin and a Cyrillic keyboard. *)
K == <<TRUE, "k">>
S == <<TRUE, "s">>
Commands == {[id |-> "save", keys |-> <<<<S>>>>], [id |-> "fmt", keys |-> <<<<K, S>>, <<S>>>>]}
Remaps == {[id \in {"fmt"} |-> <<>>], [id \in {"save"} |-> <<<<K>>, <<S, K>>>>]}
Layouts == [us |-> [s |-> "s", k |-> "k", v |-> "v"], ru |-> [s |-> "Y", k |-> "L", v |-> "M"]]

Editing == INSTANCE TextEditing WITH
    Pieces <- {"a", "b"}, MaxLength <- 2, MaxEdits <- 3, doc <- x1, sel <- x2, past <- x3,
    future <- x4, host <- x5, reloading <- x6, clipboard <- x7, clip <- x8,
    linked <- x9, preview <- x10, textEdits <- x11, Lines <- CodeLines, MaxCommands <- 3,
    code <- x12, marked <- x13, before <- x14, commands <- x15
Find == INSTANCE QuickFind WITH
    Texts <- FoundTexts, Searches <- SearchedFor, MaxFinds <- 2, text <- x1,
    selected <- x2, query <- x3, panel <- x4, info <- x5, controller <- x6,
    wanted <- x7, origin <- x8, unfolded <- x9, dialog <- x10, stored <- x11,
    finds <- x12
Margins == INSTANCE EditorMargins WITH
    LineTexts <- {"a", "b"}, MaxLines <- 3, MaxMarginSteps <- 2, NoText <- NoText,
    lines <- x1, committed <- x2, base <- x3, bars <- x4, breakpoints <- x5,
    dots <- x6, stopped <- x7, arrow <- x8, problems <- x9, shown <- x10,
    squiggles <- x11, marginSteps <- x12
Providing == INSTANCE EditorProviders WITH
    Paths <- DOMAIN ExtensionOf, ExtensionOf <- ExtensionOf, Kinds <- {"md", "lang"},
    Extensions <- Extensions, Matches <- Matches, Unsaid <- {"unsaid"},
    Providers <- DOMAIN FileTypes, FileTypes <- FileTypes, KindOf <- KindOf,
    Priority <- Priority, StrictOn <- {}, StrictOff <- {}, PlainText <- "plain",
    MaxRegistrations <- 5, types <- x1, providers <- x2, since <- x3, documents <- x4,
    registrations <- x5
Tree == INSTANCE FileActions WITH
    Files <- OnDisk, Folder <- "folder", Lower <- Lower, Sidecars <- <<"s">>,
    Stems <- {"X"}, MaxFileSteps <- 3, disk <- x1, here <- x2, clipboard <- x3,
    pasting <- x4, dialog <- x5, deleted <- x6, raced <- x7, fileSteps <- x8
Grid == INSTANCE DataGrid WITH
    Order <- <<"x", "y", "z">>, Table <- Table, Columns <- <<"a", "b">>, Editable <- {"b"},
    NoColumn <- "none", NoRow <- "none", MaxSteps <- 3, rows <- x1, sort <- x2,
    filters <- x3, groupBy <- x4, collapsed <- x5, columnOrder <- x6,
    hiddenColumns <- x7, activeIndex <- x8, activeColumn <- x9, selected <- x10,
    lastAnchor <- x11, anchorRow <- x12, editing <- x13, edited <- x14, dragKey <- x15,
    steps <- x16
View == INSTANCE TreeView WITH
    Order <- <<"root", "src", "a", "b", "lib">>, Branches <- {"root", "src", "a", "lib"},
    Openable <- {"a"}, Above <- Above, Found <- {"b"}, NoNode <- "", MaxSteps <- 3,
    shown <- x1, searched <- x2, expandedIds <- x3, chosen <- x4, activeId <- x5,
    lastAnchorRef <- x6, focused <- x7, drag <- x8, suppressClick <- x9, edit <- x10,
    renamed <- x11, treeMenu <- x12, steps <- x13
Folder == INSTANCE DirectoryTree WITH
    Roots <- {"p"}, Names <- {"src", "f"}, Folders <- {"src"}, Up <- Up, Top <- "",
    SavedAtFirst <- [p |-> {"src"}], Limit <- 3, MaxJobs <- 2, MaxChanges <- 1,
    MaxOpens <- 0, root <- x1, store <- x2, saved <- x3, disk <- x4, nodes <- x5,
    expanded <- x6, loaded <- x7, parentById <- x8, restored <- x9, jobs <- x10,
    watched <- x11, changed <- x12, changes <- x13, opens <- x14
Project == INSTANCE DirectoryTree WITH
    Roots <- {"p", "q"}, Names <- {"src", "f"}, Folders <- {"src"}, Up <- Up, Top <- "",
    SavedAtFirst <- [p |-> {"src"}, q |-> {}], Limit <- 3, MaxJobs <- 2,
    MaxChanges <- 0, MaxOpens <- 2, root <- x1, store <- x2, saved <- x3, disk <- x4,
    nodes <- x5, expanded <- x6, loaded <- x7, parentById <- x8, restored <- x9,
    jobs <- x10, watched <- x11, changed <- x12, changes <- x13, opens <- x14

parts == <<part, x1, x2, x3, x4, x5, x6, x7, x8, x9, x10, x11, x12, x13, x14, x15, x16, lspVars, keyVars,
           historyVars>>

Parts16 == <<x1, x2, x3, x4, x5, x6, x7, x8, x9, x10, x11, x12, x13, x14, x15, x16>>

\* The variables from the k-th on, which a shorter specification leaves alone.
Rest17 == <<lspVars, keyVars, historyVars>>
Rest16 == <<x16, Rest17>>
Rest15 == <<x15, Rest16>>
Rest14 == <<x14, Rest15>>
Rest13 == <<x13, Rest14>>
Rest12 == <<x12, Rest13>>
Rest11 == <<x11, Rest12>>
Rest10 == <<x10, Rest11>>
Rest9 == <<x9, Rest10>>
Rest8 == <<x8, Rest9>>
Rest7 == <<x7, Rest8>>
Rest6 == <<x6, Rest7>>
Rest5 == <<x5, Rest6>>

Free17 == LspInit /\ KeyInit /\ HistoryInit
Free16 == x16 = 0 /\ Free17
Free15 == x15 = 0 /\ Free16
Free14 == x14 = 0 /\ Free15
Free13 == x13 = 0 /\ Free14
Free12 == x12 = 0 /\ Free13
Free11 == x11 = 0 /\ Free12
Free10 == x10 = 0 /\ Free11
Free9 == x9 = 0 /\ Free10
Free8 == x8 = 0 /\ Free9
Free7 == x7 = 0 /\ Free8
Free6 == x6 = 0 /\ Free7
Free5 == x5 = 0 /\ Free6
Free1 == x1 = 0 /\ x2 = 0 /\ x3 = 0 /\ x4 = 0 /\ Free5

Init ==
    \/ part \in {"sync", "keys", "history"} /\ Free1
    \/ part = "editing" /\ Editing!TextInit /\ Editing!NoCode /\ Free16
    \/ part = "find" /\ Find!FindInit /\ Free13
    \/ part = "comments" /\ Editing!CommentInit /\ Editing!TextInit /\ Free16
    \/ part = "margins" /\ Margins!MarginInit /\ Free13
    \/ part = "providers" /\ Providing!ProvidersInit /\ Free6
    \/ part = "files" /\ Tree!FileInit /\ Free9
    \/ part = "grid" /\ Grid!GridInit /\ Free17
    \/ part = "tree" /\ View!TreeInit /\ Free14
    \/ part = "folders" /\ Folder!DirInit /\ Free15
    \/ part = "projects" /\ Project!DirInit /\ Free15

Next ==
    \/ part = "sync" /\ LspNext /\ UNCHANGED <<part, Parts16, keyVars, historyVars>>
    \/ part = "keys" /\ KeyNext /\ UNCHANGED <<part, Parts16, lspVars, historyVars>>
    \/ part = "editing" /\ Editing!TextNext /\ UNCHANGED <<part, Rest12>>
    \/ part = "find" /\ Find!FindNextAction /\ UNCHANGED <<part, Rest13>>
    \/ part = "comments" /\ Editing!CommentNext /\ UNCHANGED <<part, x1, x2, x3, x4, x5, x6, x7,
                                                                      x8, x9, x10, x11, Rest16>>
    \/ part = "margins" /\ Margins!MarginNext /\ UNCHANGED <<part, Rest13>>
    \/ part = "history" /\ HistoryNext /\ UNCHANGED <<part, Parts16, lspVars, keyVars>>
    \/ part = "providers" /\ Providing!ProvidersNext /\ UNCHANGED <<part, Rest6>>
    \/ part = "files" /\ Tree!FileNext /\ UNCHANGED <<part, Rest9>>
    \/ part = "grid" /\ Grid!GridNext /\ UNCHANGED <<part, Rest17>>
    \/ part = "tree" /\ View!TreeViewNext /\ UNCHANGED <<part, Rest14>>
    \/ part = "folders" /\ Folder!DirNext /\ UNCHANGED <<part, Rest15>>
    \/ part = "projects" /\ Project!DirNext /\ UNCHANGED <<part, Rest15>>

Spec == Init /\ [][Next]_parts

(* TextEditing, QuickFind, EditorMargins, EditorProviders: the                 *)
(* host has the text on screen, undone and replaced pieces included; the count *)
(* and the selection of the find panel are of the text as it is; plain code    *)
(* comes back from being commented out; the margin's marks stay with their     *)
(* lines; and a file opens in the editor its registrations call for            *)
(* (widgets/Editor, Editor/registry/registry.tsx).                             *)
EditorFollowsTheText ==
    /\ part = "editing" => Editing!HostHasTheText
    /\ part = "find" => Find!CountIsCurrent /\ Find!SelectionInside
    /\ part = "comments" => Editing!PlainCodeComesBack
    /\ part = "margins" => Margins!MarginIsCurrent
    /\ part = "providers" => Providing!RemainingDecide

(* FileActions: pasting, renaming and deleting lose no file, also when one of  *)
(* the calls fails (widgets/FileActions/useFileActions.tsx).                   *)
NothingIsLost == part = "files" => Tree!NothingIsLost

(* DataGrid, TreeView, DirectoryTree: every row is listed once and an edit is  *)
(* written once, the active node is one that is listed, nothing is dropped     *)
(* into what is dragged, and the listed folders hang together whatever order   *)
(* their listings arrive in (widgets/DataGrid, Tree, FileTree).                *)
ListsAreWhole ==
    /\ part = "grid" => Grid!GridTypeOK /\ Grid!ListedOnce /\ Grid!WrittenOnce
    /\ part = "tree" => View!ActiveIsListed /\ View!DropsOutside /\ View!RenamedOnce
    /\ part = "folders" => Folder!TreeIsRooted
    /\ part = "projects" => Project!TreeIsRooted
==============================================================================
