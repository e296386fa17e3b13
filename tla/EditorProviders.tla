---------------------------- MODULE EditorProviders ----------------------------
(* Which editors a file opens in (ui/src/infra/fileTypes,                       *)
(* widgets/Editor/registry, MultiViewEditor): products register kinds of file   *)
(* and editors for them and take them back at any time, in any order; every     *)
(* reader looks at the two lists again. A document shows the view its user      *)
(* chose while one offers it.                                                   *)
EXTENDS Integers, Sequences, FiniteSets, SequencesExt

CONSTANTS Paths, ExtensionOf,        \* [path -> its extension]
          Kinds, Extensions, Matches, \* [kind -> the extensions, the paths it matches]; Unsaid: not said
          Unsaid,
          Providers, FileTypes,      \* [provider -> the kinds it opens]
          KindOf, Priority,          \* [provider -> "text", "designer" or "binary"], [provider -> Int]
          StrictOn, StrictOff,       \* the providers that say they are strict, or are not; others are by their kind
          PlainText,                 \* the editor that opens anything; it is in no list
          MaxRegistrations           \* bound: registered and taken back, by products

VARIABLES types, providers,   \* what is registered, in order
          since,              \* [registered -> when]: the order of the registrations
          documents,          \* [path -> <<>>, or <<[view, binary]>> of an open document]
          registrations

providerVars == <<types, providers, since, documents, registrations>>

------------------------------------------------------------------------------
(* Reading the lists.                                                           *)

Said(x) == x # Unsaid

\* A kind that says nothing is no file's; one that says both must hold in both.
Fits(t, path) ==
    /\ Said(Extensions[t]) => ExtensionOf[path] \in Extensions[t]
    /\ Said(Matches[t]) => path \in Matches[t]
    /\ Said(Extensions[t]) \/ Said(Matches[t])

\* Matched kinds first, and the later registered before the earlier.
FileTypesOf(path) ==
    LET found == Reverse(SelectSeq(types, LAMBDA t : Fits(t, path)))
    IN  SelectSeq(found, LAMBDA t : Said(Matches[t])) \o SelectSeq(found, LAMBDA t : ~Said(Matches[t]))

\* The highest priority, then the last registered.
Before(p, q) ==
    \/ Priority[p[1]] > Priority[q[1]]
    \/ Priority[p[1]] = Priority[q[1]] /\ p[2] > q[2]

\* Every editor for a path, the default first; plain text when none shows text or bytes.
EditorProvidersFor(path) ==
    LET kinds == ToSet(FileTypesOf(path))
        fitting == SelectSeq([i \in DOMAIN providers |-> <<providers[i], i>>], LAMBDA p : FileTypes[p[1]] \cap kinds # {})
        matching == [i \in DOMAIN fitting |-> SortSeq(fitting, Before)[i][1]]
    IN  IF \E i \in DOMAIN matching : KindOf[matching[i]] \in {"text", "binary"} THEN matching ELSE Append(matching, PlainText)

Strict(p) == p \in StrictOn \/ (p \notin StrictOff /\ KindOf[p] # "text")

\* What "Open With..." offers for any file.
GeneralEditorProviders == {p \in ToSet(providers) \cup {PlainText} : p = PlainText \/ ~Strict(p)}

IsBinaryFile(path) == \A p \in ToSet(EditorProvidersFor(path)) : p # PlainText /\ KindOf[p] = "binary"

\* The chosen view while it is offered, else the default.
Active(path) ==
    LET offered == EditorProvidersFor(path)
    IN  IF documents[path][1].view \in ToSet(offered) THEN documents[path][1].view ELSE Head(offered)

------------------------------------------------------------------------------
(* Registering and taking back.                                                 *)

Counted == registrations < MaxRegistrations /\ registrations' = registrations + 1
Without(list, x) == SelectSeq(list, LAMBDA y : y # x)
Since(x) == since' = [y \in DOMAIN since \cup {x} |-> IF y = x THEN registrations ELSE since[y]]
Forgotten(x) == since' = [y \in DOMAIN since \ {x} |-> since[y]]

RegisterFileType(t) ==
    /\ t \notin ToSet(types) /\ Counted
    /\ types' = Append(types, t) /\ Since(t)
    /\ UNCHANGED <<providers, documents>>

RemoveFileType(t) ==
    /\ t \in ToSet(types) /\ Counted
    /\ types' = Without(types, t) /\ Forgotten(t)
    /\ UNCHANGED <<providers, documents>>

RegisterEditorProvider(p) ==
    /\ p \notin ToSet(providers) /\ Counted
    /\ providers' = Append(providers, p) /\ Since(p)
    /\ UNCHANGED <<types, documents>>

\* A registration is found again wherever it is by now.
RemoveEditorProvider(p) ==
    /\ p \in ToSet(providers) /\ Counted
    /\ providers' = Without(providers, p) /\ Forgotten(p)
    /\ UNCHANGED <<types, documents>>

------------------------------------------------------------------------------
(* Documents. Whether a file's text is read is settled as it opens.             *)

Open(path) ==
    /\ documents[path] = <<>>
    /\ documents' = [documents EXCEPT ![path] = <<[view |-> "", binary |-> IsBinaryFile(path)]>>]
    /\ UNCHANGED <<types, providers, since, registrations>>

Close(path) ==
    /\ documents[path] # <<>> /\ documents' = [documents EXCEPT ![path] = <<>>]
    /\ UNCHANGED <<types, providers, since, registrations>>

\* A tab of the switcher, or an editor of "Open With...".
ChooseView(path, p) ==
    /\ documents[path] # <<>> /\ p \in ToSet(EditorProvidersFor(path)) \cup GeneralEditorProviders
    /\ documents[path][1].view # p
    /\ documents' = [documents EXCEPT ![path][1].view = p]
    /\ UNCHANGED <<types, providers, since, registrations>>

ProvidersInit ==
    /\ types = <<>> /\ providers = <<>> /\ since = [x \in {} |-> 0]
    /\ documents = [path \in Paths |-> <<>>] /\ registrations = 0

ProvidersNext ==
    \/ \E t \in Kinds : RegisterFileType(t) \/ RemoveFileType(t)
    \/ \E p \in Providers : RegisterEditorProvider(p) \/ RemoveEditorProvider(p)
    \/ \E path \in Paths : Open(path) \/ Close(path)
    \/ \E path \in Paths, p \in Providers \cup {PlainText} : ChooseView(path, p)

ProvidersSpec == ProvidersInit /\ [][ProvidersNext]_providerVars

------------------------------------------------------------------------------
(* Whatever was registered and taken back before, the view an open document     *)
(* shows is decided by what is registered now: the chosen one while it is       *)
(* offered, else the editor of the highest priority, the one registered last of *)
(* those, and plain text when there is no editor for the file's kinds           *)
(* (registry.tsx: "ties go to the one registered last").                        *)
RemainingDecide ==
    \A path \in Paths : documents[path] # <<>> =>
        LET kinds == {t \in Kinds \cap DOMAIN since : Fits(t, path)}
            able == {p \in Providers \cap DOMAIN since : FileTypes[p] \cap kinds # {}}
            best == {p \in able : \A q \in able : \/ Priority[p] > Priority[q]
                                                  \/ Priority[p] = Priority[q] /\ since[p] >= since[q]}
            chosen == documents[path][1].view
        IN  Active(path) \in IF chosen \in able THEN {chosen}
                             ELSE IF chosen = PlainText /\ ~\E p \in able : KindOf[p] \in {"text", "binary"} THEN {PlainText}
                             ELSE IF able = {} THEN {PlainText} ELSE best

==============================================================================
