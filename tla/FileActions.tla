------------------------------- MODULE FileActions -------------------------------
(* The explorers' file actions (ui/src/widgets/FileActions): cut, copy, paste,  *)
(* rename, new and delete. Each is a row of host calls awaited one after the    *)
(* other, on names that were compared with one listing of the folder; a paste   *)
(* underway and the dialog do not wait for each other, and other programs       *)
(* change the folder too. A path is a sequence of names; a name is its stem,    *)
(* the numbers given to it and the suffix that makes it another file's sidecar. *)
EXTENDS Integers, Sequences, FiniteSets, SequencesExt

CONSTANTS Files,      \* [path -> what it holds], at first; Folder for a folder
          Folder,
          Lower,      \* [stem -> the stem in lower case]
          Sidecars,   \* the suffixes of sidecars, in order
          Stems,      \* the names typed, and made by other programs
          MaxFileSteps   \* bound: commands given and changes by other programs

VARIABLES disk,       \* [path -> what it holds]
          here,       \* the explorer's folder; it does not change while a dialog is open
          clipboard,  \* <<>>, or <<[entries, cut]>>
          pasting,    \* Idle, or the paste underway
          dialog,     \* Idle, or the dialog: its kind, entries and, while busy, the calls left
          deleted,    \* what was deleted on purpose
          raced,      \* somebody changed the disk between a listing and the calls it led to
          fileSteps

fileVars == <<disk, here, clipboard, pasting, dialog, deleted, raced, fileSteps>>

Idle == [phase |-> "idle", calls |-> <<>>]
NoName == [stem |-> "", n |-> <<>>, side |-> ""]
Under(d, path) == {p \in DOMAIN d : IsPrefix(path, p)}
Children(path) == {p \in DOMAIN disk : Len(p) = Len(path) + 1 /\ IsPrefix(path, p)}
Lowered(name) == [name EXCEPT !.stem = Lower[@]]
SideOf(path, suffix) == Append(Front(path), [Last(path) EXCEPT !.side = suffix])

\* An entry as it was when it was taken; it takes the sidecars it has along.
Entry(path) == [path |-> path, dir |-> disk[path] = Folder,
                companions |-> SelectSeq(Sidecars, LAMBDA s : Last(path).side = "" /\ SideOf(path, s) \in DOMAIN disk)]

\* What lies in a folder that is taken too goes with it.
TopEntries(entries) ==
    SelectSeq(entries, LAMBDA e : ~\E i \in DOMAIN entries : /\ entries[i].path # e.path
                                                             /\ entries[i].dir
                                                             /\ IsPrefix(entries[i].path, e.path))

------------------------------------------------------------------------------
(* The host's calls.                                                            *)

Rebased(path, from, to) == to \o SubSeq(path, Len(from) + 1, Len(path))

\* Everything under a path, put under another too; what was at that place is written over.
Put(d, from, to, kept) ==
    LET new == {Rebased(p, from, to) : p \in Under(d, from)}
        old == {p \in DOMAIN d : ~IsPrefix(to, p) /\ (kept \/ ~IsPrefix(from, p))}
    IN  [p \in old \cup new |-> IF p \in new THEN d[Rebased(p, to, from)] ELSE d[p]]

\* Whether a call works: a rename replaces a file (or an empty folder) silently, a copy never does.
Works(c) ==
    LET there == c.to \in DOMAIN disk
    IN  /\ c.from \in DOMAIN disk \cup {<<>>}
        /\ CASE c.verb = "remove" -> TRUE
             [] c.verb = "copy" -> ~there /\ ~IsPrefix(c.from, c.to) /\ Front(c.to) \in DOMAIN disk
             [] c.verb = "rename" -> /\ ~IsStrictPrefix(c.from, c.to) /\ Front(c.to) \in DOMAIN disk
                                     /\ there => /\ (disk[c.from] = Folder) = (disk[c.to] = Folder)
                                                 /\ Cardinality(Under(disk, c.to)) = 1
             [] c.verb = "folder" -> ~there /\ Front(c.to) \in DOMAIN disk
             [] c.verb = "file" -> Front(c.to) \in DOMAIN disk /\ (there => disk[c.to] # Folder)

Done(c) ==
    CASE c.verb = "remove" -> [p \in DOMAIN disk \ Under(disk, c.from) |-> disk[p]]
      [] c.verb = "copy" -> Put(disk, c.from, c.to, TRUE)
      [] c.verb = "rename" -> Put(disk, c.from, c.to, FALSE)
      [] OTHER -> [p \in DOMAIN disk \cup {c.to} |-> IF p = c.to THEN IF c.verb = "folder" THEN Folder ELSE "new" ELSE disk[p]]

\* An entry's call and then its sidecars'.
Calls(verb, entry, to) ==
    <<[verb |-> verb, from |-> entry.path, to |-> to]>>
    \o [i \in DOMAIN entry.companions |->
            [verb |-> verb, from |-> SideOf(entry.path, entry.companions[i]),
             to |-> IF to = <<>> THEN <<>> ELSE SideOf(to, entry.companions[i])]]

------------------------------------------------------------------------------
(* Paste.                                                                       *)

Listing(folder) == {Lowered(Last(p)) : p \in Children(folder)}
Numbered(name, k) == IF k = 0 THEN name ELSE [name EXCEPT !.n = Append(@, k)]

\* The first of the names "x", "x (1)", "x (2)" nobody has.
FreeName(name, taken) ==
    LET k == CHOOSE k \in 0..Cardinality(taken) : /\ Lowered(Numbered(name, k)) \notin taken
                                                  /\ \A j \in 0..(k - 1) : Lowered(Numbered(name, j)) \in taken
    IN  Numbered(name, k)

\* Mutant: names given in this paste are not taken for its next entry.
PasteCalls_Stale(clip, to) ==
    FoldLeft(LAMBDA acc, e :
                 IF clip.cut /\ Append(to, Last(e.path)) = e.path THEN acc
                 ELSE LET name == FreeName(Last(e.path), acc.taken)
                      IN  [taken |-> acc.taken,
                           calls |-> acc.calls \o Calls(IF clip.cut THEN "rename" ELSE "copy", e, Append(to, name))],
             [taken |-> Listing(to), calls |-> <<>>], TopEntries(clip.entries)).calls

\* The calls of a paste: what is cut and is already there stays, and each name given is taken for the next.
PasteCalls(clip, to) ==
    FoldLeft(LAMBDA acc, e :
                 IF clip.cut /\ Append(to, Last(e.path)) = e.path THEN acc
                 ELSE LET name == FreeName(Last(e.path), acc.taken)
                      IN  [taken |-> acc.taken \cup {Lowered(name)},
                           calls |-> acc.calls \o Calls(IF clip.cut THEN "rename" ELSE "copy", e, Append(to, name))],
             [taken |-> Listing(to), calls |-> <<>>], TopEntries(clip.entries)).calls

Take(entries, cut) ==
    /\ dialog.phase = "idle" /\ fileSteps < MaxFileSteps /\ fileSteps' = fileSteps + 1
    /\ clipboard' = <<[entries |-> entries, cut |-> cut]>>
    /\ UNCHANGED <<disk, here, pasting, dialog, deleted, raced>>

\* One paste at a time; it works with what is on the clipboard as it begins.
Paste(to) ==
    /\ dialog.phase = "idle" /\ pasting.phase = "idle" /\ clipboard # <<>>
    /\ fileSteps < MaxFileSteps /\ fileSteps' = fileSteps + 1
    /\ pasting' = [phase |-> "listing", calls |-> <<>>, to |-> to, clip |-> clipboard[1]]
    /\ UNCHANGED <<disk, here, clipboard, dialog, deleted, raced>>

\* The listing comes, and the names are settled; a folder that is gone ends the paste.
PasteListed ==
    /\ pasting.phase = "listing"
    /\ pasting' = IF pasting.to \notin DOMAIN disk THEN Idle
                  ELSE [pasting EXCEPT !.phase = "calling", !.calls = PasteCalls(pasting.clip, pasting.to)]
    /\ UNCHANGED <<disk, here, clipboard, dialog, deleted, raced, fileSteps>>

\* The next call; the first that fails ends the paste, and the clipboard stays.
PasteCall ==
    /\ pasting.phase = "calling" /\ pasting.calls # <<>>
    /\ LET c == Head(pasting.calls)
       IN  /\ disk' = IF Works(c) THEN Done(c) ELSE disk
           /\ pasting' = IF Works(c) THEN [pasting EXCEPT !.calls = Tail(@)] ELSE Idle
    /\ raced' = (raced \/ dialog.phase = "calling")
    /\ UNCHANGED <<here, clipboard, dialog, deleted, fileSteps>>

\* What was cut is pasted once: the clipboard is emptied, whatever is on it by now.
PasteEnds ==
    /\ pasting.phase = "calling" /\ pasting.calls = <<>>
    /\ clipboard' = IF pasting.clip.cut THEN <<>> ELSE clipboard
    /\ pasting' = Idle
    /\ UNCHANGED <<disk, here, dialog, deleted, raced, fileSteps>>

------------------------------------------------------------------------------
(* The dialog. It is modal: no other command is given while it is open.         *)

Ask(kind, entries) ==
    /\ dialog.phase = "idle" /\ fileSteps < MaxFileSteps /\ fileSteps' = fileSteps + 1
    /\ dialog' = [phase |-> "asking", calls |-> <<>>, kind |-> kind, entries |-> entries, name |-> NoName]
    /\ UNCHANGED <<disk, here, clipboard, pasting, deleted, raced>>

Cancel ==
    /\ dialog.phase = "asking" /\ dialog' = Idle
    /\ UNCHANGED <<disk, here, clipboard, pasting, deleted, raced, fileSteps>>

\* OK: a deletion needs no listing; an entry's sidecars are deleted after it.
Submit(name) ==
    /\ dialog.phase = "asking"
    /\ dialog' = IF dialog.kind = "delete"
                 THEN LET top == TopEntries(dialog.entries)
                      IN  [dialog EXCEPT !.phase = "calling",
                                         !.calls = FlattenSeq([i \in DOMAIN top |-> Calls("remove", top[i], <<>>)])]
                 ELSE [dialog EXCEPT !.phase = "listing", !.name = name]
    /\ UNCHANGED <<disk, here, clipboard, pasting, deleted, raced, fileSteps>>

\* A name another entry of the folder has is refused.
Refused == \E p \in Children(here) : /\ Lowered(Last(p)) = Lowered(dialog.name)
                                    /\ ~(dialog.kind = "rename" /\ p = dialog.entries[1].path)

DialogListed ==
    /\ dialog.phase = "listing"
    /\ LET target == Append(here, dialog.name)
           calls == CASE dialog.kind = "rename" -> IF target = dialog.entries[1].path THEN <<>>
                                                   ELSE Calls("rename", dialog.entries[1], target)
                      [] OTHER -> <<[verb |-> dialog.kind, from |-> <<>>, to |-> target]>>
       IN  dialog' = IF here \notin DOMAIN disk \/ Refused THEN [dialog EXCEPT !.phase = "asking"]
                     ELSE [dialog EXCEPT !.phase = "calling", !.calls = calls]
    /\ UNCHANGED <<disk, here, clipboard, pasting, deleted, raced, fileSteps>>

\* The next call; a failure leaves the dialog open to be tried again, with what was done already done.
DialogCall ==
    /\ dialog.phase = "calling" /\ dialog.calls # <<>>
    /\ LET c == Head(dialog.calls)
       IN  /\ disk' = IF Works(c) THEN Done(c) ELSE disk
           /\ deleted' = IF Works(c) /\ c.verb = "remove" THEN deleted \cup {disk[p] : p \in Under(disk, c.from)} ELSE deleted
           /\ dialog' = IF Works(c) THEN [dialog EXCEPT !.calls = Tail(@)]
                        ELSE [dialog EXCEPT !.phase = "asking", !.calls = <<>>]
    /\ raced' = (raced \/ pasting.phase = "calling")
    /\ UNCHANGED <<here, clipboard, pasting, fileSteps>>

DialogEnds ==
    /\ dialog.phase = "calling" /\ dialog.calls = <<>> /\ dialog' = Idle
    /\ UNCHANGED <<disk, here, clipboard, pasting, deleted, raced, fileSteps>>

------------------------------------------------------------------------------
(* The other programs.                                                          *)

Listed == pasting.phase = "calling" \/ dialog.phase = "calling"

OutsideMakes(path) ==
    /\ fileSteps < MaxFileSteps /\ fileSteps' = fileSteps + 1
    /\ path \notin DOMAIN disk /\ disk' = [p \in DOMAIN disk \cup {path} |-> IF p = path THEN "outside" ELSE disk[p]]
    /\ raced' = (raced \/ Listed)
    /\ UNCHANGED <<here, clipboard, pasting, dialog, deleted>>

OutsideRemoves(path) ==
    /\ fileSteps < MaxFileSteps /\ fileSteps' = fileSteps + 1
    /\ path \in DOMAIN disk /\ disk' = [p \in DOMAIN disk \ Under(disk, path) |-> disk[p]]
    /\ deleted' = deleted \cup {disk[p] : p \in Under(disk, path)}
    /\ raced' = (raced \/ Listed)
    /\ UNCHANGED <<here, clipboard, pasting, dialog>>

------------------------------------------------------------------------------
Plain(stem) == [stem |-> stem, n |-> <<>>, side |-> ""]
Folders == {p \in DOMAIN disk : disk[p] = Folder}
\* What may be selected: an explorer shows a sidecar with its file.
Shown == {p \in Under(disk, here) \ {here} : Last(p).side = ""}
Selections == {LET list == SetToSeq(chosen) IN [i \in DOMAIN list |-> Entry(list[i])] :
                 chosen \in {c \in SUBSET Shown : Cardinality(c) \in 1..2}}

FileInit ==
    /\ disk = Files /\ here \in {p \in DOMAIN Files : Files[p] = Folder}
    /\ clipboard = <<>>
    /\ pasting = Idle /\ dialog = Idle
    /\ deleted = {} /\ raced = FALSE /\ fileSteps = 0

FileNext ==
    \/ \E entries \in Selections, cut \in BOOLEAN : Take(entries, cut)
    \/ \E to \in Folders : Paste(to)
    \/ PasteListed \/ PasteCall \/ PasteEnds
    \/ \E entries \in Selections : Ask("delete", entries)
    \/ \E p \in Children(here) \cap Shown : Ask("rename", <<Entry(p)>>)
    \/ \E kind \in {"file", "folder"} : Ask(kind, <<>>)
    \/ Cancel
    \/ \E stem \in Stems : Submit(Plain(stem))
    \/ DialogListed \/ DialogCall \/ DialogEnds
    \/ \E folder \in Folders, stem \in Stems : OutsideMakes(Append(folder, Plain(stem)))
    \/ \E p \in DOMAIN disk : OutsideRemoves(p)

FileSpec == FileInit /\ [][FileNext]_fileVars

------------------------------------------------------------------------------
(* No command loses a file: what was there at first is somewhere on the disk    *)
(* until it is deleted, whatever a paste or a rename is given and whichever of  *)
(* their calls fails, unless somebody changed the disk between the listing the  *)
(* names were compared with and the calls it led to (useFileActions.tsx:42-56,  *)
(* 73-82; the host's rename writes over what is there). Two entries of one name *)
(* from two folders get two names, and names differing in case are one name.    *)
NothingIsLost ==
    \A p \in DOMAIN Files : Last(p).side = "" => raced \/ Files[p] \in deleted \/ \E q \in DOMAIN disk : disk[q] = Files[p]

==============================================================================
