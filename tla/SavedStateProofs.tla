-------------------------- MODULE SavedStateProofs --------------------------
(* Proofs about what comes back. First what the window remembers of its       *)
(* projects: for every number of projects, changes and switches, a project    *)
(* reopens as it was left, a window that has closed has saved everything, and *)
(* no save leaves a file that cannot be read. Then the settings, for every    *)
(* number of profiles, changes and restarts: a restart shows what is shown,   *)
(* and Undo goes back to what the window opened with. Last the language, for  *)
(* every number of windows and locales: all show their text in the one        *)
(* chosen last.                                                               *)
EXTENDS SavedState, Settings, Localization, SequenceTheorems, TLAPS

(* The calls under way, seen from one project. *)
IsSaveOf(c, p) == c.what # "load" /\ c.project = p
IsLoadOf(c, p) == c.what = "load" /\ c.project = p

(* A file that holds f holds m when the saves in s are done.                  *)
Follows(s, p, f, m) ==
    \/ f = m /\ \A i \in 1..Len(s) : ~IsSaveOf(s[i], p)
    \/ \E i \in 1..Len(s) : /\ IsSaveOf(s[i], p) /\ s[i].value = m
                            /\ \A j \in 1..Len(s) : j > i => ~IsSaveOf(s[j], p)

(* Every save of p in s comes before a load of p.                             *)
LoadsLast(s, p) ==
    \A i \in 1..Len(s) : IsSaveOf(s[i], p) =>
        \E j \in 1..Len(s) : j > i /\ IsLoadOf(s[j], p)

(* The host is at most at the rename of the first call, and has its value in  *)
(* the partial file w.                                                        *)
RenamesFirst(s, w) ==
    \A i \in 1..Len(s) : s[i].what = "rename" => i = 1 /\ w[s[i].project] = s[i].value

(* Only the open project has anything to save, and its timer runs. *)
OnlyTheOpenWaits ==
    /\ timer = pending /\ pending \subseteq {root}
    /\ pending # {} \/ lately # Empty => loaded
    /\ loaded => root \in Projects

(* What a project's file will hold is what its store has, unless the store    *)
(* waits to be saved.  This is what makes the property inductive: it speaks   *)
(* of the calls still under way, and holds of projects that are closed.       *)
SavedInTheEnd ==
    faults = 0 => \A p \in Projects \ pending : Follows(calls, p, file[p], memory[p])

(* A project that is being read is read after its saves.                      *)
ReadLast == ~loaded => LoadsLast(calls, root)

ClosingIsQuiet ==
    /\ window \in {"flushing", "closed"} => pending = {} /\ lately = Empty
    /\ window = "closed" => calls = <<>>

Inv == /\ SavedTypeOK
       /\ RenamesFirst(calls, partial) /\ OnlyTheOpenWaits /\ SavedInTheEnd /\ ReadLast /\ ClosingIsQuiet

-----------------------------------------------------------------------------
(* A call joins the end, and leaves from the front. *)
LEMMA Joined ==
    ASSUME NEW s \in Seq(Calls), NEW c \in Calls
    PROVE  /\ Append(s, c) \in Seq(Calls) /\ Len(Append(s, c)) = Len(s) + 1
           /\ Len(s) \in Nat
           /\ \A i \in 1..Len(s) : Append(s, c)[i] = s[i]
           /\ Append(s, c)[Len(s) + 1] = c
OBVIOUS

LEMMA Left ==
    ASSUME NEW s \in Seq(Calls), s # <<>>
    PROVE  /\ Tail(s) \in Seq(Calls) /\ Len(Tail(s)) = Len(s) - 1
           /\ Len(s) \in Nat /\ Len(s) >= 1 /\ s[1] \in Calls
           /\ \A i \in 1..(Len(s) - 1) : Tail(s)[i] = s[i + 1]
<1>1. Len(s) \in Nat \ {0}
  BY EmptySeq
<1>2. Len(Tail(s)) = Len(s) - 1
  BY HeadTailProperties
<1>. QED
  BY <1>1, <1>2, HeadTailProperties

(* The first call's save is written, and waits to be renamed. *)
RenameNext(s) == [s EXCEPT ![1].what = "rename"]

LEMMA WrittenFirst ==
    ASSUME NEW s \in Seq(Calls), s # <<>>, s[1].what = "save"
    PROVE  /\ RenameNext(s) \in Seq(Calls) /\ Len(RenameNext(s)) = Len(s) /\ Len(s) \in Nat /\ Len(s) >= 1
           /\ RenameNext(s)[1] = [s[1] EXCEPT !.what = "rename"]
           /\ \A i \in 2..Len(s) : RenameNext(s)[i] = s[i]
           /\ RenameNext(s)[1].what = "rename" /\ RenameNext(s)[1].project = s[1].project
           /\ RenameNext(s)[1].value = s[1].value
<1>1. Len(s) \in Nat \ {0} /\ 1 \in 1..Len(s) /\ s[1] \in Calls
  BY EmptySeq
<1>2. [s[1] EXCEPT !.what = "rename"] \in Calls
  BY <1>1 DEF Calls
<1>3. RenameNext(s) = [s EXCEPT ![1] = [s[1] EXCEPT !.what = "rename"]]
  BY DEF RenameNext
<1> DEFINE r == [s[1] EXCEPT !.what = "rename"]
<1>6. r \in Calls /\ RenameNext(s) = [s EXCEPT ![1] = r]
  BY <1>2, <1>3
<1> HIDE DEF r
<1>4. RenameNext(s) \in Seq(Calls) /\ Len(RenameNext(s)) = Len(s)
  BY <1>1, <1>6, ExceptSeq
<1>7. /\ RenameNext(s)[1] = r
      /\ \A i \in 2..Len(s) : RenameNext(s)[i] = s[i]
  BY <1>1, <1>6, ExceptSeq
<1>5. /\ RenameNext(s)[1] = [s[1] EXCEPT !.what = "rename"]
      /\ \A i \in 2..Len(s) : RenameNext(s)[i] = s[i]
  BY <1>7 DEF r
<1>. QED
  BY <1>1, <1>4, <1>5 DEF Calls

-----------------------------------------------------------------------------
(* What the calls leave in a file *)

LEMMA FollowsJoined ==
    ASSUME NEW s \in Seq(Calls), NEW c \in Calls, NEW p, NEW f, NEW m
    PROVE  /\ IsSaveOf(c, p) => Follows(Append(s, c), p, f, c.value)
           /\ ~IsSaveOf(c, p) /\ Follows(s, p, f, m) => Follows(Append(s, c), p, f, m)
<1>. DEFINE r == Append(s, c)
<1>1. /\ Len(r) = Len(s) + 1 /\ Len(s) \in Nat /\ r[Len(s) + 1] = c
      /\ \A i \in 1..Len(s) : r[i] = s[i]
  BY Joined
<1>. HIDE DEF r
<1>2. ASSUME IsSaveOf(c, p)
      PROVE  Follows(r, p, f, c.value)
  BY <1>1, <1>2 DEF Follows
<1>3. ASSUME ~IsSaveOf(c, p), Follows(s, p, f, m)
      PROVE  Follows(r, p, f, m)
  <2>1. \A j \in 1..Len(r) : j \in 1..Len(s) \/ j = Len(s) + 1
    BY <1>1
  <2>. QED
    BY <1>1, <1>3, <2>1 DEF Follows
<1>. QED
  BY <1>2, <1>3 DEF r

LEMMA FollowsLeft ==
    ASSUME NEW s \in Seq(Calls), s # <<>>, NEW p, NEW f, NEW m, Follows(s, p, f, m)
    PROVE  Follows(Tail(s), p, IF IsSaveOf(s[1], p) THEN s[1].value ELSE f, m)
<1>. DEFINE t == Tail(s)
<1>1. /\ Len(t) = Len(s) - 1 /\ Len(s) \in Nat /\ Len(s) >= 1
      /\ \A i \in 1..(Len(s) - 1) : t[i] = s[i + 1]
  BY Left
<1>. HIDE DEF t
<1>2. CASE f = m /\ \A i \in 1..Len(s) : ~IsSaveOf(s[i], p)
  <2>1. ~IsSaveOf(s[1], p) /\ \A i \in 1..Len(t) : i + 1 \in 1..Len(s) /\ t[i] = s[i + 1]
    BY <1>1, <1>2
  <2>. QED
    BY <1>2, <2>1 DEF Follows, t
<1>3. ASSUME NEW i \in 1..Len(s), IsSaveOf(s[i], p), s[i].value = m,
             \A j \in 1..Len(s) : j > i => ~IsSaveOf(s[j], p)
      PROVE  Follows(t, p, IF IsSaveOf(s[1], p) THEN s[1].value ELSE f, m)
  <2>1. CASE i = 1
    <3>1. \A j \in 1..Len(t) : ~IsSaveOf(t[j], p)
      BY <1>1, <1>3, <2>1
    <3>. QED
      BY <1>3, <2>1, <3>1 DEF Follows
  <2>2. CASE i > 1
    <3>1. /\ i - 1 \in 1..Len(t) /\ t[i - 1] = s[i]
          /\ \A j \in 1..Len(t) : j > i - 1 => ~IsSaveOf(t[j], p)
      BY <1>1, <1>3, <2>2
    <3>. QED
      BY <1>3, <3>1 DEF Follows
  <2>. QED
    BY <2>1, <2>2
<1>. QED
  BY <1>2, <1>3 DEF Follows, t

LEMMA FollowsWritten ==
    ASSUME NEW s \in Seq(Calls), s # <<>>, s[1].what = "save", NEW p, NEW f, NEW m,
           Follows(s, p, f, m)
    PROVE  Follows(RenameNext(s), p, f, m)
<1>. DEFINE r == RenameNext(s)
<1>1. /\ Len(r) = Len(s) /\ Len(s) \in Nat /\ \A i \in 2..Len(s) : r[i] = s[i]
      /\ r[1].what = "rename" /\ r[1].project = s[1].project /\ r[1].value = s[1].value
  BY WrittenFirst
<1>. HIDE DEF r
<1>2. \A i \in 1..Len(s) : (IsSaveOf(r[i], p) <=> IsSaveOf(s[i], p)) /\ r[i].value = s[i].value
  <2>. TAKE i \in 1..Len(s)
  <2>1. CASE i = 1
    BY <1>1, <2>1 DEF IsSaveOf
  <2>2. CASE i # 1
    <3>1. i \in 2..Len(s)
      BY <1>1, <2>2
    <3>. QED
      BY <1>1, <3>1
  <2>. QED
    BY <2>1, <2>2
<1>. QED
  BY <1>1, <1>2 DEF Follows, r

LEMMA LoadsLastJoined ==
    ASSUME NEW s \in Seq(Calls), NEW c \in Calls, NEW p,
           IsLoadOf(c, p) \/ (~IsSaveOf(c, p) /\ LoadsLast(s, p))
    PROVE  LoadsLast(Append(s, c), p)
<1>. DEFINE r == Append(s, c)
<1>1. /\ Len(r) = Len(s) + 1 /\ Len(s) \in Nat /\ r[Len(s) + 1] = c
      /\ \A i \in 1..Len(s) : r[i] = s[i]
  BY Joined
<1>. HIDE DEF r
<1>2. \A j \in 1..Len(r) : j \in 1..Len(s) \/ j = Len(s) + 1
  BY <1>1
<1>3. ~IsSaveOf(c, p)
  BY DEF IsSaveOf, IsLoadOf
<1>4. CASE IsLoadOf(c, p)
  BY <1>1, <1>2, <1>3, <1>4 DEF LoadsLast, r
<1>5. CASE LoadsLast(s, p)
  BY <1>1, <1>2, <1>3, <1>5 DEF LoadsLast, r
<1>. QED
  BY <1>4, <1>5

LEMMA LoadsLastLeft ==
    ASSUME NEW s \in Seq(Calls), s # <<>>, NEW p, LoadsLast(s, p)
    PROVE  LoadsLast(Tail(s), p)
<1>. DEFINE t == Tail(s)
<1>1. /\ Len(t) = Len(s) - 1 /\ Len(s) \in Nat /\ Len(s) >= 1
      /\ \A i \in 1..(Len(s) - 1) : t[i] = s[i + 1]
  BY Left
<1>. HIDE DEF t
<1>2. ASSUME NEW i \in 1..Len(t), IsSaveOf(t[i], p)
      PROVE  \E j \in 1..Len(t) : j > i /\ IsLoadOf(t[j], p)
  <2>1. i + 1 \in 1..Len(s) /\ IsSaveOf(s[i + 1], p)
    BY <1>1, <1>2
  <2>2. PICK j \in 1..Len(s) : j > i + 1 /\ IsLoadOf(s[j], p)
    BY <2>1 DEF LoadsLast
  <2>3. j - 1 \in 1..Len(t) /\ j - 1 > i /\ t[j - 1] = s[j]
    BY <1>1, <2>2
  <2>. QED
    BY <2>2, <2>3
<1>. QED
  BY <1>2 DEF LoadsLast, t

LEMMA LoadsLastWritten ==
    ASSUME NEW s \in Seq(Calls), s # <<>>, s[1].what = "save", NEW p, LoadsLast(s, p)
    PROVE  LoadsLast(RenameNext(s), p)
<1>. DEFINE r == RenameNext(s)
<1>1. /\ Len(r) = Len(s) /\ Len(s) \in Nat /\ \A i \in 2..Len(s) : r[i] = s[i]
      /\ r[1].what = "rename" /\ r[1].project = s[1].project
  BY WrittenFirst
<1>. HIDE DEF r
<1>2. \A i \in 1..Len(s) : /\ IsSaveOf(r[i], p) <=> IsSaveOf(s[i], p)
                           /\ IsLoadOf(r[i], p) <=> IsLoadOf(s[i], p)
  <2>. TAKE i \in 1..Len(s)
  <2>1. CASE i = 1
    BY <1>1, <2>1 DEF IsSaveOf, IsLoadOf
  <2>2. CASE i # 1
    <3>1. i \in 2..Len(s)
      BY <1>1, <2>2
    <3>. QED
      BY <1>1, <3>1
  <2>. QED
    BY <2>1, <2>2
<1>. QED
  BY <1>1, <1>2 DEF LoadsLast, r

LEMMA RenamesJoined ==
    ASSUME NEW s \in Seq(Calls), NEW c \in Calls, NEW w, RenamesFirst(s, w), c.what # "rename"
    PROVE  RenamesFirst(Append(s, c), w)
<1>. DEFINE r == Append(s, c)
<1>1. /\ Len(r) = Len(s) + 1 /\ Len(s) \in Nat /\ r[Len(s) + 1] = c
      /\ \A i \in 1..Len(s) : r[i] = s[i]
  BY Joined
<1>. HIDE DEF r
<1>2. \A j \in 1..Len(r) : j \in 1..Len(s) \/ j = Len(s) + 1
  BY <1>1
<1>. QED
  BY <1>1, <1>2 DEF RenamesFirst, r

LEMMA RenamesLeft ==
    ASSUME NEW s \in Seq(Calls), s # <<>>, NEW w, RenamesFirst(s, w), NEW v
    PROVE  RenamesFirst(Tail(s), v)
<1>. DEFINE t == Tail(s)
<1>1. /\ Len(t) = Len(s) - 1 /\ Len(s) \in Nat /\ Len(s) >= 1
      /\ \A i \in 1..(Len(s) - 1) : t[i] = s[i + 1]
  BY Left
<1>. HIDE DEF t
<1>2. \A i \in 1..Len(t) : i + 1 \in 1..Len(s) /\ i + 1 # 1 /\ t[i] = s[i + 1]
  BY <1>1
<1>. QED
  BY <1>2 DEF RenamesFirst, t

-----------------------------------------------------------------------------
(* Saving the open project: what its file will hold is what its store has,    *)
(* with what is gathered only before a save.                                  *)
Saves == IF Unsaved(root)
         THEN Append(calls, [what |-> "save", project |-> root, value |-> Collected(root)[root]])
         ELSE calls

LEMMA SavesFollow ==
    ASSUME Inv, loaded
    PROVE  /\ Saves \in Seq(Calls) /\ RenamesFirst(Saves, partial)
           /\ Collected(root) \in [Projects -> Nat]
           /\ faults = 0 => \A p \in Projects : Follows(Saves, p, file[p], Collected(root)[p])
<1>1. /\ root \in Projects /\ calls \in Seq(Calls) /\ memory \in [Projects -> Nat]
      /\ lately \in Nat /\ RenamesFirst(calls, partial)
      /\ \A p \in Projects \ {root} : p \notin pending
  BY DEF Inv, SavedTypeOK, OnlyTheOpenWaits
<1>2. /\ Collected(root) \in [Projects -> Nat]
      /\ \A p \in Projects \ {root} : Collected(root)[p] = memory[p]
  BY <1>1 DEF Collected
<1>3. CASE Unsaved(root)
  <2>. DEFINE c == [what |-> "save", project |-> root, value |-> Collected(root)[root]]
  <2>1. /\ c \in Calls /\ c.what = "save" /\ c.project = root
        /\ c.value = Collected(root)[root] /\ Saves = Append(calls, c)
    BY <1>1, <1>2, <1>3 DEF Calls, Saves
  <2>. HIDE DEF c
  <2>2. Saves \in Seq(Calls) /\ RenamesFirst(Saves, partial)
    BY <1>1, <2>1, Joined, RenamesJoined
  <2>3. IsSaveOf(c, root) /\ \A p \in Projects \ {root} : ~IsSaveOf(c, p)
    BY <2>1 DEF IsSaveOf
  <2>4. ASSUME faults = 0, NEW p \in Projects
        PROVE  Follows(Saves, p, file[p], Collected(root)[p])
    <3>1. CASE p = root
      BY <1>1, <2>1, <2>3, <3>1, FollowsJoined
    <3>2. CASE p # root
      <4>1. Follows(calls, p, file[p], memory[p])
        BY <1>1, <2>4, <3>2 DEF Inv, SavedInTheEnd
      <4>. QED
        BY <1>1, <1>2, <2>1, <2>3, <3>2, <4>1, FollowsJoined
    <3>. QED
      BY <3>1, <3>2
  <2>. QED
    BY <1>2, <2>2, <2>4
<1>4. CASE ~Unsaved(root)
  <2>1. Saves = calls /\ Collected(root) = memory /\ root \notin pending
    BY <1>4 DEF Saves, Unsaved, Collected
  <2>. QED
    BY <1>1, <2>1 DEF Inv, SavedInTheEnd
<1>. QED
  BY <1>3, <1>4

(* flush(): a moment after the last change, and when the window closes.       *)
LEMMA FlushKeeps ==
    ASSUME Inv, loaded, Flush(root), window \in {"open", "asking", "flushing"},
           window' \in {window, "flushing"},
           UNCHANGED <<root, loaded, file, partial, edits, switches, faults>>
    PROVE  Inv'
<1>1. /\ calls' = Saves /\ memory' = Collected(root) /\ lately' = Empty
      /\ pending' = {} /\ timer' = {} /\ root \in Projects
  BY DEF Flush, Saves, Inv, OnlyTheOpenWaits
<1>2. SavedTypeOK'
  BY <1>1, SavesFollow DEF Inv, SavedTypeOK, Empty
<1>3. RenamesFirst(calls', partial') /\ OnlyTheOpenWaits' /\ ReadLast' /\ ClosingIsQuiet'
  BY <1>1, SavesFollow DEF OnlyTheOpenWaits, ReadLast, ClosingIsQuiet
<1>4. SavedInTheEnd'
  BY <1>1, SavesFollow DEF SavedInTheEnd
<1>. QED
  BY <1>2, <1>3, <1>4 DEF Inv

(* Another project is opened.                                                 *)
LEMMA OpenKeeps ==
    ASSUME NoProject \notin Projects, Inv, NEW p \in Projects \cup {NoProject}, Open(p)
    PROVE  Inv'
<1>. DEFINE s == IF loaded /\ Unsaved(root) THEN Saves ELSE calls
<1>1. /\ p # root /\ root' = p /\ loaded' = FALSE /\ lately' = Empty
      /\ memory' = IF loaded /\ Unsaved(root) THEN Collected(root) ELSE memory
      /\ calls' = s \o (IF p # NoProject THEN <<Call("load", p)>> ELSE <<>>)
      /\ timer' = timer \ {root} /\ pending' = pending \ {root} /\ window = "open"
      /\ switches' = switches + 1
      /\ UNCHANGED <<file, partial, window, edits, faults>>
  BY DEF Open, Saves
<1>2. pending' = {} /\ timer' = {}
  BY <1>1 DEF Inv, OnlyTheOpenWaits
<1>3. /\ s \in Seq(Calls) /\ RenamesFirst(s, partial) /\ memory' \in [Projects -> Nat]
      /\ faults = 0 => \A q \in Projects : Follows(s, q, file[q], memory'[q])
  <2>1. CASE loaded /\ Unsaved(root)
    BY <1>1, <2>1, SavesFollow
  <2>2. CASE ~(loaded /\ Unsaved(root))
    <3>1. s = calls /\ memory' = memory /\ pending = {}
      BY <1>1, <2>2 DEF Unsaved, Inv, OnlyTheOpenWaits
    <3>. QED
      BY <3>1 DEF Inv, SavedTypeOK, SavedInTheEnd
  <2>. QED
    BY <2>1, <2>2
<1>. HIDE DEF s
<1>4. /\ calls' \in Seq(Calls) /\ RenamesFirst(calls', partial)
      /\ faults = 0 => \A q \in Projects : Follows(calls', q, file[q], memory'[q])
      /\ LoadsLast(calls', p)
  <2>1. CASE p = NoProject
    <3>1. calls' = s
      BY <1>1, <1>3, <2>1
    <3>2. \A i \in 1..Len(s) : s[i] \in Calls
      BY <1>3
    <3>3. LoadsLast(calls', p)
      BY <2>1, <3>1, <3>2 DEF LoadsLast, IsSaveOf, Calls
    <3>. QED
      BY <1>3, <3>1, <3>3
  <2>2. CASE p # NoProject
    <3>. DEFINE c == Call("load", p)
    <3>1. c \in Calls /\ c.what = "load" /\ c.project = p
      BY <2>2 DEF Call, Calls, Inv, SavedTypeOK
    <3>. HIDE DEF c
    <3>2. calls' = Append(s, c)
      BY <1>1, <1>3, <2>2, <3>1, AppendIsConcat DEF c
    <3>3. IsLoadOf(c, p) /\ \A q \in Projects : ~IsSaveOf(c, q)
      BY <3>1 DEF IsLoadOf, IsSaveOf
    <3>4. LoadsLast(calls', p)
      BY <1>3, <3>1, <3>2, <3>3, LoadsLastJoined
    <3>. QED
      BY <1>3, <3>1, <3>2, <3>3, <3>4, Joined, RenamesJoined, FollowsJoined
  <2>. QED
    BY <2>1, <2>2
<1>5. SavedTypeOK'
  <2>1. /\ root' \in Projects \cup {NoProject} /\ loaded' \in BOOLEAN
        /\ lately' \in Nat /\ edits' \in Nat /\ switches' \in Nat /\ faults' \in Nat
        /\ window' \in {"open", "asking", "flushing", "closed"}
    <3>1. root' \in Projects \cup {NoProject} /\ loaded' \in BOOLEAN /\ window' = "open"
      BY <1>1
    <3>2. lately' \in Nat
      BY <1>1 DEF Empty
    <3>3. edits' = edits /\ switches' = switches + 1 /\ faults' = faults
      BY <1>1
    <3>4. edits \in Nat /\ switches \in Nat /\ faults \in Nat
      BY DEF Inv, SavedTypeOK
    <3>5. edits' \in Nat /\ switches' \in Nat /\ faults' \in Nat
      BY <3>3, <3>4
    <3>. QED
      BY <3>1, <3>2, <3>5
  <2>2. file' \in [Projects -> Nat] /\ partial' \in [Projects -> Nat]
    BY <1>1 DEF Inv, SavedTypeOK
  <2>3. pending' \subseteq Projects /\ timer' \subseteq Projects
    BY <1>2
  <2>. QED
    BY <1>3, <1>4, <2>1, <2>2, <2>3 DEF SavedTypeOK
<1>6. OnlyTheOpenWaits' /\ SavedInTheEnd' /\ ReadLast' /\ ClosingIsQuiet'
  BY <1>1, <1>2, <1>4 DEF OnlyTheOpenWaits, SavedInTheEnd, ReadLast, ClosingIsQuiet
<1>. QED
  BY <1>1, <1>4, <1>5, <1>6 DEF Inv

(* A change waits to be saved, so nothing is said of that project's file.     *)
LEMMA ChangeKeeps == ASSUME Inv, Set \/ Move PROVE Inv'
<1>1. CASE Set
  <2>1. /\ loaded /\ root \in Projects /\ memory' = [memory EXCEPT ![root] = edits + 1]
        /\ pending' = pending \cup {root} /\ timer' = timer \cup {root} /\ lately' = Empty
        /\ window = "open" /\ edits' = edits + 1
        /\ UNCHANGED <<root, loaded, calls, file, partial, window, switches, faults>>
    BY <1>1 DEF Set, Inv, OnlyTheOpenWaits
  <2>2. SavedTypeOK'
    BY <2>1 DEF Inv, SavedTypeOK, Empty
  <2>3. SavedInTheEnd'
    BY <2>1 DEF Inv, SavedTypeOK, SavedInTheEnd
  <2>. QED
    BY <2>1, <2>2, <2>3 DEF Inv, OnlyTheOpenWaits, ReadLast, ClosingIsQuiet
<1>2. CASE Move
  BY <1>2 DEF Move, Inv, SavedTypeOK, OnlyTheOpenWaits, SavedInTheEnd, ReadLast, ClosingIsQuiet
<1>. QED
  BY <1>1, <1>2

-----------------------------------------------------------------------------
(* The host *)

(* A load that is heard finds no save of its project before or behind it, so  *)
(* what it reads is what the project's store had.                             *)
LEMMA LoadFindsIt ==
    ASSUME Inv, HostLoads, loaded' # loaded
    PROVE  /\ root \in Projects /\ ~loaded
           /\ memory' = [memory EXCEPT ![root] = file[root]]
           /\ faults = 0 => file[root] = memory[root]
<1>1. /\ calls # <<>> /\ calls[1].what = "load" /\ calls[1].project = root /\ ~loaded
      /\ ~\E i \in 2..Len(calls) : calls[i].what = "load" /\ calls[i].project = root
      /\ memory' = [memory EXCEPT ![root] = IF file[root] = Torn THEN Empty ELSE file[root]]
  BY DEF HostLoads, Next1
<1>2. root \in Projects /\ file[root] \in Nat /\ root \notin pending
  <2>1. calls[1] \in Calls
    BY <1>1, Left DEF Inv, SavedTypeOK
  <2>2. calls[1].project \in Projects
    BY <2>1 DEF Calls
  <2>. QED
    BY <1>1, <2>2 DEF Inv, SavedTypeOK, OnlyTheOpenWaits
<1>3. memory' = [memory EXCEPT ![root] = file[root]]
  <2>1. \A n \in Nat : n # Torn
    BY DEF Torn
  <2>2. file[root] # Torn
    BY <1>2, <2>1
  <2>. QED
    BY <1>1, <2>2
<1>4. \A i \in 1..Len(calls) : ~IsSaveOf(calls[i], root)
  <2>1. \A i \in 1..Len(calls) : IsLoadOf(calls[i], root) => i = 1
    <3>1. Len(calls) \in Nat
      BY DEF Inv, SavedTypeOK
    <3>2. \A i \in 1..Len(calls) : i = 1 \/ i \in 2..Len(calls)
      BY <3>1
    <3>. QED
      BY <1>1, <3>2 DEF IsLoadOf
  <2>. QED
    BY <1>1, <2>1 DEF Inv, ReadLast, LoadsLast
<1>5. faults = 0 => file[root] = memory[root]
  BY <1>2, <1>4 DEF Inv, SavedInTheEnd, Follows
<1>. QED
  BY <1>1, <1>2, <1>3, <1>5

LEMMA LoadsKeep == ASSUME Inv, HostLoads PROVE Inv'
<1>1. /\ calls # <<>> /\ calls[1].what = "load" /\ calls' = Tail(calls)
      /\ loaded' = loaded => memory' = memory
      /\ UNCHANGED <<root, pending, timer, lately, file, partial, window, edits, switches, faults>>
  BY DEF HostLoads, Next1
<1>2. calls \in Seq(Calls) /\ calls' \in Seq(Calls) /\ RenamesFirst(calls', partial)
  BY <1>1, Left, RenamesLeft DEF Inv, SavedTypeOK
<1>3. /\ memory' \in [Projects -> Nat] /\ loaded' \in BOOLEAN
      /\ loaded => loaded'
      /\ loaded' # loaded => root \in Projects
      /\ faults = 0 => memory' = memory
  <2>1. CASE loaded' = loaded
    BY <1>1, <2>1 DEF Inv, SavedTypeOK
  <2>2. CASE loaded' # loaded
    <3>1. /\ root \in Projects /\ ~loaded
          /\ memory' = [memory EXCEPT ![root] = file[root]]
          /\ faults = 0 => file[root] = memory[root]
      BY <2>2, LoadFindsIt
    <3>2. memory \in [Projects -> Nat] /\ file[root] \in Nat
      BY <3>1 DEF Inv, SavedTypeOK
    <3>3. loaded' \in BOOLEAN
      BY <2>2 DEF HostLoads
    <3>4. memory' \in [Projects -> Nat]
      BY <3>1, <3>2
    <3>5. faults = 0 => memory' = memory
      BY <3>1, <3>2
    <3>. QED
      BY <3>1, <3>3, <3>4, <3>5
  <2>. QED
    BY <2>1, <2>2
<1>4. faults = 0 => memory' = memory
  BY <1>3
<1>5. SavedTypeOK'
  BY <1>1, <1>2, <1>3 DEF Inv, SavedTypeOK
<1>6. OnlyTheOpenWaits' /\ ClosingIsQuiet'
  <2>1. OnlyTheOpenWaits'
    BY <1>1, <1>3 DEF Inv, SavedTypeOK, OnlyTheOpenWaits
  <2>2. ClosingIsQuiet'
    BY <1>1, <1>3 DEF Inv, SavedTypeOK, ClosingIsQuiet
  <2>. QED
    BY <2>1, <2>2
<1>7. SavedInTheEnd'
  <2>. SUFFICES ASSUME faults = 0, NEW q \in Projects \ pending
                PROVE  Follows(calls', q, file[q], memory[q])
    BY <1>1, <1>4 DEF SavedInTheEnd
  <2>1. ~IsSaveOf(calls[1], q) /\ Follows(calls, q, file[q], memory[q])
    BY <1>1 DEF IsSaveOf, Inv, SavedInTheEnd
  <2>. QED
    BY <1>1, <1>2, <2>1, FollowsLeft
<1>8. ReadLast'
  BY <1>1, <1>2, <1>3, LoadsLastLeft DEF Inv, ReadLast
<1>. QED
  BY <1>1, <1>2, <1>5, <1>6, <1>7, <1>8 DEF Inv

LEMMA WritesKeep == ASSUME Inv, HostWrites PROVE Inv'
<1>1. /\ calls # <<>> /\ calls[1].what = "save" /\ calls' = RenameNext(calls)
      /\ partial' = [partial EXCEPT ![calls[1].project] = calls[1].value]
      /\ UNCHANGED <<root, loaded, memory, pending, timer, lately, file, window, edits,
                     switches, faults>>
  BY DEF HostWrites, Next1, RenameNext
<1>2. /\ calls \in Seq(Calls) /\ calls[1] \in Calls /\ Len(calls) \in Nat
      /\ calls' \in Seq(Calls) /\ Len(calls') = Len(calls)
      /\ calls'[1].project = calls[1].project /\ calls'[1].value = calls[1].value
      /\ \A i \in 2..Len(calls) : calls'[i] = calls[i]
  BY <1>1, Left, WrittenFirst DEF Inv, SavedTypeOK
<1>3. calls[1].project \in Projects /\ calls[1].value \in Nat
  BY <1>2 DEF Calls
<1>4. SavedTypeOK'
  BY <1>1, <1>2, <1>3 DEF Inv, SavedTypeOK
<1>5. RenamesFirst(calls', partial')
  <2>1. partial'[calls'[1].project] = calls'[1].value
    BY <1>1, <1>2, <1>3 DEF Inv, SavedTypeOK
  <2>2. \A i \in 1..Len(calls') : i = 1 \/ i \in 2..Len(calls)
    BY <1>2
  <2>3. \A i \in 2..Len(calls) : calls'[i].what # "rename"
    BY <1>2 DEF Inv, RenamesFirst
  <2>. QED
    BY <2>1, <2>2, <2>3 DEF RenamesFirst
<1>6. SavedInTheEnd' /\ ReadLast'
  BY <1>1, <1>2, FollowsWritten, LoadsLastWritten DEF Inv, SavedInTheEnd, ReadLast
<1>7. OnlyTheOpenWaits' /\ ClosingIsQuiet'
  BY <1>1, <1>2 DEF Inv, OnlyTheOpenWaits, ClosingIsQuiet
<1>. QED
  BY <1>4, <1>5, <1>6, <1>7 DEF Inv

(* The rename makes the file what its save promised.                          *)
LEMMA RenamesKeep == ASSUME Inv, HostRenames PROVE Inv'
<1>1. /\ calls # <<>> /\ calls[1].what = "rename" /\ calls' = Tail(calls)
      /\ file' = [file EXCEPT ![calls[1].project] = partial[calls[1].project]]
      /\ UNCHANGED <<root, loaded, memory, pending, timer, lately, partial, window, edits,
                     switches, faults>>
  BY DEF HostRenames, Next1
<1>2. /\ calls \in Seq(Calls) /\ calls' \in Seq(Calls) /\ RenamesFirst(calls', partial)
      /\ calls[1] \in Calls /\ 1 \in 1..Len(calls)
  BY <1>1, Left, RenamesLeft DEF Inv, SavedTypeOK
<1>3. /\ calls[1].project \in Projects /\ calls[1].value \in Nat
      /\ partial[calls[1].project] = calls[1].value
  BY <1>1, <1>2 DEF Calls, Inv, RenamesFirst
<1>4. SavedTypeOK'
  BY <1>1, <1>2, <1>3 DEF Inv, SavedTypeOK
<1>5. SavedInTheEnd'
  <2>. SUFFICES ASSUME faults = 0, NEW q \in Projects \ pending
                PROVE  Follows(calls', q, file'[q], memory[q])
    BY <1>1 DEF SavedInTheEnd
  <2>1. file'[q] = IF IsSaveOf(calls[1], q) THEN calls[1].value ELSE file[q]
    BY <1>1, <1>3 DEF IsSaveOf, Inv, SavedTypeOK
  <2>2. Follows(calls, q, file[q], memory[q])
    BY DEF Inv, SavedInTheEnd
  <2>. QED
    BY <1>1, <1>2, <2>1, <2>2, FollowsLeft
<1>6. ReadLast' /\ OnlyTheOpenWaits' /\ ClosingIsQuiet'
  BY <1>1, <1>2, LoadsLastLeft DEF Inv, ReadLast, OnlyTheOpenWaits, ClosingIsQuiet
<1>. QED
  BY <1>1, <1>2, <1>4, <1>5, <1>6 DEF Inv

LEMMA NoCalls == <<>> \in Seq(Calls)
  OBVIOUS

(* A save that fails, and a program that is killed, leave the file alone.     *)
LEMMA FaultsKeep == ASSUME Inv, SaveFails \/ Crash PROVE Inv'
<1>1. CASE SaveFails
  <2>1. /\ calls # <<>> /\ calls' = Tail(calls) /\ faults' = faults + 1
        /\ UNCHANGED <<root, loaded, memory, pending, timer, lately, file, partial, window,
                       edits, switches>>
    BY <1>1 DEF SaveFails
  <2>2. calls \in Seq(Calls) /\ calls' \in Seq(Calls) /\ RenamesFirst(calls', partial)
    BY <2>1, Left, RenamesLeft DEF Inv, SavedTypeOK
  <2>3. SavedTypeOK' /\ faults' # 0
    BY <2>1, <2>2 DEF Inv, SavedTypeOK
  <2>4. ReadLast'
    BY <2>1, <2>2, LoadsLastLeft DEF Inv, ReadLast
  <2>. QED
    BY <2>1, <2>2, <2>3, <2>4 DEF Inv, SavedInTheEnd, OnlyTheOpenWaits, ClosingIsQuiet
<1>2. CASE Crash
  <2>1. /\ calls' = <<>> /\ pending' = {} /\ timer' = {} /\ lately' = Empty /\ loaded' = FALSE
        /\ window' = "open" /\ faults' = faults + 1 /\ Len(<<>>) = 0
    BY <1>2 DEF Crash
  <2>2. SavedTypeOK' /\ faults' # 0
    <3>1. calls' \in Seq(Calls)
      BY <2>1, NoCalls
    <3>2. memory' \in [Projects -> Nat]
      BY <1>2 DEF Crash, Empty
    <3>3. faults' \in Nat /\ faults' # 0 /\ lately' \in Nat
      BY <2>1 DEF Inv, SavedTypeOK, Empty
    <3>4. /\ root' \in Projects \cup {NoProject} /\ edits' \in Nat /\ switches' \in Nat
          /\ file' \in [Projects -> Nat] /\ partial' \in [Projects -> Nat]
      BY <1>2 DEF Crash, Inv, SavedTypeOK
    <3>. QED
      BY <2>1, <3>1, <3>2, <3>3, <3>4 DEF SavedTypeOK
  <2>. QED
    BY <2>1, <2>2 DEF Inv, RenamesFirst, SavedInTheEnd, OnlyTheOpenWaits, ReadLast, LoadsLast,
       ClosingIsQuiet
<1>. QED
  BY <1>1, <1>2

-----------------------------------------------------------------------------
(* The window *)

LEMMA WindowKeeps ==
    ASSUME Inv, AskToClose \/ StayOpen \/ FlushToClose \/ Close \/ UNCHANGED savedVars
    PROVE  Inv'
<1>1. CASE FlushToClose /\ loaded
  BY <1>1, FlushKeeps DEF FlushToClose
<1>2. CASE \/ AskToClose \/ StayOpen \/ Close \/ UNCHANGED savedVars
           \/ FlushToClose /\ ~loaded
  <2>1. /\ UNCHANGED <<root, loaded, memory, pending, timer, lately, calls, file, partial,
                       edits, switches, faults>>
        /\ window' \in {"open", "asking", "flushing", "closed"}
    BY <1>2 DEF AskToClose, StayOpen, Close, FlushToClose, savedVars, Inv, SavedTypeOK
  <2>2. ClosingIsQuiet'
    BY <1>2 DEF AskToClose, StayOpen, Close, FlushToClose, savedVars, Inv, ClosingIsQuiet,
       OnlyTheOpenWaits
  <2>. QED
    BY <2>1, <2>2 DEF Inv, SavedTypeOK, OnlyTheOpenWaits, SavedInTheEnd, ReadLast
<1>. QED
  BY <1>1, <1>2

LEMMA InitiallyInv == ASSUME SavedInit PROVE Inv
<1>1. calls = <<>> /\ Len(<<>>) = 0
  BY DEF SavedInit
<1>2. SavedTypeOK
  <2>1. calls \in Seq(Calls)
    BY <1>1, NoCalls
  <2>2. [p \in Projects |-> Empty] \in [Projects -> Nat] /\ Empty \in Nat
    BY DEF Empty
  <2>. QED
    BY <2>1, <2>2 DEF SavedInit, SavedTypeOK, Empty
<1>3. \A p \in Projects : Follows(calls, p, file[p], memory[p])
  <2>1. \A p \in Projects : file[p] = memory[p]
    BY DEF SavedInit
  <2>2. 1..Len(<<>>) = {}
    BY <1>1
  <2>. QED
    BY <1>1, <2>1, <2>2 DEF Follows
<1>. QED
  BY <1>1, <1>2, <1>3 DEF SavedInit, Inv, RenamesFirst, OnlyTheOpenWaits, SavedInTheEnd, ReadLast,
     LoadsLast, ClosingIsQuiet

LEMMA StepKeeps ==
    ASSUME NoProject \notin Projects, Inv, [SavedNext]_savedVars
    PROVE  Inv'
<1>1. ASSUME NEW p \in Projects, TimerFires(p)
      PROVE  Inv'
  <2>1. p = root /\ loaded /\ window # "closed" /\ Flush(root)
        /\ UNCHANGED <<root, loaded, file, partial, window, edits, switches, faults>>
    BY <1>1 DEF TimerFires, Inv, OnlyTheOpenWaits
  <2>. QED
    BY <2>1, FlushKeeps DEF Inv, SavedTypeOK
<1>2. ASSUME NEW p \in Projects \cup {NoProject}, Open(p)
      PROVE  Inv'
  BY <1>2, OpenKeeps
<1>. QED
  BY <1>1, <1>2, ChangeKeeps, LoadsKeep, WritesKeep, RenamesKeep, FaultsKeep, WindowKeeps
     DEF SavedNext

(* When a project's state has been read it is what the project's store had,   *)
(* however quickly projects are switched; once the window is closed every     *)
(* file has what its store had, what is gathered only before a save included; *)
(* both unless a save failed or the program was killed.  And a save that is   *)
(* cut off anywhere leaves a file that can be read (WorkspaceProvider.tsx:    *)
(* "So each project reopens the way it was left").                            *)
THEOREM ProjectsReopenAsLeftHolds ==
    ASSUME NoProject \notin Projects
    PROVE  SavedSpec => ProjectsReopenAsLeft
<1>1. SavedInit => Inv
  BY InitiallyInv
<1>2. Inv /\ [SavedNext]_savedVars => Inv'
  BY StepKeeps
<1>3. Inv => ClosedIsSaved /\ FileIsWhole
  <2>. SUFFICES ASSUME Inv
                PROVE  ClosedIsSaved /\ FileIsWhole
    OBVIOUS
  <2>1. FileIsWhole
    BY DEF Inv, SavedTypeOK, FileIsWhole, Torn
  <2>2. ASSUME window = "closed", faults = 0
        PROVE  lately = Empty /\ \A p \in Projects : file[p] = memory[p]
    <3>1. calls = <<>> /\ Len(<<>>) = 0 /\ pending = {} /\ lately = Empty
      BY <2>2 DEF Inv, ClosingIsQuiet
    <3>. QED
      BY <2>2, <3>1 DEF Inv, SavedInTheEnd, Follows
  <2>. QED
    BY <2>1, <2>2 DEF ClosedIsSaved
<1>4. Inv /\ [SavedNext]_savedVars => [ReopensAsLeft]_savedVars
  <2>. SUFFICES ASSUME Inv, SavedNext, ~loaded, loaded', faults = 0
                PROVE  Provided' = memory[root]
    BY DEF ReopensAsLeft
  <2>1. HostLoads
    BY DEF SavedNext, Set, Move, HostWrites, HostRenames, SaveFails, AskToClose, StayOpen,
       FlushToClose, Close, Crash, TimerFires, Open
  <2>2. root' = root /\ root \in Projects /\ memory' = [memory EXCEPT ![root] = memory[root]]
    BY <2>1, LoadFindsIt DEF HostLoads
  <2>. QED
    BY <2>2 DEF Provided, Inv, SavedTypeOK
<1>. QED
  BY <1>1, <1>2, <1>3, <1>4, PTL DEF SavedSpec, ProjectsReopenAsLeft

-----------------------------------------------------------------------------
(* The settings (Settings). Their invariant is about what storage holds: it   *)
(* loads as what is shown, and as long as it holds no colors, nothing was     *)
(* undone and an open dialog captured what is still in effect, so that a      *)
(* profile made or deleted then has the colors that are loaded with it. And   *)
(* about the history: the step undone last, or the first of the past, leads   *)
(* from what the window opened with.                                          *)

Ops == {"setAccent", "setEditorTheme", "setEditorColor", "resetEditorColors", "createEditorProfile",
        "deleteEditorProfile", "importEditorProfile", "font", "size", "resetEditorPreferences"}

IsSettings(s) == s = [f \in Fields |-> s[f]]
IsStep(step) == /\ step = [before |-> step.before, change |-> step.change]
                /\ IsSettings(step.before) /\ Op(step.change) \in Ops
IsHistory(h) == h \in Seq(Range(h)) /\ \A step \in Range(h) : IsStep(step)

SettingsTypeOK ==
    /\ IsSettings(shown) /\ IsSettings(stored) /\ persists \in BOOLEAN /\ made \in Nat
    /\ IsHistory(past) /\ IsHistory(future)

NoColorsYet ==
    /\ future = <<>>
    /\ asking.kind = "new" => asking.colors = shown.colors
    /\ asking.kind = "delete" => asking.id = shown.theme
    /\ \A p \in shown.profiles : \E i \in 1..made : p.id = CustomIds[i]

LeadsFromOriginal ==
    IF past = <<>> THEN original \in {<<>>, <<shown>>} /\ (future # <<>> => Last(future).before = shown)
    ELSE original \in {<<>>, <<past[1].before>>}

SettingsInv ==
    /\ SettingsTypeOK /\ RestartShowsTheSame /\ LeadsFromOriginal
    /\ persists /\ stored.colors = <<>> => NoColorsYet

(* ---- Sequences of steps ---- *)

(* A sequence of steps is a history. *)
LEMMA StepsAreHistory ==
    ASSUME NEW S, NEW h \in Seq(S), \A step \in S : IsStep(step) PROVE IsHistory(h)
BY SeqOfRange, RangeOfSeq DEF IsHistory

LEMMA NothingDone == IsHistory(<<>>)
<1>1. <<>> \in Seq({})
    BY EmptySeq
<1>2. <<>> \in Seq(Range(<<>>))
    BY <1>1, SeqOfRange
<1>3. Range(<<>>) \in SUBSET {}
    BY <1>1, RangeOfSeq
<1> QED BY <1>2, <1>3 DEF IsHistory

(* A step more is a history still. *)
LEMMA OneStepMore ==
    ASSUME NEW h, IsHistory(h), NEW step, IsStep(step)
    PROVE  /\ IsHistory(Append(h, step)) /\ Append(h, step) # <<>>
           /\ Append(h, step)[1] = IF h = <<>> THEN step ELSE h[1]
<1> DEFINE S == Range(h) \cup {step}
<1>1. h \in Seq(S) /\ step \in S
    BY SeqMonotonic DEF IsHistory
<1>2. /\ Append(h, step) \in Seq(S) /\ Append(h, step) # <<>>
      /\ \A i \in 1..Len(h) : Append(h, step)[i] = h[i]
      /\ Append(h, step)[Len(h) + 1] = step
    BY <1>1, AppendProperties
<1>3. IF h = <<>> THEN Len(h) = 0 ELSE 1 \in 1..Len(h)
    BY <1>1, EmptySeq
<1>4. \A x \in S : IsStep(x)
    BY DEF IsHistory
<1>5. IsHistory(Append(h, step))
    BY <1>2, <1>4, StepsAreHistory
<1> QED BY <1>2, <1>3, <1>5

(* The last step taken off leaves a history, with the first step while there   *)
(* is one.                                                                     *)
LEMMA OneStepLess ==
    ASSUME NEW h, IsHistory(h), h # <<>>
    PROVE  /\ IsHistory(Front(h)) /\ IsStep(Last(h))
           /\ IF Front(h) = <<>> THEN Last(h) = h[1] ELSE Front(h)[1] = h[1]
<1> DEFINE S == Range(h)
           n == Len(h)
<1>1. h \in Seq(S) /\ n \in Nat \ {0} /\ \A step \in S : IsStep(step)
    BY EmptySeq DEF IsHistory
<1>2. \A i \in 1..n : h[i] \in S
    BY <1>1, ElementOfSeq
<1>3. /\ Front(h) \in Seq(S) /\ Len(Front(h)) = n - 1
      /\ \A i \in 1..(n - 1) : Front(h)[i] = h[i]
    <2>1. /\ SubSeq(h, 1, n - 1) \in Seq(S)
          /\ Len(SubSeq(h, 1, n - 1)) = IF 1 <= n - 1 THEN n - 1 - 1 + 1 ELSE 0
          /\ \A i \in 1..(n - 1 - 1 + 1) : SubSeq(h, 1, n - 1)[i] = h[1 + i - 1]
        BY <1>1, <1>2, SubSeqProperties
    <2>2. n - 1 - 1 + 1 = n - 1 /\ (IF 1 <= n - 1 THEN n - 1 - 1 + 1 ELSE 0) = n - 1
        <3>1. \A m \in Nat \ {0} :
                 m - 1 - 1 + 1 = m - 1 /\ (IF 1 <= m - 1 THEN m - 1 - 1 + 1 ELSE 0) = m - 1
            OBVIOUS
        <3> QED BY <1>1, <3>1
    <2>3. \A i \in 1..(n - 1) : 1 + i - 1 = i
        BY <1>1
    <2>4. Front(h) = SubSeq(h, 1, n - 1)
        BY DEF Front
    <2> HIDE DEF S, n
    <2> QED BY <2>1, <2>2, <2>3, <2>4
<1>4. IsHistory(Front(h)) /\ IsStep(Last(h))
    BY <1>1, <1>2, <1>3, StepsAreHistory DEF Last
<1>5. Front(h) = <<>> => n = 1
    BY <1>1, <1>3
<1>6. Front(h) # <<>> => 1 \in 1..(n - 1)
    BY <1>1, <1>3, EmptySeq
<1> QED BY <1>3, <1>4, <1>5, <1>6 DEF Last

(* The oldest step dropped leaves a history. *)
LEMMA OldestDropped ==
    ASSUME NEW h, IsHistory(h), h # <<>> PROVE IsHistory(Tail(h))
BY HeadTailProperties, StepsAreHistory DEF IsHistory

(* A change that joins the last step leaves what each step takes back. *)
LEMMA JoinedStep ==
    ASSUME NEW h, IsHistory(h), h # <<>>, NEW c, Op(c) \in Ops
    PROVE  LET joined == [h EXCEPT ![Len(h)].change = c]
           IN  IsHistory(joined) /\ joined # <<>> /\ joined[1].before = h[1].before
<1> DEFINE n == Len(h)
           joined == [h EXCEPT ![n].change = c]
           last == [before |-> h[n].before, change |-> c]
           S == Range(h) \cup {last}
<1>1. h \in Seq(S) /\ n \in Nat \ {0}
    BY EmptySeq, SeqMonotonic DEF IsHistory
<1>2. IsStep(h[n])
    BY <1>1, ElementOfSeq DEF IsHistory
<1>3. [h[n] EXCEPT !.change = c] = last
    BY <1>2 DEF IsStep
<1>4. \A step \in S : IsStep(step)
    BY <1>2 DEF IsStep, IsHistory
<1>5. joined = [h EXCEPT ![n] = last]
    BY <1>3
<1>6. last \in S /\ n \in 1..Len(h)
    BY <1>1
<1>7. /\ joined \in Seq(S) /\ Len(joined) = n
      /\ \A i \in 1..n : joined[i] = IF i = n THEN last ELSE h[i]
    BY <1>1, <1>5, <1>6, ExceptSeq
<1>8. IsHistory(joined)
    BY <1>4, <1>7, StepsAreHistory
<1>9. joined[1].before = h[1].before
    BY <1>1, <1>7
<1>10. joined # <<>>
    BY <1>1, <1>7, EmptySeq
<1> QED BY <1>8, <1>9, <1>10

(* ---- What a change leaves alone ---- *)

(* A change changes nothing but what it writes. *)
LEMMA ResultIs ==
    ASSUME IsSettings(shown), NEW c, Op(c) \in Ops
    PROVE  /\ IsSettings(Result(shown, c))
           /\ \A f \in Fields \ Written(c) : Result(shown, c)[f] = shown[f]
<1> DEFINE s == Result(shown, c)
<1>1. shown = [f \in Fields |-> shown[f]]
    BY DEF IsSettings
<1> USE <1>1 DEF Fields, IsSettings, Result, Written
<1>2. CASE Op(c) = "setAccent"
    BY <1>2
<1>3. CASE Op(c) = "setEditorTheme"
    BY <1>3 DEF SetEditorTheme
<1>4. CASE Op(c) = "setEditorColor"
    BY <1>4
<1>5. CASE Op(c) = "resetEditorColors"
    BY <1>5 DEF ResetEditorColors
<1>6. CASE Op(c) = "createEditorProfile"
    BY <1>6 DEF CreateEditorProfile
<1>7. CASE Op(c) = "deleteEditorProfile"
    BY <1>7 DEF DeleteEditorProfile
<1>8. CASE Op(c) = "importEditorProfile"
    BY <1>8 DEF ImportEditorProfile
<1>9. CASE Op(c) = "font"
    BY <1>9
<1>10. CASE Op(c) = "size"
    BY <1>10
<1>11. CASE Op(c) = "resetEditorPreferences"
    BY <1>11
<1> QED BY <1>2, <1>3, <1>4, <1>5, <1>6, <1>7, <1>8, <1>9, <1>10, <1>11 DEF Ops

(* The ids of the profiles made. *)
MadeIdsOnly == \A p \in shown.profiles : \E i \in 1..made : p.id = CustomIds[i]

(* The colors that no storage holds are those of the profile in use, after a   *)
(* change that does not write them too.                                        *)
LEMMA ColorsOfTheProfile ==
    ASSUME SettingsInv, persists, stored.colors = <<>>, NEW c, Op(c) \in Ops,
           shown' = Result(shown, c), made' = IF Makes(c) THEN made + 1 ELSE made,
           Makes(c) => made < Len(CustomIds), "colors" \notin Written(c),
           Op(c) = "createEditorProfile" => Held(c) = shown.colors,
           Op(c) = "deleteEditorProfile" => Arg(c) = shown.theme
    PROVE  shown'.colors = SchemeForId(shown'.profiles, shown'.theme) /\ MadeIdsOnly'
<1>1. shown = [f \in Fields |-> shown[f]] /\ MadeIdsOnly
    BY DEF SettingsInv, SettingsTypeOK, IsSettings, NoColorsYet, MadeIdsOnly
<1>2. shown.colors = SchemeForId(shown.profiles, shown.theme)
    <2>1. Loaded(stored) = shown
        BY DEF SettingsInv, RestartShowsTheSame
    <2>2. /\ LoadStoredEditorTheme(stored) = shown.theme /\ LoadCustomProfiles(stored) = shown.profiles
          /\ LoadStoredEditorColors(stored) = shown.colors
        BY <2>1 DEF Loaded
    <2> QED BY <2>2 DEF LoadStoredEditorColors, Or
<1>3. /\ Op(c) \in Ops \ {"setEditorTheme", "setEditorColor", "deleteEditorProfile"}
      /\ Op(c) = "importEditorProfile" => Held(c) = <<>>
      /\ Op(c) = "resetEditorColors" => ~IsBuiltIn(Held(c))
    BY DEF Written, Ops
<1>4. CASE Op(c) = "createEditorProfile"
    <2> DEFINE new == CustomIds[made + 1]
               p == Profile(new, Arg(c), Held(c))
    <2>1. /\ shown'.profiles = shown.profiles \cup {p} /\ shown'.theme = new
          /\ shown'.colors = shown.colors /\ made' = made + 1
        BY <1>1, <1>4 DEF Result, CreateEditorProfile, Makes, Fields
    <2>2. p.id = new /\ p.colors = Held(c)
        BY DEF Profile
    <2>3. made \in Nat /\ made + 1 \in 1..Len(CustomIds)
        BY <1>4, SettingsAssumption, LenProperties DEF Makes, SettingsInv, SettingsTypeOK
    <2>4. \A i \in 1..made : CustomIds[i] # new
        BY <2>3, SettingsAssumption, LenProperties DEF IsInjective
    <2>5. \A q \in shown.profiles : q.id # new
        BY <1>1, <2>4 DEF MadeIdsOnly
    <2> HIDE DEF p, new
    <2>6. SchemeForId(shown'.profiles, new) = Held(c)
        <3>1. \A q \in shown'.profiles : q.id = new <=> q = p
            BY <2>1, <2>2, <2>5
        <3>2. p \in shown'.profiles
            BY <2>1
        <3> QED BY <2>2, <3>1, <3>2 DEF SchemeForId
    <2>7. MadeIdsOnly'
        BY <1>1, <2>1, <2>2, <2>3 DEF MadeIdsOnly, new
    <2> QED BY <1>4, <2>1, <2>6, <2>7
<1>5. CASE Op(c) # "createEditorProfile"
    <2>1. shown'.profiles = shown.profiles /\ shown'.theme = shown.theme /\ shown'.colors = shown.colors
        BY <1>1, <1>3, <1>5 DEF Result, ResetEditorColors, ImportEditorProfile, Ops, Fields
    <2>2. made' = made
        BY <1>3, <1>5 DEF Makes
    <2> QED BY <1>1, <1>2, <2>1, <2>2 DEF MadeIdsOnly
<1> QED BY <1>4, <1>5

(* Storage follows a change. *)
LEMMA StorageFollows ==
    ASSUME SettingsInv, NEW c, Op(c) \in Ops, Made(c), Makes(c) => made < Len(CustomIds), persists' = persists,
           persists /\ stored.colors = <<>> /\ Op(c) = "createEditorProfile" => Held(c) = shown.colors,
           persists /\ stored.colors = <<>> /\ Op(c) = "deleteEditorProfile" => Arg(c) = shown.theme
    PROVE  /\ IsSettings(shown') /\ IsSettings(stored') /\ made' \in Nat /\ RestartShowsTheSame'
           /\ persists /\ stored'.colors = <<>> =>
                MadeIdsOnly' /\ stored.colors = <<>> /\ "colors" \notin Written(c)
<1>1. shown' = Result(shown, c) /\ IsSettings(shown') /\ \A f \in Fields \ Written(c) : shown'[f] = shown[f]
    BY ResultIs DEF Made, SettingsInv, SettingsTypeOK
<1>2. IsSettings(stored') /\ made' \in Nat
    <2>1. made' \in Nat
        BY DEF Made, SettingsInv, SettingsTypeOK
    <2>2. CASE persists
        <3>1. stored' = [f \in Fields |-> IF f \in Written(c) THEN <<shown'[f]>> ELSE stored[f]]
            BY <2>2 DEF Made, Store
        <3>2. [f \in Fields |-> stored'[f]] = [f \in Fields |-> IF f \in Written(c) THEN <<shown'[f]>> ELSE stored[f]]
            BY <3>1
        <3> QED BY <2>1, <3>1, <3>2 DEF IsSettings
    <2>3. CASE ~persists
        BY <2>3 DEF Made, Store, SettingsInv, SettingsTypeOK, IsSettings
    <2> QED BY <2>1, <2>2, <2>3
<1>3. CASE ~persists
    BY <1>1, <1>2, <1>3 DEF RestartShowsTheSame
<1>4. CASE persists
    <2>1. stored' = [f \in Fields |-> IF f \in Written(c) THEN <<shown'[f]>> ELSE stored[f]]
        BY <1>4 DEF Made, Store
    <2>2. /\ Or(stored.accent, Accents[1]) = shown.accent /\ Or(stored.theme, DefaultTheme) = shown.theme
          /\ Or(stored.profiles, {}) = shown.profiles /\ Or(stored.prefs, DefaultPrefs) = shown.prefs
          /\ Or(stored.colors, SchemeForId(shown.profiles, shown.theme)) = shown.colors
        BY <1>4 DEF SettingsInv, RestartShowsTheSame, Loaded, LoadStoredAccent, LoadStoredEditorTheme,
                    LoadCustomProfiles, LoadStoredEditorColors, LoadEditorPreferences
    <2>3. \A v, d : Or(<<v>>, d) = v /\ <<v>> # <<>>
        BY DEF Or
    <2>4. Or(stored'.accent, Accents[1]) = shown'.accent /\ Or(stored'.theme, DefaultTheme) = shown'.theme
        BY <1>1, <2>1, <2>2, <2>3 DEF Fields
    <2>5. Or(stored'.profiles, {}) = shown'.profiles /\ Or(stored'.prefs, DefaultPrefs) = shown'.prefs
        BY <1>1, <2>1, <2>2, <2>3 DEF Fields
    <2>6. stored'.colors = IF "colors" \in Written(c) THEN <<shown'.colors>> ELSE stored.colors
        BY <2>1 DEF Fields
    <2>7. stored'.colors = <<>> => "colors" \notin Written(c) /\ stored.colors = <<>>
        BY <2>3, <2>6
    <2>8. stored'.colors = <<>> => shown'.colors = SchemeForId(shown'.profiles, shown'.theme) /\ MadeIdsOnly'
        BY <1>1, <1>4, <2>7, ColorsOfTheProfile DEF Made
    <2>9. Or(stored'.colors, SchemeForId(shown'.profiles, shown'.theme)) = shown'.colors
        <3>1. CASE "colors" \in Written(c)
            BY <2>3, <2>6, <3>1
        <3>2. CASE "colors" \notin Written(c) /\ stored.colors # <<>>
            BY <1>1, <2>2, <2>6, <3>2 DEF Or, Fields
        <3>3. CASE stored'.colors = <<>>
            BY <2>8, <3>3 DEF Or
        <3> QED BY <2>6, <3>1, <3>2, <3>3
    <2>10. Loaded(stored') = shown'
        <3>1. shown' = [f \in Fields |-> shown'[f]]
            BY <1>1 DEF IsSettings
        <3>2. Loaded(stored') = [accent |-> shown'.accent, theme |-> shown'.theme, profiles |-> shown'.profiles,
                                 colors |-> shown'.colors, prefs |-> shown'.prefs]
            BY <2>4, <2>5, <2>9 DEF Loaded, LoadStoredAccent, LoadStoredEditorTheme, LoadCustomProfiles,
                                    LoadStoredEditorColors, LoadEditorPreferences
        <3> QED BY <3>1, <3>2 DEF Fields
    <2> QED BY <1>1, <1>2, <2>7, <2>8, <2>10 DEF RestartShowsTheSame
<1> QED BY <1>3, <1>4 DEF SettingsInv, SettingsTypeOK

(* ---- The invariant ---- *)

LEMMA InitiallySettings == ASSUME SettingsInit PROVE SettingsInv
<1>1. IsHistory(<<>>)
    BY NothingDone
<1>2. IsSettings(shown) /\ IsSettings(stored) /\ shown.profiles = {}
    BY DEF SettingsInit, IsSettings, Loaded, LoadCustomProfiles, Or, NothingStored, Fields
<1>3. asking.kind = "none"
    BY DEF SettingsInit, NoDialog
<1> QED BY <1>1, <1>2, <1>3 DEF SettingsInit, SettingsInv, SettingsTypeOK, RestartShowsTheSame,
               LeadsFromOriginal, NoColorsYet

(* What a tracked change's step is and does to the history. *)
LEMMA HistoryGrows ==
    ASSUME SettingsInv, NEW c, Op(c) \in Ops, past' = Pushed(shown, c),
           original' = IF ~Joins(c) /\ Len(past) = Limit THEN <<>> ELSE original
    PROVE  IsHistory(past') /\ past' # <<>> /\ original' \in {<<>>, <<past'[1].before>>}
<1> DEFINE step == [before |-> shown, change |-> c]
<1>1. IsHistory(past) /\ IsStep(step) /\ step.before = shown
    BY DEF SettingsInv, SettingsTypeOK, IsStep
<1>2. original \in {<<>>, IF past = <<>> THEN <<shown>> ELSE <<past[1].before>>}
    BY DEF SettingsInv, LeadsFromOriginal
<1>3. CASE Joins(c)
    <2>1. past # <<>> /\ past' = [past EXCEPT ![Len(past)].change = c]
        BY <1>3 DEF Joins, Pushed
    <2> QED BY <1>1, <1>2, <1>3, <2>1, JoinedStep
<1>4. CASE ~Joins(c) /\ Len(past) = Limit
    <2>1. past # <<>>
        BY <1>4, EmptySeq, SettingsAssumption
    <2>2. past' = Append(Tail(past), step) /\ original' = <<>>
        BY <1>4 DEF Pushed
    <2> QED BY <1>1, <2>1, <2>2, OldestDropped, OneStepMore
<1>5. CASE ~Joins(c) /\ Len(past) # Limit
    <2>1. past' = Append(past, step) /\ original' = original
        BY <1>5 DEF Pushed
    <2> HIDE DEF step
    <2> QED BY <1>1, <1>2, <2>1, OneStepMore
<1> QED BY <1>3, <1>4, <1>5

(* A tracked change keeps the invariant, if what was captured for it is as it  *)
(* is in effect while storage holds no colors.                                 *)
LEMMA TrackedKeeps ==
    ASSUME SettingsInv, NEW c, Op(c) \in Ops, Tracked(c),
           persists /\ stored.colors = <<>> /\ Op(c) = "createEditorProfile" => Held(c) = shown.colors,
           persists /\ stored.colors = <<>> /\ Op(c) = "deleteEditorProfile" => Arg(c) = shown.theme,
           \/ asking'.kind = "none"
           \/ asking' = asking /\ (Op(c) = "importEditorProfile" /\ ("colors" \notin Written(c) => shown' = shown))
    PROVE  SettingsInv'
<1>1. /\ IsSettings(shown') /\ IsSettings(stored') /\ made' \in Nat /\ RestartShowsTheSame'
      /\ persists /\ stored'.colors = <<>> => MadeIdsOnly' /\ stored.colors = <<>> /\ "colors" \notin Written(c)
    BY StorageFollows DEF Tracked
<1>2. IsHistory(past') /\ past' # <<>> /\ original' \in {<<>>, <<past'[1].before>>}
    BY HistoryGrows DEF Tracked
<1>3. future' = <<>> /\ IsHistory(future') /\ persists' = persists
    BY NothingDone DEF Tracked
<1>4. persists /\ stored'.colors = <<>> => NoColorsYet'
    BY <1>1, <1>3 DEF NoColorsYet, MadeIdsOnly, SettingsInv
<1> QED BY <1>1, <1>2, <1>3, <1>4 DEF SettingsInv, SettingsTypeOK, LeadsFromOriginal

(* What leaves the settings and their history alone keeps the invariant. *)
LEMMA RestingKeeps ==
    ASSUME SettingsInv, UNCHANGED <<shown, stored, persists, past, future, made, original>>,
           \/ asking' = asking \/ asking'.kind = "none"
           \/ asking'.kind = "new" /\ asking'.colors = shown.colors
           \/ asking'.kind = "delete" /\ asking'.id = shown.theme
    PROVE  SettingsInv'
BY DEF SettingsInv, SettingsTypeOK, RestartShowsTheSame, LeadsFromOriginal, NoColorsYet, IsHistory

LEMMA UndoKeeps == ASSUME SettingsInv, Undo PROVE SettingsInv'
<1> DEFINE step == Last(past)
<1>1. IsHistory(past) /\ IsHistory(future) /\ past # <<>>
    BY DEF Undo, SettingsInv, SettingsTypeOK
<1>2. IsStep(step) /\ IsSettings(step.before)
    BY <1>1, OneStepLess DEF IsStep
<1>3. shown' = step.before /\ past' = Front(past) /\ future' = Append(future, step)
    BY DEF Undo, Restored
<1>4. IsHistory(past') /\ IsHistory(future')
    BY <1>1, <1>2, <1>3, OneStepLess, OneStepMore
<1>5. LeadsFromOriginal'
    <2>1. original' = original /\ original \in {<<>>, <<past[1].before>>}
        BY <1>1 DEF Undo, SettingsInv, LeadsFromOriginal
    <2>2. IF past' = <<>> THEN step = past[1] ELSE past'[1] = past[1]
        BY <1>1, <1>3, OneStepLess
    <2>3. Last(future') = step
        <3>1. future \in Seq(Range(future) \cup {step})
            BY <1>1, SeqMonotonic DEF IsHistory
        <3>2. Len(Append(future, step)) = Len(future) + 1 /\ Append(future, step)[Len(future) + 1] = step
            BY <3>1, AppendProperties
        <3> QED BY <1>3, <3>2 DEF Last
    <2> QED BY <1>3, <2>1, <2>2, <2>3 DEF LeadsFromOriginal
<1>6. IsSettings(stored') /\ RestartShowsTheSame' /\ (persists => stored'.colors # <<>>)
    <2>1. CASE ~persists
        BY <2>1 DEF Undo, Store, SettingsInv, SettingsTypeOK, RestartShowsTheSame
    <2>2. CASE persists
        <3>1. stored' = [f \in Fields |-> <<shown'[f]>>]
            BY <2>2 DEF Undo, Store
        <3>2. \A v, d : Or(<<v>>, d) = v /\ <<v>> # <<>>
            BY DEF Or
        <3>3. Loaded(stored') = [accent |-> shown'.accent, theme |-> shown'.theme, profiles |-> shown'.profiles,
                                 colors |-> shown'.colors, prefs |-> shown'.prefs]
            BY <3>1, <3>2 DEF Loaded, LoadStoredAccent, LoadStoredEditorTheme, LoadCustomProfiles,
                              LoadStoredEditorColors, LoadEditorPreferences, Fields
        <3>4. shown' = [f \in Fields |-> shown'[f]]
            BY <1>2, <1>3 DEF IsSettings
        <3>5. Loaded(stored') = shown'
            BY <3>3, <3>4 DEF Fields
        <3> QED BY <3>1, <3>2, <3>5 DEF RestartShowsTheSame, IsSettings, Fields
    <2> QED BY <2>1, <2>2 DEF SettingsInv, SettingsTypeOK
<1> QED BY <1>2, <1>3, <1>4, <1>5, <1>6 DEF SettingsInv, SettingsTypeOK, Undo

LEMMA RedoKeeps == ASSUME SettingsInv, Redo PROVE SettingsInv'
<1> DEFINE step == Last(future)
           c == step.change
<1>1. IsHistory(past) /\ IsHistory(future) /\ future # <<>>
    BY DEF Redo, SettingsInv, SettingsTypeOK
<1>2. IsStep(step) /\ Op(c) \in Ops
    BY <1>1, OneStepLess DEF IsStep
<1>3. past' = Append(past, step) /\ future' = Front(future) /\ persists' = persists /\ original' = original
    BY DEF Redo
<1>4. IsHistory(past') /\ IsHistory(future') /\ past' # <<>>
      /\ past'[1] = IF past = <<>> THEN step ELSE past[1]
    BY <1>1, <1>2, <1>3, OneStepLess, OneStepMore
<1>5. LeadsFromOriginal'
    BY <1>1, <1>3, <1>4 DEF SettingsInv, LeadsFromOriginal
<1>6. ~(persists /\ stored.colors = <<>>)
    BY <1>1 DEF SettingsInv, NoColorsYet
<1>7. /\ IsSettings(shown') /\ IsSettings(stored') /\ made' \in Nat /\ RestartShowsTheSame'
      /\ persists => stored'.colors # <<>>
    <2>1. Made(c) /\ (Makes(c) => made < Len(CustomIds))
        BY DEF Redo
    <2> HIDE DEF c
    <2> QED BY <1>2, <1>3, <1>6, <2>1, StorageFollows
<1> QED BY <1>3, <1>4, <1>5, <1>7 DEF SettingsInv, SettingsTypeOK

LEMMA RestartKeeps == ASSUME SettingsInv, Restart PROVE SettingsInv'
<1>1. IsHistory(<<>>)
    BY NothingDone
<1>2. IsSettings(shown')
    BY DEF Restart, IsSettings, Loaded, Fields
<1>3. asking'.kind = "none"
    BY DEF Restart, NoDialog
<1>4. RestartShowsTheSame' /\ LeadsFromOriginal'
    BY DEF Restart, RestartShowsTheSame, LeadsFromOriginal
<1>5. persists => shown' = shown
    BY DEF Restart, SettingsInv, RestartShowsTheSame
<1>6. persists /\ stored'.colors = <<>> => NoColorsYet'
    BY <1>3, <1>5 DEF Restart, SettingsInv, NoColorsYet
<1> QED BY <1>1, <1>2, <1>4, <1>6 DEF Restart, SettingsInv, SettingsTypeOK

LEMMA OpOfChange == \A op, arg, held :
    Op(Change(op, arg, held)) = op /\ Arg(Change(op, arg, held)) = arg /\ Held(Change(op, arg, held)) = held
BY DEF Op, Arg, Held, Change

(* A page's control changes something while no dialog is open. *)
LEMMA ControlKeeps ==
    ASSUME SettingsInv, NEW op, NEW arg, NEW held, Tracked(Change(op, arg, held)), NotAsking, asking' = asking,
           op \in Ops \ {"createEditorProfile", "deleteEditorProfile"}
    PROVE  SettingsInv'
<1>1. asking'.kind = "none"
    BY DEF NotAsking, NoDialog
<1> QED BY <1>1, OpOfChange, TrackedKeeps

LEMMA SettingsSteps == SettingsInv /\ [SettingsNext]_settingsVars => SettingsInv'
<1> SUFFICES ASSUME SettingsInv, [SettingsNext]_settingsVars PROVE SettingsInv'
    OBVIOUS
<1>1. CASE UNCHANGED settingsVars
    BY <1>1, RestingKeeps DEF settingsVars
<1>2. CASE SetAccent \/ ChooseProfile \/ PickColor \/ ResetColors
    BY <1>2, ControlKeeps DEF SetAccent, ChooseProfile, PickColor, ResetColors, OthersStay, Ops
<1>3. CASE TypeFont \/ ResetPreferences
    BY <1>3, ControlKeeps DEF TypeFont, ResetPreferences, Ops
<1>4. CASE TypeSize
    <2> PICK n : IF n \in Fitting THEN Tracked(Change("size", "size", n))
                 ELSE UNCHANGED <<shown, stored, persists, past, future, recent, made, changed, restarts, original>>
        BY <1>4 DEF TypeSize
    <2> QED BY <1>4, ControlKeeps, RestingKeeps DEF TypeSize, Ops
<1>5. CASE OpenPicker \/ ClosePicker \/ LeaveSize \/ Search \/ ShowSection \/ Pause \/ PickFile
    BY <1>5, RestingKeeps DEF OpenPicker, ClosePicker, LeaveSize, Search, ShowSection, Pause, PickFile
<1>6. CASE AskNew \/ AskDelete \/ Cancel
    <2>1. \/ asking'.kind = "none"
          \/ asking'.kind = "new" /\ asking'.colors = shown.colors
          \/ asking'.kind = "delete" /\ asking'.id = shown.theme
        BY <1>6 DEF AskNew, AskDelete, Cancel, NoDialog
    <2> QED BY <1>6, <2>1, RestingKeeps DEF AskNew, AskDelete, Cancel
<1>7. CASE NewProfile
    <2>1. PICK name : Tracked(Change("createEditorProfile", name, asking.colors))
        BY <1>7 DEF NewProfile
    <2>2. asking.kind = "new" /\ asking'.kind = "none"
        BY <1>7 DEF NewProfile, NoDialog
    <2>3. persists /\ stored.colors = <<>> => asking.colors = shown.colors
        BY <2>2 DEF SettingsInv, NoColorsYet
    <2> QED BY <2>1, <2>2, <2>3, OpOfChange, TrackedKeeps DEF Ops
<1>8. CASE DeleteProfile
    <2>1. Tracked(Change("deleteEditorProfile", asking.id, Absent))
        BY <1>8 DEF DeleteProfile
    <2>2. asking.kind = "delete" /\ asking'.kind = "none"
        BY <1>8 DEF DeleteProfile, NoDialog
    <2>3. persists /\ stored.colors = <<>> => asking.id = shown.theme
        BY <2>2 DEF SettingsInv, NoColorsYet
    <2> QED BY <2>1, <2>2, <2>3, OpOfChange, TrackedKeeps DEF Ops
<1>9. CASE FileRead
    <2>1. PICK picked : Tracked(Change("importEditorProfile", picked, picked))
        BY <1>9 DEF FileRead
    <2> DEFINE c == Change("importEditorProfile", picked, picked)
    <2>2. Op(c) = "importEditorProfile" /\ Op(c) \in Ops /\ Held(c) = picked /\ Tracked(c)
        BY <2>1, OpOfChange DEF Ops
    <2> HIDE DEF c
    <2>3. "colors" \notin Written(c) => shown' = shown
        BY <2>2 DEF Written, Tracked, Made, Result, ImportEditorProfile
    <2>4. asking' = asking
        BY <1>9 DEF FileRead
    <2> QED BY <2>2, <2>3, <2>4, TrackedKeeps
<1>10. CASE Undo \/ Redo \/ Restart
    BY <1>10, UndoKeeps, RedoKeeps, RestartKeeps
<1> QED BY <1>1, <1>2, <1>3, <1>4, <1>5, <1>6, <1>7, <1>8, <1>9, <1>10
        DEF SettingsNext, ProfileNext, PreferencesNext, SectionNext

(* The settings come back: a restart shows what is shown, where storage is     *)
(* available, and all steps undone is what the window opened with, whatever    *)
(* dialogs and files answered late.                                            *)
THEOREM SettingsComeBackHolds == SettingsSpec => []SettingsComeBack
<1>1. SettingsInv => SettingsComeBack
    BY DEF SettingsInv, SettingsComeBack, LeadsFromOriginal, AllUndoneIsOriginal
<1>2. SettingsInit => SettingsInv
    BY InitiallySettings
<1> QED BY <1>1, <1>2, SettingsSteps, PTL DEF SettingsSpec

-----------------------------------------------------------------------------
(* The language (Localization): each window either has yet to hear of the     *)
(* choice in storage or shows it, and no window hears of more than one.       *)

(* The forms of a text are those of the language the text is in. *)
LEMMA FormsOfText ==
    ASSUME NEW known \in SUBSET Locales, NEW tag, NEW n \in Counts
    PROVE  TextsIn(known, tag).forms[n] = PluralsOf[LanguageOf[TextsIn(known, tag).text]][n]
<1>1. TextsIn(known, tag).forms[n] = PluralForm(known, tag, n) /\ TextsIn(known, tag).text = T(known, tag)
    BY DEF TextsIn
<1>2. CASE CatalogFor(known, tag) = NoLocale
    BY <1>1, <1>2, LocaleAssumption DEF PluralForm, T
<1>3. CASE tag \in known
    BY <1>1, <1>3, LocaleAssumption DEF PluralForm, T, CatalogFor, ResolvedLocale
<1>4. CASE tag \notin known /\ LanguageOf[tag] \in known
    BY <1>1, <1>4, LocaleAssumption DEF PluralForm, T, CatalogFor, ResolvedLocale
<1> QED BY <1>2, <1>3, <1>4 DEF CatalogFor

LocaleTypeOK ==
    /\ catalogs \in [Windows -> SUBSET Locales]
    /\ explicit = [w \in Windows |-> explicit[w]] /\ inEffect = [w \in Windows |-> inEffect[w]]
    /\ rendered = [w \in Windows |-> rendered[w]] /\ events = [w \in Windows |-> events[w]]

\* A window hears of the one choice in storage it has not heard of, or shows it.
HearsOrShows(w) ==
    \/ writable /\ events[w] = <<saved>>
    \/ events[w] = <<>> /\ (writable => explicit[w] = saved /\ inEffect[w] = Chosen(saved))

LocaleInv == LocaleTypeOK /\ TextIsCurrent /\ \A w \in Windows : HearsOrShows(w)

LEMMA LocaleInitial == LocaleInit => LocaleInv
BY DEF LocaleInit, LocaleInv, LocaleTypeOK, TextIsCurrent, HearsOrShows

(* A window that notifies shows its text; the others go on showing theirs. *)
LEMMA NotifiedIsCurrent ==
    ASSUME LocaleInv, NEW w \in Windows, Notify(w),
           catalogs' \in [Windows -> SUBSET Locales],
           \A v \in Windows \ {w} : catalogs'[v] = catalogs[v] /\ inEffect'[v] = inEffect[v]
    PROVE  TextIsCurrent' /\ rendered' = [v \in Windows |-> rendered'[v]]
BY DEF LocaleInv, LocaleTypeOK, TextIsCurrent, Notify

LEMMA LocaleStep == LocaleInv /\ [LocaleNext]_localeVars => LocaleInv'
<1> SUFFICES ASSUME LocaleInv, [LocaleNext]_localeVars PROVE LocaleInv'
    OBVIOUS
<1> USE DEF LocaleInv, LocaleTypeOK
<1>1. CASE UNCHANGED localeVars
    BY <1>1 DEF localeVars, TextIsCurrent, HearsOrShows
<1>2. ASSUME NEW w \in Windows, Choose(w) PROVE LocaleInv'
    <2>1. PICK l : SetLocale(w, l) /\ \A v \in Windows : events[v] = <<>>
        BY <1>2 DEF Choose
    <2>2. TextIsCurrent' /\ LocaleTypeOK'
        <3>1. events' = [v \in Windows |-> events'[v]]
            BY <2>1 DEF SetLocale, Saved
        <3> QED BY <2>1, <3>1, NotifiedIsCurrent DEF SetLocale
    <2>3. ASSUME NEW v \in Windows PROVE HearsOrShows(v)'
        <3>1. CASE writable /\ saved # l /\ v # w
            BY <2>1, <3>1 DEF SetLocale, Saved, HearsOrShows
        <3>2. CASE writable /\ saved # l /\ v = w
            BY <2>1, <3>2 DEF SetLocale, Saved, HearsOrShows
        <3>3. CASE writable /\ saved = l
            BY <2>1, <3>3 DEF SetLocale, Saved, HearsOrShows
        <3>4. CASE ~writable
            BY <2>1, <3>4 DEF SetLocale, Saved, HearsOrShows
        <3> QED BY <3>1, <3>2, <3>3, <3>4
    <2> QED BY <2>2, <2>3
<1>3. ASSUME NEW w \in Windows, StorageChanged(w) PROVE LocaleInv'
    <2>1. events[w] = <<saved>> /\ writable /\ Head(events[w]) = saved /\ Tail(events[w]) = <<>>
        <3>1. events[w] # <<>> /\ HearsOrShows(w)
            BY <1>3 DEF StorageChanged
        <3>2. events[w] = <<saved>> /\ writable
            BY <3>1 DEF HearsOrShows
        <3>3. Head(<<saved>>) = saved /\ Tail(<<saved>>) = <<>>
            OBVIOUS
        <3> QED BY <3>2, <3>3
    <2>2. CASE inEffect'[w] # inEffect[w]
        BY <1>3, <2>1, <2>2, NotifiedIsCurrent DEF StorageChanged, HearsOrShows
    <2>3. CASE inEffect'[w] = inEffect[w]
        BY <1>3, <2>1, <2>3 DEF StorageChanged, HearsOrShows, TextIsCurrent
    <2> QED BY <2>2, <2>3
<1>4. ASSUME NEW w \in Windows, RegisterTranslations(w) PROVE LocaleInv'
    <2>1. catalogs' \in [Windows -> SUBSET Locales] /\ \A v \in Windows \ {w} : catalogs'[v] = catalogs[v]
        BY <1>4 DEF RegisterTranslations
    <2> QED BY <1>4, <2>1, NotifiedIsCurrent DEF RegisterTranslations, HearsOrShows
<1>5. ASSUME NEW w \in Windows, Reopen(w) PROVE LocaleInv'
    BY <1>5, NotifiedIsCurrent DEF Reopen, HearsOrShows
<1> QED BY <1>1, <1>2, <1>3, <1>4, <1>5 DEF LocaleNext

(* Every window shows its text in the locale in effect, with the catalogs it   *)
(* has now, each count in a form of the language around it, and once all were  *)
(* told of the changes of storage they show the same choice (useLocale, t, tn, *)
(* the listener of storage in locale.ts).                                      *)
THEOREM LanguageIsCurrentHolds == LocaleSpec => []LanguageIsCurrent
<1>1. ASSUME LocaleInv PROVE LanguageIsCurrent
    <2>1. FormsFitTheText
        BY <1>1, FormsOfText DEF LocaleInv, LocaleTypeOK, TextIsCurrent, FormsFitTheText
    <2>2. WindowsAgree
        <3> SUFFICES ASSUME writable, \A w \in Windows : events[w] = <<>>, NEW w \in Windows
                     PROVE  explicit[w] = saved /\ inEffect[w] = Chosen(saved)
            BY DEF WindowsAgree
        <3>1. HearsOrShows(w) /\ events[w] = <<>>
            BY <1>1 DEF LocaleInv
        <3>2. <<saved>> # <<>>
            OBVIOUS
        <3> QED BY <3>1, <3>2 DEF HearsOrShows
    <2> QED BY <1>1, <2>1, <2>2 DEF LanguageIsCurrent, LocaleInv
<1> QED BY <1>1, LocaleInitial, LocaleStep, PTL DEF LocaleSpec
=============================================================================
