----------------------------- MODULE TextEditing -----------------------------
(* A text editor in the window (widgets/Editor): the view holds the document,  *)
(* the host the content it would save. Typing, the clipboard, undo, a designer *)
(* beside the text, a formatter and a reload from disk all change the text;    *)
(* the clipboard answers later. The text is a sequence of pieces, positions    *)
(* lie between them; in a Markdown text a piece is a line. Commenting lines,   *)
(* which looks into them, has lines and variables of its own.                  *)
EXTENDS Integers, Sequences, FiniteSets

CONSTANTS Pieces, MaxLength, MaxEdits,
          Lines, MaxCommands   \* of the commented lines below

VARIABLES
    doc, sel,          \* the view's document and selection [from, to]
    past, future,      \* the view's history
    host,              \* the content the host holds
    reloading,         \* the host has bumped the version, the view has not loaded it
    clipboard,         \* the system clipboard
    clip,              \* a cut, copy or paste waiting for it
    linked,            \* the range marked for what a designer has selected
    preview,           \* the text the Markdown preview has rendered
    textEdits,         \* bound
    code, marked, before, commands   \* the commented lines

textVars == <<doc, sel, past, future, host, reloading, clipboard, clip, linked, preview,
              textEdits>>

Texts == UNION {[1..n -> Pieces] : n \in 0..MaxLength}
NoClip == [op |-> "none", text |-> <<>>, done |-> FALSE]
NoRange == [from |-> 0, to |-> 0]
Cursor(at) == [from |-> at, to |-> at]
SetMax(S) == CHOOSE x \in S : \A y \in S : y <= x
SmallerOf(a, b) == IF a < b THEN a ELSE b

Replaced(d, from, to, insert) == SubSeq(d, 1, from) \o insert \o SubSeq(d, to + 1, Len(d))
SelectedText == SubSeq(doc, sel.from + 1, sel.to)

\* Mutant: the common end may reach into the common start.
MinimalChange_Overlaps(a, b) ==
    LET most == SmallerOf(Len(a), Len(b))
        start == SetMax({n \in 0..most : \A i \in 1..n : a[i] = b[i]})
        end == SetMax({n \in 0..most : \A i \in 1..n : a[Len(a) + 1 - i] = b[Len(b) + 1 - i]})
    IN  [from |-> start, to |-> Len(a) - end, insert |-> SubSeq(b, start + 1, Len(b) - end)]

\* The smallest replacement that turns a into b.
MinimalChange(a, b) ==
    LET most == SmallerOf(Len(a), Len(b))
        start == SetMax({n \in 0..most : \A i \in 1..n : a[i] = b[i]})
        end == SetMax({n \in 0..(most - start) :
                         \A i \in 1..n : a[Len(a) + 1 - i] = b[Len(b) + 1 - i]})
    IN  [from |-> start, to |-> Len(a) - end, insert |-> SubSeq(b, start + 1, Len(b) - end)]

\* A position, and the marked range, follow a change.
Mapped(at, from, to, n) ==
    IF at <= from THEN at ELSE IF at >= to THEN at + n - (to - from) ELSE from + n

Follows(change) ==
    linked' = [from |-> Mapped(linked.from, change.from, change.to, Len(change.insert)),
               to |-> Mapped(linked.to, change.from, change.to, Len(change.insert))]

TextInit ==
    /\ doc = <<>> /\ sel = Cursor(0) /\ past = <<>> /\ future = <<>>
    /\ host = doc /\ reloading = FALSE /\ clipboard = <<>> /\ clip = NoClip
    /\ linked = NoRange /\ preview = doc /\ textEdits = 0

Edited == textEdits < MaxEdits /\ textEdits' = textEdits + 1

\* A transaction that changes the document; the update listener tells the host
\* unless it was the host's own reload.
Dispatch(from, to, insert, select, external) ==
    LET new == Replaced(doc, from, to, insert)
    IN  /\ Len(new) <= MaxLength
        /\ doc' = new /\ sel' = select
        /\ past' = Append(past, doc) /\ future' = <<>>
        /\ host' = IF external THEN host ELSE new
        /\ Follows([from |-> from, to |-> to, insert |-> insert])

ReplaceSelection(text) ==
    Dispatch(sel.from, sel.to, text, Cursor(sel.from + Len(text)), FALSE)

Elsewhere == UNCHANGED <<reloading, clipboard, clip, preview>>

Type(p) == Edited /\ ReplaceSelection(<<p>>) /\ Elsewhere
Select(from, to) ==
    /\ from <= to /\ to <= Len(doc) /\ sel # [from |-> from, to |-> to]
    /\ sel' = [from |-> from, to |-> to]
    /\ Elsewhere /\ UNCHANGED <<doc, past, future, host, linked, textEdits>>

\* Undo and redo, of a reload too; the host is told what they brought back.
Undo ==
    /\ past # <<>> /\ Edited
    /\ doc' = past[Len(past)] /\ past' = SubSeq(past, 1, Len(past) - 1)
    /\ future' = Append(future, doc) /\ host' = doc'
    /\ sel' = Cursor(SmallerOf(sel.to, Len(doc'))) /\ Follows(MinimalChange(doc, doc')) /\ Elsewhere
Redo ==
    /\ future # <<>> /\ Edited
    /\ doc' = future[Len(future)] /\ future' = SubSeq(future, 1, Len(future) - 1)
    /\ past' = Append(past, doc) /\ host' = doc'
    /\ sel' = Cursor(SmallerOf(sel.to, Len(doc'))) /\ Follows(MinimalChange(doc, doc')) /\ Elsewhere

\* The clipboard commands. A cut writes what is selected to the clipboard and,
\* once that answered, deletes what is selected.
Ask(op) ==
    /\ clip = NoClip /\ (op = "paste" \/ sel.from < sel.to) /\ Edited
    /\ clip' = [op |-> op, text |-> IF op = "paste" THEN <<>> ELSE SelectedText, done |-> FALSE]
    /\ UNCHANGED <<doc, sel, past, future, host, reloading, clipboard, linked, preview>>
ClipboardAnswers ==
    /\ clip # NoClip /\ ~clip.done
    /\ IF clip.op = "paste" THEN clip' = [clip EXCEPT !.done = TRUE, !.text = clipboard]
                                 /\ UNCHANGED clipboard
       ELSE clip' = [clip EXCEPT !.done = TRUE] /\ clipboard' = clip.text
    /\ UNCHANGED <<doc, sel, past, future, host, reloading, linked, preview, textEdits>>
ClipboardRefuses ==
    /\ clip # NoClip /\ ~clip.done /\ clip' = NoClip
    /\ UNCHANGED <<doc, sel, past, future, host, reloading, clipboard, linked, preview, textEdits>>
ClipEnds ==
    /\ clip.done /\ clip' = NoClip
    /\ CASE clip.op = "cut" -> ReplaceSelection(<<>>)
         [] clip.op = "paste" -> ReplaceSelection(clip.text)
         [] OTHER -> UNCHANGED <<doc, sel, past, future, host, linked>>
    /\ UNCHANGED <<reloading, clipboard, preview, textEdits>>

\* With nothing selected the line is copied or cut, without waiting.
CutLine ==
    /\ clip = NoClip /\ sel.from = sel.to /\ sel.from < Len(doc) /\ Edited
    /\ clipboard' = SubSeq(doc, sel.from + 1, sel.from + 1)
    /\ Dispatch(sel.from, sel.from + 1, <<>>, sel, FALSE)
    /\ UNCHANGED <<reloading, clip, preview>>

\* The selection in the other case, and a new line above.
ChangeCase(p) ==
    /\ sel.from < sel.to /\ Edited /\ Elsewhere
    /\ Dispatch(sel.from, sel.to, [i \in 1..(sel.to - sel.from) |-> p], sel, FALSE)
InsertLineAbove(p) ==
    Edited /\ Dispatch(sel.from, sel.from, <<p>>, Cursor(sel.from), FALSE) /\ Elsewhere
CopyLine ==
    /\ clip = NoClip /\ sel.from = sel.to /\ sel.from < Len(doc) /\ Edited
    /\ clipboard' = SubSeq(doc, sel.from + 1, sel.from + 1)
    /\ UNCHANGED <<doc, sel, past, future, host, linked, reloading, clip, preview>>

\* The whole text written by a designer or a formatter: only what differs is
\* replaced, the cursor stays.
ApplyText(text) ==
    LET change == MinimalChange(doc, text)
    IN  /\ text # doc /\ Edited
        /\ Dispatch(change.from, change.to, change.insert,
                    [from |-> Mapped(sel.from, change.from, change.to, Len(change.insert)),
                     to |-> Mapped(sel.to, change.from, change.to, Len(change.insert))], FALSE)
        /\ Elsewhere

SetLinked(from, to) ==
    /\ from < to /\ to <= Len(doc) /\ linked = NoRange
    /\ linked' = [from |-> from, to |-> to]
    /\ Elsewhere /\ UNCHANGED <<doc, sel, past, future, host, textEdits>>

\* The file changed on disk: the host takes its text and bumps the version; the
\* view then takes it over.
Reload(text) ==
    /\ text # host /\ ~reloading /\ Edited
    /\ host' = text /\ reloading' = TRUE
    /\ UNCHANGED <<doc, sel, past, future, clipboard, clip, linked, preview>>
ReloadShows ==
    LET change == MinimalChange(doc, host)
    IN  /\ reloading /\ reloading' = FALSE
        /\ IF doc = host THEN UNCHANGED <<doc, sel, past, future, host, linked>>
           ELSE Dispatch(change.from, change.to, change.insert,
                         Cursor(SmallerOf(sel.to, Len(host))), TRUE)
        /\ UNCHANGED <<clipboard, clip, preview, textEdits>>

\* The Markdown preview beside the text renders the host's content after a pause;
\* a task's box clicked in it writes the content with that line's box toggled.
Renders ==
    /\ preview # host /\ preview' = host
    /\ UNCHANGED <<doc, sel, past, future, host, reloading, clipboard, clip, linked, textEdits>>
ToggleTask(line, p) ==
    /\ line \in DOMAIN preview /\ Edited
    /\ host' = IF line \in DOMAIN host THEN [host EXCEPT ![line] = p] ELSE host
    /\ UNCHANGED <<doc, sel, past, future, reloading, clipboard, clip, linked, preview>>

Clipboard == ClipboardAnswers \/ ClipboardRefuses \/ ClipEnds
TextNext ==
    \/ \E p \in Pieces : Type(p) \/ ChangeCase(p) \/ InsertLineAbove(p)
    \/ \E f, t \in 0..MaxLength : Select(f, t) \/ SetLinked(f, t)
    \/ Undo \/ Redo \/ Clipboard \/ CutLine \/ CopyLine
    \/ \E op \in {"cut", "copy", "paste"} : Ask(op)
    \/ \E t \in Texts : ApplyText(t) \/ Reload(t)
    \/ ReloadShows
SplitNext ==
    \/ TextNext \/ Renders
    \/ \E line \in 1..MaxLength, p \in Pieces : ToggleTask(line, p)

TextSpec == TextInit /\ [][TextNext]_textVars
SplitSpec == TextInit /\ [][SplitNext]_textVars

\* What the host would save is what the editor shows, whoever changed the text,
\* but for the moment between a reload and the view taking it over.
HostHasTheText == ~reloading => host = doc

------------------------------------------------------------------------------
(* Comment, Uncomment and Toggle Comment over the lines a selection touches   *)
(* (widgets/Editor/code/lineComments), for the token "//". A line is the       *)
(* sequence of its characters; " ", "/" and "!" are told apart, anything else  *)
(* is "x". A selection is the range of its first and last line, `ends` saying  *)
(* that it ends at the very start of the last one.                             *)

commentVars == <<code, marked, before, commands>>

Starts(line, with) == Len(line) >= Len(with) /\ SubSeq(line, 1, Len(with)) = with
Blank(line) == \A i \in DOMAIN line : line[i] = " "
IndentOf(line) ==
    CHOOSE n \in 0..Len(line) : /\ \A i \in 1..n : line[i] = " "
                                /\ n < Len(line) => line[n + 1] # " "
Trimmed(line) == SubSeq(line, IndentOf(line) + 1, Len(line))
Slashes(n) == [i \in 1..n |-> "/"]

\* A line commented out, as opposed to code or a doc comment.
IsCommentedOut(line) ==
    LET text == Trimmed(line)
        docComment == (Starts(text, Slashes(3)) /\ ~Starts(text, Slashes(4)))
                      \/ Starts(text, <<"/", "/", "!">>)
    IN  Starts(text, Slashes(2)) /\ ~docComment

\* The lines a command is about: the touched ones that are not blank.
Touched == marked.first..(IF marked.ends /\ marked.last > marked.first
                          THEN marked.last - 1 ELSE marked.last)
Taken == {n \in Touched : ~Blank(code[n])}
Column == LET indents == {IndentOf(code[n]) : n \in Taken}
          IN  CHOOSE c \in indents : \A i \in indents : c <= i

Commented(n) ==
    [code EXCEPT ![n] = SubSeq(@, 1, Column) \o Slashes(2) \o SubSeq(@, Column + 1, Len(@))][n]
Uncommented(n) ==
    IF ~IsCommentedOut(code[n]) THEN code[n]
    ELSE SubSeq(code[n], 1, IndentOf(code[n]))
         \o SubSeq(code[n], IndentOf(code[n]) + 3, Len(code[n]))

SetLineComments(mode) ==
    LET uncomment == mode = "uncomment"
                     \/ (mode = "toggle" /\ \A n \in Taken : IsCommentedOut(code[n]))
    IN  /\ Taken # {} /\ commands < MaxCommands /\ commands' = commands + 1
        /\ uncomment => \E n \in Taken : IsCommentedOut(code[n])
        /\ code' = [n \in DOMAIN code |->
                      IF n \notin Taken THEN code[n]
                      ELSE IF uncomment THEN Uncommented(n) ELSE Commented(n)]
        /\ before' = Append(before, [code |-> code, took |-> uncomment])
        /\ UNCHANGED marked

ToggleLineComments == SetLineComments("toggle")
CommentLines == SetLineComments("comment")
UncommentLines == SetLineComments("uncomment")

CommentInit ==
    /\ code \in Lines \X Lines /\ before = <<>> /\ commands = 0
    /\ marked \in {m \in [first : {1}, last : {1, 2}, ends : BOOLEAN] : m.ends => m.last = 2}
CommentNext == ToggleLineComments \/ CommentLines \/ UncommentLines
CommentSpec == CommentInit /\ [][CommentNext]_commentVars

\* Where nothing is commented.
NoCode ==
    /\ code = <<<<>>, <<>>>> /\ before = <<>> /\ commands = 0
    /\ marked = [first |-> 1, last |-> 1, ends |-> FALSE]

\* The n-th command took the comments off that the one before it put on.
Undoes(n) == before[n].took /\ ~before[n - 1].took
BackFrom(n) == IF n = Len(before) THEN code ELSE before[n + 1].code

Plain(line) == LET text == Trimmed(line) IN
    text # <<>> => Starts(text, Slashes(2)) \/ text[1] \notin {"/", "!"}

\* Taking comments off again gives code back that does not begin with a slash
\* or an exclamation mark of its own (doc comments and commented-out lines
\* included).
PlainCodeComesBack ==
    \A n \in 2..Len(before) :
        (Undoes(n) /\ \A l \in 1..2 : Plain(before[n - 1].code[l]))
            => BackFrom(n) = before[n - 1].code

------------------------------------------------------------------------------
(* What is said of the code, or may be expected of it, and does not hold.    *)

(* A cut loses nothing: what it deletes is what it had put on the clipboard. *)
(* Does not hold: what is selected when the clipboard has answered is        *)
(* deleted (editorCommands.tsx:96).                                          *)
CutLosesNothing == ClipEnds /\ clip.op = "cut" => SelectedText = clip.text

(* Uncommenting gives back what was commented out. Does not hold: a line     *)
(* that begins with a slash becomes a doc comment, which is not uncommented. *)
CommentsAreInverse == \A n \in 2..Len(before) : Undoes(n) => BackFrom(n) = before[n - 1].code
=============================================================================
