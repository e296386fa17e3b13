---------------------------- MODULE EditorMargins ----------------------------
(* The margins of a code editor (widgets/Editor/gutters): the change bars      *)
(* against the committed text, the breakpoints and the arrow of a paused       *)
(* debugger, the squiggles of diagnostics. The host owns what they show and    *)
(* hands it over by transactions into the mounted view, while the text is      *)
(* edited under them. A text is the sequence of its lines.                     *)
EXTENDS Integers, Sequences, FiniteSets

CONSTANTS LineTexts, MaxLines, MaxMarginSteps, NoText

VARIABLES
    lines,             \* the document
    committed, base,   \* the committed text, and the view's baseline (NoText: none)
    bars,              \* the change bars: a kind for each marked line
    breakpoints, dots, \* the host's breakpoints, and the view's
    stopped, arrow,    \* the line the debugger is stopped at, and the view's (0: none)
    problems, shown,   \* the host's diagnostics, and those the view was given
    squiggles,         \* the lines drawn as faulty
    marginSteps        \* bound

marginVars == <<lines, committed, base, bars, breakpoints, dots, stopped, arrow, problems, shown,
                squiggles, marginSteps>>

TextsOfLines == UNION {[1..n -> LineTexts] : n \in 1..MaxLines}
Largest(S) == CHOOSE x \in S : \A y \in S : y <= x
Lower(a, b) == IF a < b THEN a ELSE b

\* How many lines two texts share at their start, and then at their end.
SameStart(a, b) == Largest({n \in 0..Lower(Len(a), Len(b)) : \A i \in 1..n : a[i] = b[i]})
SameEnd(a, b) ==
    Largest({n \in 0..(Lower(Len(a), Len(b)) - SameStart(a, b)) :
               \A i \in 1..n : a[Len(a) + 1 - i] = b[Len(b) + 1 - i]})

\* The bars: lines added or modified, or the line a removal sits before.
ComputeMarkers(from, to) ==
    IF from = NoText \/ from = to THEN <<>>
    ELSE LET start == SameStart(from, to)
             removed == Len(from) - start - SameEnd(from, to)
             last == Len(to) - SameEnd(from, to)
         IN  IF last = start THEN [n \in {Lower(start + 1, Len(to))} |-> "deleted"]
             ELSE [n \in (start + 1)..last |-> IF removed = 0 THEN "added" ELSE "modified"]

\* The bars are computed again when the text or the baseline changes.
ChangeField(text, baseline) ==
    bars' = IF baseline # base \/ (text # lines /\ baseline # NoText)
            THEN ComputeMarkers(baseline, text) ELSE bars

Stepped == marginSteps < MaxMarginSteps /\ marginSteps' = marginSteps + 1
GutterStays == UNCHANGED <<breakpoints, dots, stopped, arrow>>
ProblemsStay == UNCHANGED <<problems, shown, squiggles>>

MarginInit ==
    /\ lines \in {t \in TextsOfLines : Len(t) = 2} /\ committed \in {NoText, lines}
    /\ base = NoText /\ bars = <<>>
    /\ breakpoints \in {{}, {2}} /\ dots = breakpoints
    /\ stopped \in {0, 2} /\ arrow = stopped
    /\ problems = {} /\ shown = {} /\ squiggles = {} /\ marginSteps = 0

\* A squiggle follows the lines put in or taken out before it.
Moved(line, text) == IF line <= SameStart(lines, text) THEN line ELSE line + Len(text) - Len(lines)
EditLines(text) ==
    /\ text # lines /\ Stepped /\ lines' = text /\ ChangeField(text, base)
    /\ squiggles' = {Moved(n, text) : n \in squiggles} \intersect DOMAIN text
    /\ GutterStays /\ UNCHANGED <<committed, base, problems, shown>>

\* The file is committed, or its committed text is known for the first time;
\* the view takes the baseline over unless it has it.
Commits(text) ==
    /\ text # committed /\ Stepped /\ committed' = text
    /\ GutterStays /\ ProblemsStay /\ UNCHANGED <<lines, base, bars>>
SetChangeBaseline ==
    /\ base # committed /\ base' = committed /\ ChangeField(lines, committed)
    /\ GutterStays /\ ProblemsStay /\ UNCHANGED <<lines, committed, marginSteps>>

\* A click in the gutter tells the host its line; the host's set, and the line
\* it stopped at, come back as effects. A line the text does not have is none.
ClickGutter(line) ==
    /\ line \in DOMAIN lines /\ Stepped
    /\ breakpoints' = IF line \in breakpoints THEN breakpoints \ {line} ELSE breakpoints \union {line}
    /\ ProblemsStay /\ UNCHANGED <<lines, committed, base, bars, dots, stopped, arrow>>
SyncBreakpoints ==
    /\ dots # breakpoints /\ dots' = breakpoints
    /\ ProblemsStay
    /\ UNCHANGED <<lines, committed, base, bars, breakpoints, stopped, arrow, marginSteps>>
Stops(line) ==
    /\ line # stopped /\ Stepped /\ stopped' = line
    /\ arrow' = IF line \in DOMAIN lines THEN line ELSE 0
    /\ ProblemsStay /\ UNCHANGED <<lines, committed, base, bars, breakpoints, dots>>

\* Diagnostics: each is put at its line, or the nearest the text has.
Offset(line) == Lower(line, Len(lines))
Diagnose(found) ==
    /\ found # problems /\ Stepped /\ problems' = found
    /\ GutterStays /\ UNCHANGED <<lines, committed, base, bars, shown, squiggles>>
SyncDiagnostics ==
    /\ shown # problems /\ shown' = problems /\ squiggles' = {Offset(n) : n \in problems}
    /\ GutterStays /\ UNCHANGED <<lines, committed, base, bars, problems, marginSteps>>

\* What the gutter draws: a marker for each line of either set the text has.
Drawn == {n \in dots \union {arrow} : n \in DOMAIN lines}

MarginNext ==
    \/ \E t \in TextsOfLines : EditLines(t) \/ Commits(t)
    \/ SetChangeBaseline \/ SyncBreakpoints \/ SyncDiagnostics
    \/ \E n \in 1..MaxLines : ClickGutter(n)
    \/ \E n \in 0..MaxLines : Stops(n)
    \/ \E found \in SUBSET (1..MaxLines) : Cardinality(found) <= 1 /\ Diagnose(found)

MarginSpec == MarginInit /\ [][MarginNext]_marginVars

\* Whatever is typed, committed or synced, in any order: the bars tell how the
\* text differs from the view's baseline, and nothing is drawn at, or was
\* underlined on, a line the text does not have.
MarginIsCurrent ==
    /\ bars = ComputeMarkers(base, lines)
    /\ Drawn \union squiggles \union DOMAIN bars \subseteq DOMAIN lines
=============================================================================
