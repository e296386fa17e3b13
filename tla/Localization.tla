------------------------------ MODULE Localization ------------------------------
(* The language the windows are shown in (ui/src/infra/i18n and the Options'    *)
(* International Settings). Each window keeps its own choice and catalogs; the  *)
(* choice is in the browser's storage, whose changes the other windows are told *)
(* of later, and a component is rendered again when its window notifies.        *)
EXTENDS Integers, Sequences

CONSTANTS Windows,
          Locales,       \* the locales catalogs are registered for, "en" being the source's own
          LanguageOf,    \* [tag -> the language it falls back to]
          System,        \* the system's tag
          PluralsOf,     \* [language -> the plural forms it tells apart, by count]
          Counts,        \* counts shown
          MaxChoices,    \* bound: choices made
          MaxCatalogs    \* bound: catalogs registered after a window opened

VARIABLES
    explicit,    \* [window -> the locale chosen, or NoLocale]
    inEffect,    \* [window -> the locale in effect]
    saved,       \* the choice in storage
    writable,    \* storage is available
    events,      \* [window -> the changes of storage it has yet to be told of]
    catalogs,    \* [window -> the locales it has a catalog of]
    rendered,    \* [window -> what its components show]
    picker,      \* [window -> what its language picker showed when it was rendered]
    choices, registered

localeVars == <<explicit, inEffect, saved, writable, events, catalogs, rendered, picker, choices, registered>>

NoLocale == "-"
Source == "en"

ASSUME LocaleAssumption == NoLocale \notin Locales /\ LanguageOf[Source] = Source

Chosen(locale) == IF locale = NoLocale THEN System ELSE locale

\* The catalog of a tag: its own, else its language's, else none.
CatalogFor(known, locale) ==
    IF locale \in known THEN locale ELSE IF LanguageOf[locale] \in known THEN LanguageOf[locale] ELSE NoLocale

AvailableLocales(w) == {Source} \cup catalogs[w]

\* The locale the window is actually shown in.
ResolvedLocale(known, locale) ==
    IF locale \in known \cup {Source} THEN locale
    ELSE IF LanguageOf[locale] \in known \cup {Source} THEN LanguageOf[locale] ELSE Source

\* t: the text of the catalog, or the source's own.
T(known, locale) == LET c == CatalogFor(known, locale) IN IF c = NoLocale THEN Source ELSE c

\* tn: the form the count takes in the language the text is in.
PluralForm(known, locale, n) ==
    LET c == CatalogFor(known, locale)
    IN IF c = NoLocale THEN PluralsOf[Source][n] ELSE PluralsOf[LanguageOf[ResolvedLocale(known, locale)]][n]

TextsIn(known, locale) == [text |-> T(known, locale), forms |-> [n \in Counts |-> PluralForm(known, locale, n)]]
Picked(known, choice, locale) == IF choice = NoLocale THEN NoLocale ELSE ResolvedLocale(known, locale)

\* notify: every subscribed component of the window is rendered again.
Notify(w) ==
    /\ rendered' = [rendered EXCEPT ![w] = TextsIn(catalogs'[w], inEffect'[w])]
    /\ picker' = [picker EXCEPT ![w] = Picked(catalogs'[w], explicit'[w], inEffect'[w])]

\* Storage tells the other windows of a value that changed.
Saved(w, locale) ==
    IF writable /\ saved # locale
    THEN saved' = locale /\ events' = [v \in Windows |-> IF v = w THEN events[v] ELSE Append(events[v], locale)]
    ELSE UNCHANGED <<saved, events>>

SetLocale(w, locale) ==
    /\ explicit' = [explicit EXCEPT ![w] = locale]
    /\ inEffect' = [inEffect EXCEPT ![w] = Chosen(locale)]
    /\ Saved(w, locale)
    /\ UNCHANGED <<writable, catalogs, registered>>
    /\ Notify(w)

\* A choice in the Options, or its Undo: one at a time, the windows told of the last.
Choose(w) ==
    /\ choices < MaxChoices /\ choices' = choices + 1
    /\ \A v \in Windows : events[v] = <<>>
    /\ \E l \in (AvailableLocales(w) \cup {NoLocale}) \ {picker[w]} : SetLocale(w, l)

\* Mutant: a choice made elsewhere is only followed by a window that follows the system.
StorageChanged_Following(w) ==
    /\ events[w] # <<>> /\ events' = [events EXCEPT ![w] = Tail(@)]
    /\ explicit' = [explicit EXCEPT ![w] = Head(events[w])]
    /\ inEffect' = [inEffect EXCEPT ![w] = IF explicit[w] = NoLocale THEN Chosen(Head(events[w])) ELSE @]
    /\ UNCHANGED <<saved, writable, catalogs, choices, registered>>
    /\ IF inEffect'[w] # inEffect[w] THEN Notify(w) ELSE UNCHANGED <<rendered, picker>>

\* The listener of storage: notified only when the locale in effect changes.
StorageChanged(w) ==
    /\ events[w] # <<>> /\ events' = [events EXCEPT ![w] = Tail(@)]
    /\ explicit' = [explicit EXCEPT ![w] = Head(events[w])]
    /\ inEffect' = [inEffect EXCEPT ![w] = Chosen(Head(events[w]))]
    /\ UNCHANGED <<saved, writable, catalogs, choices, registered>>
    /\ IF inEffect'[w] # inEffect[w] THEN Notify(w) ELSE UNCHANGED <<rendered, picker>>

\* A product registers a catalog, also once the window is shown.
RegisterTranslations(w) ==
    /\ registered < MaxCatalogs /\ registered' = registered + 1
    /\ \E l \in Locales \ catalogs[w] : catalogs' = [catalogs EXCEPT ![w] = @ \cup {l}]
    /\ UNCHANGED <<explicit, inEffect, saved, writable, events, choices>>
    /\ Notify(w)

\* The window closed and opened again: what storage holds, or the system's.
Reopen(w) ==
    /\ registered < MaxCatalogs /\ registered' = registered + 1
    /\ explicit' = [explicit EXCEPT ![w] = saved]
    /\ inEffect' = [inEffect EXCEPT ![w] = Chosen(saved)]
    /\ events' = [events EXCEPT ![w] = <<>>]
    /\ UNCHANGED <<saved, writable, catalogs, choices>>
    /\ Notify(w)

LocaleInit ==
    /\ saved \in Locales \cup {NoLocale} /\ writable \in BOOLEAN
    /\ explicit = [w \in Windows |-> saved] /\ inEffect = [w \in Windows |-> Chosen(saved)]
    /\ events = [w \in Windows |-> <<>>]
    /\ catalogs \in [Windows -> {{}, Locales}]
    /\ rendered = [w \in Windows |-> TextsIn(catalogs[w], Chosen(saved))]
    /\ picker = [w \in Windows |-> Picked(catalogs[w], saved, Chosen(saved))]
    /\ choices = 0 /\ registered = 0

LocaleNext == \E w \in Windows : Choose(w) \/ StorageChanged(w) \/ RegisterTranslations(w) \/ Reopen(w)

LocaleSpec == LocaleInit /\ [][LocaleNext]_localeVars

------------------------------------------------------------------------------
(* What every window shows is its text in the locale in effect, with the        *)
(* catalogs it has now: a late catalog and a choice made in another window      *)
(* included (notify, useLocale).                                                *)
TextIsCurrent == \A w \in Windows : rendered[w] = TextsIn(catalogs[w], inEffect[w])

(* A count's form is one of the language the text around it is in (tn).         *)
FormsFitTheText ==
    \A w \in Windows, n \in Counts : rendered[w].forms[n] = PluralsOf[LanguageOf[rendered[w].text]][n]

(* The windows agree on the language once they have been told of every change   *)
(* of storage; without storage each keeps its own.                              *)
WindowsAgree ==
    writable /\ (\A w \in Windows : events[w] = <<>>)
    => \A w \in Windows : explicit[w] = saved /\ inEffect[w] = Chosen(saved)

(* What the windows promise of their language: the three together.              *)
LanguageIsCurrent == TextIsCurrent /\ FormsFitTheText /\ WindowsAgree
==============================================================================
