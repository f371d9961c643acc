--------------------------- MODULE LocaleDifferences ---------------------------
(***************************************************************************)
(* Translations: the function that I18nProvider.provide returns looks one  *)
(* up in the locale of a language, falls back to the base locale, and      *)
(* fills in its placeholders (i18n/provider.ts); localeDifferences is what *)
(* a spec runs to learn where that would happen (i18n/localeDifferences.ts). *)
(*                                                                         *)
(* A translation is the set of the names of its placeholders; the text     *)
(* around them, and the grammar that finds them, are left out.             *)
(***************************************************************************)
EXTENDS Naturals, Sequences, FiniteSets

CONSTANTS
    Applications,   \* the objects of locales, each with a base locale: [locales, base]
    Depth,          \* how deep their objects nest at most
    LanguageOf,     \* the part of a requested locale before its first hyphen
    Paths,          \* that are asked for, as sequences of keys
    Interpolations  \* what may be given to fill in: a function over some names

VARIABLES
    setup,      \* allLocales and singleLocaleKey
    question,   \* the last call of the i18n function, if there was one
    answer      \* what it returned

i18nVars == <<setup, question, answer>>

\* Values of a locale: translations, nested ones, and what is neither.
Translation(names) == [is |-> "string", names |-> names]
Translations(at) == [is |-> "object", at |-> at]
Neither(is) == [is |-> is]

(***************************************************************************)
(* Looking up                                                              *)
(***************************************************************************)

Missing == [is |-> "missing"]

\* findTranslation: the whole path, through own keys, to a string.
Step(node, key) ==
    IF node.is = "object" /\ key \in DOMAIN node.at THEN node.at[key] ELSE Missing
FindTranslation(locale, path) ==
    LET node[i \in 0..Len(path)] == IF i = 0 THEN locale ELSE Step(node[i - 1], path[i])
    IN IF node[Len(path)].is = "string" THEN node[Len(path)] ELSE Missing

\* The base locale also serves a language that the application does not have.
RequestedLocale(a, locale) ==
    IF LanguageOf[locale] \in DOMAIN a.locales THEN LanguageOf[locale] ELSE a.base

\* applyInterpolations to a translation of the locale l: a name with a brace in it
\* and a value that is undefined or null are refused, whatever the translation; a
\* placeholder for which nothing was given stays.
Filled(l, names, given) ==
    IF "{brace" \in DOMAIN given \/ \E k \in DOMAIN given : given[k] \in {"undefined", "null"}
    THEN [is |-> "thrown", of |-> l]
    ELSE [is |-> "text", of |-> l, left |-> names \ DOMAIN given]

Answer(a, locale, path, given) ==
    LET In(l) == FindTranslation(a.locales[l], path)
        requested == RequestedLocale(a, locale)
    IN IF In(requested) # Missing THEN Filled(requested, In(requested).names, given)
       ELSE IF In(a.base) # Missing THEN Filled(a.base, In(a.base).names, given)
       ELSE [is |-> "key"]

(***************************************************************************)
(* Differences                                                             *)
(***************************************************************************)

\* compareValues: two values that are neither strings nor objects differ in kind
\* only.
Differ(b, l) == b.is # l.is \/ (b.is = "string" /\ b.names # l.names)

\* Mutant: keys that the locale does not have are passed over.
ReportedAtCommonKeys(p) ==
    {Append(p.path, key) :
        key \in {k \in DOMAIN p.base.at \cap DOMAIN p.locale.at : Differ(p.base.at[k], p.locale.at[k])}}

\* compareTranslationObjects: what is reported of two objects at a path.
Reported(p) ==
    LET here == DOMAIN p.base.at  there == DOMAIN p.locale.at IN
    {Append(p.path, key) : key \in (here \ there) \cup (there \ here)
                                  \cup {k \in here \cap there : Differ(p.base.at[k], p.locale.at[k])}}

\* The pairs of objects below a pair, which are compared after it.
Below(p) ==
    {[path |-> Append(p.path, key), base |-> p.base.at[key], locale |-> p.locale.at[key]] :
        key \in {k \in DOMAIN p.base.at \cap DOMAIN p.locale.at :
                    p.base.at[k].is = "object" /\ p.locale.at[k].is = "object"}}
\* All of them, by their depth; the order of the lines is left out.
Pairs(base, locale) ==
    LET pairs[n \in 0..Depth] ==
            IF n = 0 THEN {[path |-> <<>>, base |-> base, locale |-> locale]}
            ELSE UNION {Below(p) : p \in pairs[n - 1]}
    IN pairs
Compared(base, locale) ==
    UNION {UNION {Reported(p) : p \in Pairs(base, locale)[n]} : n \in 0..Depth}

\* localeDifferences: each locale against the base; a locale that is no object is
\* reported as a whole, and a base that is none ends the comparison.
Differences(a) ==
    LET base == a.locales[a.base] IN
    IF base.is # "object" THEN {[locale |-> a.base, at |-> <<>>]}
    ELSE UNION {
        LET locale == a.locales[l] IN
        {[locale |-> l, at |-> at] : at \in
            IF locale.is # "object" THEN {<<>>} ELSE Compared(base, locale)} :
        l \in DOMAIN a.locales \ {a.base}}

\* A locale is a finite tree: no object nests deeper than Depth.
ASSUME ApplicationsAssumption ==
    /\ Depth \in Nat
    /\ \A a \in Applications :
         /\ a.base \in DOMAIN a.locales
         /\ \A l \in DOMAIN a.locales :
              a.locales[a.base].is = "object" /\ a.locales[l].is = "object" =>
                 Pairs(a.locales[a.base], a.locales[l])[Depth] = {}
\* A dotted path has a key at least.
ASSUME DottedAssumption ==
    \A path \in Paths : path # <<>> /\ path \in Seq({path[i] : i \in DOMAIN path})

(***************************************************************************)
(* Behaviours                                                              *)
(***************************************************************************)

I18nInit == setup \in Applications /\ question = <<>> /\ answer = [is |-> "none"]

\* The function that provide returned is called; it keeps nothing, so that one
\* call stands for any.
Ask(locale, path, given) ==
    /\ question = <<>>
    /\ question' = <<[locale |-> locale, path |-> path, given |-> given]>>
    /\ answer' = Answer(setup, locale, path, given)
    /\ UNCHANGED setup

I18nNext ==
    \E locale \in DOMAIN LanguageOf, path \in Paths, given \in Interpolations :
        Ask(locale, path, given)

I18nSpec == I18nInit /\ [][I18nNext]_i18nVars

(***************************************************************************)
(* Properties                                                              *)
(***************************************************************************)

I18nTypeOK ==
    /\ DOMAIN setup = {"locales", "base"} /\ setup.base \in DOMAIN setup.locales
    /\ answer.is \in {"none", "key", "thrown", "text"}
    /\ "of" \in DOMAIN answer => answer.of \in DOMAIN setup.locales

\* A spec that compares the locales misses nothing that a user would see: a call
\* finds a translation wherever the base locale has one, and unless a difference
\* is reported at the path or above it, in the locale of the language itself, with
\* the placeholders filled in that the base's would have had filled in; so a
\* locale without differences is never fallen back from.
UnreportedPathsTranslate ==
    question # <<>> =>
        LET call == question[1]
            l == RequestedLocale(setup, call.locale)
            inBase == FindTranslation(setup.locales[setup.base], call.path)
            reported(at) == [locale |-> l, at |-> at] \in Differences(setup)
        IN inBase # Missing =>
             /\ answer.is # "key"
             /\ (\E n \in 0..Len(call.path) : reported(SubSeq(call.path, 1, n)))
                \/ answer = Filled(l, inBase.names, call.given)
=============================================================================
