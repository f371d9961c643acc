----------------------------- MODULE MCDevServer -----------------------------
(***************************************************************************)
(* A developer's tools: the dev servers that a test run launches           *)
(* (DevServer), the setup commands that write files after asking           *)
(* (WriteSet), the diff of OpenAPI documents (SpecDiff), the rendering of  *)
(* such a document (OpenapiDocument), the generator of resources           *)
(* (ResourceGenerator), the controllers and specs that it writes            *)
(* (GeneratedSpecs), the comparison of locales (LocaleDifferences) and the *)
(* tree of an application's controllers (ControllerTree).                  *)
(* They share no state: a behaviour is one of them, the others resting.    *)
(***************************************************************************)
EXTENDS DevServer, WriteSet, SpecDiff, MCOpenapiDocument, ResourceGenerator, MCGeneratedSpecs, LocaleDifferences,
        ControllerTree
CONSTANTS l1, l2, l3, k1, k2

\* Three launches of one key, beside one that has none.
KeyOf == [l \in {l1, l2, l3} |-> k1]

(***************************************************************************)
(* The generator of resources                                              *)
(***************************************************************************)

Ns(n) == Ancestor("namespace", n)
Rs(n) == Ancestor("resources", n)

\* A resource alone, in a namespace, below another resource, and both; one that
\* is singular and in the admin area; two that share a controller.
RequestSet ==
    {Request(w[1], w[2], w[3], only, {"index", "update"}) : only \in BOOLEAN, w \in {
        <<<<>>, "resources", "posts">>,
        <<<<Ns("api")>>, "resources", "posts">>,
        <<<<Rs("posts")>>, "resources", "comments">>, <<<<Ns("posts")>>, "resources", "comments">>,
        <<<<Ns("api"), Rs("posts")>>, "resources", "comments">>,
        <<<<Ns("admin"), Ns("api")>>, "resource", "comments">>}}

Comments == Child("resources", "comments", NoOptions, FALSE, <<>>)
SomeComments == Child("resources", "comments", Only({"index", "update"}), FALSE, <<>>)
PostsWith(options, callback, children) == Child("resources", "posts", options, callback, children)

\* What a developer may have written of a resource, and of a namespace.
PostsWritten ==
    {PostsWith(o, FALSE, <<>>) : o \in {NoOptions, Only({"update", "index"}), Except({"destroy"}), OtherOptions}}
    \cup {PostsWith(Only({"show"}), TRUE, inner) : inner \in {<<>>, <<Comments>>, <<SomeComments>>}}
    \cup {[PostsWith(NoOptions, FALSE, <<>>) EXCEPT !.form = f] : f \in {"other", "commented"}}
    \cup {[PostsWith(NoOptions, TRUE, <<Comments>>) EXCEPT !.closed = FALSE]}
Apis == {Child("namespace", "api", NoOptions, TRUE, inner) :
            inner \in {<<>>} \cup {<<p>> : p \in PostsWritten}}
        \cup {[Child("namespace", "api", NoOptions, TRUE, <<>>) EXCEPT !.form = "other"]}

Readable(children) == [readable |-> TRUE, children |-> children]
FileSet ==
    {Readable(<<>>), [readable |-> FALSE, children |-> <<>>]}
    \cup {Readable(<<c>>) : c \in PostsWritten \cup Apis}
    \cup {Readable(<<c, d>>) : c \in PostsWritten, d \in PostsWritten \cup Apis}
    \cup {Readable(<<Child("namespace", "api", NoOptions, TRUE, <<>>), d>>) : d \in Apis}
    \cup {Readable(<<Child("namespace", "admin", NoOptions, TRUE, <<c, d>>)>>) :
             c \in Apis, d \in {a \in Apis : \A i \in DOMAIN a.children : a.children[i].callback}}

(***************************************************************************)
(* Controllers                                                             *)
(***************************************************************************)

\* Three classes in directories beside and below one another, each extending
\* PsychicController or one of the others, registered before or after it.
DirectorySet == {<<>>, <<"Admin">>, <<"Admin", "Api">>, <<"V1">>}
HierarchySet ==
    {h \in [1..3 -> [dir : DirectorySet, extends : 0..3]] :
        \A c \in 1..3 : c \notin Above(h, c)}

(***************************************************************************)
(* Locales                                                                 *)
(***************************************************************************)

Strings == {Translation(names) : names \in {{}, {"n"}, {"n", "m"}}}
Leaves == Strings \cup {Neither("null"), Neither("array")}
\* Locales with keys beside and below one another.
InnerLeaves == {Translation({}), Translation({"n"}), Neither("null")}
Inner == {Translations(of) : of \in UNION {[ks -> InnerLeaves] : ks \in SUBSET {"x", "y"}}}
LocaleSet ==
    {Neither("null"), Translations([k \in {} |-> 0])}
    \cup {Translations([k \in {"a"} |-> v]) : v \in Leaves \cup Inner}
    \cup {Translations([k \in {"a", "b"} |-> v]) : v \in Strings}
\* Two languages; a request may be for a third.
ApplicationSet ==
    {[locales |-> [k \in {"en", "es"} |-> IF k = "en" THEN l ELSE m], base |-> "en"] :
        l, m \in LocaleSet}
LanguageOfFn == [l \in {"es-ES", "fr"} |-> IF l = "fr" THEN "fr" ELSE "es"]
PathSet == {<<"a">>, <<"b">>, <<"a", "x">>, <<"a", "y">>, <<"a", "x", "z">>}
InterpolationSet ==
    {[k \in {} |-> "value"], [k \in {"n"} |-> "value"], [k \in {"n"} |-> "null"],
     [k \in {"{brace"} |-> "value"]}

(***************************************************************************)
(* The tools                                                               *)
(***************************************************************************)

VARIABLE part   \* the tool that runs
Parts == {"processes", "files", "diffs", "documents", "resources", "specs", "locales", "tree"}
restVars == <<setVars, diffVars, docVars, genVars, specVars, i18nVars, treeVars>>

\* Where the files, the routes and the locales rest while another part runs.
RestingFiles == disk = [f \in Files |-> Absent]
RestingRoutes == routes = Readable(<<>>)
RestingLocales ==
    setup = [locales |-> [k \in {"en", "es"} |-> Neither("null")], base |-> "en"]

MCInit ==
    /\ part \in Parts
    /\ part = "files" \/ RestingFiles
    /\ part = "resources" \/ RestingRoutes
    /\ part = "locales" \/ RestingLocales
    /\ Init /\ SetInit /\ DiffInit /\ DocInit /\ GenInit /\ SpecsInit /\ I18nInit /\ TreeInit

\* A document is built once, the runs of the generator are bounded, one example
\* of a spec is run, one question asked of the locales, and a tree inspected and
\* checked.
Ended ==
    \/ part = "documents" /\ DocEnded
    \/ part = "resources" /\ Len(ran) = MaxRuns
    \/ part = "specs" /\ example # <<>>
    \/ part = "locales" /\ question # <<>>
    \/ part = "tree" /\ checked # <<>>
MCNext ==
    /\ \/ part = "processes" /\ Next /\ UNCHANGED restVars
       \/ part = "files" /\ SetNext /\ UNCHANGED <<vars, diffVars, docVars, genVars, specVars, i18nVars, treeVars>>
       \/ part = "diffs" /\ DiffNext /\ UNCHANGED <<vars, setVars, docVars, genVars, specVars, i18nVars, treeVars>>
       \/ part = "documents" /\ DocNext /\ UNCHANGED <<vars, setVars, diffVars, genVars, specVars, i18nVars, treeVars>>
       \/ part = "resources" /\ GenNext /\ UNCHANGED <<vars, setVars, diffVars, docVars, specVars, i18nVars, treeVars>>
       \/ part = "specs" /\ SpecsNext /\ UNCHANGED <<vars, setVars, diffVars, docVars, genVars, i18nVars, treeVars>>
       \/ part = "locales" /\ I18nNext /\ UNCHANGED <<vars, setVars, diffVars, docVars, genVars, specVars, treeVars>>
       \/ part = "tree" /\ TreeNext /\ UNCHANGED <<vars, setVars, diffVars, docVars, genVars, specVars, i18nVars>>
       \/ Ended /\ UNCHANGED <<vars, restVars>>
    /\ UNCHANGED part
MCSpec == MCInit /\ [][MCNext]_<<part, vars, restVars>> /\ Fairness

\* Every variable of the modules run side by side keeps its type.
TypesOK == TypeOK /\ SetTypeOK /\ DiffTypeOK /\ DocTypeOK /\ GenTypeOK /\ SpecsTypeOK /\ I18nTypeOK /\ TreeTypeOK
=============================================================================
