---------------------------- MODULE RequestBodies ----------------------------
(***************************************************************************)
(* An endpoint's request body in the documents that show it.  The          *)
(* decorator's declaration is expanded anew each time a document is        *)
(* rendered (endpoint.ts, body-segment.ts), and the expansion writes into  *)
(* the declaration: the properties of a declared object are replaced by    *)
(* what they were expanded to, for the renderings that follow.             *)
(*                                                                         *)
(* Types, formats, nullability and descriptions are left out, and so are   *)
(* references to serializers, which a request body does not resolve.       *)
(***************************************************************************)
EXTENDS Naturals, Sequences, SequencesExt

CONSTANTS
    DocNames,    \* the documents in the order of the configuration
    Legacy,      \* those with legacyImplicitRequestBodyParams
    Bodies,      \* endpoints, as Endpoint gives them
    Columns,     \* of each model
    ParamSafe,   \* those that paramSafeColumnsOrFallback returns
    EnumTypes    \* the pg enum of each enum-backed column

VARIABLES
    written,     \* the endpoint as its decorator was written
    requestBody, \* this.requestBody, as the renderings so far have left it
    rendered,    \* <<the request body of each document's last rendering>>
    enumsFile    \* the enums exported for each document

bodyVars == <<written, requestBody, rendered, enumsFile>>

Documents == ToSet(DocNames)
NotYet == [is |-> "not rendered"]
NoFile == {"no file"}

(***************************************************************************)
(* Segments                                                                *)
(***************************************************************************)

\* A segment is a tree: a function from paths, the names of fields from the
\* segment down, to nodes.  A node is a primitive or a $ref; a column of a model;
\* an array, an allOf, anyOf or oneOf or an object with additionalProperties, which
\* holds the nodes below it; an object, with its properties below it; or a model's
\* params, with the entries of `combining` below it.  An object with properties and
\* additionalProperties is left out.
Leaf == [is |-> "leaf"]
Column(m, c) == [is |-> "column", model |-> m, column |-> c]
Holder == [is |-> "holder"]
Object == [is |-> "object"]
\* model is "own" without a `for`; only holds when `params` or `only` is given.
For(model, given, only, including) ==
    [is |-> "for", model |-> model, given |-> given, only |-> only, including |-> including]

Segment(node) == [path \in {<<>>} |-> node]
NoBody == Segment([is |-> "no body"])

\* The columns a model contributes: none without a list, unless the document
\* keeps the legacy behaviour.  A listed column must be param safe, an included
\* one need not be.
ModelColumns(f, legacy) ==
    (IF f.given THEN ParamSafe[f.model] \cap f.only
     ELSE IF legacy THEN ParamSafe[f.model] ELSE {})
    \cup (Columns[f.model] \cap f.including)

ModelNodes(t) == {p \in DOMAIN t : t[p].is = "for"}

\* buildDreamRequestBodyShape and the expansion of what it returns, for the models
\* at the paths M: objects, with a property for each column; an entry of
\* `combining` replaces a column.
Shape(t, M, legacy) ==
    [p \in DOMAIN t \cup UNION {{Append(q, c) : c \in ModelColumns(t[q], legacy)} : q \in M} |->
        IF p \notin DOMAIN t THEN Column(t[Front(p)].model, Last(p))
        ELSE IF p \in M THEN Object ELSE t[p]]

\* What recursivelyParseBody returns.
Expanded(t, legacy) == Shape(t, ModelNodes(t), legacy)

\* The models that stand below a node of one of the kinds.
Below(t, kinds) ==
    {p \in ModelNodes(t) : \E q \in DOMAIN t : IsStrictPrefix(q, p) /\ t[q].is \in kinds}

\* Mutant: the entries of `combining` are written back too.
LeftCombined(t, legacy) == Shape(t, Below(t, {"object", "for"}), legacy)

\* What it leaves of the segment: parseObjectPropertyStatement assigns to the
\* properties it goes through, and a model's properties are a new object.
Left(t, legacy) == Shape(t, Below(t, {"object"}), legacy)

Enums(m, cs) == {EnumTypes[m][c] : c \in cs \cap DOMAIN EnumTypes[m]}

\* What the enum collector is told: the enums of the columns of the models
\* expanded now, those apart that `combining` replaces.
Collected(t, legacy) ==
    UNION {Enums(t[p].model, {c \in ModelColumns(t[p], legacy) : Append(p, c) \notin DOMAIN t}) :
              p \in ModelNodes(t)}

(***************************************************************************)
(* The request body                                                        *)
(***************************************************************************)

\* writes: the route's method is post, patch or put.  declares: requestBody is
\* null, or else t, which is For("own", ...) when it names no model or is absent.
\* own: the model the endpoint is for, or "none"; required: required is listed;
\* paged: a pagination param is sent in the body.
Endpoint(writes, declares, t, own, required, paged) ==
    [writes |-> writes, declares |-> declares, segment |-> t, own |-> own,
     required |-> required, paged |-> paged]

\* A top-level segment without `for` is about the model the endpoint is for.
Resolved(e, t) ==
    [p \in DOMAIN t |->
        IF p = <<>> /\ t[p].is = "for" /\ t[p].model = "own"
        THEN For(e.own, t[p].given, t[p].only, t[p].including) ELSE t[p]]

\* The body is omitted unless the method takes one; a model's, unless there is a
\* model and something to show of it.
ExpandsBody(e, t, legacy) ==
    /\ e.declares /\ e.writes
    /\ t[<<>>].is = "for" =>
         /\ Resolved(e, t)[<<>>].model # "none"
         /\ e.required \/ DOMAIN Expanded(Resolved(e, t), legacy) # {<<>>}

Unpaged(e, t, legacy) ==
    IF ExpandsBody(e, t, legacy) THEN Expanded(Resolved(e, t), legacy) ELSE NoBody

\* safelyAttachPaginationParamToRequestBodySegment: objects only, where the page
\* takes the place of a field of that name.
Paged(e, t) ==
    IF e.paged /\ t[<<>>].is \in {"no body", "object"}
    THEN [p \in {q \in DOMAIN t : q # <<>> => q[1] # "page"} \cup {<<"page">>} |->
             CASE p = <<>> -> Object [] p = <<"page">> -> Leaf [] OTHER -> t[p]]
    ELSE t

\* computedRequestBody, of the declaration t.
RequestBody(e, t, legacy) == Paged(e, Unpaged(e, t, legacy))

\* The declaration keeps its own model.
LeftOfBody(e, t, legacy) ==
    IF ExpandsBody(e, t, legacy)
    THEN [Left(Resolved(e, t), legacy) EXCEPT ![<<>>] = t[<<>>]] ELSE t
EnumsOfBody(e, t, legacy) ==
    IF ExpandsBody(e, t, legacy) THEN Collected(Resolved(e, t), legacy) ELSE {}

\* A declaration is written with the names of its fields, not with columns, and
\* only a body as a whole may leave its model to the endpoint.
DeclaredTree(t) ==
    /\ t = [p \in DOMAIN t |-> t[p]] /\ <<>> \in DOMAIN t
    /\ \A p \in DOMAIN t :
         /\ p \in Seq(STRING) /\ \A i \in 1..Len(p) : SubSeq(p, 1, i) \in DOMAIN t
         /\ t[p].is \in {"leaf", "holder", "object", "for"}
         /\ t[p].is = "for" =>
              t[p].model \in DOMAIN Columns \/ (p = <<>> /\ t[p].model = "own")
ASSUME BodiesAssumption ==
    /\ \A m \in DOMAIN Columns : Columns[m] \cup ParamSafe[m] \subseteq STRING
    /\ \A e \in Bodies :
         /\ e # NotYet /\ {e.writes, e.declares, e.required, e.paged} \subseteq BOOLEAN
         /\ e.own \in DOMAIN Columns \cup {"none"} /\ DeclaredTree(e.segment)

(***************************************************************************)
(* Renderings                                                              *)
(***************************************************************************)

BodyInit ==
    /\ written = NotYet /\ requestBody = Segment(Leaf)
    /\ rendered = [d \in Documents |-> <<>>]
    /\ enumsFile = [d \in Documents |-> NoFile]

\* The decorator.
DeclareBody(e) ==
    /\ written = NotYet
    /\ written' = e /\ requestBody' = e.segment
    /\ UNCHANGED <<rendered, enumsFile>>

Render(d) ==
    /\ rendered' = [rendered EXCEPT ![d] = <<RequestBody(written, requestBody, d \in Legacy)>>]
    /\ requestBody' = LeftOfBody(written, requestBody, d \in Legacy)
    /\ UNCHANGED written

\* PsychicApp.init caches each document, in the order of the configuration.
CacheDocument ==
    /\ written # NotYet
    /\ \E i \in DOMAIN DocNames :
         /\ rendered[DocNames[i]] = <<>>
         /\ \A j \in 1..(i - 1) : rendered[DocNames[j]] # <<>>
         /\ Render(DocNames[i])
    /\ UNCHANGED enumsFile

Cached == \A d \in Documents : rendered[d] # <<>>

\* The openapi files are written, or a request is validated.
RenderAgain(d) == Cached /\ Render(d) /\ UNCHANGED enumsFile

\* enumsFileStr renders the document with a collector.
WriteEnums(d) ==
    /\ Cached /\ Render(d)
    /\ enumsFile' = [enumsFile EXCEPT ![d] = EnumsOfBody(written, requestBody, d \in Legacy)]

BodyNext ==
    \/ written = NotYet /\ \E e \in Bodies : DeclareBody(e)
    \/ CacheDocument
    \/ \E d \in Documents : RenderAgain(d) \/ WriteEnums(d)

BodySpec == BodyInit /\ [][BodyNext]_bodyVars

(***************************************************************************)
(* Properties                                                              *)
(***************************************************************************)

\* The enums whose values a rendering shows.
ShownEnums(t) ==
    UNION {Enums(t[p].model, {t[p].column}) : p \in {q \in DOMAIN t : t[q].is = "column"}}

\* No model's params stand below the properties of an object of the declaration.
ModelsInPlace(t) == Below(t, {"object"}) = {}

BodyTypeOK ==
    /\ \/ written = NotYet /\ requestBody = Segment(Leaf)
       \/ {written.writes, written.declares, written.required, written.paged} \subseteq BOOLEAN
    /\ DOMAIN rendered = Documents /\ DOMAIN enumsFile = Documents
    /\ \A d \in Documents :
         Len(rendered[d]) <= 1 /\ \A i \in DOMAIN rendered[d] : ModelNodes(rendered[d][i]) = {}

\* A body whose models stand at its top, in `combining` or in arrays and
\* combinators is rendered from what was written and from the document's own
\* configuration, whichever documents were rendered before, and the enums file
\* of a document has the enums that the document shows and no others, except
\* for one that the page takes the place of.
ModelBodiesStable ==
    written # NotYet /\ ModelsInPlace(written.segment) =>
        \A d \in Documents :
            LET legacy == d \in Legacy IN
            /\ rendered[d] \in {<<>>, <<RequestBody(written, written.segment, legacy)>>}
            /\ enumsFile[d] # NoFile =>
                 /\ rendered[d] # <<>> /\ ShownEnums(rendered[d][1]) \subseteq enumsFile[d]
                 /\ ~(written.paged /\ <<"page">> \in DOMAIN Unpaged(written, written.segment, legacy))
                      => enumsFile[d] = ShownEnums(rendered[d][1])

\* "One exported const per pg enum the rendered spec actually exposes", wherever
\* in the body the model stands.
EnumsFileComplete ==
    \A d \in Documents :
        enumsFile[d] # NoFile => ShownEnums(rendered[d][1]) \subseteq enumsFile[d]
=============================================================================
