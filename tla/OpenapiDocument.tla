--------------------------- MODULE OpenapiDocument ---------------------------
(***************************************************************************)
(* The components of an OpenAPI document: OpenapiAppRenderer._toObject     *)
(* (src/src/openapi-renderer/app.ts) goes through the endpoints, each of   *)
(* which names serializers in its responses (endpoint.ts), and every       *)
(* serializer they lead to is rendered (SerializerOpenapiRenderer.ts).     *)
(*                                                                         *)
(* Renderers call one another through the associations a serializer        *)
(* renders, so the state holds the stack of their calls.  A key's schema   *)
(* is the declaration it is rendered from, <<serializer, attribute>>;      *)
(* types, nullability, required lists and enums are left out.              *)
(***************************************************************************)
EXTENDS Naturals, Sequences, SequencesExt

\* Each app declares attributes, a sequence for each serializer, and endpoints,
\* a sequence; bypass is bypassMissingRoutes.
CONSTANT Apps

VARIABLES
    app,        \* what is declared
    docPhase,   \* what _toObject is doing
    endpoint,   \* the endpoint it has come to
    toRender,   \* serializers still to be rendered by the current forEach
    collected,  \* serializers referenced by those it has rendered
    renderers,  \* stack of their calls
    extracted,  \* alreadyExtractedDescendantSerializers
    schemas,    \* renderedSchemasOpenapi
    pathRefs    \* the serializers that finalOutput.paths refers to

docVars ==
    <<app, docPhase, endpoint, toRender, collected, renderers, extracted, schemas, pathRefs>>

Serializers == DOMAIN app.attributes
DocPhases == {"idle", "endpoint", "path", "schemas", "failed"}

DocTypeOK ==
    /\ docPhase \in DocPhases
    /\ endpoint \in 1..(Len(app.endpoints) + 1)
    /\ toRender \subseteq Serializers /\ collected \subseteq Serializers
    /\ extracted \subseteq Serializers /\ DOMAIN schemas \subseteq Serializers
    /\ pathRefs \subseteq Serializers
    /\ \A c \in ToSet(renderers) : c.next \in 1..(Len(app.attributes[c.of]) + 1)

DocInit ==
    /\ app = [attributes |-> << >>, endpoints |-> <<>>, bypass |-> FALSE]
    /\ docPhase = "idle" /\ endpoint = 1
    /\ toRender = {} /\ collected = {} /\ renderers = <<>>
    /\ extracted = {} /\ schemas = << >> /\ pathRefs = {}

(***************************************************************************)
(* Declarations                                                            *)
(***************************************************************************)

\* An attribute renders its own keys; or, flattened, those of the value it
\* spreads, which is hand-written or rendered by one of the serializers "to".
Attributes(s) == app.attributes[s]

\* The renderers an attribute calls: for the descendants of its serializers
\* and, if it is flattened, for their keys.  Calls that would only meet
\* serializers extracted by those before them return [] and are left out.
CallsOf(a) ==
    LET To(forKeys) == [j \in DOMAIN a.to |-> [of |-> a.to[j], forKeys |-> forKeys]]
        spread == IF a.flatten THEN To(TRUE) ELSE <<>>
    IN  IF a.kind = "custom" THEN spread \o To(FALSE) ELSE To(FALSE) \o spread

\* Attributes are declared in a sequence, and render serializers of the app.
Renderable(g) ==
    /\ "none" \notin DOMAIN g
    /\ \A s \in DOMAIN g :
         /\ g[s] \in Seq(ToSet(g[s]))
         /\ \A i \in DOMAIN g[s] : g[s][i].to \in Seq(DOMAIN g) /\ g[s][i].flatten \in BOOLEAN

ASSUME AppsAssumption ==
    \A a \in Apps :
        /\ Renderable(a.attributes)
        /\ a.endpoints \in Seq([routed : BOOLEAN, success : SUBSET DOMAIN a.attributes,
                                responses : SUBSET DOMAIN a.attributes])

(***************************************************************************)
(* A serializer's renderer                                                 *)
(***************************************************************************)

\* renderedOpenapi marks its serializer in the map it is given and walks by
\* itself; flattenedKeySchemas shares its caller's walk, with a map of its own.
\* next is the attribute it renders, called the number of its calls so far and
\* spread what they returned; then it goes back through the attributes, of which
\* `left` are left.
Entered(s, forKeys, already, walking) ==
    LET marked == IF forKeys THEN {} ELSE already \cup {s} IN
    [of |-> s, forKeys |-> forKeys,
     entry |-> [already |-> marked, walking |-> walking \cup {s}],
     already |-> marked, walking |-> walking \cup {s},
     next |-> 1, called |-> 0, spread |-> << >>, left |-> Len(Attributes(s)),
     properties |-> << >>, siblings |-> << >>, referenced |-> {},
     claimed |-> {}, byFlattened |-> {}]

Top == Last(renderers)
SetTop(c) == Front(renderers) \o <<c>>
AtAttribute == renderers # <<>> /\ Top.next <= Len(Attributes(Top.of))

\* f's entries, and g's for the other keys.
Over(f, g) == [k \in DOMAIN f \cup DOMAIN g |-> IF k \in DOMAIN f THEN f[k] ELSE g[k]]
Drop(f, K) == [k \in DOMAIN f \ K |-> f[k]]

\* descendantSerializers() and flattenedKeySchemas() enter a renderer, unless
\* the serializer is extracted or being walked already.
EnterRenderer ==
    /\ AtAttribute
    /\ LET calls == CallsOf(Attributes(Top.of)[Top.next]) IN
       /\ Top.called < Len(calls)
       /\ LET c == calls[Top.called + 1]
              passed == [Top EXCEPT !.called = @ + 1]
              known == c.of \in (IF c.forKeys THEN Top.walking ELSE Top.already)
          IN renderers' = IF known THEN SetTop(passed)
                      ELSE SetTop(passed) \o
                           <<Entered(c.of, c.forKeys, Top.already,
                                     IF c.forKeys THEN Top.walking ELSE {})>>
    /\ UNCHANGED <<app, docPhase, endpoint, toRender, collected, extracted, schemas, pathRefs>>

\* The declaration that each key of the attribute a of c is rendered from.
Here(a, c) == [k \in a.keys |-> <<c.of, c.next>>]

\* The allOf sibling of a flattened attribute: every key of every shape, each
\* with the first schema declared for it, or the ref of its only shape.
Sibling(a, c) ==
    [properties |-> Over(Here(a, c), c.spread),
     ref |-> IF Len(a.to) = 1 /\ a.keys = {} /\ ~a.optional THEN a.to[1] ELSE "none"]

\* The attribute is rendered once its calls have returned.
AttributeRendered(a, c) ==
    LET done == [c EXCEPT !.next = @ + 1, !.called = 0, !.spread = << >>,
                          !.referenced = @ \cup ToSet(a.to)]
    IN  IF a.flatten
        THEN [done EXCEPT !.siblings = Over([i \in {c.next} |-> Sibling(a, c)], @)]
        ELSE [done EXCEPT !.properties = Over(Here(a, c), @)]

RenderAttribute ==
    /\ AtAttribute
    /\ LET a == Attributes(Top.of)[Top.next] IN
       Top.called = Len(CallsOf(a)) /\ renderers' = SetTop(AttributeRendered(a, Top))
    /\ UNCHANGED <<app, docPhase, endpoint, toRender, collected, extracted, schemas, pathRefs>>

\* Mutant: a sibling rendered over keeps its ref.
ClaimKeepingRef(a, c) ==
    IF a.flatten
    THEN LET keys == DOMAIN c.siblings[c.left].properties IN
         [c EXCEPT !.siblings[c.left].properties = Drop(@, c.claimed), !.left = @ - 1,
                   !.claimed = @ \cup keys, !.byFlattened = @ \cup (keys \ c.claimed)]
    ELSE [c EXCEPT !.properties = Drop(@, a.keys \cap c.byFlattened), !.left = @ - 1,
                   !.claimed = @ \cup a.keys]

\* A sibling loses the keys that are claimed already, and its ref with them; an
\* own key is lost to a sibling.
Claim(a, c) ==
    IF a.flatten
    THEN LET keys == DOMAIN c.siblings[c.left].properties IN
         [c EXCEPT !.siblings[c.left] =
                       [properties |-> Drop(@.properties, c.claimed),
                        ref |-> IF keys \cap c.claimed = {} THEN @.ref ELSE "none"],
                   !.left = @ - 1,
                   !.claimed = @ \cup keys, !.byFlattened = @ \cup (keys \ c.claimed)]
    ELSE [c EXCEPT !.properties = Drop(@, a.keys \cap c.byFlattened), !.left = @ - 1,
                   !.claimed = @ \cup a.keys]

\* From the last attribute to the first.
ClaimAttribute ==
    /\ renderers # <<>> /\ ~AtAttribute /\ Top.left > 0
    /\ renderers' = SetTop(Claim(Attributes(Top.of)[Top.left], Top))
    /\ UNCHANGED <<app, docPhase, endpoint, toRender, collected, extracted, schemas, pathRefs>>

\* What is rendered of a serializer.
Rendered(c) == [properties |-> c.properties, siblings |-> c.siblings]

\* The keys that flattenedKeySchemas returns: those of the last sibling that has
\* them, and its own.
KeySchemas(c) ==
    LET BranchKeys(i) == DOMAIN c.siblings[i].properties
        With(k) == {i \in DOMAIN c.siblings : k \in BranchKeys(i)} IN
    [k \in DOMAIN c.properties \cup UNION {BranchKeys(i) : i \in DOMAIN c.siblings} |->
        IF With(k) = {} THEN c.properties[k]
        ELSE c.siblings[CHOOSE i \in With(k) : \A j \in With(k) : j <= i].properties[k]]

AllRendered == renderers # <<>> /\ ~AtAttribute /\ Top.left = 0

\* A renderer returns to the renderer that called it.
LeaveRenderer ==
    /\ AllRendered /\ Len(renderers) > 1
    /\ LET caller == renderers[Len(renderers) - 1] IN
       renderers' = SubSeq(renderers, 1, Len(renderers) - 2) \o
           <<IF Top.forKeys
             THEN [caller EXCEPT !.spread = Over(@, KeySchemas(Top))]
             ELSE [caller EXCEPT !.already = Top.already,
                                 !.referenced = @ \cup Top.referenced]>>
    /\ UNCHANGED <<app, docPhase, endpoint, toRender, collected, extracted, schemas, pathRefs>>

(***************************************************************************)
(* The document                                                            *)
(***************************************************************************)

Declare(a) ==
    /\ app' = a /\ docPhase' = "endpoint"
    /\ UNCHANGED <<endpoint, toRender, collected, renderers, extracted, schemas, pathRefs>>

\* toPathObject: an endpoint without a route throws; the responses of another
\* refer to its serializers, each rendered with a map of its own, and to those
\* of its hand-written responses.
ToPathObject ==
    /\ docPhase = "endpoint" /\ endpoint <= Len(app.endpoints)
    /\ LET e == app.endpoints[endpoint] IN
       IF e.routed
       THEN /\ docPhase' = "path"
            /\ toRender' = e.success /\ collected' = e.responses
            /\ pathRefs' = pathRefs \cup e.success \cup e.responses
            /\ UNCHANGED endpoint
       ELSE /\ endpoint' = endpoint + 1
            /\ docPhase' = IF app.bypass THEN "endpoint" ELSE "failed"
            /\ UNCHANGED <<toRender, collected, pathRefs>>
    /\ UNCHANGED <<app, renderers, extracted, schemas>>

\* The order of a forEach is left open.
RenderSchema ==
    /\ renderers = <<>>
    /\ \E s \in toRender :
         renderers' = <<Entered(s, FALSE, IF docPhase = "path" THEN {} ELSE extracted, {})>>
    /\ UNCHANGED <<app, docPhase, endpoint, toRender, collected, extracted, schemas, pathRefs>>

RenderEnds ==
    /\ AllRendered /\ Len(renderers) = 1
    /\ renderers' = <<>>
    /\ toRender' = toRender \ {Top.of} /\ collected' = collected \cup Top.referenced
    /\ IF docPhase = "path" THEN UNCHANGED <<extracted, schemas>>
       ELSE /\ extracted' = Top.already
            /\ schemas' = Over([s \in {Top.of} |-> Rendered(Top)], schemas)
    /\ UNCHANGED <<app, docPhase, endpoint, pathRefs>>

\* serializersToSchemaObjects skips the serializers that have a schema.
Unrendered(S) == S \ DOMAIN schemas

\* toSchemaObject: the endpoint's serializers, then those they depend on, until
\* none is new.
ToSchemaObject ==
    /\ docPhase \in {"path", "schemas"} /\ renderers = <<>> /\ toRender = {}
    /\ LET new == Unrendered(collected \cup
                      IF docPhase = "path" THEN app.endpoints[endpoint].success ELSE {})
       IN IF new = {}
          THEN docPhase' = "endpoint" /\ endpoint' = endpoint + 1 /\ UNCHANGED toRender
          ELSE docPhase' = "schemas" /\ toRender' = new /\ UNCHANGED endpoint
    /\ collected' = {}
    /\ UNCHANGED <<app, renderers, extracted, schemas, pathRefs>>

\* Every endpoint is in the document, or one of them threw.
DocEnded ==
    \/ docPhase = "failed"
    \/ docPhase = "endpoint" /\ endpoint > Len(app.endpoints)

DocNext ==
    \/ docPhase = "idle" /\ \E a \in Apps : Declare(a)
    \/ ToPathObject \/ RenderSchema \/ EnterRenderer \/ RenderAttribute \/ ClaimAttribute
    \/ LeaveRenderer \/ RenderEnds \/ ToSchemaObject

DocSpec == DocInit /\ [][DocNext]_docVars

(***************************************************************************)
(* Properties                                                              *)
(***************************************************************************)

\* The serializers a component refers to: those of the declarations its keys
\* are rendered from, and the siblings kept as refs.
Refs(schema) ==
    LET Of(properties) == UNION {ToSet(Attributes(properties[k][1])[properties[k][2]].to) :
                                    k \in DOMAIN properties}
    IN  Of(schema.properties) \cup
        UNION {IF b.ref = "none" THEN Of(b.properties) ELSE {b.ref} :
                  b \in {schema.siblings[i] : i \in DOMAIN schema.siblings}}

\* The serializers that g's s flattens, those that they flatten and so on.
Flattened(g, s) == UNION {ToSet(g[s][i].to) : i \in {j \in DOMAIN g[s] : g[s][j].flatten}}
Spread(g, s) ==
    {t \in DOMAIN g : \A S \in SUBSET DOMAIN g :
        s \in S /\ (\A u \in S : Flattened(g, u) \subseteq S) => t \in S}
FlattensItself(g) == \E s \in DOMAIN g : \E t \in Flattened(g, s) : s \in Spread(g, t)

\* The keys that Dream renders for a serializer, and the attribute whose value
\* a payload holds under a key: the last one that renders it.
KeysOf(g, s) == UNION {UNION {g[t][i].keys : i \in DOMAIN g[t]} : t \in Spread(g, s)}
KeysAt(g, s, i) ==
    g[s][i].keys \cup
    IF g[s][i].flatten THEN UNION {KeysOf(g, t) : t \in ToSet(g[s][i].to)} ELSE {}
LastAt(g, s, k) == CHOOSE i \in DOMAIN g[s] :
    k \in KeysAt(g, s, i) /\ \A j \in DOMAIN g[s] : j > i => k \notin KeysAt(g, s, j)

\* Between endpoints, every $ref of the paths and of the components resolves,
\* whatever the endpoints before have rendered and however serializers refer to
\* one another: the marks that keep the walk finite never hide a serializer.
\* And "A later declaration of a key wins the render": in each component, every
\* key is in one branch only, that of the last declaration that renders it, also
\* when the branch is the ref of another serializer's component -- unless
\* serializers flatten themselves, which have no keys to speak of.
ComponentsSound ==
    docPhase = "endpoint" =>
        /\ pathRefs \cup UNION {Refs(schemas[s]) : s \in DOMAIN schemas} \subseteq DOMAIN schemas
        /\ ~FlattensItself(app.attributes) =>
             \A s \in DOMAIN schemas : \A k \in KeysOf(app.attributes, s) :
               LET c == schemas[s]
                   own == IF k \in DOMAIN c.properties THEN {c.properties[k][2]} ELSE {}
                   spread == {i \in DOMAIN c.siblings :
                                k \in (IF c.siblings[i].ref = "none"
                                       THEN DOMAIN c.siblings[i].properties
                                       ELSE KeysOf(app.attributes, c.siblings[i].ref))}
               IN own \cup spread = {LastAt(app.attributes, s, k)} /\ own \cap spread = {}

\* "alreadyExtractedDescendantSerializers is used ... also to avoid infinite
\* loops (a recursive OpenAPI structure is valid)": no renderer is entered from
\* itself with the arguments it was entered with, for it would never return.
RecursionEnds ==
    \A i, j \in DOMAIN renderers :
        i < j => \/ renderers[i].of # renderers[j].of
                 \/ renderers[i].forKeys # renderers[j].forKeys
                 \/ renderers[i].entry # renderers[j].entry
=============================================================================
