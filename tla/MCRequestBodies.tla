-------------------------- MODULE MCRequestBodies --------------------------
EXTENDS RequestBodies

TwoDocs == <<"admin", "default">>
LegacyDocs == {"default"}

\* Two models: a param-safe enum in each, one more that is not param safe.
ModelColumnsFn == [m \in {"User", "Pet"} |->
    IF m = "User" THEN {"name", "kind", "role"} ELSE {"kind"}]
ParamSafeFn == [m \in {"User", "Pet"} |-> IF m = "User" THEN {"name", "kind"} ELSE {"kind"}]
EnumTypesFn == [m \in {"User", "Pet"} |->
    [c \in ModelColumnsFn[m] \ {"name"} |-> IF c = "role" THEN "roles" ELSE m]]

\* A node with a segment below it.
Under(node, k, t) ==
    [p \in {<<>>} \cup {<<k>> \o q : q \in DOMAIN t} |-> IF p = <<>> THEN node ELSE t[Tail(p)]]
Keys2 == {"kind", "extra"}

\* Segments within one another: models with and without a list of params, and
\* the places where a model may stand.
Flat == {Segment(node) : node \in
            {Leaf, For("User", FALSE, {}, {"role"}), For("Pet", FALSE, {}, {}),
             For("User", TRUE, {"kind", "role"}, {})}}
Around(S) ==
    {Under(Holder, "items", t) : t \in S}
    \cup {Under(Object, k, t) : k \in Keys2, t \in S}
    \cup {Under(For("User", given, {"kind"}, I), k, t) :
             given \in BOOLEAN, I \in {{}, {"role"}}, k \in Keys2, t \in S}
Segments == Flat \cup Around(Flat) \cup Around(Around(Flat))

\* requestBody without `for`: the model the endpoint is for, if it has one.
OwnModel == For("own", FALSE, {}, {})
OwnSegments == {Segment(OwnModel), Segment(For("own", TRUE, {"kind"}, {})),
                Under(OwnModel, "extra", Under(Object, "x", Segment(Leaf)))}
BodySet ==
    {Endpoint(TRUE, TRUE, t, "none", FALSE, paged) : t \in Segments, paged \in BOOLEAN}
    \cup {Endpoint(TRUE, TRUE, t, m, required, paged) :
             t \in OwnSegments, m \in {"none", "User"}, required, paged \in BOOLEAN}
    \cup {Endpoint(FALSE, TRUE, Under(Holder, "items", Segment(For("Pet", FALSE, {}, {}))),
                   "none", FALSE, TRUE),
          Endpoint(TRUE, FALSE, Segment(OwnModel), "User", FALSE, FALSE),
          \* The page takes the place of a model's params.
          Endpoint(TRUE, TRUE, Under(For("Pet", TRUE, {"kind"}, {}), "page",
                                     Segment(For("User", TRUE, {"kind"}, {}))), "none", FALSE, TRUE)}
=============================================================================
