-------------------------- MODULE MCOpenapiDocument --------------------------
EXTENDS OpenapiDocument

\* Attributes, and every sequence of up to n of them.
Renders(kind, k, to) ==
    [kind |-> kind, keys |-> {k}, to |-> to, flatten |-> FALSE, optional |-> FALSE]
Spreads(kind, K, to, optional) ==
    [kind |-> kind, keys |-> K, to |-> to, flatten |-> TRUE, optional |-> optional]
UpTo(S, n) == UNION {[1..m -> S] : m \in 0..n}

\* Three serializers that render, and flatten, one another: an association may
\* be rendered with two of them, and two render the same keys.
AsDeclared == UpTo({Renders("attribute", "x", <<>>), Renders("rendersMany", "y", <<"B">>),
                    Spreads("rendersOne", {}, <<"B">>, FALSE),
                    Spreads("rendersOne", {}, <<"B", "C">>, TRUE),
                    Spreads("custom", {"x"}, <<>>, FALSE)}, 3)
BsDeclared == UpTo({Renders("attribute", "x", <<>>), Renders("rendersOne", "y", <<"A", "C">>),
                    Spreads("custom", {}, <<"C">>, FALSE)}, 2)
CsDeclared == {<<Renders("attribute", "y", <<>>)>>,
               <<Renders("custom", "y", <<"B">>), Renders("attribute", "x", <<>>)>>}
Graphs == {[s \in {"A", "B", "C"} |-> IF s = "A" THEN a ELSE IF s = "B" THEN b ELSE c] :
              a \in AsDeclared, b \in BsDeclared, c \in CsDeclared}

\* The graphs in which nothing that an attribute flattens leads back to it.
To(g, s) == UNION {ToSet(g[s][i].to) : i \in DOMAIN g[s]}
Onward(g, S) == S \cup UNION {To(g, t) : t \in S}
LeadsBack(g, s, i) == g[s][i].flatten /\ s \in Onward(g, Onward(g, ToSet(g[s][i].to)))
Unspread(g) == \A s \in DOMAIN g : \A i \in DOMAIN g[s] : ~LeadsBack(g, s, i)

Endpoint(routed, success, responses) ==
    [routed |-> routed, success |-> success, responses |-> responses]
Declared(g, e, b) == [attributes |-> g, endpoints |-> e, bypass |-> b]
Direct == <<Endpoint(TRUE, {"A"}, {})>>
Several == <<Endpoint(TRUE, {}, {"B"}), Endpoint(FALSE, {"C"}, {}), Endpoint(TRUE, {"A"}, {"C"})>>

\* Documents whose endpoints name the serializers in turn, in responses written
\* by hand or in their own, one of them without a route; and documents of every
\* graph.
AppSet == {Declared(g, Several, TRUE) : g \in {h \in Graphs : Unspread(h)}} \cup
          {Declared([s \in {"A", "B", "C"} |-> <<>>], Several, FALSE)}
AnyApps == {Declared(g, Direct, FALSE) : g \in Graphs}
=============================================================================
