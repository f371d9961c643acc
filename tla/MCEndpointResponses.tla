------------------------- MODULE MCEndpointResponses -------------------------
EXTENDS EndpointResponses

\* Two models with two serializers each, and one more.
SerializersFn == [m \in {"user", "pet"} |->
    IF m = "user" THEN [default |-> "User", summary |-> "UserSummary"]
    ELSE [default |-> "Pet", summary |-> "PetSummary"]]

SerializableSet == {NoSerializable, Model("user"), Serializer("UserSummary"), Models(<<"user", "pet">>),
                    SerializerList(<<"User", "Pet">>)}

\* Responses that are declared: none, one, or two, with content or without; no
\* content is declared for a 204, which cannot carry any.
ResponsesSet ==
    {NoResponses} \cup {r \in UNION {[of -> BOOLEAN] :
        of \in {{200}, {201}, {204}, {404}, {201, 404}, {202, 204}}} :
            204 \in DOMAIN r => ~r[204]}

\* Every shape with each status, over a few responses; every combination of
\* statuses and responses, for one shape.
Shapes == {<<FALSE, FALSE, FALSE>>, <<FALSE, FALSE, TRUE>>, <<TRUE, FALSE, FALSE>>, <<TRUE, TRUE, TRUE>>}
StatusOptions == {NoStatus, 200, 201, 204, 205, 404}
OptionsSet ==
    {Options(key, s[1], s[2], s[3], status, NoResponses) :
        key \in {NoKey, "summary"}, s \in Shapes, status \in StatusOptions}
    \cup {Options(NoKey, FALSE, FALSE, FALSE, status, responses) :
        status \in StatusOptions, responses \in ResponsesSet}
CallSet == {Decorator(s, o) : s \in SerializableSet \ {NoSerializable}, o \in OptionsSet}
           \cup {DecoratorOf(s) : s \in SerializableSet \ {NoSerializable}}
           \cup {DecoratorWith(o) : o \in OptionsSet}
InheritedSet == {Decorator(Model("user"), Options("summary", FALSE, FALSE, FALSE, NoStatus, NoResponses))}

\* A document without defaults, and one that adds a success to every endpoint.
DefaultsFn == [doc \in {"default", "mobile"} |-> IF doc = "default" THEN {404} ELSE {200, 202, 404}]

DataSet == {NoData, Null, Plain, Record("user"), Record("pet"), Builder("Pet"),
            ListOf(<<>>), ListOf(<<Record("user"), Record("pet")>>), ListOf(<<Builder("User")>>),
            PageOf(<<Record("user")>>), PageOf(<<Builder("Pet"), Null>>)}

\* One helper of each kind, and a name that is in the documentation of send().
HelperSet == {"respond", "created", "nonAuthoritativeInformation", "noContent", "found", "notFound"}
SymbolSet == {"created", "teapot"}
=============================================================================
