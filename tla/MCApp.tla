------------------------------- MODULE MCApp -------------------------------
(***************************************************************************)
(* An application from its boot to an answer: init() calls over the        *)
(* process-wide caches (AppInit), the configuration and the boots of one   *)
(* server (ServerBoot), the run of its routes file (RouterDsl), the        *)
(* schemas that requests and answers are held to (PayloadValidation), and  *)
(* the params an action takes from a request (ParamsCast, ParamsFor).      *)
(* They share no state: a behaviour is one of them, the others resting.    *)
(***************************************************************************)
EXTENDS AppInit, ServerBoot, PayloadValidation, RouterDsl, ParamsFor

\* The two boots of a server are interchangeable.
Symmetry == Permutations(Boots)

\* Two documents: one validates everything, the other what the server receives
\* in a query and what it answers.
DocSeq == <<"admin", "default">>
ValidatesFn == [d \in Docs |-> IF d = "admin" THEN Targets ELSE {"query", "responseBody"}]

\* only: ['index', 'show'], or except: ['create', 'destroy'], or neither.
Only == {{"index", "show"}}
Except == {{"create", "destroy"}}

\* What a request may hold: absent values, texts and numbers on either side of
\* the safe integers, texts of every form and length, arrays with nulls.
Digits(n) == Text(2, {"digits", "decimal"}, n)
Member == Padded(Text(3, {"member", "match"}, 0))
SentValues ==
    {Undefined, Null, Object, Infinite, Bool(TRUE), Bool(FALSE), Num(2), Num(5), Num(18),
     Text(1, {"digits", "decimal", "true", "member"}, 2), Padded(Digits(14)), Digits(16),
     Digits(18), Digits(20), Text(3, {"decimal"}, 5), Text(5, {"decimal"}, 80), Member,
     Text(6, {"match"}, 0), Text(4, {"date", "datetime"}, 0), Text(5, {"time", "timetz"}, 0),
     Text(5, {"uuid"}, 0), Arr(<<>>), Arr(<<Null, Digits(18)>>),
     Arr(<<Padded(Digits(4)), Null, Num(6)>>), Arr(<<Object>>)}
PathSet == {<<>>, <<"undefined">>, <<"object", "null">>, <<"array">>,
            <<"object", "scalar">>, <<"object", "object">>}
OptSet == {NoOpts, [NoOpts EXCEPT !.allowNull = TRUE],
           [NoOpts EXCEPT !.minimum = 5, !.maximum = 16],
           [NoOpts EXCEPT !.minLength = 2, !.maxLength = 3],
           [NoOpts EXCEPT !.enum = TRUE], [NoOpts EXCEPT !.match = TRUE, !.allowNull = TRUE]}
RegexSet == {"regex"}

\* Two columns of every kind: castable, array, documented but not castable,
\* virtual with a primitive type and without, one enum value and several.
Meta(is, t, array, null) == [is |-> is, type |-> t, array |-> array, allowNull |-> null]
ColumnSeq == <<"c1", "c2">>
MetaSet == {Meta("database", "integer", FALSE, FALSE), Meta("database", "text", TRUE, TRUE),
            Meta("database", "timestamp", FALSE, TRUE), Meta("database", "smallint", FALSE, FALSE),
            Meta("virtual", "decimal", FALSE, TRUE), Meta("virtual", "anyOf", FALSE, FALSE),
            Meta("enum", "color", FALSE, FALSE), Meta("enum", "color", TRUE, TRUE)}
ElementSet ==
    {[c \in {"c1", "c2"} |-> IF c = "c1" THEN v ELSE w] :
        v \in {Undefined, Digits(4), Member},
        w \in {Null, Digits(18), Member, Arr(<<Member, Null>>)}}

VARIABLE part   \* the part that runs
Parts == {"caches", "boot", "routes", "payloads", "casts", "params"}
restVars == <<dslVars, castVars, forVars>>

\* Where the boot and the payloads rest while another part runs.
RestingBoot == declared = Default /\ ~cors /\ ~development
RestingPayloads == \A a \in Actions : fast[a] /\ \A d \in Docs : documented[a][d] = {}

MCInit ==
    /\ part \in Parts
    /\ CachesInit /\ BootInit /\ Init /\ DslInit /\ CastInit /\ ForInit
    /\ part = "boot" \/ RestingBoot
    /\ part = "payloads" \/ RestingPayloads
MCNext ==
    /\ \/ part = "caches" /\ CachesNext /\ UNCHANGED <<bootVars, vars, restVars>>
       \/ part = "boot" /\ BootNext /\ UNCHANGED <<cacheVars, vars, restVars>>
       \/ part = "payloads" /\ Next /\ UNCHANGED <<cacheVars, bootVars, restVars>>
       \/ part = "routes" /\ DslNext
          /\ UNCHANGED <<cacheVars, bootVars, vars, castVars, forVars>>
       \/ part = "casts" /\ CastNext
          /\ UNCHANGED <<cacheVars, bootVars, vars, dslVars, forVars>>
       \/ part = "params" /\ ForNext
          /\ UNCHANGED <<cacheVars, bootVars, vars, dslVars, castVars>>
    /\ UNCHANGED part
MCSpec == MCInit /\ [][MCNext]_<<part, cacheVars, bootVars, vars, restVars>>

\* Every variable of the modules run side by side keeps its type.
TypesOK == CachesTypeOK /\ BootTypeOK /\ TypeOK /\ DslTypeOK /\ CastTypeOK /\ ForTypeOK
=============================================================================
