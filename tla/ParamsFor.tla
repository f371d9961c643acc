------------------------------ MODULE ParamsFor ------------------------------
(***************************************************************************)
(* paramsFor and extractParams: the columns of a model taken from a        *)
(* request, each cast as its database type, all failures reported at once  *)
(* (src/src/server/params.ts, src/src/controller/index.ts).                *)
(***************************************************************************)
EXTENDS ParamsCast

CONSTANTS
    Columns,   \* the model's param-safe columns, a sequence
    Metas,     \* what a column may be declared as
    Elements   \* the objects a request may hold: a value for each column

(***************************************************************************)
(* Columns                                                                 *)
(***************************************************************************)

ColumnNames == ToSet(Columns)

ASSUME ColumnsAssumption == Columns \in Seq(ColumnNames)
ASSUME ElementsAssumption == Elements \subseteq [ColumnNames -> Values]

\* DB_TYPE_TO_CAST_TYPE; arrays of these types are cast to arrays.
CastTypeOf ==
    LET texts == {"character varying", "citext", "text"}
        timestamps == {"timestamp", "timestamp with time zone", "timestamp without time zone"}
        times == {"time", "time without time zone"}
        timesWithZone == {"timetz", "time with time zone"}
        jsons == {"json", "jsonb"}
        asNamed == {"bigint", "boolean", "date", "integer", "uuid"}
    IN [d \in texts \cup timestamps \cup times \cup timesWithZone \cup jsons \cup asNamed
              \cup {"numeric"} |->
          CASE d \in texts -> "string"
            [] d \in timestamps -> "datetime"
            [] d \in times -> "time"
            [] d \in timesWithZone -> "timetz"
            [] d \in jsons -> "json"
            [] d = "numeric" -> "number"
            [] d \in asNamed -> d]

\* The types that a request body is documented with (dreamColumnOpenapiShape).
DocumentedTypes ==
    DOMAIN CastTypeOf
    \cup {"bigserial", "bytea", "char", "character", "cidr", "inet", "macaddr", "money", "path",
          "varbit", "varchar", "xml", "serial", "smallint", "smallserial", "decimal", "double",
          "real", "datetime"}

\* A virtual attribute is declared with an OpenAPI type; one that is not a
\* primitive or an array of them cannot be cast.
CastTypeOfOpenapi(t) ==
    CASE t \in {"date-time"} -> "datetime"
      [] t = "decimal" -> "number"
      [] t = "object" -> "json"
      [] t \in NonArrayTypes -> t
      [] OTHER -> "none"

OptsFor(m) == [NoOpts EXCEPT !.allowNull = m.allowNull, !.enum = m.is = "enum"]

\* An array of enum values is not taken from one value, nor are its nulls left
\* out; and null itself is no such array, whatever the column allows.
CastEnums(v, m) ==
    LET outcomes == [i \in DOMAIN v.items |-> CastScalar(v.items[i], "string", OptsFor(m))]
    IN IF v.kind # "array" THEN Refuse
       ELSE IF \E i \in DOMAIN outcomes : outcomes[i].is # "accepted" THEN FirstFailure(outcomes)
       ELSE Accept(Arr([i \in DOMAIN outcomes |-> outcomes[i].value]))

\* A column whose type is not in the table gets nothing, without a word.
CastColumn(v, m) ==
    LET As(base) == Cast(v, [base |-> base, array |-> m.array], OptsFor(m))
    IN CASE m.is = "database" /\ m.type \in DOMAIN CastTypeOf -> As(CastTypeOf[m.type])
         [] m.is = "virtual" -> IF CastTypeOfOpenapi(m.type) = "none" THEN Throw
                                ELSE As(CastTypeOfOpenapi(m.type))
         [] m.is = "enum" -> IF m.array THEN CastEnums(v, m) ELSE As("string")
         [] OTHER -> [is |-> "dropped", value |-> Undefined]

(***************************************************************************)
(* The call                                                                *)
(***************************************************************************)

VARIABLES
    doing,     \* "idle", "extracting", "returned", "refused" or "threw"
    meta,      \* what the columns are declared as
    allowed,   \* the columns the caller wants
    elements,  \* the objects to take params from
    cursor,    \* the element and the column the loop is at
    params,    \* what was taken from each element so far
    failed     \* the columns of this element that were refused

forVars == <<doing, meta, allowed, elements, cursor, params, failed>>

ForInit ==
    /\ doing = "idle" /\ meta \in [ColumnNames -> {CHOOSE m \in Metas : TRUE}]
    /\ allowed = {} /\ elements = <<>> /\ cursor = <<1, 1>> /\ params = <<>> /\ failed = {}

ForTypeOK ==
    /\ doing \in {"idle", "extracting", "returned", "refused", "threw"}
    /\ meta \in [ColumnNames -> Metas] /\ allowed \subseteq ColumnNames
    /\ elements \in Seq([ColumnNames -> Values]) /\ params \in Seq([ColumnNames -> Values])
    /\ Len(params) = Len(elements)
    /\ cursor[1] \in 1..(Len(elements) + 1) /\ cursor[2] \in 1..(Len(Columns) + 1)
    /\ failed \subseteq ColumnNames

Nothing == [c \in ColumnNames |-> Undefined]

\* paramsSourceFor, and what Params.for makes of it: without a key, the params
\* themselves, an object always.  Without array, a value that is not an object
\* has no columns; with it, only an absent one or an array of objects will do,
\* and a key is needed.
Source(value, array, key) ==
    IF array /\ ~key THEN /\ doing' = "threw" /\ elements' = <<>>
    ELSE IF array
    THEN CASE value.is = "absent" -> doing' = "extracting" /\ elements' = <<>>
           [] value.is = "objects" -> doing' = "extracting" /\ elements' = value.objects
           [] OTHER -> doing' = "refused" /\ elements' = <<>>
    ELSE /\ doing' = "extracting"
         /\ elements' = IF value.is = "object" THEN value.objects ELSE <<Nothing>>

Call ==
    /\ doing = "idle"
    /\ meta' \in [ColumnNames -> Metas] /\ allowed' \in SUBSET ColumnNames
    /\ \E array \in BOOLEAN, key \in BOOLEAN :
          \/ \E is \in {"absent", "scalar", "mixed"} :
                key /\ Source([is |-> is, objects |-> <<>>], array, key)
          \/ \E e \in Elements : Source([is |-> "object", objects |-> <<e>>], array, key)
          \/ \E e, f \in Elements : key /\ Source([is |-> "objects", objects |-> <<e, f>>], array, key)
    /\ cursor' = <<1, 1>> /\ params' = [i \in DOMAIN elements' |-> Nothing] /\ failed' = {}

\* A column that is not param safe or not wanted is never looked at.
Extract(c) ==
    LET v == elements[cursor[1]][c]
        cast == CastColumn(v, meta[c])
    IN IF c \notin allowed \/ v = Undefined THEN UNCHANGED <<doing, params, failed>>
       ELSE /\ params' = IF cast.is = "accepted" THEN [params EXCEPT ![cursor[1]][c] = cast.value]
                                                 ELSE params
            /\ failed' = IF cast.is = "refused" THEN failed \cup {c} ELSE failed
            /\ doing' = IF cast.is = "threw" THEN "threw" ELSE doing

\* Mutant: the first failure ends the loop.
NextColumnUnlessFailed ==
    /\ doing = "extracting" /\ cursor[1] <= Len(elements) /\ cursor[2] <= Len(Columns)
    /\ IF failed = {} THEN Extract(Columns[cursor[2]]) ELSE UNCHANGED <<doing, params, failed>>
    /\ cursor' = <<cursor[1], cursor[2] + 1>>
    /\ UNCHANGED <<meta, allowed, elements>>

NextColumn ==
    /\ doing = "extracting" /\ cursor[1] <= Len(elements) /\ cursor[2] <= Len(Columns)
    /\ Extract(Columns[cursor[2]])
    /\ cursor' = <<cursor[1], cursor[2] + 1>>
    /\ UNCHANGED <<meta, allowed, elements>>

\* The failures of one element are reported together, and the elements after
\* it are not looked at.
NextElement ==
    /\ doing = "extracting" /\ cursor[1] <= Len(elements) /\ cursor[2] > Len(Columns)
    /\ doing' = IF failed = {} THEN doing ELSE "refused"
    /\ cursor' = IF failed = {} THEN <<cursor[1] + 1, 1>> ELSE cursor
    /\ UNCHANGED <<meta, allowed, elements, params, failed>>

Return ==
    /\ doing = "extracting" /\ cursor[1] > Len(elements)
    /\ doing' = "returned"
    /\ UNCHANGED <<meta, allowed, elements, cursor, params, failed>>

ForNext == Call \/ NextColumn \/ NextElement \/ Return
ForSpec == ForInit /\ [][ForNext]_forVars

(***************************************************************************)
(* Properties                                                              *)
(***************************************************************************)

\* Was the column's value of an element sent, and is it the caller's to take?
Asked(i, c) == c \in allowed /\ elements[i][c] # Undefined

\* All or nothing: params are returned only if no value the caller asked for
\* was unfit for its column, and each is then what its own column's cast makes
\* of it; a refusal names every unfit column of the first element that has one
\* and no other; and what was not asked for is never returned.
AllOrNothing ==
    LET Fit(i, c) == ~Asked(i, c) \/ CastColumn(elements[i][c], meta[c]).is \in {"accepted", "dropped"}
    IN /\ doing = "returned" =>
            \A i \in DOMAIN elements, c \in ColumnNames :
               /\ Fit(i, c)
               /\ params[i][c] = IF Asked(i, c) THEN CastColumn(elements[i][c], meta[c]).value
                                 ELSE Undefined
       /\ doing = "refused" /\ elements # <<>> =>
            /\ failed = {c \in ColumnNames : ~Fit(cursor[1], c)}
            /\ \A i \in 1..(cursor[1] - 1), c \in ColumnNames : Fit(i, c)

\* Params.for: "given an object with key value pairs, it will validate each
\* field based on the underlying schema of the passed dream model class".
\* Violated: of a column whose type is documented in request bodies but not in
\* the table of casts the value is silently dropped.
EachFieldValidated ==
    doing = "returned" =>
       \A i \in DOMAIN elements, c \in ColumnNames :
          /\ Asked(i, c) /\ ~Absent(elements[i][c])
          /\ meta[c].is = "database" /\ meta[c].type \in DocumentedTypes
          => params[i][c] # Undefined
=============================================================================
