---------------------------- MODULE GeneratedSpecs ----------------------------
(***************************************************************************)
(* The controller that `psy g:resource` writes and the spec that it writes *)
(* for that controller.  Two generators                                    *)
(* (generateControllerContent.ts, generateResourceControllerSpecContent.ts *)
(* under src/src/generate/helpers) derive them apart from the same         *)
(* arguments; here the examples of the spec are run against the actions,   *)
(* whose bodies are the generated ones, with the comment signs removed.    *)
(*                                                                         *)
(* A model is named by its resource.  The database, the model, its factory *)
(* and its serializers are Dream's: a column is required unless optional,  *)
(* a record has the owner that the factory or the association gives it,    *)
(* and a serializer renders every column.                                  *)
(***************************************************************************)
EXTENDS Resources

CONSTANT Scaffolds   \* requests, each with the owning model and the columns of the run

VARIABLES
    scaffold,   \* what the generators were given, once they have run
    example,    \* the example of the spec that was run last, if one was
    passed      \* whether it did as it expects

specVars == <<scaffold, example, passed>>

NoOwner == "none"
\* Names that stand for no model: of no owner, and of a record that is another's.
ASSUME ScaffoldsAssumption ==
    \A r \in Scaffolds :
        /\ r.owning # "somebody"
        /\ \A i \in DOMAIN r.ancestors : r.ancestors[i].name # NoOwner

\* A token of the command line, name:type or name:type[], as parseAttribute reads
\* its type.  polymorphic: the name ends in _type or _id.
Column(name, type, optional) ==
    [name |-> name, type |-> type, optional |-> optional, array |-> FALSE, polymorphic |-> FALSE]

(***************************************************************************)
(* Columns                                                                 *)
(***************************************************************************)

\* parseAttribute does not drop it.
Parsed(c) == c.type = "belongs_to" \/ (~c.polymorphic /\ c.name # "deletedAt")
ParsedColumns(r) == {c \in r.columns : Parsed(c)}

\* paramSafeColumnNamesFromCliTokens.
SafeColumns(r) ==
    {c \in ParsedColumns(r) :
        /\ c.type # "belongs_to"
        /\ c.name \notin {"id", "createdAt", "updatedAt", "deletedAt", "type"}}

\* processAttributes: the columns that the spec gives values to.
SpecTypes == {"enum", "string", "text", "citext", "encrypted", "integer", "decimal", "bigint",
              "date", "datetime", "uuid"}
SentColumns(r) ==
    {c \in ParsedColumns(r) : c.type \in SpecTypes /\ ~(c.type = "enum" /\ c.name = "type")}
\* addOriginalValueTracking: those that an update of somebody else's record is
\* checked to have left alone.
TrackedColumns(r) ==
    {c \in ParsedColumns(r) : /\ c.type # "belongs_to" /\ c.name # "type"
                              /\ ~(c.array /\ c.type \in {"date", "datetime"})}

\* The names in an example that stand for the values of its columns.
Name(prefix, of) == <<prefix, of>>
ValueName(c, action) ==
    CASE c.type = "date" -> {Name(IF action = "create" THEN "today" ELSE "yesterday", "")}
      [] c.type = "datetime" -> {Name(IF action = "create" THEN "now" ELSE "lastHour", "")}
      [] c.type = "uuid" -> {Name(IF action = "create" THEN "uuid" ELSE "new uuid", c.name)}
      [] OTHER -> {}
Included(r, type) == \E c \in SentColumns(r) : c.type = type

(***************************************************************************)
(* The controller                                                          *)
(***************************************************************************)

InArea(r, area) == Area(PathOf(r)) = <<area>>

\* Mutant: an admin controller bypasses the owner, whether there is one or not.
DirectInAdmin(r) == InArea(r, "admin")

\* useDirectModelAccess, which each of the generators works out for itself.
UseDirectModelAccess(r) == InArea(r, "admin") /\ r.owning = NoOwner
SpecDirectAccess(r) == InArea(r, "admin") /\ r.owning = NoOwner
UserOf(r) == IF InArea(r, "internal") THEN "internalUser"
             ELSE IF InArea(r, "admin") THEN "adminUser" ELSE "user"
\* The record that this.current<Owner> is, in the controller.
ControllerOwner(r) ==
    IF r.owning # NoOwner THEN r.owning
    ELSE IF InArea(r, "internal") THEN "internalUser" ELSE "user"

SerializerKey(r, summary) ==
    IF InArea(r, "admin") THEN (IF summary THEN "adminSummary" ELSE "admin")
    ELSE IF InArea(r, "internal") THEN (IF summary THEN "internalSummary" ELSE "internal")
    ELSE IF summary THEN "summary" ELSE "default"

\* What the decorator of an action documents, and what its body does.
Generated(status, renders, answers, loads, accepts) ==
    [documents |-> status, renders |-> renders, answers |-> answers, loads |-> loads,
     accepts |-> accepts]
GeneratedAction(r, action) ==
    LET whole == SerializerKey(r, FALSE) summary == SerializerKey(r, TRUE) IN
    CASE action = "create" -> Generated(201, whole, 201, whole, SafeColumns(r))
      [] action = "index" -> Generated(200, summary, 200, summary, {})
      [] action = "show" -> Generated(200, whole, 200, whole, {})
      [] action = "update" -> Generated(204, "nothing", 204, whole, SafeColumns(r))
      [] action = "destroy" -> Generated(204, "nothing", 204, whole, {})

\* The query that an action begins with: the model's, or the owner's association.
InScope(r, records) == {x \in records : UseDirectModelAccess(r) \/ x.owner = ControllerOwner(r)}

\* The parameters of a request that are given to a record.
Assigned(r, action) == GeneratedAction(r, action).accepts \cap SentColumns(r)
Required(r) ==
    {c \in r.columns :
        ~c.optional /\ c.name \notin {"id", "createdAt", "updatedAt", "deletedAt", "type"}}
Creatable(r) ==
    \A c \in Required(r) :
        IF c.type = "belongs_to" THEN ~UseDirectModelAccess(r) /\ c.name = ControllerOwner(r)
        ELSE c \in Assigned(r, "create")

Reply(status, results) == [status |-> status, results |-> results]
\* What a request is answered with, and the records that it leaves.  One of a
\* plural resource names its record, one of a singular resource takes the first.
Outcome(r, action, records) ==
    LET found == InScope(r, records)
        ok == GeneratedAction(r, action).answers
    IN CASE action = "index" -> [reply |-> Reply(ok, found), records |-> records]
         [] action = "create" ->
              LET new == [owner |-> IF UseDirectModelAccess(r) THEN NoOwner ELSE ControllerOwner(r),
                          values |-> [c \in r.columns |->
                              IF c \in Assigned(r, "create") THEN "original" ELSE "unset"]]
              IN IF Creatable(r) THEN [reply |-> Reply(ok, {new}), records |-> records \cup {new}]
                 ELSE [reply |-> Reply(400, {}), records |-> records]
         [] action # "index" /\ action # "create" /\ found = {} ->
              [reply |-> Reply(404, {}), records |-> records]
         [] action = "show" /\ found # {} -> [reply |-> Reply(ok, found), records |-> records]
         [] action = "update" /\ found # {} ->
              [reply |-> Reply(ok, {}),
               records |-> (records \ found) \cup
                           {[x EXCEPT !.values = [c \in r.columns |->
                               IF c \in Assigned(r, "update") THEN "updated" ELSE @[c]]] : x \in found}]
         [] action = "destroy" /\ found # {} -> [reply |-> Reply(ok, {}), records |-> records \ found]

(***************************************************************************)
(* The spec                                                                *)
(***************************************************************************)

\* createModelConfiguration, and the variables that beforeEach assigns.
SpecOwner(r) == IF r.owning # NoOwner THEN r.owning ELSE UserOf(r)
Variables(r) == {UserOf(r), SpecOwner(r)}
\* extractPathArgsFromResourcefulPath: a placeholder takes the id of the variable
\* named for the segment before it.
PathArguments(r) == {r.ancestors[i].name : i \in {j \in DOMAIN r.ancestors :
                                                    r.ancestors[j].method = "resources"}}

\* An example for each action, and one of a record that is somebody else's.
Examples(r) ==
    {[action |-> a, whose |-> "own"] : a \in Actions(r)}
    \cup {[action |-> a, whose |-> "another's"] :
            a \in IF r.method = "resource" \/ SpecDirectAccess(r) THEN {} ELSE Actions(r) \ {"create"}}

\* simpleCreationCommand, and the creation of somebody else's record.
Created(r, e) ==
    IF e.action = "create" THEN {}
    ELSE {[owner |-> IF e.whose = "own" /\ ~SpecDirectAccess(r) THEN SpecOwner(r) ELSE "somebody",
           values |-> [c \in r.columns |-> "factory's"]]}

\* What an example refers to, and what is declared or imported for it: the
\* variables of beforeEach, those of the columns' values, and what makes these.
ReferredNames(r, e) ==
    LET values == UNION {ValueName(c, e.action) : c \in SentColumns(r)} IN
    {Name("id", v) : v \in PathArguments(r)}
    \cup (IF e.action \notin {"create", "update"} THEN {}
          ELSE IF e.whose = "own" THEN values
          ELSE {n \in values : n[1] # "new uuid"})
    \cup {Name("import", type) : type \in IF e.action \notin {"create", "update"} THEN {}
                                        ELSE {t \in {"date", "datetime", "uuid"} : Included(r, t)}}
DateTimeSetup(r, e) ==
    LET of(type, name) == IF Included(r, type) THEN {Name(name, "")} ELSE {}
        uuids(prefix) == {Name(prefix, c.name) : c \in {d \in SentColumns(r) : d.type = "uuid"}}
    IN CASE e.action = "create" -> uuids("uuid") \cup of("date", "today") \cup of("datetime", "now")
         [] e.action = "update" ->
              (IF e.whose = "own" THEN uuids("new uuid") ELSE {})
              \cup of("date", "yesterday") \cup of("datetime", "lastHour")
         [] OTHER -> {}
ImportStatements(r) == {Name("import", t) : t \in {u \in {"date", "datetime", "uuid"} : Included(r, u)}}
DeclaredNames(r, e) ==
    {Name("id", v) : v \in Variables(r)} \cup DateTimeSetup(r, e) \cup ImportStatements(r)

ExpectedStatus(e) ==
    IF e.whose = "another's" THEN IF e.action = "index" THEN 200 ELSE 404
    ELSE CASE e.action \in {"index", "show"} -> 200
           [] e.action = "create" -> 201
           [] e.action \in {"update", "destroy"} -> 204

\* The expectations of the examples, of a reply and of the records that are left.
ExpectedOfIndex(r, e, before, out) ==
    out.reply.results = IF e.whose = "own" THEN before ELSE {}
ExpectedOfShow(r, e, before, out) == e.whose = "own" => out.reply.results = before
ExpectedOfCreate(r, e, before, out) ==
    /\ {x \in out.records : SpecDirectAccess(r) \/ x.owner = SpecOwner(r)} # {}
    /\ out.reply.results = out.records
    /\ \A x \in out.records : \A c \in SentColumns(r) : x.values[c] = "original"
ExpectedOfUpdate(r, e, before, out) ==
    \A x \in out.records :
        IF e.whose = "own" THEN \A c \in SentColumns(r) : x.values[c] = "updated"
        ELSE \A c \in TrackedColumns(r) : x.values[c] = "factory's"
ExpectedOfDestroy(r, e, before, out) ==
    out.records = IF e.whose = "own" THEN {} ELSE before

Expected(r, e, before, out) ==
    /\ ReferredNames(r, e) \subseteq DeclaredNames(r, e)
    /\ out.reply.status = ExpectedStatus(e)
    /\ CASE e.action = "index" -> ExpectedOfIndex(r, e, before, out)
         [] e.action = "show" -> ExpectedOfShow(r, e, before, out)
         [] e.action = "create" -> ExpectedOfCreate(r, e, before, out)
         [] e.action = "update" -> ExpectedOfUpdate(r, e, before, out)
         [] e.action = "destroy" -> ExpectedOfDestroy(r, e, before, out)

(***************************************************************************)
(* The run                                                                 *)
(***************************************************************************)

SpecsInit == scaffold = <<>> /\ example = <<>> /\ passed = TRUE

\* generateResource.
WriteScaffold(r) ==
    /\ scaffold' = <<r>>
    /\ UNCHANGED <<example, passed>>

RunExample(e) ==
    /\ example' = <<e>>
    /\ LET r == scaffold[1] before == Created(r, e) IN
       passed' = Expected(r, e, before, Outcome(r, e.action, before))
    /\ UNCHANGED scaffold

SpecsNext ==
    \/ scaffold = <<>> /\ \E r \in Scaffolds : WriteScaffold(r)
    \/ /\ scaffold # <<>> /\ example = <<>>
       /\ \E e \in Examples(scaffold[1]) : RunExample(e)

SpecsSpec == SpecsInit /\ [][SpecsNext]_specVars

(***************************************************************************)
(* Properties                                                              *)
(***************************************************************************)

SpecsTypeOK ==
    /\ Len(scaffold) <= 1 /\ Len(example) <= Len(scaffold) /\ passed \in BOOLEAN
    /\ \A i \in DOMAIN example : example[i] \in Examples(scaffold[1])

\* What the generators leave to the developer: records above the owner in the
\* path, associations other than the owner's, columns that the spec does not
\* know or that are set by the framework.
Supported(r) ==
    /\ PathArguments(r) \subseteq {r.owning}
    /\ {c.name : c \in {d \in r.columns : d.type = "belongs_to" /\ ~d.optional}}
         = IF SpecDirectAccess(r) THEN {} ELSE {SpecOwner(r)}
    /\ \A c \in Required(r) : Parsed(c) /\ c.type \in SpecTypes \cup {"belongs_to"}
    /\ \A c \in ParsedColumns(r) : c.type # "belongs_to" =>
          c.name \notin {"id", "createdAt", "updatedAt", "type"} \/ (c.type = "enum" /\ c.name = "type")

\* "With fleshed out specs for each resourceful action in the controller": the
\* examples of a generated spec pass against the generated controller, in every
\* area, whoever owns the resource, and with whichever of its actions; and what
\* an action answers is what it documents, of a record loaded for it.
GeneratedSpecsPass ==
    scaffold # <<>> =>
        LET r == scaffold[1] IN
        /\ \A a \in Actions(r) :
              LET g == GeneratedAction(r, a) IN
              g.documents = g.answers /\ g.renders \in {g.loads, "nothing"}
        /\ Supported(r) => passed
=============================================================================
