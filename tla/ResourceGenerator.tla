-------------------------- MODULE ResourceGenerator --------------------------
(***************************************************************************)
(* `psy g:resource`, run after run over the same checkout: it writes the   *)
(* controller of a resource and the ancestors it extends                   *)
(* (GeneratedControllers), and declares the resource in a routes file that *)
(* others edit by hand (resource.ts, helpers/addResourceToRoutes.ts).      *)
(*                                                                         *)
(* The lines of the routes file are taken as the generator reads them: a   *)
(* block is the sequence of its direct children.  The file chosen for an   *)
(* admin or an internal route, models, specs and the text of the           *)
(* controllers are left out.                                               *)
(***************************************************************************)
EXTENDS GeneratedControllers, Bags

CONSTANTS
    RoutesFiles,   \* what the developers have written before the first run
    MaxRuns        \* bound: runs in one behaviour

VARIABLES
    routes,        \* the routes file: [readable, children]
    outcome        \* what the last run's insertion did

genVars == <<routes, controllers, outcome, ran>>

(***************************************************************************)
(* Routes files                                                            *)
(***************************************************************************)

\* options: none, an `only` or an `except` list, or "other" than these.  form:
\* "editable"; "other", one the generator does not edit; "commented" out.
\* closed: a callback ends where the generator expects it to.
NoOptions == [kind |-> "none", actions |-> {}]
Only(actions) == [kind |-> "only", actions |-> actions]
Except(actions) == [kind |-> "except", actions |-> actions]
OtherOptions == [kind |-> "other", actions |-> {}]

Child(method, name, options, callback, children) ==
    [method |-> method, name |-> name, options |-> options, form |-> "editable",
     callback |-> callback, closed |-> TRUE, children |-> children]

\* declaredActions: as the router reads them.
DeclaredActions(c) ==
    IF c.options.kind = "only" THEN c.options.actions
    ELSE DefaultActions(c.method) \ c.options.actions

\* findChildren.
Declares(c, a) == c.form # "commented" /\ c.method = a.method /\ c.name = a.name
Found(children, a) == {i \in DOMAIN children : Declares(children[i], a)}

(***************************************************************************)
(* Placement                                                               *)
(***************************************************************************)

\* at: the indexes that lead from the routes function to a block or child.
Unparseable == [outcome |-> "unparseable"]
DeclaredAt(at) == [outcome |-> "declared", at |-> at]
Insert(depth, at, missing) ==
    [outcome |-> "insertIntoBlock", depth |-> depth, at |-> at, missing |-> missing]
Convert(at, missing) ==
    [outcome |-> "convertParent", depth |-> 1, at |-> at, missing |-> missing]

\* Mutant: the first declaration on the route is taken, not the deepest.
DeepestIsFirst(placements, none) ==
    IF placements = {} THEN none
    ELSE CHOOSE p \in placements : \A q \in placements : p.order <= q.order

\* The placement beneath which the most of the route is declared; the first of
\* them on a tie.
Deepest(placements, none) ==
    IF \A p \in placements : p.depth <= none.depth THEN none
    ELSE CHOOSE p \in placements : \A q \in placements :
            p.depth > q.depth \/ (p.depth = q.depth /\ p.order <= q.order)

\* A declaration on the route that cannot be read leaves the file as it is, even
\* when another one is the resource's.
RECURSIVE FindPlacement(_, _, _, _)
FindPlacement(children, at, ancestors, r) ==
    IF ancestors = <<>>
    THEN LET found == Found(children, r) IN
         IF \E i \in found : children[i].form # "editable" THEN Unparseable
         ELSE IF found # {} THEN DeclaredAt({Append(at, i) : i \in found})
         ELSE Insert(0, at, <<>>)
    ELSE LET found == Found(children, Head(ancestors))
             Under(i) ==
                 LET c == children[i] IN
                 IF c.form # "editable" \/ (c.callback /\ ~c.closed) THEN Unparseable
                 ELSE IF c.callback
                 THEN FindPlacement(c.children, Append(at, i), Tail(ancestors), r)
                 ELSE Convert(Append(at, i), Tail(ancestors))
             of(o) == {i \in found : Under(i).outcome = o}
             Ordered(i) ==
                 LET p == Under(i) IN
                 [outcome |-> p.outcome, at |-> p.at, missing |-> p.missing, order |-> i,
                  depth |-> IF children[i].callback THEN p.depth + 1 ELSE p.depth]
             best == Deepest({Ordered(i) : i \in of("insertIntoBlock") \cup of("convertParent")},
                             Insert(0, at, ancestors))
         IN IF of("unparseable") # {} THEN Unparseable
            ELSE IF of("declared") # {}
            THEN DeclaredAt(UNION {Under(i).at : i \in of("declared")})
            ELSE best

(***************************************************************************)
(* Edits                                                                   *)
(***************************************************************************)

ChildAt(file, at) == FoldLeft(LAMBDA b, i : b.children[i], file, at)

RECURSIVE WithChild(_, _, _)
WithChild(children, at, child) ==
    [children EXCEPT ![Head(at)] =
        IF Len(at) = 1 THEN child
        ELSE [@ EXCEPT !.children = WithChild(@, Tail(at), child)]]

OptionsOf(r) == IF r.only THEN Only(Actions(r)) ELSE NoOptions

\* routeLines: the resource, inside every block of the route that is missing.
RouteLines(missing, r) ==
    FoldRight(LAMBDA a, inner : Child(a.method, a.name, NoOptions, TRUE, <<inner>>),
              missing, Child(r.method, r.name, OptionsOf(r), FALSE, <<>>))

\* At the top of a block; a parent without a callback is given one, and keeps
\* its options.
Inserted(block, missing, r) == [block EXCEPT !.children = <<RouteLines(missing, r)>> \o @]
Converted(parent, missing, r) == Inserted([parent EXCEPT !.callback = TRUE], missing, r)

\* The options of the declaration are replaced, its callback is kept.
Rewritten(child, r) == [child EXCEPT !.options = OptionsOf(r)]

Unchanged(o, file) == [outcome |-> o, routes |-> file]
Changed(file, at, child) ==
    [outcome |-> "changed",
     routes |-> IF at = <<>> THEN child
                ELSE [file EXCEPT !.children = WithChild(@, at, child)]]

\* insertResourceIntoRoutes.
Insertion(file, r) ==
    LET p == FindPlacement(file.children, <<>>, r.ancestors, r)
        at == IF p.outcome = "declared" THEN CHOOSE d \in p.at : TRUE ELSE p.at
        child == ChildAt(file, at)
    IN  IF ~file.readable \/ p.outcome = "unparseable" THEN Unchanged("unparseable", file)
        ELSE CASE p.outcome = "insertIntoBlock" -> Changed(file, at, Inserted(child, p.missing, r))
               [] p.outcome = "convertParent" -> Changed(file, at, Converted(child, p.missing, r))
               [] p.outcome = "declared" ->
                    IF Cardinality(p.at) > 1 \/ child.options.kind = "other"
                    THEN Unchanged("unparseable", file)
                    ELSE IF DeclaredActions(child) = Actions(r)
                    THEN Unchanged("alreadyDeclared", file)
                    ELSE Changed(file, at, Rewritten(child, r))

(***************************************************************************)
(* Runs                                                                    *)
(***************************************************************************)

GenInit ==
    /\ routes \in RoutesFiles
    /\ ControllersInit
    /\ outcome = "none"

\* generateResource.
GenerateResource(r) ==
    /\ Len(ran) < MaxRuns
    /\ LET result == Insertion(routes, r) IN
       /\ routes' = result.routes /\ outcome' = result.outcome
       /\ WriteControllers(r, result.outcome # "unparseable")

GenNext == \E r \in Requests : GenerateResource(r)

GenSpec == GenInit /\ [][GenNext]_genVars

(***************************************************************************)
(* Properties                                                              *)
(***************************************************************************)

RECURSIVE Entries(_, _)
\* The resources that a block declares, at any depth, as a bag: the route of
\* each and how it is declared.
Entries(children, ancestors) ==
    FoldLeft(LAMBDA all, c :
        all (+) (IF c.form = "commented" \/ c.method = "namespace" THEN EmptyBag
                 ELSE SetToBag({<<ancestors, c.method, c.name, c.form, c.options>>}))
            (+) (IF c.form = "commented" THEN EmptyBag
                 ELSE Entries(c.children, Append(ancestors, Ancestor(c.method, c.name)))),
        EmptyBag, children)
AllEntries(file) == Entries(file.children, <<>>)
EntriesOf(file, r) ==
    {e \in BagToSet(AllEntries(file)) : e[1] = r.ancestors /\ e[2] = r.method /\ e[3] = r.name}

\* The resources on the way to r that the file declares nowhere on its route.
Undeclared(file, r) ==
    {<<SubSeq(r.ancestors, 1, n - 1), r.ancestors[n].method, r.ancestors[n].name,
       "editable", NoOptions>> :
        n \in {m \in DOMAIN r.ancestors :
                 /\ r.ancestors[m].method # "namespace"
                 /\ ~\E e \in BagToSet(AllEntries(file)) :
                      /\ e[1] = SubSeq(r.ancestors, 1, m - 1)
                      /\ e[2] = r.ancestors[m].method /\ e[3] = r.ancestors[m].name}}

GenTypeOK ==
    /\ outcome \in {"none", "changed", "alreadyDeclared", "unparseable"}
    /\ Len(ran) <= MaxRuns
    /\ ran \in Seq([resource : Requests, routed : BOOLEAN])
    /\ \A k \in DOMAIN controllers : controllers[k].actions \subseteq RESOURCE_ACTIONS

\* The file declares the resource once on its route, for the actions generated,
\* and the same run over again finds nothing to change.
DeclaredOnce(file, r) ==
    LET entries == EntriesOf(file, r) IN
    /\ BagCardinality([e \in entries |-> AllEntries(file)[e]]) = 1
    /\ \A e \in entries : DeclaredActions([method |-> e[2], options |-> e[5]]) = Actions(r)
    /\ Insertion(file, r) = Unchanged("alreadyDeclared", file)

\* A run declares its own resource and changes no other: each one that the
\* developers wrote stays as often as it was, with its options, and none is added
\* but for the parents that were declared nowhere on the route.  A run that is
\* reported changes nothing; any other leaves its resource declared once.
DeclaresOnlyItsResource ==
    [][LET r == Last(ran').resource IN
       /\ IF outcome' # "changed" THEN routes' = routes
          ELSE LET Without(file) == [e \in BagToSet(AllEntries(file)) \ EntriesOf(file, r) |->
                                        AllEntries(file)[e]]
               IN Without(routes') = Without(routes) (+) SetToBag(Undeclared(routes, r))
       /\ outcome' # "unparseable" => DeclaredOnce(routes', r)]_genVars

\* The run i is the last to declare its route.
RouteOf(r) == <<r.ancestors, r.method, r.name>>
DeclaredLast(i) ==
    /\ ran[i].routed
    /\ \A j \in (i + 1)..Len(ran) :
          RouteOf(ran[j].resource) = RouteOf(ran[i].resource) => ~ran[j].routed

\* The routes file and the controllers of several runs fit: each route that runs
\* declared is in the file, whatever a later run left or changed there, and the
\* controller inferred for it has every action that the file declares, unless a
\* later run with the same controller overwrote it.
GeneratedRoutesServed ==
    /\ GeneratedControllersServe
    /\ \A i \in DOMAIN ran : DeclaredLast(i) =>
          LET r == ran[i].resource
              declared == {DeclaredActions([method |-> e[2], options |-> e[5]]) :
                              e \in EntriesOf(routes, r)}
          IN  /\ declared # {}
              /\ ~Overwritten(i) =>
                    UNION declared \subseteq controllers[ControllerOf(PathOf(r))].actions
=============================================================================
