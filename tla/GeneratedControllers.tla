------------------------- MODULE GeneratedControllers -------------------------
(***************************************************************************)
(* The controllers in a checkout, as runs of `psy g:resource` write them   *)
(* (generate/controller.ts): each run its resource's own, and those that it *)
(* extends unless they are there.  Two resources may share a controller,   *)
(* one below a namespace and one below a resource of the same name.        *)
(***************************************************************************)
EXTENDS Resources

CONSTANT Requests   \* the resources that runs may be given, as Request gives them

\* An ancestor is a namespace or a resource, with a name.
ASSUME RequestsAssumption ==
    \A r \in Requests : r.ancestors \in Seq([method : STRING, name : STRING])

VARIABLES
    controllers,   \* the controllers in the checkout, by path
    ran            \* history: the runs, in order, and whether each declared its route

controllerVars == <<controllers, ran>>

Boilerplate == {Authed(<<>>), Authed(<<"admin">>), Authed(<<"internal">>)}

\* Mutant: a controller that is there is not written again.
WithNewControllers(r) ==
    LET path == PathOf(r)
        new == {BaseOf(SubSeq(path, 1, n)) : n \in (Len(Area(path)) + 1)..(Len(path) - 1)}
               \cup {ControllerOf(path)}
    IN  [k \in DOMAIN controllers \cup new |->
            IF k \in DOMAIN controllers THEN controllers[k]
            ELSE [extends |-> ExtendedBy(k.path), actions |-> Actions(r)]]

\* generateController: a base controller for each directory below the area,
\* unless it is there; and the resource's own, over any that is there.
WithControllers(r) ==
    LET path == PathOf(r)
        bases == {BaseOf(SubSeq(path, 1, n)) : n \in (Len(Area(path)) + 1)..(Len(path) - 1)}
        own == ControllerOf(path)
    IN  [k \in DOMAIN controllers \cup bases \cup {own} |->
            IF k = own THEN [extends |-> ExtendedBy(path), actions |-> Actions(r)]
            ELSE IF k \in DOMAIN controllers THEN controllers[k]
            ELSE [extends |-> ExtendedBy(k.path), actions |-> {}]]

ControllersInit ==
    /\ controllers = [k \in Boilerplate |-> [extends |-> k, actions |-> {}]]
    /\ ran = <<>>

\* generateResource: the controller is written whatever comes of the insertion,
\* which may leave its route to the developers.
WriteControllers(r, routed) ==
    /\ controllers' = WithControllers(r)
    /\ ran' = Append(ran, [resource |-> r, routed |-> routed])

ControllersNext == \E r \in Requests, routed \in BOOLEAN : WriteControllers(r, routed)

ControllersSpec == ControllersInit /\ [][ControllersNext]_controllerVars

\* The directory of a controller; and the convention that
\* `psy check:controller-hierarchy` demands.
DirectoryOf(k) == IF k.kind = "resource" THEN Front(k.path) ELSE k.path
OfItsLevel(k, parent) ==
    LET dir == DirectoryOf(k) IN
    DirectoryOf(parent) = dir \/ (dir # <<>> /\ DirectoryOf(parent) = Front(dir))

\* A run writes its controller over the one that an earlier run with the same
\* controller wrote (generate/controller.ts:111), and asks nobody: the actions
\* that it is not given are gone, whatever routes are declared for them.
SameController(i, j) == PathOf(ran[i].resource) = PathOf(ran[j].resource)
Overwritten(i) ==
    \E j \in (i + 1)..Len(ran) :
        SameController(i, j) /\ ~(Actions(ran[i].resource) \subseteq Actions(ran[j].resource))

\* Whichever runs came before and after, the controller that the router infers
\* for a generated resource is there with each of its actions, unless a later run
\* overwrote it without one of them; and every controller extends one that is
\* there, in its own directory or in the one above.
GeneratedControllersServe ==
    /\ \A i \in DOMAIN ran :
          LET k == ControllerOf(PathOf(ran[i].resource)) IN
          /\ k \in DOMAIN controllers
          /\ ~Overwritten(i) => Actions(ran[i].resource) \subseteq controllers[k].actions
    /\ \A k \in DOMAIN controllers :
          LET parent == controllers[k].extends IN
          parent \in DOMAIN controllers /\ OfItsLevel(k, parent)
=============================================================================
