------------------------------ MODULE RouterDsl ------------------------------
(***************************************************************************)
(* The routes DSL of PsychicRouter (src/src/router/index.ts, helpers.ts):  *)
(* namespace(), scope(), resource(), resources(), collection() and the     *)
(* http method calls, as a routes callback makes them one after another.   *)
(*                                                                         *)
(* A nested call runs a callback with a router of its own while the outer  *)
(* router stays in scope, and both keep currentNamespaces, which is pushed,*)
(* renamed, popped and restored as calls open and close.  A frame records  *)
(* the call itself, so that what the nesting means can be defined apart    *)
(* from how the code tracks it.  Callbacks are synchronous and return.     *)
(***************************************************************************)
EXTENDS Integers, Sequences, SequencesExt

CONSTANTS RouteNames,  \* namespace, scope and resource names
          OnlySets,    \* "only" options a resource may be given, besides none
          ExceptSets,  \* "except" options
          MaxDepth,    \* bound: nesting of calls
          MaxOpened,   \* bound: nested calls of a routes callback
          MaxCrud      \* bound: http method calls of a routes callback

ASSUME BoundsAssumption == MaxDepth \in Nat /\ MaxOpened \in Nat /\ MaxCrud \in Nat

VARIABLES
    routers,    \* the routers in scope, root first: [cn, nest]
    openCalls,  \* the open calls, outermost first; openCalls[i] made routers[i + 1]
    registered, \* routeManager.routes, with the nesting of each
    nCalls, nCrud

dslVars == <<routers, openCalls, registered, nCalls, nCrud>>

Resourceful == {"resources", "resource"}
Kinds == Resourceful \cup {"namespace", "scope", "collection"}

\* Entries of currentNamespaces: a name, ':id', or ':<singular name>Id'.
Dir(n) == [seg |-> "dir", name |-> n]
Id == [seg |-> "id", name |-> "id"]
IdOf(n) == [seg |-> "idOf", name |-> n]
Segments == [seg : {"dir", "id", "idOf"}, name : RouteNames \cup {"id", "member", "leaf"}]

Frames == [kind : Kinds, name : RouteNames \cup {"none"}, call : Nat]

DslTypeOK ==
    /\ routers \in Seq([cn : Seq(Segments), nest : Seq(Frames)])
    /\ openCalls \in Seq([on : Nat, kind : Kinds, name : RouteNames \cup {"none"}, id : Nat,
                      methods : SUBSET {"index", "create", "update", "show", "destroy"},
                      saved : Seq(Segments)])
    /\ Len(routers) = Len(openCalls) + 1
    /\ registered \in Seq([method : {"get", "post", "put", "patch", "delete"}, path : Seq(Segments),
                       nest : Seq(Frames), tail : Seq(Segments), own : Nat])
    /\ nCalls \in 0..MaxOpened /\ nCrud \in 0..MaxCrud

DslInit ==
    /\ routers = <<[cn |-> <<>>, nest |-> <<>>]>>
    /\ openCalls = <<>>
    /\ registered = <<>>
    /\ nCalls = 0 /\ nCrud = 0

\* ResourcesMethods and ResourceMethods.
AllMethods == {"index", "create", "update", "show", "destroy"}
DefaultMethods(kind) == CASE kind = "resources" -> AllMethods
                          [] kind = "resource" -> AllMethods \ {"index"}
                          [] OTHER -> {}

ASSUME OptionsAssumption == OnlySets \subseteq SUBSET AllMethods

\* "only" replaces the default methods, "except" takes some of them away.
Methods(kind) ==
    {DefaultMethods(kind)} \cup
    (IF kind \in Resourceful
     THEN OnlySets \cup {DefaultMethods(kind) \ e : e \in ExceptSets} ELSE {})

(***************************************************************************)
(* currentNamespaces                                                       *)
(***************************************************************************)

\* makeRoomForNewIdParam
MakeRoomForNewIdParam(cn) ==
    [i \in 1..Len(cn) |-> IF cn[i].seg = "id" /\ i > 1 THEN IdOf(cn[i - 1].name) ELSE cn[i]]

\* addNamespace, once or twice, after makeRoomForNewIdParam for a resource.
Namespaced(cn, kind, n) ==
    CASE kind = "resources" -> MakeRoomForNewIdParam(cn) \o <<Dir(n), Id>>
      [] kind = "resource" -> Append(MakeRoomForNewIdParam(cn), Dir(n))
      [] kind \in {"namespace", "scope"} -> Append(cn, Dir(n))

\* removeLastNamespace, once or twice.
Popped(cn, kind) == IF kind = "resources" THEN Front(Front(cn)) ELSE Front(cn)

(***************************************************************************)
(* Calls                                                                   *)
(***************************************************************************)

\* A route, with the nesting it is registered in, the part of its path that is its
\* own, and the call whose resourceful action it is, if any.
Route(method, cn, tail, nest, own) ==
    [method |-> method, path |-> cn \o tail, nest |-> nest, tail |-> tail, own |-> own]

\* The resourceful actions, in the order the method lists name them ("only" lists
\* included), each with the http methods applyResourcefulAction() registers.
Verbs == <<<<"index", "get">>, <<"create", "post">>, <<"update", "put">>, <<"update", "patch">>,
           <<"show", "get">>, <<"destroy", "delete">>>>

\* applyResourcefulAction for each of the call's methods, on the nested router.
ResourcefulActions(call, cn, nest) ==
    LET tail(v) == IF call.kind = "resources" /\ v[1] \notin {"index", "create"}
                   THEN <<Dir(call.name), Id>> ELSE <<Dir(call.name)>>
        upTo[k \in 0..Len(Verbs)] ==
            IF k = 0 THEN <<>>
            ELSE IF Verbs[k][1] \in call.methods
            THEN Append(upTo[k - 1], Route(Verbs[k][2], cn, tail(Verbs[k]), nest, call.id))
            ELSE upTo[k - 1]
    IN upTo[Len(Verbs)]

\* namespace(), scope(), resource() or resources() on any router in scope: its
\* currentNamespaces and those of the nested router become the same.
OpenCall(r, kind, n) ==
    /\ Len(openCalls) < MaxDepth /\ nCalls < MaxOpened
    /\ nCalls' = nCalls + 1
    /\ LET cn == Namespaced(routers[r].cn, kind, n)
           nest == Append(routers[r].nest, [kind |-> kind, name |-> n, call |-> nCalls'])
       IN /\ routers' = Append([routers EXCEPT ![r] = [cn |-> cn, nest |-> nest]],
                               [cn |-> cn, nest |-> nest])
          /\ \E methods \in Methods(kind) :
                openCalls' = Append(openCalls, [on |-> r, kind |-> kind, name |-> n, id |-> nCalls',
                                        methods |-> methods, saved |-> routers[r].cn])
    /\ UNCHANGED <<registered, nCrud>>

\* collection(): only the nested router loses the last namespace.  Without a
\* namespace before that one the call throws, and the routes are never used.
Collection(r) ==
    /\ Len(openCalls) < MaxDepth /\ nCalls < MaxOpened
    /\ Len(routers[r].cn) > 1
    /\ nCalls' = nCalls + 1
    /\ routers' = Append(routers,
                         [cn |-> Front(routers[r].cn),
                          nest |-> Append(routers[r].nest, [kind |-> "collection", name |-> "none",
                                                            call |-> nCalls'])])
    /\ openCalls' = Append(openCalls, [on |-> r, kind |-> "collection", name |-> "none", id |-> nCalls',
                               methods |-> {}, saved |-> routers[r].cn])
    /\ UNCHANGED <<registered, nCrud>>

\* crud(): get() stands for all of the http methods.
Crud(r) ==
    /\ nCrud < MaxCrud
    /\ nCrud' = nCrud + 1
    /\ registered' = Append(registered, Route("get", routers[r].cn, <<Dir("leaf")>>, routers[r].nest, 0))
    /\ UNCHANGED <<routers, openCalls, nCalls>>

\* Mutant: the outer router keeps the names it made room with.
CloseCallKeepsRoom ==
    /\ openCalls # <<>>
    /\ LET call == Last(openCalls)
           outer == routers[call.on]
           popped == IF call.kind = "collection" THEN outer.cn ELSE Popped(outer.cn, call.kind)
           nest == IF call.kind = "collection" THEN outer.nest ELSE Front(outer.nest)
       IN /\ routers' = Front([routers EXCEPT ![call.on] = [cn |-> popped, nest |-> nest]])
          /\ registered' = IF call.kind \in Resourceful
                       THEN registered \o ResourcefulActions(call, popped, outer.nest)
                       ELSE registered
    /\ openCalls' = Front(openCalls)
    /\ UNCHANGED <<nCalls, nCrud>>

\* The innermost callback returns: namespaces are popped from the router it was
\* called on; a resource then restores that router's namespaces, and registers
\* its own actions on the nested router, which keeps the popped ones.
CloseCall ==
    /\ openCalls # <<>>
    /\ LET call == Last(openCalls)
           outer == routers[call.on]
           popped == IF call.kind = "collection" THEN outer.cn ELSE Popped(outer.cn, call.kind)
           cn == IF call.kind \in Resourceful THEN call.saved ELSE popped
           nest == IF call.kind = "collection" THEN outer.nest ELSE Front(outer.nest)
       IN /\ routers' = Front([routers EXCEPT ![call.on] = [cn |-> cn, nest |-> nest]])
          /\ registered' = IF call.kind \in Resourceful
                       THEN registered \o ResourcefulActions(call, popped, outer.nest)
                       ELSE registered
    /\ openCalls' = Front(openCalls)
    /\ UNCHANGED <<nCalls, nCrud>>

InScope == 1..Len(routers)

DslNext == \/ \E r \in InScope, kind \in Kinds \ {"collection"}, n \in RouteNames : OpenCall(r, kind, n)
        \/ \E r \in InScope : Collection(r) \/ Crud(r)
        \/ CloseCall

DslSpec == DslInit /\ [][DslNext]_dslVars

(***************************************************************************)
(* What nesting means, defined from the calls alone                            *)
(***************************************************************************)

\* What the frame at position i of a nest adds to a path: its name and, for
\* resources, a parameter, called ':id' unless a resource is nested in it.  A
\* collection inside takes the last of that away.
Contribution(nest, i) ==
    LET f == nest[i]
        inner == \E j \in DOMAIN nest : j > i /\ nest[j].kind \in Resourceful
        all == CASE f.kind = "collection" -> <<>>
                 [] f.kind = "resources" -> <<Dir(f.name), IF inner THEN IdOf(f.name) ELSE Id>>
                 [] OTHER -> <<Dir(f.name)>>
        collected == f.kind # "collection" /\ i < Len(nest) /\ nest[i + 1].kind = "collection"
    IN IF collected THEN Front(all) ELSE all

Prefix(nest) ==
    LET upTo[i \in 0..Len(nest)] == IF i = 0 THEN <<>> ELSE upTo[i - 1] \o Contribution(nest, i)
    IN upTo[Len(nest)]

\* A resource's own actions: the path of the resource is in their tail, and
\* the frames outside make room for it.
OwnPrefix(nest) == Prefix(Append(Front(nest), [Last(nest) EXCEPT !.kind = "resource"]))

\* Collections directly inside a collection, which each take one more entry.
Doubled(nest) == \E i \in 1..Len(nest) - 1 : nest[i].kind = "collection" /\ nest[i + 1].kind = "collection"

(***************************************************************************)
(* Properties                                                              *)
(***************************************************************************)

\* Every route is registered at the path its nesting means, whichever of the
\* routers in scope it was registered on and whatever was opened, renamed and
\* closed before it; and the routes of a resource's callback come before its
\* own, so that /posts/recent is not taken for /posts/:id.
RoutesMatchNesting ==
    /\ \A i \in DOMAIN registered : ~Doubled(registered[i].nest) =>
          LET r == registered[i]
          IN r.path = (IF r.own = 0 THEN Prefix(r.nest) ELSE Front(OwnPrefix(r.nest))) \o r.tail
    /\ \A i, j \in DOMAIN registered :
          /\ registered[i].own # 0 /\ registered[j].own # registered[i].own
          /\ \E f \in DOMAIN registered[j].nest : registered[j].nest[f].call = registered[i].own
          => j < i
=============================================================================
