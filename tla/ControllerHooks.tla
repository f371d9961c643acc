--------------------------- MODULE ControllerHooks ---------------------------
(***************************************************************************)
(* Before actions (src/src/controller/decorators.ts, hooks.ts, index.ts):  *)
(* each class of a controller hierarchy gets its own list of hooks when an *)
(* instance of it is first made, by running the @BeforeAction initializers *)
(* of its ancestors and then its own.  The classes are instantiated once   *)
(* each while the app loads, in the order their files are listed, and each *)
(* time again while a request is served with the flag still up (AppInit).  *)
(***************************************************************************)
EXTENDS Integers, Sequences, FiniteSets

CONSTANTS Classes,       \* controller classes of the app
          Base,          \* PsychicController
          Actions,       \* action names
          Declarations   \* what a class may declare: sequences of hooks

ASSUME BaseAssumption == Base \notin Classes /\ IsFiniteSet(Classes)

VARIABLES
    parent,  \* the class each class extends
    decl,    \* the @BeforeAction declarations of each class, in order
    own,     \* has the class a controllerHooks property of its own?
    list,    \* that property
    made     \* classes instantiated so far

vars == <<parent, decl, own, list, made>>

\* A hook is [method, only, except]; an empty only or except is not given.
Hooks == UNION {{s[i] : i \in DOMAIN s} : s \in Declarations}

ASSUME DeclarationsAssumption == Declarations \subseteq Seq(Hooks)

TypeOK ==
    /\ parent \in [Classes -> Classes \cup {Base}]
    /\ decl \in [Classes -> Declarations]
    /\ own \in [Classes -> BOOLEAN]
    /\ list \in [Classes -> Seq(Hooks)]
    /\ made \in SUBSET Classes

\* A hierarchy: no class is among its own ancestors.
Rooted(p) == \E depth \in [Classes -> 1..Cardinality(Classes)] :
                 \A c \in Classes : p[c] # Base => depth[p[c]] < depth[c]

Init ==
    /\ parent \in {p \in [Classes -> Classes \cup {Base}] : Rooted(p)}
    /\ decl \in [Classes -> Declarations]
    /\ own = [c \in Classes |-> FALSE]
    /\ list = [c \in Classes |-> <<>>]
    /\ made = {}

\* A class and its ancestors, topmost first.
Lineage(c) ==
    LET up[d \in Classes] == IF parent[d] = Base THEN <<d>> ELSE Append(up[parent[d]], d)
    IN up[c]

\* The initializers an instance of c runs, in order.
Initializers(c) ==
    LET l == Lineage(c)
        upTo[i \in 0..Len(l)] == IF i = 0 THEN <<>> ELSE upTo[i - 1] \o decl[l[i]]
    IN upTo[Len(l)]

\* c.controllerHooks as JavaScript finds it: c's own property, or the nearest
\* ancestor's; PsychicController's is empty.
ControllerHooks(c) ==
    LET find[d \in Classes] == IF own[d] THEN list[d]
                               ELSE IF parent[d] = Base THEN <<>> ELSE find[parent[d]]
    IN find[c]

HasMethod(hooks, m) == \E i \in DOMAIN hooks : hooks[i].method = m

\* Mutant: a hook is stored without its options.
PushedBare(hooks, h) ==
    IF HasMethod(hooks, h.method) THEN hooks ELSE Append(hooks, [method |-> h.method])

\* One initializer: a method that has a hook already gets no other.
Pushed(hooks, h) == IF HasMethod(hooks, h.method) THEN hooks ELSE Append(hooks, h)

Run(start, inits) ==
    LET after[i \in 0..Len(inits)] == IF i = 0 THEN start ELSE Pushed(after[i - 1], inits[i])
    IN after[Len(inits)]

\* Mutant: hooks are pushed on the list the class inherits, without a copy.
InstantiateShared(c) ==
    /\ made' = made \cup {c}
    /\ LET holders == {d \in Classes : own[d] /\ \E i \in DOMAIN Lineage(c) : Lineage(c)[i] = d}
           top == IF holders = {} THEN Lineage(c)[1] ELSE CHOOSE d \in holders : TRUE
       IN IF Initializers(c) = <<>> THEN UNCHANGED <<own, list>>
          ELSE /\ own' = [own EXCEPT ![top] = TRUE]
               /\ list' = [list EXCEPT ![top] = Run(list[top], Initializers(c))]
    /\ UNCHANGED <<parent, decl>>

\* new controllerClass() while globallyInitializingDecorators is up: the first
\* initializer copies the inherited list.
Instantiate(c) ==
    /\ made' = made \cup {c}
    /\ IF Initializers(c) = <<>>
       THEN UNCHANGED <<own, list>>
       ELSE /\ own' = [own EXCEPT ![c] = TRUE]
            /\ list' = [list EXCEPT ![c] = Run(ControllerHooks(c), Initializers(c))]
    /\ UNCHANGED <<parent, decl>>

Next == \E c \in Classes : Instantiate(c)

Spec == Init /\ [][Next]_vars

\* shouldFireForAction: "only" wins over "except".
ShouldFireForAction(h, a) ==
    IF h.only # {} THEN a \in h.only ELSE a \notin h.except

\* runBeforeActions: the methods that run, in order, before action a of class c.
BeforeActions(c, a) == SelectSeq(ControllerHooks(c), LAMBDA h : ShouldFireForAction(h, a))

(***************************************************************************)
(* Properties                                                              *)
(***************************************************************************)

\* Whatever the order the classes are instantiated in, and however often, a
\* class that has been instantiated has the hooks it and its ancestors
\* declare, topmost first and one for each method, and no other class's.
HooksAsDeclared ==
    \A c \in made :
        LET all == Initializers(c)
            first == {i \in DOMAIN all : \A j \in 1..i - 1 : all[j].method # all[i].method}
            hooks == ControllerHooks(c)
        IN /\ {hooks[i] : i \in DOMAIN hooks} = {all[i] : i \in first}
           /\ \A i, j \in first : i < j =>
                 \E k, m \in DOMAIN hooks : k < m /\ hooks[k] = all[i] /\ hooks[m] = all[j]
=============================================================================
