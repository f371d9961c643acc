-------------------------- MODULE Controller_proofs ---------------------------
(***************************************************************************)
(* For any hierarchy of controllers, any declarations of hooks and any     *)
(* order in which classes declare and instantiate: a controller runs the   *)
(* hooks declared for it and for those it extends, each once and in        *)
(* order. And for any users, any number of requests in flight and any      *)
(* number of key rotations: only logins and logouts change a browser's     *)
(* session, and a request is served as the user who was logged in when     *)
(* it was sent. And for any @OpenAPI calls, any data and any helper: what  *)
(* an action answers is what every document of its controller shows. And   *)
(* for any routes, endpoints and renderings of any documents: a document   *)
(* shows each of its endpoints at its route, with the parameters that its  *)
(* requests are validated for. And for any request bodies and any          *)
(* renderings: one whose models are not below an object is rendered from   *)
(* its declaration, and the enums that are exported are those it shows.    *)
(***************************************************************************)
EXTENDS ControllerHooks, Session, EndpointResponses, PathItems, RequestBodies, Walks,
        FiniteSetTheorems, SequenceTheorems

(***************************************************************************)
(* The operators of the module, unfolded by one step                       *)
(***************************************************************************)

\* The classes and what they declare.
Hierarchy ==
    /\ parent \in [Classes -> Classes \cup {Base}]
    /\ Rooted(parent)
    /\ decl \in [Classes -> Declarations]

Tops == {c \in Classes : parent[c] = Base}

\* From a class to its parent is a walk of bounded rank.
LEMMA ParentsWalk ==
  ASSUME Hierarchy
  PROVE  \E depth : Walk(Classes, Tops, parent, depth) /\ Bounded(Classes, depth)
<1>1. Cardinality(Classes) \in Nat
  BY BaseAssumption, FS_CardinalityType
<1>2. PICK depth \in [Classes -> 1..Cardinality(Classes)] :
         \A c \in Classes : parent[c] # Base => depth[parent[c]] < depth[c]
  BY DEF Hierarchy, Rooted
<1>3. Walk(Classes, Tops, parent, depth) /\ Bounded(Classes, depth)
  BY <1>1, <1>2 DEF Walk, Bounded, Tops, Hierarchy
<1> QED
  BY <1>3

LEMMA LineageUnfolds ==
  ASSUME Hierarchy
  PROVE  \A c \in Classes :
            /\ Lineage(c) \in Seq(Classes)
            /\ Lineage(c) = IF parent[c] = Base THEN <<c>> ELSE Append(Lineage(parent[c]), c)
<1> DEFINE Is(f) == f = [d \in Classes |-> IF parent[d] = Base THEN <<d>> ELSE Append(f[parent[d]], d)]
           f == CHOOSE up : Is(up)
           start == [d \in Classes |-> <<d>>]
           step == [d \in Classes |-> [s \in Seq(Classes) |-> Append(s, d)]]
<1>1. PICK depth : Walk(Classes, Tops, parent, depth) /\ Bounded(Classes, depth)
  BY ParentsWalk
<1>2. start \in [Classes -> Seq(Classes)] /\ step \in [Classes -> [Seq(Classes) -> Seq(Classes)]]
  OBVIOUS
<1>3. PICK g \in [Classes -> Seq(Classes)] : Follows(g, Classes, Tops, parent, start, step)
  <2> HIDE DEF start, step
  <2> QED
    BY <1>1, <1>2, WalkExists
<1>a. \A c \in Classes : parent[c] # Base => parent[c] \in Classes
  BY DEF Hierarchy
<1>4. \A d \in Classes : g[d] = IF parent[d] = Base THEN <<d>> ELSE Append(g[parent[d]], d)
  BY <1>3, <1>a DEF Tops, Follows
<1>5. Is(g)
  BY <1>4, Zenon
<1>6. Is(f)
  BY <1>5, Zenon
<1>7. \A c \in Classes : f[c] = IF parent[c] = Base THEN <<c>> ELSE Append(f[parent[c]], c)
  BY <1>6, Zenon
<1>8. \A c \in Classes : Lineage(c) = f[c]
  BY Zenon DEF Lineage
<1> HIDE DEF f
<1>9. \A c \in Classes : Lineage(c) = IF parent[c] = Base THEN <<c>> ELSE Append(Lineage(parent[c]), c)
  BY <1>7, <1>8, <1>a
<1> DEFINE S == {c \in Classes : Lineage(c) \in Seq(Classes)}
<1>b. Closed(S, Classes, Tops, parent)
  <2> SUFFICES ASSUME NEW c \in Classes, c \in Tops \/ parent[c] \in S PROVE c \in S
    BY DEF Closed
  <2>1. CASE c \in Tops
    <3>1. Lineage(c) = <<c>>
      BY <1>9, <2>1, Zenon DEF Tops
    <3>2. Lineage(c) \in Seq(Classes)
      BY <3>1
    <3> QED
      BY <3>2
  <2>2. CASE c \notin Tops /\ parent[c] \in S
    <3>1. Lineage(c) = Append(Lineage(parent[c]), c)
      BY <1>9, <2>2, Zenon DEF Tops
    <3>2. Lineage(parent[c]) \in Seq(Classes)
      BY <2>2
    <3>3. Append(Lineage(parent[c]), c) \in Seq(Classes)
      BY <3>2
    <3> QED
      BY <3>1, <3>3
  <2> QED
    BY <2>1, <2>2
<1>c. Classes \subseteq S
  <2> HIDE DEF S
  <2> QED
    BY <1>1, <1>b, WalkInduction
<1> QED
  BY <1>9, <1>c

\* The declarations of the classes of a lineage, one class after the other.
Joins(u, l) == u = [i \in 0..Len(l) |-> IF i = 0 THEN <<>> ELSE u[i - 1] \o decl[l[i]]]

LEMMA JoinsExist ==
  ASSUME Hierarchy, NEW l \in Seq(Classes)
  PROVE  \E u \in [0..Len(l) -> Seq(Hooks)] : Joins(u, l)
<1> DEFINE n == Len(l)
           start == [i \in 0..n |-> <<>>]
           step == [i \in 0..n |-> [s \in Seq(Hooks) |-> IF i = 0 THEN s ELSE s \o decl[l[i]]]]
<1>1. n \in Nat
  OBVIOUS
<1>2. PICK rank : Walk(0..n, {0}, Before(n), rank) /\ Bounded(0..n, rank)
  BY <1>1, NumbersWalk
<1>3. start \in [0..n -> Seq(Hooks)]
  OBVIOUS
<1>4. step \in [0..n -> [Seq(Hooks) -> Seq(Hooks)]]
  <2>1. \A i \in 0..n : i # 0 => decl[l[i]] \in Seq(Hooks)
    BY DeclarationsAssumption DEF Hierarchy
  <2>2. \A i \in 0..n, s \in Seq(Hooks) : i # 0 => s \o decl[l[i]] \in Seq(Hooks)
    BY <2>1
  <2> QED
    BY <2>2
<1>5. PICK u \in [0..n -> Seq(Hooks)] : Follows(u, 0..n, {0}, Before(n), start, step)
  <2> HIDE DEF start, step, n
  <2> QED
    BY <1>2, <1>3, <1>4, WalkExists
<1>6. \A i \in 0..n : u[i] = IF i = 0 THEN <<>> ELSE u[i - 1] \o decl[l[i]]
  <2> SUFFICES ASSUME NEW i \in 0..n PROVE u[i] = IF i = 0 THEN <<>> ELSE u[i - 1] \o decl[l[i]]
    OBVIOUS
  <2>1. u[i] = IF i \in {0} THEN start[i] ELSE step[i][u[Before(n)[i]]]
    BY <1>5 DEF Follows
  <2>2. CASE i = 0
    BY <2>1, <2>2
  <2>3. CASE i # 0
    <3>1. Before(n)[i] = i - 1 /\ i - 1 \in 0..n
      BY <1>1, <2>3 DEF Before
    <3>2. u[i - 1] \in Seq(Hooks)
      BY <3>1
    <3>3. u[i] = step[i][u[i - 1]]
      BY <2>1, <2>3, <3>1
    <3>4. step[i][u[i - 1]] = u[i - 1] \o decl[l[i]]
      BY <2>3, <3>2
    <3> QED
      BY <2>3, <3>3, <3>4
  <2> QED
    BY <2>2, <2>3
<1>7. Joins(u, l)
  BY <1>6, Zenon DEF Joins
<1> QED
  BY <1>7

\* l and m are the same up to place n.
AlikeTo(n, l, m) == n <= Len(l) /\ n <= Len(m) /\ \A i \in 1..n : l[i] = m[i]

LEMMA JoinsAgree ==
  ASSUME NEW l \in Seq(Classes), NEW m \in Seq(Classes), NEW n \in Nat, AlikeTo(n, l, m),
         NEW u, NEW v, Joins(u, l), Joins(v, m)
  PROVE  \A i \in 0..n : u[i] = v[i]
<1> DEFINE S == {i \in 0..n : u[i] = v[i]}
<1>1. PICK rank : Walk(0..n, {0}, Before(n), rank)
  BY NumbersWalk
<1>2. \A i \in 0..n : i \in 0..Len(l) /\ i \in 0..Len(m)
  BY DEF AlikeTo
<1>5. \A i \in 0..n : u[i] = IF i = 0 THEN <<>> ELSE u[i - 1] \o decl[l[i]]
  BY <1>2, Zenon DEF Joins
<1>6. \A i \in 0..n : v[i] = IF i = 0 THEN <<>> ELSE v[i - 1] \o decl[m[i]]
  BY <1>2, Zenon DEF Joins
<1>3. Closed(S, 0..n, {0}, Before(n))
  <2> SUFFICES ASSUME NEW i \in 0..n, i = 0 \/ Before(n)[i] \in S PROVE u[i] = v[i]
    BY DEF Closed
  <2>1. CASE i = 0
    BY <1>5, <1>6, <2>1
  <2>2. CASE i # 0
    <3>1. u[i - 1] = v[i - 1] /\ l[i] = m[i]
      BY <2>2 DEF Before, AlikeTo
    <3> QED
      BY <1>5, <1>6, <2>2, <3>1
  <2> QED
    BY <2>1, <2>2
<1>4. 0..n \subseteq S
  <2> HIDE DEF S
  <2> QED
    BY <1>1, <1>3, WalkInduction
<1> QED
  BY <1>4

LEMMA InitializersJoin ==
  ASSUME Hierarchy, NEW c \in Classes
  PROVE  /\ Lineage(c) \in Seq(Classes)
         /\ \E u \in [0..Len(Lineage(c)) -> Seq(Hooks)] :
               Joins(u, Lineage(c)) /\ Initializers(c) = u[Len(Lineage(c))]
<1> DEFINE l == Lineage(c)
           u == CHOOSE x : Joins(x, l)
<1>1. l \in Seq(Classes)
  BY LineageUnfolds
<1>2. PICK v \in [0..Len(l) -> Seq(Hooks)] : Joins(v, l)
  BY <1>1, JoinsExist
<1>3. Joins(u, l)
  BY <1>2, Zenon
<1>4. Initializers(c) = u[Len(l)]
  BY Zenon DEF Initializers, Joins
<1> HIDE DEF l, u
<1>5. \A i \in 0..Len(l) : u[i] = v[i]
  <2>1. Len(l) \in Nat /\ AlikeTo(Len(l), l, l)
    BY <1>1 DEF AlikeTo
  <2> QED
    BY <1>1, <1>2, <1>3, <2>1, JoinsAgree
<1>6. Initializers(c) = v[Len(l)]
  BY <1>1, <1>4, <1>5
<1> QED
  BY <1>1, <1>2, <1>6 DEF l

\* A class runs the initializers its parent runs, then its own.
LEMMA InitializersUnfold ==
  ASSUME Hierarchy, NEW c \in Classes
  PROVE  /\ Initializers(c) \in Seq(Hooks) /\ decl[c] \in Seq(Hooks)
         /\ parent[c] = Base => Initializers(c) = decl[c]
         /\ parent[c] # Base => /\ parent[c] \in Classes
                                /\ Initializers(c) = Initializers(parent[c]) \o decl[c]
<1>1. PICK u \in [0..Len(Lineage(c)) -> Seq(Hooks)] :
         Joins(u, Lineage(c)) /\ Initializers(c) = u[Len(Lineage(c))]
  BY InitializersJoin
<1>2. Lineage(c) \in Seq(Classes)
  BY InitializersJoin
<1>3. decl[c] \in Seq(Hooks)
  BY DeclarationsAssumption DEF Hierarchy
<1>4. Initializers(c) \in Seq(Hooks)
  BY <1>1, <1>2
<1>5. ASSUME parent[c] = Base PROVE Initializers(c) = decl[c]
  <2>1. Lineage(c) = <<c>>
    BY <1>5, LineageUnfolds
  <2>2. Len(Lineage(c)) = 1 /\ Lineage(c)[1] = c
    BY <2>1
  <2>5. 0 \in 0..Len(Lineage(c)) /\ 1 \in 0..Len(Lineage(c)) /\ 1 # 0 /\ 1 - 1 = 0
    BY <2>2
  <2>6. \A i \in 0..Len(Lineage(c)) : u[i] = IF i = 0 THEN <<>> ELSE u[i - 1] \o decl[Lineage(c)[i]]
    BY <1>1, Zenon DEF Joins
  <2>3. u[0] = <<>> /\ u[1] = u[0] \o decl[Lineage(c)[1]]
    BY <2>5, <2>6
  <2>4. <<>> \o decl[c] = decl[c]
    BY <1>3
  <2> QED
    BY <1>1, <2>2, <2>3, <2>4
<1>6. ASSUME parent[c] # Base
      PROVE  parent[c] \in Classes /\ Initializers(c) = Initializers(parent[c]) \o decl[c]
  <2> DEFINE l == Lineage(c)
             p == Lineage(parent[c])
             n == Len(p)
  <2>1. parent[c] \in Classes
    BY <1>6 DEF Hierarchy
  <2>2. PICK v \in [0..n -> Seq(Hooks)] : Joins(v, p) /\ Initializers(parent[c]) = v[n]
    BY <2>1, InitializersJoin
  <2>3. p \in Seq(Classes)
    BY <2>1, InitializersJoin
  <2>4. l = Append(p, c)
    BY <1>6, LineageUnfolds
  <2>5. n \in Nat /\ Len(l) = n + 1 /\ l[n + 1] = c /\ \A i \in 1..n : l[i] = p[i]
    BY <2>3, <2>4
  <2>6. \A i \in 0..n : u[i] = v[i]
    <3> HIDE DEF l, p
    <3>1. AlikeTo(n, l, p) /\ l \in Seq(Classes) /\ Joins(u, l) /\ n \in Nat
      BY <1>1, <1>2, <2>5 DEF l, AlikeTo
    <3>2. Joins(v, p)
      BY <2>2
    <3>3. PICK k \in Nat : k = n
      BY <3>1
    <3>4. AlikeTo(k, l, p)
      BY <3>1, <3>3
    <3>5. \A i \in 0..k : u[i] = v[i]
      BY <2>3, <3>1, <3>2, <3>4, JoinsAgree
    <3> QED
      BY <3>3, <3>5
  <2>7. u[n + 1] = u[n] \o decl[c]
    <3>1. n + 1 \in 0..Len(l) /\ n + 1 # 0 /\ (n + 1) - 1 = n
      BY <2>5
    <3>2. u[n + 1] = u[(n + 1) - 1] \o decl[l[n + 1]]
      BY <1>1, <3>1, Zenon DEF Joins
    <3> HIDE DEF l
    <3> QED
      BY <2>5, <3>1, <3>2
  <2> HIDE DEF l, n
  <2>8. u[n] = v[n] /\ Initializers(c) = u[n + 1]
    BY <1>1, <2>5, <2>6 DEF l
  <2> QED
    BY <2>1, <2>2, <2>7, <2>8
<1> QED
  BY <1>3, <1>4, <1>5, <1>6

\* The hooks of a class are its own, or else its parent's.
LEMMA HooksUnfold ==
  ASSUME Hierarchy, own \in [Classes -> BOOLEAN], list \in [Classes -> Seq(Hooks)]
  PROVE  \A c \in Classes :
            ControllerHooks(c) = IF own[c] THEN list[c]
                                 ELSE IF parent[c] = Base THEN <<>> ELSE ControllerHooks(parent[c])
<1> DEFINE Roots == {d \in Classes : own[d] \/ parent[d] = Base}
           start == [d \in Classes |-> IF own[d] THEN list[d] ELSE <<>>]
           step == [d \in Classes |-> [s \in Seq(Hooks) |-> s]]
           Is(f) == f = [d \in Classes |-> IF own[d] THEN list[d]
                                           ELSE IF parent[d] = Base THEN <<>> ELSE f[parent[d]]]
           f == CHOOSE find : Is(find)
<1>1. PICK depth : Walk(Classes, Roots, parent, depth) /\ Bounded(Classes, depth)
  BY ParentsWalk DEF Walk, Tops
<1>2. start \in [Classes -> Seq(Hooks)] /\ step \in [Classes -> [Seq(Hooks) -> Seq(Hooks)]]
  OBVIOUS
<1>3. PICK g \in [Classes -> Seq(Hooks)] : Follows(g, Classes, Roots, parent, start, step)
  <2> HIDE DEF start, step, Roots
  <2> QED
    BY <1>1, <1>2, WalkExists
<1>a. \A c \in Classes : parent[c] # Base => parent[c] \in Classes
  BY DEF Hierarchy
<1>4. \A d \in Classes : g[d] = IF own[d] THEN list[d]
                                ELSE IF parent[d] = Base THEN <<>> ELSE g[parent[d]]
  BY <1>3, <1>a DEF Follows
<1>5. Is(g)
  BY <1>4, Zenon
<1>6. Is(f)
  BY <1>5, Zenon
<1>7. \A c \in Classes : f[c] = IF own[c] THEN list[c]
                                ELSE IF parent[c] = Base THEN <<>> ELSE f[parent[c]]
  BY <1>6, Zenon
<1>8. \A c \in Classes : ControllerHooks(c) = f[c]
  BY Zenon DEF ControllerHooks
<1> HIDE DEF f
<1> QED
  BY <1>7, <1>8, <1>a

\* Running a list of initializers: one after the other.
LEMMA RunUnfold ==
  ASSUME NEW start \in Seq(Hooks), NEW inits \in Seq(Hooks)
  PROVE  \E f : /\ f[0] = start
                /\ \A i \in 1..Len(inits) : f[i] = Pushed(f[i - 1], inits[i])
                /\ Run(start, inits) = f[Len(inits)]
<1> DEFINE n == Len(inits)
           begin == [i \in 0..n |-> start]
           step == [i \in 0..n |-> [s \in Seq(Hooks) |-> IF i = 0 THEN s ELSE Pushed(s, inits[i])]]
           Is(f) == f = [i \in 0..n |-> IF i = 0 THEN start ELSE Pushed(f[i - 1], inits[i])]
           f == CHOOSE after : Is(after)
<1>1. n \in Nat
  OBVIOUS
<1>2. PICK rank : Walk(0..n, {0}, Before(n), rank) /\ Bounded(0..n, rank)
  BY <1>1, NumbersWalk
<1>3. begin \in [0..n -> Seq(Hooks)]
  OBVIOUS
<1>4. step \in [0..n -> [Seq(Hooks) -> Seq(Hooks)]]
  <2>1. \A i \in 0..n, s \in Seq(Hooks) : i # 0 => Pushed(s, inits[i]) \in Seq(Hooks)
    BY DEF Pushed
  <2> QED
    BY <2>1
<1>5. PICK u \in [0..n -> Seq(Hooks)] : Follows(u, 0..n, {0}, Before(n), begin, step)
  <2> HIDE DEF begin, step, n
  <2> QED
    BY <1>2, <1>3, <1>4, WalkExists
<1>6. \A i \in 0..n : u[i] = IF i = 0 THEN start ELSE Pushed(u[i - 1], inits[i])
  <2> SUFFICES ASSUME NEW i \in 0..n PROVE u[i] = IF i = 0 THEN start ELSE Pushed(u[i - 1], inits[i])
    OBVIOUS
  <2>1. u[i] = IF i \in {0} THEN begin[i] ELSE step[i][u[Before(n)[i]]]
    BY <1>5 DEF Follows
  <2>2. CASE i = 0
    BY <2>1, <2>2
  <2>3. CASE i # 0
    <3>1. Before(n)[i] = i - 1 /\ i - 1 \in 0..n
      BY <1>1, <2>3 DEF Before
    <3>2. u[i - 1] \in Seq(Hooks)
      BY <3>1
    <3>3. u[i] = step[i][u[i - 1]]
      BY <2>1, <2>3, <3>1
    <3>4. step[i][u[i - 1]] = Pushed(u[i - 1], inits[i])
      BY <2>3, <3>2
    <3> QED
      BY <2>3, <3>3, <3>4
  <2> QED
    BY <2>2, <2>3
<1>7. Is(u)
  BY <1>6, Zenon
<1>8. Is(f)
  BY <1>7, Zenon
<1>9. \A i \in 0..n : f[i] = IF i = 0 THEN start ELSE Pushed(f[i - 1], inits[i])
  BY <1>8, Zenon
<1>10. Run(start, inits) = f[n]
  BY Zenon DEF Run
<1> HIDE DEF f
<1> QED
  BY <1>1, <1>9, <1>10

(***************************************************************************)
(* What a list of hooks holds of the declarations it was made from         *)
(***************************************************************************)

\* Among the first n of all, those that are the first for their method.
Firsts(all, n) == {i \in 1..n : \A j \in 1..i - 1 : all[j].method # all[i].method}

\* hooks are the first for each method of the first n of all, in that order.
Kept(hooks, all, n) ==
    /\ \A k \in DOMAIN hooks : \E i \in Firsts(all, n) : hooks[k] = all[i]
    /\ \A i \in Firsts(all, n) : \E k \in DOMAIN hooks : hooks[k] = all[i]
    /\ \A i, j \in Firsts(all, n) : i < j =>
          \E k, m \in DOMAIN hooks : k < m /\ hooks[k] = all[i] /\ hooks[m] = all[j]

\* Every method declared has a first declaration.
LEMMA FirstForMethod ==
  ASSUME NEW all, NEW n \in Nat, NEW i \in 1..n
  PROVE  \E j \in Firsts(all, n) : j <= i /\ all[j].method = all[i].method
<1> DEFINE T == {j \in 1..n : all[j].method = all[i].method}
<1>1. T \in SUBSET Nat /\ i \in T
  OBVIOUS
<1>2. PICK j \in T : \A k \in T : j <= k
  <2> HIDE DEF T
  <2> QED
    BY <1>1, SmallestOf
<1>3. \A k \in 1..j - 1 : all[k].method # all[j].method
  BY <1>2
<1> QED
  BY <1>1, <1>2, <1>3 DEF Firsts

\* The hooks kept have a method exactly if it was declared.
LEMMA KeptMethods ==
  ASSUME NEW hooks, NEW all, NEW n \in Nat, Kept(hooks, all, n), NEW m
  PROVE  HasMethod(hooks, m) <=> \E i \in 1..n : all[i].method = m
<1>1. ASSUME NEW k \in DOMAIN hooks, hooks[k].method = m PROVE \E i \in 1..n : all[i].method = m
  BY <1>1 DEF Kept, Firsts
<1>2. ASSUME NEW i \in 1..n, all[i].method = m PROVE HasMethod(hooks, m)
  <2>1. PICK j \in Firsts(all, n) : all[j].method = m
    BY <1>2, FirstForMethod
  <2> QED
    BY <2>1 DEF Kept, HasMethod
<1> QED
  BY <1>1, <1>2 DEF HasMethod

\* The next declaration is kept if it is the first for its method.
LEMMA PushedKept ==
  ASSUME NEW hooks \in Seq(Hooks), NEW all, NEW n \in Nat, Kept(hooks, all, n)
  PROVE  Kept(Pushed(hooks, all[n + 1]), all, n + 1)
<1> DEFINE h == all[n + 1]
<1>1. CASE HasMethod(hooks, h.method)
  <2>1. Pushed(hooks, h) = hooks
    BY <1>1 DEF Pushed
  <2>2. \E i \in 1..n : all[i].method = h.method
    BY <1>1, KeptMethods
  <2>3. Firsts(all, n + 1) = Firsts(all, n)
    BY <2>2 DEF Firsts
  <2> QED
    BY <2>1, <2>3 DEF Kept
<1>2. CASE ~HasMethod(hooks, h.method)
  <2> DEFINE new == Append(hooks, h)
  <2>1. Pushed(hooks, h) = new
    BY <1>2 DEF Pushed
  <2>2. \A i \in 1..n : all[i].method # h.method
    BY <1>2, KeptMethods
  <2>3. Firsts(all, n + 1) = Firsts(all, n) \cup {n + 1}
    BY <2>2 DEF Firsts
  <2>4. /\ DOMAIN new = 1..Len(hooks) + 1 /\ DOMAIN hooks = 1..Len(hooks) /\ Len(hooks) \in Nat
        /\ new[Len(hooks) + 1] = h /\ \A k \in DOMAIN hooks : new[k] = hooks[k]
    OBVIOUS
  <2>5. \A i \in Firsts(all, n) : i \in 1..n
    BY DEF Firsts
  <2> HIDE DEF new
  <2>6. \A k \in DOMAIN new : \E i \in Firsts(all, n + 1) : new[k] = all[i]
    BY <2>3, <2>4 DEF Kept
  <2>7. ASSUME NEW i \in Firsts(all, n + 1) PROVE \E k \in DOMAIN new : new[k] = all[i]
    <3>1. CASE i = n + 1
      BY <2>4, <3>1
    <3>2. CASE i \in Firsts(all, n)
      <4>1. PICK k \in DOMAIN hooks : hooks[k] = all[i]
        BY <3>2 DEF Kept
      <4> QED
        BY <2>4, <4>1
    <3> QED
      BY <2>3, <3>1, <3>2
  <2>8. ASSUME NEW i \in Firsts(all, n + 1), NEW j \in Firsts(all, n + 1), i < j
        PROVE  \E k, m \in DOMAIN new : k < m /\ new[k] = all[i] /\ new[m] = all[j]
    <3>1. i \in Firsts(all, n)
      BY <2>3, <2>5, <2>8
    <3>2. CASE j \in Firsts(all, n)
      <4>1. PICK k \in DOMAIN hooks, m \in DOMAIN hooks :
                k < m /\ hooks[k] = all[i] /\ hooks[m] = all[j]
        BY <2>8, <3>1, <3>2 DEF Kept
      <4> QED
        BY <2>4, <4>1
    <3>3. CASE j = n + 1
      <4>1. PICK k \in DOMAIN hooks : hooks[k] = all[i]
        BY <3>1 DEF Kept
      <4>2. k < Len(hooks) + 1
        BY <2>4
      <4> QED
        BY <2>4, <3>3, <4>1, <4>2
    <3> QED
      BY <2>3, <3>2, <3>3
  <2> QED
    BY <2>1, <2>6, <2>7, <2>8 DEF Kept
<1> QED
  BY <1>1, <1>2

\* A declaration that was pushed already changes nothing.
LEMMA PushedAgain ==
  ASSUME NEW hooks, NEW all, NEW n \in Nat, Kept(hooks, all, n), NEW i \in 1..n
  PROVE  Pushed(hooks, all[i]) = hooks
BY KeptMethods DEF Pushed

\* However many of its declarations a list already holds, running all of them
\* leaves it with all.
LEMMA RunKeeps ==
  ASSUME NEW start \in Seq(Hooks), NEW all \in Seq(Hooks), NEW n \in 0..Len(all), Kept(start, all, n)
  PROVE  Run(start, all) \in Seq(Hooks) /\ Kept(Run(start, all), all, Len(all))
<1> DEFINE held(i) == IF i <= n THEN n ELSE i
<1>1. PICK f : /\ f[0] = start
               /\ \A i \in 1..Len(all) : f[i] = Pushed(f[i - 1], all[i])
               /\ Run(start, all) = f[Len(all)]
  BY RunUnfold
<1> DEFINE S == {i \in 0..Len(all) : f[i] \in Seq(Hooks) /\ Kept(f[i], all, held(i))}
<1>2. Len(all) \in Nat
  OBVIOUS
<1>3. PICK rank : Walk(0..Len(all), {0}, Before(Len(all)), rank)
  BY <1>2, NumbersWalk
<1>4. Closed(S, 0..Len(all), {0}, Before(Len(all)))
  <2> SUFFICES ASSUME NEW i \in 0..Len(all), i = 0 \/ Before(Len(all))[i] \in S PROVE i \in S
    BY DEF Closed
  <2>1. CASE i = 0
    BY <1>1, <2>1
  <2>2. CASE i # 0
    <3>1. i \in 1..Len(all) /\ i - 1 \in S /\ f[i] = Pushed(f[i - 1], all[i])
      BY <1>1, <1>2, <2>2 DEF Before
    <3>2. f[i] \in Seq(Hooks)
      BY <3>1 DEF Pushed
    <3>3. CASE i <= n
      <4>1. held(i - 1) = n /\ held(i) = n /\ i \in 1..n
        BY <3>1, <3>3
      <4>2. Kept(f[i - 1], all, n)
        BY <3>1, <4>1
      <4>3. f[i] = f[i - 1]
        BY <3>1, <4>1, <4>2, PushedAgain
      <4> QED
        BY <3>2, <4>1, <4>2, <4>3
    <3>4. CASE i > n
      <4>1. held(i - 1) = i - 1 /\ held(i) = i /\ i - 1 \in Nat /\ (i - 1) + 1 = i
        BY <3>1, <3>4
      <4>2. Kept(f[i - 1], all, i - 1) /\ f[i - 1] \in Seq(Hooks)
        BY <3>1, <4>1
      <4>3. Kept(Pushed(f[i - 1], all[(i - 1) + 1]), all, (i - 1) + 1)
        BY <4>1, <4>2, PushedKept
      <4>4. Kept(f[i], all, i)
        BY <3>1, <4>1, <4>3
      <4> QED
        BY <3>2, <4>1, <4>4
    <3> QED
      BY <3>1, <3>3, <3>4
  <2> QED
    BY <2>1, <2>2
<1>5. 0..Len(all) \subseteq S
  <2> HIDE DEF S
  <2> QED
    BY <1>3, <1>4, WalkInduction
<1>6. Len(all) \in S /\ held(Len(all)) = Len(all)
  BY <1>2, <1>5
<1> QED
  BY <1>1, <1>6

\* What is kept of some declarations is kept of them when others follow.
LEMMA PrefixKept ==
  ASSUME NEW all \in Seq(Hooks), NEW more \in Seq(Hooks), NEW n \in 0..Len(all), NEW hooks,
         Kept(hooks, all, n)
  PROVE  n \in 0..Len(all \o more) /\ Kept(hooks, all \o more, n)
<1>1. \A i \in 1..n : (all \o more)[i] = all[i]
  OBVIOUS
<1>2. Firsts(all \o more, n) = Firsts(all, n)
  BY <1>1 DEF Firsts
<1>3. \A i \in Firsts(all, n) : (all \o more)[i] = all[i]
  BY <1>1 DEF Firsts
<1>4. n \in 0..Len(all \o more)
  OBVIOUS
<1> DEFINE both == all \o more
<1>5. PICK b : b = both
  OBVIOUS
<1>6. Firsts(b, n) = Firsts(all, n) /\ \A i \in Firsts(all, n) : b[i] = all[i]
  BY <1>2, <1>3, <1>5
<1>7. Kept(hooks, b, n)
  BY <1>6 DEF Kept
<1> QED
  BY <1>4, <1>5, <1>7

(***************************************************************************)
(* The invariant and the theorems                                          *)
(***************************************************************************)

\* A list of its own holds all that its class and its ancestors declare; a class
\* instantiated without one has nothing to run.
OwnComplete ==
    /\ \A c \in Classes : own[c] => Kept(list[c], Initializers(c), Len(Initializers(c)))
    /\ \A c \in made : own[c] \/ Initializers(c) = <<>>

HooksIInv == TypeOK /\ Hierarchy /\ OwnComplete

\* Whatever was instantiated so far, a class has the hooks of the first of the
\* classes of its lineage, topmost first, and of no other.
LEMMA HooksKept ==
  ASSUME HooksIInv
  PROVE  \A c \in Classes : /\ ControllerHooks(c) \in Seq(Hooks)
                            /\ \E n \in 0..Len(Initializers(c)) :
                                  Kept(ControllerHooks(c), Initializers(c), n)
<1> DEFINE S == {c \in Classes : /\ ControllerHooks(c) \in Seq(Hooks)
                                 /\ \E n \in 0..Len(Initializers(c)) :
                                       Kept(ControllerHooks(c), Initializers(c), n)}
<1>1. PICK depth : Walk(Classes, Tops, parent, depth)
  BY ParentsWalk DEF HooksIInv
<1>2. Closed(S, Classes, Tops, parent)
  <2> SUFFICES ASSUME NEW c \in Classes, c \in Tops \/ parent[c] \in S PROVE c \in S
    BY DEF Closed
  <2>1. ControllerHooks(c) = IF own[c] THEN list[c]
                             ELSE IF parent[c] = Base THEN <<>> ELSE ControllerHooks(parent[c])
    BY HooksUnfold DEF HooksIInv, TypeOK
  <2>a. Initializers(c) \in Seq(Hooks)
    BY InitializersUnfold, Zenon DEF HooksIInv
  <2>2. Initializers(c) \in Seq(Hooks) /\ Len(Initializers(c)) \in Nat
    BY <2>a
  <2>3. CASE own[c]
    <3>1. ControllerHooks(c) = list[c] /\ list[c] \in Seq(Hooks)
      BY <2>1, <2>3 DEF HooksIInv, TypeOK
    <3>2. Kept(list[c], Initializers(c), Len(Initializers(c)))
      BY <2>3 DEF HooksIInv, OwnComplete
    <3>3. Len(Initializers(c)) \in 0..Len(Initializers(c))
      BY <2>2
    <3> QED
      BY <3>1, <3>2, <3>3
  <2>4. CASE ~own[c] /\ parent[c] = Base
    <3>1. ControllerHooks(c) = <<>>
      BY <2>1, <2>4
    <3>2. Kept(<<>>, Initializers(c), 0) /\ 0 \in 0..Len(Initializers(c))
      BY <2>2 DEF Kept, Firsts
    <3>3. <<>> \in Seq(Hooks)
      OBVIOUS
    <3> QED
      BY <3>1, <3>2, <3>3
  <2>5. CASE ~own[c] /\ parent[c] # Base
    <3>1. ControllerHooks(c) = ControllerHooks(parent[c]) /\ parent[c] \in S
      BY <2>1, <2>5 DEF Tops
    <3>2. /\ parent[c] \in Classes /\ decl[c] \in Seq(Hooks)
          /\ Initializers(parent[c]) \in Seq(Hooks)
          /\ Initializers(c) = Initializers(parent[c]) \o decl[c]
      BY <2>5, <3>1, InitializersUnfold DEF HooksIInv
    <3>3. PICK n \in 0..Len(Initializers(parent[c])) :
             Kept(ControllerHooks(parent[c]), Initializers(parent[c]), n)
      BY <3>1
    <3>4. /\ n \in 0..Len(Initializers(parent[c]) \o decl[c])
          /\ Kept(ControllerHooks(parent[c]), Initializers(parent[c]) \o decl[c], n)
      BY <3>2, <3>3, PrefixKept
    <3> QED
      BY <3>1, <3>2, <3>4
  <2> QED
    BY <2>3, <2>4, <2>5
<1>3. Classes \subseteq S
  <2> HIDE DEF S
  <2> QED
    BY <1>1, <1>2, WalkInduction
<1> QED
  BY <1>3

\* What a class runs depends on the hierarchy and its declarations alone.
LEMMA InitializersStay ==
  ASSUME UNCHANGED <<parent, decl>>, NEW c
  PROVE  Initializers(c)' = Initializers(c)
BY SMT DEF Initializers, Lineage

THEOREM HooksInvariant == Spec => []HooksIInv
<1>1. Init => HooksIInv
  <2> SUFFICES ASSUME Init PROVE HooksIInv
    OBVIOUS
  <2>1. list \in [Classes -> Seq(Hooks)]
    BY DEF Init
  <2>2. TypeOK
    BY <2>1 DEF Init, TypeOK
  <2>3. Hierarchy
    BY Zenon DEF Init, Hierarchy
  <2>4. OwnComplete
    BY DEF Init, OwnComplete
  <2> QED
    BY <2>2, <2>3, <2>4 DEF HooksIInv
<1>2. HooksIInv /\ [Next]_vars => HooksIInv'
  <2> SUFFICES ASSUME HooksIInv, [Next]_vars PROVE HooksIInv'
    OBVIOUS
  <2>1. CASE UNCHANGED vars
    <3>1. UNCHANGED <<parent, decl, own, list, made>>
      BY <2>1 DEF vars
    <3>2. \A d \in Classes : Initializers(d)' = Initializers(d)
      BY <3>1, InitializersStay
    <3>3. TypeOK' /\ Hierarchy'
      BY <3>1, Zenon DEF HooksIInv, TypeOK, Hierarchy
    <3>4. OwnComplete'
      BY <3>1, <3>2, Zenon DEF HooksIInv, OwnComplete, TypeOK
    <3> QED
      BY <3>3, <3>4 DEF HooksIInv
  <2>2. ASSUME NEW c \in Classes, Instantiate(c) PROVE HooksIInv'
    <3> DEFINE all == Initializers(c)
               run == Run(ControllerHooks(c), all)
    <3>1. UNCHANGED <<parent, decl>> /\ made' = made \cup {c}
      BY <2>2 DEF Instantiate
    <3>2. \A d \in Classes : Initializers(d)' = Initializers(d)
      BY <3>1, InitializersStay
    <3>3. Hierarchy'
      BY <3>1, Zenon DEF HooksIInv, Hierarchy
    <3>4. run \in Seq(Hooks) /\ Kept(run, all, Len(all))
      <4>1. all \in Seq(Hooks)
        BY InitializersUnfold, Zenon DEF HooksIInv
      <4>2. PICK n \in 0..Len(all) : Kept(ControllerHooks(c), all, n)
        BY HooksKept
      <4>3. ControllerHooks(c) \in Seq(Hooks)
        BY HooksKept
      <4> QED
        BY <4>1, <4>2, <4>3, RunKeeps
    <3>5. TypeOK'
      <4>1. parent \in [Classes -> Classes \cup {Base}] /\ decl \in [Classes -> Declarations]
        BY DEF HooksIInv, TypeOK
      <4>2. own' \in [Classes -> BOOLEAN]
        BY <2>2, Zenon DEF HooksIInv, TypeOK, Instantiate
      <4>3. list' \in [Classes -> Seq(Hooks)]
        <5> HIDE DEF run
        <5>1. list' = list \/ list' = [list EXCEPT ![c] = run]
          BY <2>2, Zenon DEF Instantiate, run
        <5> QED
          BY <3>4, <5>1 DEF HooksIInv, TypeOK
      <4>4. made' \in SUBSET Classes
        BY <3>1 DEF HooksIInv, TypeOK
      <4> QED
        BY <3>1, <4>1, <4>2, <4>3, <4>4 DEF TypeOK
    <3>6. OwnComplete'
      <4>1. CASE all = <<>>
        <5>1. UNCHANGED <<own, list>>
          BY <2>2, <4>1, Zenon DEF Instantiate
        <5>2. \A d \in Classes : own[d] => Kept(list[d], Initializers(d), Len(Initializers(d)))
          BY DEF HooksIInv, OwnComplete
        <5>3. \A d \in made' : own[d] \/ Initializers(d) = <<>>
          BY <3>1, <4>1 DEF HooksIInv, OwnComplete
        <5>4. made' \in SUBSET Classes
          BY <3>5 DEF TypeOK
        <5> QED
          BY <3>2, <5>1, <5>2, <5>3, <5>4, Zenon DEF OwnComplete
      <4>2. CASE all # <<>>
        <5> HIDE DEF run
        <5>1. own' = [own EXCEPT ![c] = TRUE] /\ list' = [list EXCEPT ![c] = run]
          BY <2>2, <4>2, Zenon DEF Instantiate, run
        <5>2. own'[c] /\ list'[c] = run /\ \A d \in Classes \ {c} : own'[d] = own[d] /\ list'[d] = list[d]
          BY <5>1 DEF HooksIInv, TypeOK
        <5>3. \A d \in Classes : own'[d] => Kept(list'[d], Initializers(d), Len(Initializers(d)))
          BY <3>4, <5>2 DEF HooksIInv, OwnComplete
        <5>4. \A d \in made' : own'[d] \/ Initializers(d) = <<>>
          BY <3>1, <5>2 DEF HooksIInv, OwnComplete, TypeOK
        <5>5. made' \in SUBSET Classes
          BY <3>5 DEF TypeOK
        <5> QED
          BY <3>2, <5>3, <5>4, <5>5, Zenon DEF OwnComplete
      <4> QED
        BY <4>1, <4>2
    <3> QED
      BY <3>3, <3>5, <3>6 DEF HooksIInv
  <2> QED
    BY <2>1, <2>2 DEF Next
<1> QED
  BY <1>1, <1>2, PTL DEF Spec

\* Every variable of ControllerHooks keeps its type: own and list above all, whatever
\* a list is copied from (decorators.ts).
THEOREM HooksTypeCorrect == Spec => []TypeOK
BY HooksInvariant, PTL DEF HooksIInv

\* HooksAsDeclared: a class that has been instantiated has the hooks it and its
\* ancestors declare, one for each method (decorators.ts, hooks.ts).
THEOREM HooksAlwaysAsDeclared == Spec => []HooksAsDeclared
<1>1. HooksIInv => HooksAsDeclared
  <2> SUFFICES ASSUME HooksIInv, NEW c \in made
               PROVE  LET all == Initializers(c)
                          first == {i \in DOMAIN all : \A j \in 1..i - 1 : all[j].method # all[i].method}
                          hooks == ControllerHooks(c)
                      IN /\ {hooks[i] : i \in DOMAIN hooks} = {all[i] : i \in first}
                         /\ \A i, j \in first : i < j =>
                               \E k, m \in DOMAIN hooks : k < m /\ hooks[k] = all[i] /\ hooks[m] = all[j]
    BY Zenon DEF HooksAsDeclared
  <2>1. c \in Classes
    BY DEF HooksIInv, TypeOK
  <2> DEFINE all == Initializers(c)
             hooks == ControllerHooks(c)
             first == {i \in DOMAIN all : \A j \in 1..i - 1 : all[j].method # all[i].method}
  <2>2. all \in Seq(Hooks)
    BY <2>1, InitializersUnfold, Zenon DEF HooksIInv
  <2>3. hooks \in Seq(Hooks)
    BY <2>1, HooksKept
  <2>4. Kept(hooks, all, Len(all))
    <3>1. CASE own[c]
      <4>1. hooks = list[c]
        BY <2>1, <2>3, <3>1, HooksUnfold DEF HooksIInv, TypeOK
      <4> QED
        BY <2>1, <2>2, <3>1, <4>1 DEF HooksIInv, OwnComplete
    <3>2. CASE ~own[c]
      <4>1. all = <<>> /\ Len(all) = 0
        BY <2>2, <3>2 DEF HooksIInv, OwnComplete
      <4>2. PICK n \in 0..Len(all) : Kept(hooks, all, n)
        BY <2>1, <2>2, <2>3, HooksKept
      <4> QED
        BY <4>1, <4>2
    <3> QED
      BY <3>1, <3>2
  <2> HIDE DEF all, hooks
  <2>5. Firsts(all, Len(all)) = first
    BY <2>2 DEF Firsts
  <2>6. {hooks[i] : i \in DOMAIN hooks} = {all[i] : i \in first}
    BY <2>4, <2>5 DEF Kept
  <2>7. \A i, j \in first : i < j =>
           \E k, m \in DOMAIN hooks : k < m /\ hooks[k] = all[i] /\ hooks[m] = all[j]
    BY <2>4, <2>5 DEF Kept
  <2> QED
    BY <2>6, <2>7, Zenon DEF all, hooks
<1> QED
  BY <1>1, HooksInvariant, PTL

(***************************************************************************)
(* The session                                                             *)
(***************************************************************************)
\* What is known of a request: while history and the browser agree, so do the
\* session it was sent in and the cookie it carries; its answer is what its
\* process made of that cookie.
Carries(q) ==
    /\ q.op \in Ops
    /\ q.cookie \in Cookies
    /\ q.session = q.cookie
AnswerFollows(q) ==
    /\ q.config \in Configs
    /\ q.read = GetCookie(q.config, q.cookie)
    /\ q.set = Change(q.config, q)
RequestInv ==
    \A r \in Requests :
       \/ req[r] = Idle
       \/ req[r].phase = "sent" /\ Carries(req[r])
       \/ req[r].phase = "answered" /\ Carries(req[r]) /\ AnswerFollows(req[r])

SessionIInv ==
    /\ production \in BOOLEAN
    /\ jar \in Cookies /\ session \in Cookies /\ tampered \in BOOLEAN
    /\ DOMAIN req = Requests
    /\ RequestInv
    /\ SessionSurvives

\* A browser without a cookie, and no request.
LEMMA SessionInitially == SessionInit => SessionIInv
<1> SUFFICES ASSUME SessionInit PROVE SessionIInv
  OBVIOUS
<1>1. NoCookie \in Cookies
  BY DEF Cookies
<1>2. RequestInv /\ DOMAIN req = Requests
  BY DEF SessionInit, RequestInv
<1> QED
  BY <1>1, <1>2 DEF SessionInit, SessionIInv, SessionSurvives

\* An answer changes the jar only as the request asked.
LEMMA ChangeAsAsked ==
  ASSUME NEW c, NEW q, q.op \in Ops
  PROVE  /\ Change(c, q) \in {"keep", "clear", "seal"}
         /\ Change(c, q) = "seal" => q.op.op = "login"
         /\ Change(c, q) = "clear" => q.op.op = "logout"
  BY DEF Change, Ops

\* A cookie that the browser may hold after an answer.
LEMMA SealedIsCookie ==
  ASSUME NEW c \in Configs, NEW o \in Ops, o.op = "login"
  PROVE  Sealed(c.version, o.user) \in Cookies
<1>1. c.version \in Versions
  BY DEF Configs
<1>2. o.user \in Users
  BY DEF Ops
<1> QED
  BY <1>1, <1>2 DEF Cookies

\* An answer that reaches the browser leaves jar and session alike: both are
\* what the request asked for, or both what they were.
LEMMA DeliverStep ==
  ASSUME SessionIInv, NEW r \in Requests, Deliver(r)
  PROVE  SessionIInv'
<1> DEFINE q == req[r]
<1>1. q.phase = "answered" /\ Carries(q) /\ AnswerFollows(q)
  BY DEF SessionIInv, RequestInv, Deliver, Idle
<1>2. /\ q.set \in {"keep", "clear", "seal"}
      /\ q.set = "seal" => q.op.op = "login"
      /\ q.set = "clear" => q.op.op = "logout"
  BY <1>1, ChangeAsAsked DEF Carries, AnswerFollows
<1>3. /\ q.set = "keep" => jar' = jar /\ session' = session /\ tampered' = tampered
      /\ q.set = "clear" => jar' = NoCookie /\ session' = NoCookie
      /\ q.set = "seal" => /\ jar' = Sealed(q.config.version, q.op.user)
                           /\ session' = Sealed(q.config.version, q.op.user)
  <2>1. CASE q.set = "keep"
    BY <1>2, <2>1 DEF Deliver, Meant, SessionIInv
  <2>2. CASE q.set = "clear"
    BY <1>2, <2>2 DEF Deliver, Meant
  <2>3. CASE q.set = "seal"
    BY <1>2, <2>3 DEF Deliver, Meant
  <2> QED
    BY <2>1, <2>2, <2>3
<1>4. jar' \in Cookies /\ session' \in Cookies
  <2>1. q.set = "seal" => Sealed(q.config.version, q.op.user) \in Cookies
    BY <1>1, <1>2, SealedIsCookie DEF Carries, AnswerFollows
  <2>2. NoCookie \in Cookies
    BY DEF Cookies
  <2> QED
    BY <1>2, <1>3, <2>1, <2>2 DEF SessionIInv
<1>5. SessionSurvives'
  BY <1>2, <1>3 DEF SessionIInv, SessionSurvives
<1>6. RequestInv' /\ DOMAIN req' = Requests
  BY DEF Deliver, SessionIInv, RequestInv
<1>7. production' \in BOOLEAN /\ tampered' \in BOOLEAN
  BY DEF Deliver, SessionIInv
<1> QED
  BY <1>4, <1>5, <1>6, <1>7 DEF SessionIInv

\* A request takes along the cookie that the browser holds.
LEMMA SendStep ==
  ASSUME SessionIInv, NEW r \in Requests, Send(r)
  PROVE  SessionIInv'
<1>1. PICK o \in Ops :
         req' = [req EXCEPT ![r] = [phase |-> "sent", op |-> o, cookie |-> jar,
                                    session |-> IF tampered THEN jar ELSE session]]
  BY DEF Send
<1>2. UNCHANGED <<production, jar, session, tampered>>
  BY DEF Send
<1>3. req'[r].phase = "sent" /\ Carries(req'[r])
  BY <1>1 DEF SessionIInv, SessionSurvives, Carries
<1>4. \A s \in Requests \ {r} : req'[s] = req[s]
  BY <1>1 DEF SessionIInv
<1>5. RequestInv' /\ DOMAIN req' = Requests
  BY <1>1, <1>3, <1>4 DEF SessionIInv, RequestInv
<1> QED
  BY <1>2, <1>5 DEF SessionIInv, SessionSurvives

\* A process answers from the request alone.
LEMMA HandleStep ==
  ASSUME SessionIInv, NEW r \in Requests, Handle(r)
  PROVE  SessionIInv'
<1>1. PICK c \in Running :
         /\ req[r].phase = "sent"
         /\ Answered(r, c, Change(c, req[r]))
         /\ UNCHANGED <<production, jar, session, tampered>>
  BY DEF Handle
<1>2. Carries(req[r])
  BY <1>1 DEF SessionIInv, RequestInv, Idle
<1>3. req'[r].phase = "answered" /\ Carries(req'[r])
  BY <1>1, <1>2 DEF Answered, SessionIInv, Carries
<1>4. AnswerFollows(req'[r])
  <2>1. /\ req'[r].config = c /\ req'[r].cookie = req[r].cookie /\ req'[r].op = req[r].op
        /\ req'[r].read = GetCookie(c, req[r].cookie)
        /\ req'[r].set = Change(c, req[r])
    BY <1>1 DEF Answered, SessionIInv
  <2>2. c \in Configs
    BY DEF Running
  <2> QED
    BY <2>1, <2>2 DEF AnswerFollows, Change
<1>5. \A s \in Requests \ {r} : req'[s] = req[s]
  BY <1>1 DEF Answered, SessionIInv
<1>6. RequestInv' /\ DOMAIN req' = Requests
  BY <1>1, <1>3, <1>4, <1>5 DEF SessionIInv, RequestInv, Answered
<1> QED
  BY <1>1, <1>6 DEF SessionIInv, SessionSurvives

\* The invariant holds in every reachable state.
THEOREM SessionInvariant == SessionSpec => []SessionIInv
<1>1. SessionIInv /\ [SessionNext]_sessionVars => SessionIInv'
  <2> SUFFICES ASSUME SessionIInv, [SessionNext]_sessionVars PROVE SessionIInv'
    OBVIOUS
  <2>1. CASE Tamper
    BY <2>1 DEF Tamper, SessionIInv, RequestInv, SessionSurvives, Cookies
  <2>2. CASE UNCHANGED sessionVars
    BY <2>2 DEF sessionVars, SessionIInv, RequestInv, SessionSurvives
  <2> QED
    BY <2>1, <2>2, SendStep, HandleStep, DeliverStep DEF SessionNext
<1> QED
  BY SessionInitially, <1>1, PTL DEF SessionSpec

\* Answers that a process with other keys gives, in whatever order they arrive,
\* never end or replace the session of a browser nobody tampers with.
THEOREM SessionAlwaysSurvives == SessionSpec => []SessionSurvives
<1>1. SessionIInv => SessionSurvives
  BY DEF SessionIInv
<1> QED
  BY SessionInvariant, <1>1, PTL

\* Sound keys read the cookies sealed by their own version and the one before,
\* as the user they were sealed for, and no others.
LEMMA SoundReads ==
  ASSUME NEW c \in Configs, Sound(c), NEW cookie \in Cookies
  PROVE  GetCookie(c, cookie) =
            IF cookie.kind = "sealed" /\ cookie.key > 0 /\ c.version - cookie.key \in {0, 1}
            THEN cookie.user ELSE NoUser
<1>1. c.version \in Nat /\ c.version >= 1 /\ c.configured /\ c.broken = {}
  BY SessionAssumption DEF Configs, Versions, Sound
<1>2. CASE cookie.kind = "none"
  BY <1>2 DEF GetCookie
<1>3. CASE cookie.kind = "malformed"
  <2>1. Attempts(c, cookie) = {"undecryptable"}
    BY <1>3 DEF Attempts, Attempt
  <2> QED
    BY <1>1, <1>3, <2>1 DEF GetCookie, IsUndecryptable
<1>4. CASE cookie.kind = "sealed"
  <2>1. cookie.key \in Nat
    BY SessionAssumption DEF Cookies, Versions, NoCookie, Malformed, Sealed
  <2>2. /\ "keylength" \notin Attempts(c, cookie)
        /\ "decrypted" \in Attempts(c, cookie) <=>
              cookie.key = c.version \/ (c.version # 1 /\ cookie.key = c.version - 1)
    BY <1>1, <1>4 DEF Attempts, Attempt
  <2> QED
    BY <1>1, <1>4, <2>1, <2>2 DEF GetCookie, IsUndecryptable
<1> QED
  BY <1>2, <1>3, <1>4 DEF Cookies, NoCookie, Malformed, Sealed

\* However keys are rotated while requests are in flight, a request is served as
\* the user who was logged in when it was sent, or as nobody.
THEOREM AlwaysServedAsWhoLoggedIn == SessionSpec => []ServedAsWhoLoggedIn
<1>1. SessionIInv => ServedAsWhoLoggedIn
  <2> SUFFICES ASSUME SessionIInv, NEW r \in Requests, req[r].phase = "answered", Sound(req[r].config)
               PROVE  req[r].read =
                        IF req[r].session.kind = "sealed" /\ req[r].session.key > 0
                           /\ req[r].config.version - req[r].session.key \in {0, 1}
                        THEN req[r].session.user ELSE NoUser
    BY DEF ServedAsWhoLoggedIn
  <2>1. Carries(req[r]) /\ AnswerFollows(req[r])
    BY DEF SessionIInv, RequestInv, Idle
  <2> QED
    BY <2>1, SoundReads DEF Carries, AnswerFollows
<1> QED
  BY SessionInvariant, <1>1, PTL

(***************************************************************************)
(* What an action answers with, and what the documents say                *)
(***************************************************************************)
GoodEndpoint(e) ==
    /\ e.serializable.is \in {"nothing", "model", "serializer", "models", "serializers"}
    /\ e.serializable.is = "serializer" => 1 \in DOMAIN e.serializable.of
    /\ e.status \in Nat /\ DOMAIN e.responses \subseteq Nat \ {NoStatus}
    /\ 204 \in DOMAIN e.responses => ~e.responses[204]

\* The controller's metadata has the key of the documents, where it is needed.
KeyAgrees(e) == e.serializable.is # "nothing" => serializerKey = e.key

\* What has been called, and with which answer.
Called(helper, d) ==
    \/ helper \in Helpers /\ answer = <<AnswerOf(helper, d)>>
    \/ helper = "send" /\ \E symbol : answer = <<SendSymbol(symbol, d)>>

LastCall == decorators[Len(decorators)]

ResponsesIInv ==
    /\ decorators \in Seq(Calls \cup InheritedCalls) /\ Len(decorators) <= 2
    /\ decorators = <<>> => endpoint = <<>> /\ serializerKey = NoKey
    /\ decorators # <<>> => endpoint = <<EndpointOf(LastCall)>>
    /\ Len(decorators) = 1 => serializerKey \in {NoKey, decorators[1].options.key}
    /\ decorators # <<>> /\ LastCall.form # "options" /\ ~KeyLeft =>
          serializerKey = LastCall.options.key
    /\ answer # <<>> => \E helper, d : given = <<helper, d>> /\ Called(helper, d)

\* No helper is of two kinds.
LEMMA HelpersApart ==
  /\ DOMAIN JsonHelpers \cap DOMAIN RedirectHelpers = {}
  /\ (DOMAIN JsonHelpers \cup DOMAIN RedirectHelpers) \cap DOMAIN ErrorHelpers = {}
  /\ (DOMAIN JsonHelpers \cup DOMAIN RedirectHelpers \cup DOMAIN ErrorHelpers)
        \cap DOMAIN ServerErrorHelpers = {}
  /\ {"respond", "nonAuthoritativeInformation", "noContent"}
        \cap (DOMAIN JsonHelpers \cup DOMAIN RedirectHelpers \cup DOMAIN ErrorHelpers
              \cup DOMAIN ServerErrorHelpers) = {}
  BY DEF JsonHelpers, RedirectHelpers, ErrorHelpers, ServerErrorHelpers

\* What each helper answers, read without the order of its cases.
LEMMA Answers ==
  ASSUME NEW helper \in Helpers, NEW d
  PROVE  \/ helper = "respond" /\ AnswerOf(helper, d) = Respond(d)
         \/ \E status : AnswerOf(helper, d) = JsonAnswer(status, d) /\ helper # "respond"
         \/ /\ RendersBuildersOnly(helper) /\ helper # "respond"
            /\ \E status : AnswerOf(helper, d) =
                  [status |-> status, body |-> IF status = 500 \/ d.is \in {"nothing", "null"}
                                               THEN Empty ELSE BuildersOnly(d)]
         \/ AnswerOf(helper, d) = NoContentHelper /\ helper # "respond"
         \/ AnswerOf(helper, d).status \in Range(RedirectHelpers) /\ helper # "respond"
<1>1. CASE helper = "respond"
  BY <1>1, HelpersApart DEF AnswerOf
<1>2. CASE helper \in DOMAIN JsonHelpers
  <2>1. helper \notin {"respond", "nonAuthoritativeInformation", "noContent"}
        /\ helper \notin DOMAIN RedirectHelpers /\ helper \notin DOMAIN ErrorHelpers
        /\ helper \notin DOMAIN ServerErrorHelpers
    BY <1>2, HelpersApart
  <2>2. AnswerOf(helper, d) = JsonAnswer(JsonHelpers[helper], d)
    BY <1>2, <2>1 DEF AnswerOf
  <2> QED
    BY <2>1, <2>2
<1>3. CASE helper = "nonAuthoritativeInformation"
  <2>1. AnswerOf(helper, d) = NonAuthoritativeInformation(d)
    BY <1>3, HelpersApart DEF AnswerOf
  <2> QED
    BY <1>3, <2>1 DEF NonAuthoritativeInformation, RendersBuildersOnly
<1>4. CASE helper = "noContent"
  BY <1>4, HelpersApart DEF AnswerOf
<1>5. CASE helper \in DOMAIN RedirectHelpers
  <2>1. helper \notin {"respond", "nonAuthoritativeInformation", "noContent"}
        /\ helper \notin DOMAIN JsonHelpers /\ helper \notin DOMAIN ErrorHelpers
        /\ helper \notin DOMAIN ServerErrorHelpers
    BY <1>5, HelpersApart
  <2>2. AnswerOf(helper, d) = RedirectAnswer(RedirectHelpers[helper])
    BY <1>5, <2>1 DEF AnswerOf
  <2>3. RedirectHelpers[helper] \in Range(RedirectHelpers)
    BY <1>5 DEF Range
  <2> QED
    BY <2>1, <2>2, <2>3 DEF RedirectAnswer
<1>6. CASE helper \in DOMAIN ErrorHelpers
  <2>1. helper \notin {"respond", "nonAuthoritativeInformation", "noContent"}
        /\ helper \notin DOMAIN JsonHelpers /\ helper \notin DOMAIN RedirectHelpers
        /\ helper \notin DOMAIN ServerErrorHelpers
    BY <1>6, HelpersApart
  <2>2. AnswerOf(helper, d) = HttpErrorAnswer(ErrorHelpers[helper], d)
    BY <1>6, <2>1 DEF AnswerOf
  <2> QED
    BY <1>6, <2>1, <2>2 DEF HttpErrorAnswer, RendersBuildersOnly
<1>7. CASE helper \in DOMAIN ServerErrorHelpers
  <2>1. helper \notin {"respond", "nonAuthoritativeInformation", "noContent"}
        /\ helper \notin DOMAIN JsonHelpers /\ helper \notin DOMAIN RedirectHelpers
        /\ helper \notin DOMAIN ErrorHelpers
    BY <1>7, HelpersApart
  <2>2. AnswerOf(helper, d) = HttpErrorAnswer(ServerErrorHelpers[helper], d)
    BY <1>7, <2>1 DEF AnswerOf
  <2> QED
    BY <1>7, <2>1, <2>2 DEF HttpErrorAnswer, RendersBuildersOnly
<1> QED
  BY <1>1, <1>2, <1>3, <1>4, <1>5, <1>6, <1>7, HelpersAssumption

\* respond() takes a status that the decorator has.
LEMMA StatusOwn ==
  ASSUME NEW e, GoodEndpoint(e)
  PROVE  RespondStatus(e) \in ({AutomaticSuccessStatus(e)} \ {NoStatus}) \cup DOMAIN e.responses
<1> DEFINE statuses == ({AutomaticSuccessStatus(e)} \ {NoStatus})
                       \cup {s \in DOMAIN e.responses : s \in 200..299}
           preferred == IF e.status = NoStatus THEN 200 ELSE e.status
           least == CHOOSE s \in statuses : \A t \in statuses : s <= t
<1>1. AutomaticSuccessStatus(e) \in Nat
  BY DEF GoodEndpoint, AutomaticSuccessStatus, NoStatus
<1>2. statuses \subseteq Nat
  BY <1>1 DEF GoodEndpoint
<1>3. statuses # {}
  <2>1. CASE DOMAIN e.responses \cap {200, 201, 204} # {}
    <3>1. PICK s \in DOMAIN e.responses : s \in {200, 201, 204}
      BY <2>1
    <3>2. s \in 200..299
      BY <3>1
    <3> QED
      BY <3>1, <3>2
  <2>2. CASE DOMAIN e.responses \cap {200, 201, 204} = {}
    <3>1. AutomaticSuccessStatus(e) # NoStatus
      BY <2>2 DEF AutomaticSuccessStatus, NoStatus
    <3> QED
      BY <3>1
  <2> QED
    BY <2>1, <2>2
<1>4. \E s \in statuses : \A t \in statuses : s <= t
  <2> HIDE DEF statuses
  <2> QED
    BY <1>2, <1>3, SmallestOf
<1>5. least \in statuses
  <2> HIDE DEF statuses
  <2> QED
    BY <1>4
<1>6. RespondStatus(e) = IF preferred \in statuses THEN preferred ELSE least
  BY DEF RespondStatus
<1>7. RespondStatus(e) \in statuses
  <2> HIDE DEF statuses, preferred, least
  <2> QED
    BY <1>5, <1>6
<1> QED
  BY <1>7

\* What a document shows of a decorator's own status.
LEMMA ShownBodies ==
  ASSUME NEW e, NEW doc,
         NEW s, s \in ({AutomaticSuccessStatus(e)} \ {NoStatus}) \cup DOMAIN e.responses
  PROVE  /\ s \in DOMAIN Responses(e, doc)
         /\ Responses(e, doc)[s] =
              IF s \in DOMAIN e.responses /\ e.responses[s] THEN Declared
              ELSE IF s \in {AutomaticSuccessStatus(e)} \ {NoStatus} THEN AutomaticBody(e)
              ELSE NoContent
  BY DEF Responses

LEMMA OthersAreDefaults ==
  ASSUME NEW e, NEW doc, NEW s \in DOMAIN Responses(e, doc), Responses(e, doc)[s] # Default
  PROVE  s \in ({AutomaticSuccessStatus(e)} \ {NoStatus}) \cup DOMAIN e.responses
  BY DEF Responses

\* A body that is no default's: none, a declared one, or serializers.
LEMMA BodyKinds ==
  ASSUME NEW e, NEW doc, NEW s \in DOMAIN Responses(e, doc), Responses(e, doc)[s] # Default
  PROVE  \/ Responses(e, doc)[s] = NoContent
         \/ Responses(e, doc)[s] = Declared /\ s \in DOMAIN e.responses /\ e.responses[s]
         \/ /\ Responses(e, doc)[s] = Serialized(ResponseShape(e), SerializersOf(e))
            /\ e.serializable.is # "nothing"
            /\ GoodEndpoint(e) => s # 204
<1>1. s \in ({AutomaticSuccessStatus(e)} \ {NoStatus}) \cup DOMAIN e.responses
  BY OthersAreDefaults
<1>2. CASE s \in DOMAIN e.responses /\ e.responses[s]
  BY <1>1, <1>2, ShownBodies
<1>3. CASE ~(s \in DOMAIN e.responses /\ e.responses[s]) /\ s \notin {AutomaticSuccessStatus(e)} \ {NoStatus}
  BY <1>1, <1>3, ShownBodies
<1>4. CASE ~(s \in DOMAIN e.responses /\ e.responses[s]) /\ s \in {AutomaticSuccessStatus(e)} \ {NoStatus}
  <2>1. Responses(e, doc)[s] = AutomaticBody(e)
    BY <1>1, <1>4, ShownBodies
  <2>2. ASSUME AutomaticBody(e) # NoContent
        PROVE  /\ AutomaticBody(e) = Serialized(ResponseShape(e), SerializersOf(e))
               /\ e.serializable.is # "nothing" /\ e.status # 204
    BY <2>2 DEF AutomaticBody
  <2>3. ASSUME s = 204, e.serializable.is # "nothing" PROVE e.status = 204
    BY <1>4, <2>3 DEF AutomaticSuccessStatus, NoStatus
  <2> QED
    BY <2>1, <2>2, <2>3
<1> QED
  BY <1>2, <1>3, <1>4

\* The bodies of a document are told apart by their kind.
LEMMA KindsOfBodies ==
  /\ NoContent # Default /\ Declared # Default
  /\ \A shape, of : Serialized(shape, of) # Default
  /\ NoContent.is = "none" /\ Declared.is = "declared"
  /\ \A shape, of : /\ Serialized(shape, of).is = "serialized"
                    /\ Serialized(shape, of).shape = shape /\ Serialized(shape, of).of = of
  BY DEF NoContent, Declared, Default, Serialized

LEMMA OwnIsShown ==
  ASSUME NEW e, NEW doc,
         NEW s, s \in ({AutomaticSuccessStatus(e)} \ {NoStatus}) \cup DOMAIN e.responses
  PROVE  s \in DOMAIN Responses(e, doc) /\ Responses(e, doc)[s] # Default
<1>1. AutomaticBody(e) # Default
  BY KindsOfBodies DEF AutomaticBody
<1> QED
  BY <1>1, ShownBodies, KindsOfBodies

\* An item that fits is rendered by a serializer that the documents show.
LEMMA ItemRendered ==
  ASSUME NEW e, GoodEndpoint(e), endpoint = <<e>>, KeyAgrees(e),
         NEW item, ItemFits(e, item)
  PROVE  SingleObjectJson(item) \in SerializersOf(e)
<1>1. CASE item.is = "builder"
  BY <1>1 DEF ItemFits, SingleObjectJson, SerializersOf
<1>2. CASE item.is = "record" /\ e.serializable.is = "serializer"
  <2>1. SingleObjectJson(item) = e.serializable.of[1]
    BY <1>2 DEF SingleObjectJson
  <2>2. e.serializable.of[1] \in ToSet(e.serializable.of)
    BY <1>2 DEF GoodEndpoint, ToSet
  <2> QED
    BY <1>2, <2>1, <2>2 DEF SerializersOf
<1>3. CASE /\ item.is = "record" /\ e.serializable.is \in {"model", "models"}
           /\ item.of[1] \in ToSet(e.serializable.of)
  <2>1. SingleObjectJson(item) = Serializers[item.of[1]][KeyOr(serializerKey)]
    BY <1>3 DEF SingleObjectJson
  <2>2. serializerKey = e.key
    BY <1>3 DEF KeyAgrees
  <2> QED
    BY <1>3, <2>1, <2>2 DEF SerializersOf
<1> QED
  BY <1>1, <1>2, <1>3 DEF ItemFits

BuilderSent(item) == IF item.is = "builder" THEN item.of[1]
                     ELSE IF item.is = "record" THEN "unserialized" ELSE item.is

LEMMA BuilderRendered ==
  ASSUME NEW e, NEW item, ItemFits(e, item), item.is = "builder"
  PROVE  BuilderSent(item) \in SerializersOf(e)
  BY DEF ItemFits, BuilderSent, SerializersOf

\* An answer with a body of serializers.
LEMMA SerializedMatches ==
  ASSUME NEW e, GoodEndpoint(e), endpoint = <<e>>, KeyAgrees(e), NEW d, NEW status,
         DataFits(e, d, Serialized(ResponseShape(e), SerializersOf(e)))
  PROVE  /\ d.is # "nothing"
         /\ Matches([status |-> status, body |-> Json(d)],
                    Serialized(ResponseShape(e), SerializersOf(e)))
<1> DEFINE shape == ResponseShape(e)
           of == SerializersOf(e)
           body == Serialized(shape, of)
<1>1. shape \in {"page", "list", "one or null", "one"} /\ (shape = "page" <=> e.paginate)
  BY DEF ResponseShape
<1>2. body.is = "serialized" /\ body.shape = shape /\ body.of = of
  BY KindsOfBodies
<1>3. endpoint # <<>> /\ endpoint[1] = e
  OBVIOUS
<1>4. CASE shape \in {"list", "page"}
  <2>1. d.is = shape /\ \A i \in DOMAIN d.items : ItemFits(e, d.items[i])
    BY <1>2, <1>4 DEF DataFits
  <2>2. \A i \in DOMAIN d.items : SingleObjectJson(d.items[i]) \in of
    BY <2>1, ItemRendered
  <2>3. Json(d) = [shape |-> d.is, of |-> {SingleObjectJson(d.items[i]) : i \in DOMAIN d.items}]
    BY <1>1, <1>3, <1>4, <2>1 DEF Json
  <2>4. Json(d).shape = shape /\ Json(d).of \subseteq of
    BY <2>1, <2>2, <2>3
  <2> QED
    BY <1>2, <1>4, <2>1, <2>4 DEF Matches
<1>5. CASE shape \notin {"list", "page"}
  <2>1. ItemFits(e, d) \/ (d.is = "null" /\ shape = "one or null")
    BY <1>2, <1>5 DEF DataFits
  <2>2. d.is \in {"builder", "record", "null"}
    BY <2>1 DEF ItemFits
  <2>3. Json(d) = [shape |-> "one", of |-> {SingleObjectJson(d)}]
    BY <2>2 DEF Json
  <2>4. SingleObjectJson(d) \in of \/ (SingleObjectJson(d) = "null" /\ shape = "one or null")
    <3>1. CASE ItemFits(e, d)
      BY <3>1, ItemRendered
    <3>2. CASE d.is = "null" /\ shape = "one or null"
      BY <3>2 DEF SingleObjectJson
    <3> QED
      BY <2>1, <3>1, <3>2
  <2>5. Json(d).shape = "one" /\ Json(d).of = {SingleObjectJson(d)}
    BY <2>3
  <2> HIDE DEF shape, of, body
  <2>6. Matches([status |-> status, body |-> Json(d)], body)
    BY <1>1, <1>2, <1>5, <2>4, <2>5 DEF Matches
  <2> QED
    BY <2>2, <2>6 DEF body, shape, of
<1> QED
  BY <1>4, <1>5

LEMMA BuildersMatch ==
  ASSUME NEW e, NEW d, NEW status, OnlyBuilders(d),
         DataFits(e, d, Serialized(ResponseShape(e), SerializersOf(e)))
  PROVE  /\ d.is \notin {"nothing", "null"}
         /\ Matches([status |-> status, body |-> BuildersOnly(d)],
                    Serialized(ResponseShape(e), SerializersOf(e)))
<1> DEFINE shape == ResponseShape(e)
           of == SerializersOf(e)
           body == Serialized(shape, of)
<1>1. shape \in {"page", "list", "one or null", "one"}
  BY DEF ResponseShape
<1>2. body.is = "serialized" /\ body.shape = shape /\ body.of = of
  BY KindsOfBodies
<1>4. CASE shape \in {"list", "page"}
  <2>1. d.is = shape /\ \A i \in DOMAIN d.items : ItemFits(e, d.items[i])
    BY <1>2, <1>4 DEF DataFits
  <2>2. d.is = "list" /\ \A i \in DOMAIN d.items : d.items[i].is = "builder"
    BY <1>4, <2>1 DEF OnlyBuilders
  <2>3. \A i \in DOMAIN d.items : BuilderSent(d.items[i]) \in of
    BY <2>1, <2>2, BuilderRendered
  <2>4. BuildersOnly(d) = [shape |-> "list", of |-> {BuilderSent(d.items[i]) : i \in DOMAIN d.items}]
    BY <2>2 DEF BuildersOnly, BuilderSent
  <2>5. BuildersOnly(d).shape = shape /\ BuildersOnly(d).of \subseteq of
    BY <2>1, <2>2, <2>3, <2>4
  <2> QED
    BY <1>2, <1>4, <2>2, <2>5 DEF Matches
<1>5. CASE shape \notin {"list", "page"}
  <2>1. ItemFits(e, d) \/ (d.is = "null" /\ shape = "one or null")
    BY <1>2, <1>5 DEF DataFits
  <2>2. d.is = "builder" /\ ItemFits(e, d)
    BY <2>1 DEF ItemFits, OnlyBuilders
  <2>3. BuildersOnly(d) = [shape |-> "one", of |-> {BuilderSent(d)}]
    BY <2>2 DEF BuildersOnly, BuilderSent
  <2>4. BuilderSent(d) \in of
    BY <2>2, BuilderRendered
  <2>5. BuildersOnly(d).shape = "one" /\ BuildersOnly(d).of = {BuilderSent(d)}
    BY <2>3
  <2> HIDE DEF shape, of, body
  <2>6. Matches([status |-> status, body |-> BuildersOnly(d)], body)
    BY <1>1, <1>2, <1>5, <2>4, <2>5 DEF Matches
  <2> QED
    BY <2>2, <2>6 DEF body, shape, of
<1> QED
  BY <1>4, <1>5

\* Plain data is sent as it is.
LEMMA PlainMatches ==
  ASSUME NEW d, d.is = "plain", NEW status
  PROVE  /\ Matches([status |-> status, body |-> Json(d)], Declared)
         /\ Matches([status |-> status, body |-> BuildersOnly(d)], Declared)
<1>1. Json(d) = [shape |-> "one", of |-> {"plain"}]
  BY DEF Json, SingleObjectJson
<1>2. BuildersOnly(d) = [shape |-> "one", of |-> {"plain"}]
  BY DEF BuildersOnly
<1> QED
  BY <1>1, <1>2, KindsOfBodies DEF Matches

LEMMA NothingMatches ==
  ASSUME NEW response, response.status = 204 => response.body = Empty
  PROVE  Matches(response, NoContent)
  BY KindsOfBodies DEF Matches

LEMMA ResponsesInitially == ResponsesInit => ResponsesIInv
<1> SUFFICES ASSUME ResponsesInit PROVE ResponsesIInv
  OBVIOUS
<1>1. decorators = <<>> /\ endpoint = <<>> /\ serializerKey = NoKey /\ answer = <<>>
  BY DEF ResponsesInit
<1>2. decorators \in Seq(Calls \cup InheritedCalls) /\ Len(decorators) = 0
  BY <1>1, EmptySeq
<1> QED
  BY <1>1, <1>2 DEF ResponsesIInv

\* One more decorator runs.
LEMMA StepDecorates ==
  ASSUME ResponsesIInv, answer = <<>>, NEW call \in Calls, Decorate(call)
  PROVE  ResponsesIInv'
<1>1. /\ Len(decorators) < 2 /\ decorators' = Append(decorators, call)
      /\ endpoint' = <<EndpointOf(call)>> /\ answer' = <<>>
      /\ serializerKey' = IF call.form = "both" THEN call.options.key ELSE serializerKey
  BY DEF Decorate
<1>2. decorators \in Seq(Calls \cup InheritedCalls) /\ Len(decorators) \in Nat
  BY LenProperties DEF ResponsesIInv
<1>3. /\ decorators' \in Seq(Calls \cup InheritedCalls) /\ Len(decorators') = Len(decorators) + 1
      /\ decorators'[Len(decorators) + 1] = call
      /\ \A i \in 1..Len(decorators) : decorators'[i] = decorators[i]
  BY <1>1, <1>2, AppendProperties
<1>4. decorators' # <<>> /\ LastCall' = call
  BY <1>1, <1>3 DEF LastCall
<1>5. /\ call.form \in {"both", "serializable", "options"}
      /\ call.form = "serializable" => call.options.key = NoKey
  BY DecoratorsAssumption DEF NoOptions, Options
<1>6. CASE Len(decorators) = 0
  <2>1. decorators = <<>>
    BY <1>2, <1>6, EmptySeq
  <2>2. serializerKey = NoKey
    BY <2>1 DEF ResponsesIInv
  <2>3. Len(decorators') = 1 /\ decorators'[1] = call
    BY <1>3, <1>6
  <2>4. call.form # "options" => serializerKey' = call.options.key
    BY <1>1, <1>5, <2>2
  <2>5. serializerKey' \in {NoKey, call.options.key}
    BY <1>1, <2>2
  <2> QED
    BY <1>1, <1>3, <1>4, <2>3, <2>4, <2>5 DEF ResponsesIInv
<1>7. CASE Len(decorators) = 1
  <2>1. Len(decorators') = 2 /\ decorators'[2] = call /\ decorators'[1] = decorators[1]
    BY <1>2, <1>3, <1>7
  <2>2. serializerKey \in {NoKey, decorators[1].options.key}
    BY <1>7 DEF ResponsesIInv
  <2>3. ASSUME call.form # "options", ~KeyLeft' PROVE serializerKey' = call.options.key
    <3>1. CASE call.form = "both"
      BY <1>1, <3>1
    <3>2. CASE call.form = "serializable"
      <4>1. decorators[1].options.key = NoKey
        BY <2>1, <2>3, <3>2 DEF KeyLeft
      <4> QED
        BY <1>1, <1>5, <2>2, <3>2, <4>1
    <3> QED
      BY <1>5, <2>3, <3>1, <3>2
  <2> QED
    BY <1>1, <1>3, <1>4, <2>1, <2>3 DEF ResponsesIInv
<1> QED
  BY <1>1, <1>2, <1>6, <1>7

\* An answer depends on nothing but the decorators.
LEMMA SameAnswers ==
  ASSUME UNCHANGED <<endpoint, serializerKey>>, NEW d
  PROVE  /\ \A helper : AnswerOf(helper, d)' = AnswerOf(helper, d)
         /\ \A symbol : SendSymbol(symbol, d)' = SendSymbol(symbol, d)
<1>1. endpoint' = endpoint /\ serializerKey' = serializerKey
  OBVIOUS
<1>2. \A item : SingleObjectJson(item)' = SingleObjectJson(item)
  BY <1>1 DEF SingleObjectJson
<1>3. \A x : Json(x)' = Json(x)
  BY <1>1, <1>2 DEF Json
<1>4. \A status, x : JsonAnswer(status, x)' = JsonAnswer(status, x)
  BY <1>3 DEF JsonAnswer
<1>5. Respond(d)' = Respond(d)
  BY <1>1, <1>4 DEF Respond
<1>6. \A helper : AnswerOf(helper, d)' = AnswerOf(helper, d)
  BY <1>4, <1>5 DEF AnswerOf
<1>7. \A symbol : SendSymbol(symbol, d)' = SendSymbol(symbol, d)
  BY <1>4 DEF SendSymbol
<1> QED
  BY <1>6, <1>7

LEMMA StepResponses == ResponsesIInv /\ [ResponsesNext]_responseVars => ResponsesIInv'
<1> SUFFICES ASSUME ResponsesIInv, [ResponsesNext]_responseVars PROVE ResponsesIInv'
  OBVIOUS
<1>1. CASE answer = <<>> /\ \E c \in Calls : Decorate(c)
  BY <1>1, StepDecorates
<1>2. ASSUME UNCHANGED <<decorators, endpoint, serializerKey>>,
             answer' # <<>> => \E helper, d : given' = <<helper, d>> /\ Called(helper, d)'
      PROVE  ResponsesIInv'
  <2>1. LastCall' = LastCall /\ KeyLeft' = KeyLeft
    BY <1>2 DEF LastCall, KeyLeft
  <2> QED
    BY <1>2, <2>1 DEF ResponsesIInv
<1>3. ASSUME NEW helper \in Helpers, NEW d \in Data, Answer(helper, d) PROVE ResponsesIInv'
  <2>1. /\ UNCHANGED <<decorators, endpoint, serializerKey>>
        /\ given' = <<helper, d>> /\ answer' = <<AnswerOf(helper, d)>>
    BY <1>3 DEF Answer
  <2>2. AnswerOf(helper, d)' = AnswerOf(helper, d)
    BY <2>1, SameAnswers
  <2>3. Called(helper, d)'
    BY <1>3, <2>1, <2>2, Zenon DEF Called
  <2> QED
    BY <1>2, <2>1, <2>3
<1>4. ASSUME NEW symbol \in Symbols, NEW d \in Data, AnswerSymbol(symbol, d) PROVE ResponsesIInv'
  <2>1. /\ UNCHANGED <<decorators, endpoint, serializerKey>>
        /\ given' = <<"send", d>> /\ answer' = <<SendSymbol(symbol, d)>>
    BY <1>4 DEF AnswerSymbol
  <2>2. SendSymbol(symbol, d)' = SendSymbol(symbol, d)
    BY <2>1, SameAnswers
  <2>3. Called("send", d)'
    BY <2>1, <2>2, Zenon DEF Called
  <2> QED
    BY <1>2, <2>1, <2>3
<1>5. CASE UNCHANGED responseVars
  <2>1. UNCHANGED <<decorators, endpoint, serializerKey, given, answer>>
    BY <1>5 DEF responseVars
  <2>2. \A helper, d : Called(helper, d)' = Called(helper, d)
    BY <2>1, SameAnswers DEF Called
  <2> QED
    BY <1>2, <2>1, <2>2 DEF ResponsesIInv
<1> QED
  BY <1>1, <1>3, <1>4, <1>5 DEF ResponsesNext

\* The strengthened invariant.
THEOREM ResponsesInvariant == ResponsesSpec => []ResponsesIInv
BY ResponsesInitially, StepResponses, PTL DEF ResponsesSpec

\* The endpoint is that of the last call, and its key the metadata's.
LEMMA EndpointKnown ==
  ASSUME ResponsesIInv, endpoint # <<>>, ~KeyLeft
  PROVE  GoodEndpoint(endpoint[1]) /\ KeyAgrees(endpoint[1]) /\ endpoint = <<endpoint[1]>>
<1>1. decorators # <<>> /\ endpoint = <<EndpointOf(LastCall)>>
  BY DEF ResponsesIInv
<1>2. LastCall \in Calls \cup InheritedCalls
  <2>1. decorators \in Seq(Calls \cup InheritedCalls)
    BY DEF ResponsesIInv
  <2>2. Len(decorators) \in 1..Len(decorators)
    BY <1>1, <2>1, LenProperties, EmptySeq
  <2> QED
    BY <2>1, <2>2, ElementOfSeq DEF LastCall
<1>3. PICK call \in Calls \cup InheritedCalls : call = LastCall
  BY <1>2
<1>4. PICK e : e = EndpointOf(call)
  OBVIOUS
<1>5. /\ e.serializable = call.serializable /\ e.key = call.options.key
      /\ e.status = call.options.status /\ e.responses = call.options.responses
  BY <1>4 DEF EndpointOf
<1>6. GoodEndpoint(e)
  BY <1>5, DecoratorsAssumption DEF GoodEndpoint
<1>7. call.form = "options" => call.serializable.is = "nothing"
  BY DecoratorsAssumption DEF NoSerializable
<1>8. call.form # "options" => serializerKey = call.options.key
  BY <1>1, <1>3 DEF ResponsesIInv
<1>9. KeyAgrees(e)
  BY <1>5, <1>7, <1>8 DEF KeyAgrees
<1> QED
  BY <1>1, <1>3, <1>4, <1>6, <1>9

\* What json() sends, with a body or without.
LEMMA JsonMatches ==
  ASSUME NEW e, GoodEndpoint(e), endpoint = <<e>>, KeyAgrees(e), NEW d, NEW status,
         status \notin {205, 304}, NEW doc, status \in DOMAIN Responses(e, doc),
         Responses(e, doc)[status] # Default, DataFits(e, d, Responses(e, doc)[status])
  PROVE  /\ JsonAnswer(status, d).status = status
         /\ Matches(JsonAnswer(status, d), Responses(e, doc)[status])
         /\ status = 204 => d.is = "nothing"
<1>1. JsonAnswer(status, d).status = status
  BY DEF JsonAnswer
<1>2. status = 204 => JsonAnswer(status, d).body = Empty
  BY DEF JsonAnswer, Bodyless
<1>3. ASSUME status # 204, d.is # "nothing"
      PROVE  JsonAnswer(status, d) = [status |-> status, body |-> Json(d)]
  BY <1>3 DEF JsonAnswer, Bodyless
<1>4. PICK body : body = Responses(e, doc)[status]
  OBVIOUS
<1>5. PICK response : response = JsonAnswer(status, d)
  OBVIOUS
<1>6. CASE body = NoContent
  <2>1. d.is = "nothing"
    BY <1>4, <1>6, KindsOfBodies DEF DataFits
  <2>2. Matches(response, body)
    BY <1>1, <1>2, <1>5, <1>6, NothingMatches
  <2> QED
    BY <1>1, <1>4, <1>5, <2>1, <2>2
<1>7. CASE body = Declared /\ status \in DOMAIN e.responses /\ e.responses[status]
  <2>1. d.is = "plain"
    BY <1>4, <1>7, KindsOfBodies DEF DataFits
  <2>2. status # 204
    BY <1>7 DEF GoodEndpoint
  <2>3. Matches(response, body)
    <3>1. response = [status |-> status, body |-> Json(d)]
      BY <1>3, <1>5, <2>1, <2>2
    <3> QED
      BY <1>7, <2>1, <2>2, <3>1, PlainMatches
  <2> QED
    BY <1>1, <1>4, <1>5, <2>2, <2>3
<1>8. CASE body = Serialized(ResponseShape(e), SerializersOf(e)) /\ status # 204
  <2>1. DataFits(e, d, Serialized(ResponseShape(e), SerializersOf(e)))
    BY <1>4, <1>8
  <2>2. d.is # "nothing"
    BY <2>1, SerializedMatches
  <2>3. Matches(response, body)
    BY <1>3, <1>5, <1>8, <2>1, <2>2, SerializedMatches
  <2> QED
    BY <1>1, <1>4, <1>5, <1>8, <2>3
<1> QED
  BY <1>4, <1>6, <1>7, <1>8, BodyKinds

LEMMA BuilderAnswerMatches ==
  ASSUME NEW e, GoodEndpoint(e), NEW d, NEW status, OnlyBuilders(d), status # 500,
         NEW doc, status \in DOMAIN Responses(e, doc),
         Responses(e, doc)[status] # Default, DataFits(e, d, Responses(e, doc)[status]),
         NEW response,
         response = [status |-> status, body |-> IF status = 500 \/ d.is \in {"nothing", "null"}
                                                 THEN Empty ELSE BuildersOnly(d)]
  PROVE  Matches(response, Responses(e, doc)[status])
<1>1. CASE Responses(e, doc)[status] = NoContent
  <2>1. d.is = "nothing"
    BY <1>1, KindsOfBodies DEF DataFits
  <2> QED
    BY <1>1, <2>1, NothingMatches
<1>2. CASE Responses(e, doc)[status] = Declared
  <2>1. d.is = "plain"
    BY <1>2, KindsOfBodies DEF DataFits
  <2> QED
    BY <1>2, <2>1, PlainMatches
<1>3. CASE Responses(e, doc)[status] = Serialized(ResponseShape(e), SerializersOf(e))
  <2>1. DataFits(e, d, Serialized(ResponseShape(e), SerializersOf(e)))
    BY <1>3
  <2> QED
    BY <1>3, <2>1, BuildersMatch
<1> QED
  BY <1>1, <1>2, <1>3, BodyKinds

\* An action answers as every document of its controller says.
THEOREM AlwaysRespondsAsDocumented == ResponsesSpec => []RespondsAsDocumented
<1>1. ResponsesIInv => RespondsAsDocumented
  <2> SUFFICES ASSUME ResponsesIInv, answer # <<>>, endpoint # <<>>, ~KeyLeft,
                      NEW doc \in ShownIn
               PROVE  LET responses == Responses(endpoint[1], doc)
                          status == IF given[1] = "respond" THEN RespondStatus(endpoint[1])
                                    ELSE answer[1].status
                          shown == status \in DOMAIN responses /\ responses[status] # Default
                      IN /\ given[1] = "respond" => shown
                         /\ /\ shown /\ DataFits(endpoint[1], given[2], responses[status])
                            /\ RendersBuildersOnly(given[1]) => OnlyBuilders(given[2])
                            /\ status \notin {205, 304, 500} \cup Range(RedirectHelpers)
                            => answer[1].status = status /\ Matches(answer[1], responses[status])
    BY DEF RespondsAsDocumented, AsDocumented
  <2>1. PICK helper, d : given = <<helper, d>> /\ Called(helper, d)
    BY DEF ResponsesIInv
  <2>2. given[1] = helper /\ given[2] = d
    BY <2>1
  <2>3. PICK e : e = endpoint[1]
    OBVIOUS
  <2>4. GoodEndpoint(e) /\ KeyAgrees(e) /\ endpoint = <<e>>
    BY <2>3, EndpointKnown
  <2>5. PICK response : response = answer[1]
    OBVIOUS
  <2>8. PICK status : status = IF helper = "respond" THEN RespondStatus(e) ELSE response.status
    OBVIOUS
  <2> DEFINE shown == status \in DOMAIN Responses(e, doc) /\ Responses(e, doc)[status] # Default
  <2>6. helper = "respond" => shown
    BY <2>4, <2>8, StatusOwn, OwnIsShown
  <2>7. ASSUME shown, DataFits(e, d, Responses(e, doc)[status]),
               RendersBuildersOnly(helper) => OnlyBuilders(d),
               status \notin {205, 304, 500} \cup Range(RedirectHelpers)
        PROVE  response.status = status /\ Matches(response, Responses(e, doc)[status])
    <3>1. CASE helper = "respond" /\ response = Respond(d)
      <4>1. /\ JsonAnswer(status, d).status = status
            /\ Matches(JsonAnswer(status, d), Responses(e, doc)[status])
            /\ status = 204 => d.is = "nothing"
        BY <2>4, <2>7, JsonMatches
      <4>2. Respond(d) = IF status = 204 /\ d.is # "nothing" THEN Threw ELSE JsonAnswer(status, d)
        BY <2>4, <2>8, <3>1 DEF Respond
      <4> QED
        BY <3>1, <4>1, <4>2
    <3>2. ASSUME NEW s, response = JsonAnswer(s, d), helper # "respond"
          PROVE  response.status = status /\ Matches(response, Responses(e, doc)[status])
      <4>1. status = s
        BY <2>8, <3>2 DEF JsonAnswer
      <4> QED
        BY <2>4, <2>7, <3>2, <4>1, JsonMatches
    <3>3. ASSUME NEW s, helper # "respond", RendersBuildersOnly(helper),
                 response = [status |-> s, body |-> IF s = 500 \/ d.is \in {"nothing", "null"}
                                                    THEN Empty ELSE BuildersOnly(d)]
          PROVE  response.status = status /\ Matches(response, Responses(e, doc)[status])
      <4>1. status = s /\ response.status = s
        BY <2>8, <3>3
      <4> QED
        BY <2>4, <2>7, <3>3, <4>1, BuilderAnswerMatches
    <3>4. CASE response = NoContentHelper /\ helper # "respond"
      <4>1. status = 204 /\ response.status = 204 /\ response.body = Empty
        BY <2>8, <3>4 DEF NoContentHelper
      <4>2. Responses(e, doc)[204] = NoContent
        BY <2>4, <2>7, <4>1, BodyKinds DEF GoodEndpoint
      <4> QED
        BY <4>1, <4>2, NothingMatches
    <3>5. CASE response.status \in Range(RedirectHelpers) /\ helper # "respond"
      BY <2>7, <2>8, <3>5
    <3>6. CASE helper = "send" /\ \E symbol : answer = <<SendSymbol(symbol, d)>>
      <4>1. PICK symbol : response = SendSymbol(symbol, d)
        BY <2>5, <3>6
      <4>2. CASE response = JsonAnswer(HttpStatusCodeMap[symbol], d)
        BY <3>2, <3>6, <4>2
      <4>3. CASE response = Threw
        BY <2>7, <2>8, <3>6, <4>3 DEF Threw
      <4> QED
        BY <4>1, <4>2, <4>3 DEF SendSymbol
    <3>7. CASE helper \in Helpers /\ response = AnswerOf(helper, d)
      BY <3>1, <3>2, <3>3, <3>4, <3>5, <3>7, Answers
    <3> QED
      BY <2>1, <2>5, <3>6, <3>7 DEF Called
  <2> QED
    BY <2>2, <2>3, <2>5, <2>6, <2>7, <2>8
<1> QED
  BY <1>1, ResponsesInvariant, PTL

(***************************************************************************)
(* The paths of the documents: what was memoized, what the document that   *)
(* is being rendered shows so far, and what the finished ones show         *)
(***************************************************************************)

\* The values that `required` may have, and parameters.
Given == {"yes", "no", Unset}
Params == [in : {"header", "path", "query"}, required : Given, described : Nat, of : Nat]

\* Somewhere an endpoint of the path says that the parameter is not required.
HasNo(name, path) == \E p \in Namesakes(name, path) : p.required = "no"

\* What a parameter may become as others are combined into it.
Keeps(q, p, name, path) ==
    /\ p.in = q.in /\ p.of = q.of
    /\ p.described \in {q.described} \cup OnPath(path)
    /\ q.described # NoEndpoint => p.described # NoEndpoint
    /\ ~HasNo(name, path) /\ q.required = "yes" => p.required = "yes"

\* Parameters that may be combined on a path.
Allowed(p, name, path) ==
    /\ p \in Params /\ p.described \in {NoEndpoint} \cup OnPath(path)
    /\ ~HasNo(name, path) => p.required # "no"
Good(ps, path) == \A name \in DOMAIN ps : Allowed(ps[name], name, path)

\* The parameters of an endpoint's placeholders.
MemoGood(e, ps) ==
    LET path == CurrentRoute(e).path IN
    /\ DOMAIN ps = Placeholders(path) /\ Good(ps, path)
    /\ \A name \in DOMAIN ps :
         /\ ps[name].in = "path" /\ ps[name].of = e
         /\ name \in EndpointAt(e).describes => ps[name].described # NoEndpoint
         /\ ~HasNo(name, path) => ps[name].required = "yes"

\* An application that is loaded.
Loaded ==
    /\ pathApp \in PathApps
    /\ Len(pathApp.endpoints) \in Nat /\ Endpoints = 1..Len(pathApp.endpoints)

\* The applications of the module may be loaded.
LEMMA LoadedApp ==
  ASSUME pathApp \in PathApps PROVE Loaded
<1>1. pathApp.endpoints \in Seq({pathApp.endpoints[i] : i \in DOMAIN pathApp.endpoints})
  BY EndpointsAssumption
<1>2. DOMAIN pathApp.endpoints = 1..Len(pathApp.endpoints) /\ Len(pathApp.endpoints) \in Nat
  BY <1>1
<1> QED
  BY <1>2 DEF Loaded, Endpoints

\* The route of an endpoint is one that leads to it, a PATCH of an update's.
LEMMA RouteOf ==
  ASSUME Loaded, NEW e \in Endpoints, RoutesTo(e) # {}
  PROVE  /\ CurrentRoute(e) \in {pathApp.routes[i] : i \in RoutesTo(e)}
         /\ (EndpointAt(e).action[2] = "update"
             /\ \E i \in RoutesTo(e) : pathApp.routes[i].method = "patch") =>
               CurrentRoute(e).method = "patch"
<1> DEFINE patches == {i \in RoutesTo(e) : pathApp.routes[i].method = "patch"}
           S == IF EndpointAt(e).action[2] = "update" /\ patches # {} THEN patches ELSE RoutesTo(e)
<1>1. S # {} /\ S \subseteq RoutesTo(e)
  OBVIOUS
<1>2. RoutesTo(e) \subseteq Nat
  <2>1. pathApp.routes \in Seq({pathApp.routes[i] : i \in DOMAIN pathApp.routes})
    BY EndpointsAssumption DEF Loaded
  <2>2. DOMAIN pathApp.routes = 1..Len(pathApp.routes)
    BY <2>1
  <2> QED
    BY <2>2 DEF RoutesTo
<1>3. FirstOf(S) \in S
  <2> HIDE DEF S
  <2>1. \E i \in S : \A j \in S : i <= j
    BY <1>1, <1>2, SmallestOf
  <2> QED
    BY <2>1 DEF FirstOf
<1>4. CurrentRoute(e) = pathApp.routes[FirstOf(S)]
  BY DEF CurrentRoute
<1>5. (EndpointAt(e).action[2] = "update" /\ \E i \in RoutesTo(e) : pathApp.routes[i].method = "patch")
         => FirstOf(S) \in patches
  BY <1>3
<1> HIDE DEF S
<1> QED
  BY <1>1, <1>3, <1>4, <1>5

\* A routed endpoint is on the path of its route.
LEMMA OnItsPath ==
  ASSUME NEW e \in Endpoints, RoutesTo(e) # {} PROVE e \in OnPath(CurrentRoute(e).path)
BY DEF OnPath

(***************************************************************************)
(* Combining                                                               *)
(***************************************************************************)

\* A parameter that nothing is combined into is kept.
LEMMA KeepsItself ==
  ASSUME NEW q, NEW name, NEW path PROVE Keeps(q, q, name, path)
BY DEF Keeps

\* What is kept from step to step is kept.
LEMMA KeepsOn ==
  ASSUME NEW a, NEW b, NEW c, NEW name, NEW path, Keeps(a, b, name, path), Keeps(b, c, name, path)
  PROVE  Keeps(a, c, name, path)
BY DEF Keeps

\* What a parameter becomes when another is combined into it.
Blended(first, p, c, name, path) ==
    /\ Allowed(c, name, path) /\ Keeps(first, c, name, path)
    /\ p.described # NoEndpoint => c.described # NoEndpoint
    /\ p.required = "yes" => c.required = "yes"

\* Combining two parameters of a path gives one of that path, that keeps the
\* first and takes over what the second one describes or requires.
LEMMA CompositeKeeps ==
  ASSUME NEW path, NEW name, Loaded, NEW first, NEW p,
         Allowed(first, name, path), Allowed(p, name, path)
  PROVE  Blended(first, p, Composite(first, p), name, path)
<1> USE DEF Allowed
<1>1. PICK c : c = Composite(first, p)
  OBVIOUS
<1>2. /\ c \in Params /\ c.in = first.in /\ c.of = first.of
      /\ c.described = IF first.described = NoEndpoint THEN p.described ELSE first.described
      /\ c.required = IF p.required = Unset THEN first.required ELSE p.required
  BY <1>1 DEF Composite, Params
<1>3. p.required \in Given /\ "yes" # Unset
  BY DEF Params, Unset
<1>4. Keeps(first, c, name, path)
  BY <1>2, <1>3 DEF Keeps, Given
<1>5. /\ c.described \in {NoEndpoint} \cup OnPath(path)
      /\ ~HasNo(name, path) => c.required # "no"
      /\ p.described # NoEndpoint => c.described # NoEndpoint
      /\ p.required = "yes" => c.required = "yes"
  BY <1>2, <1>3
<1> QED
  BY <1>1, <1>2, <1>4, <1>5 DEF Blended

\* What a layer of parameters makes of those before it.
Layered(all, ps, into, path) ==
    /\ Good(into, path) /\ DOMAIN into = DOMAIN all \cup DOMAIN ps
    /\ \A name \in DOMAIN all : Keeps(all[name], into[name], name, path)
    /\ \A name \in DOMAIN ps :
         /\ name \notin DOMAIN all => into[name] = ps[name]
         /\ ps[name].described # NoEndpoint => into[name].described # NoEndpoint
         /\ ps[name].required = "yes" => into[name].required = "yes"

\* Into combines each parameter with its namesake, and takes over the others.
LEMMA IntoKeeps ==
  ASSUME NEW path, Loaded, NEW all, NEW ps, Good(all, path), Good(ps, path)
  PROVE  Layered(all, ps, Into(all, ps), path)
<1>1. PICK into : into = Into(all, ps)
  OBVIOUS
<1>2. DOMAIN into = DOMAIN all \cup DOMAIN ps
  BY <1>1 DEF Into
<1>3. ASSUME NEW name \in DOMAIN into
      PROVE  /\ Allowed(into[name], name, path)
             /\ name \in DOMAIN all => Keeps(all[name], into[name], name, path)
             /\ name \in DOMAIN ps =>
                  /\ name \notin DOMAIN all => into[name] = ps[name]
                  /\ ps[name].described # NoEndpoint => into[name].described # NoEndpoint
                  /\ ps[name].required = "yes" => into[name].required = "yes"
  <2>1. into[name] = IF name \notin DOMAIN all THEN ps[name]
                     ELSE IF name \notin DOMAIN ps THEN all[name]
                     ELSE Composite(all[name], ps[name])
    BY <1>1, <1>2 DEF Into
  <2>2. CASE name \notin DOMAIN all
    BY <1>2, <2>1, <2>2 DEF Good
  <2>3. CASE name \in DOMAIN all /\ name \notin DOMAIN ps
    BY <2>1, <2>3, KeepsItself DEF Good
  <2>4. CASE name \in DOMAIN all /\ name \in DOMAIN ps
    <3>1. into[name] = Composite(all[name], ps[name])
      BY <2>1, <2>4
    <3>2. Allowed(all[name], name, path) /\ Allowed(ps[name], name, path)
      BY <2>4 DEF Good
    <3>3. Blended(all[name], ps[name], into[name], name, path)
      BY <3>1, <3>2, CompositeKeeps
    <3> QED
      BY <2>4, <3>3 DEF Blended
  <2> QED
    BY <2>2, <2>3, <2>4
<1>4. Good(into, path)
  BY <1>3 DEF Good
<1>5. Layered(all, ps, into, path)
  BY <1>2, <1>3, <1>4 DEF Layered
<1> QED
  BY <1>1, <1>5

\* An endpoint's mine parameters may be combined on its path.
LEMMA OwnAreGood ==
  ASSUME Loaded, NEW e \in Endpoints, RoutesTo(e) # {}, NEW d \in PathDocs,
         NEW path, path = CurrentRoute(e).path
  PROVE  Good(Headers(e, d), path) /\ Good(Query(e), path) /\ Good(Pages(e), path)
<1>1. e \in OnPath(path) /\ e \in Nat \ {0}
  BY OnItsPath DEF Loaded
<1>2. ASSUME NEW in \in {"header", "query"}, NEW declaration,
             \A name \in DOMAIN declaration : declaration[name] \in Given,
             ParametersOf(in, declaration, e) \in {Headers(e, d), Query(e), Pages(e)}
      PROVE  Good(ParametersOf(in, declaration, e), path)
  <2> SUFFICES ASSUME NEW name \in DOMAIN declaration
               PROVE  Allowed(ParametersOf(in, declaration, e)[name], name, path)
    BY DEF Good, ParametersOf
  <2>1. PICK p : p = ParametersOf(in, declaration, e)[name]
    OBVIOUS
  <2>2. p = [in |-> in, required |-> declaration[name], described |-> e, of |-> e]
    BY <2>1 DEF ParametersOf, Parameter
  <2>3. p \in Params /\ p.described = e
    BY <1>1, <1>2, <2>2 DEF Params
  <2>4. [name |-> name, required |-> p.required] \in Own(e, d)
    BY <1>2, <2>1 DEF Own, ParametersOf
  <2>5. [name |-> name, required |-> p.required] \in Namesakes(name, path)
    BY <1>1, <2>4 DEF Namesakes
  <2>6. ~HasNo(name, path) => p.required # "no"
    BY <2>5 DEF HasNo
  <2> QED
    BY <1>1, <2>1, <2>3, <2>6 DEF Allowed
<1>3. /\ \A name \in DOMAIN EndpointAt(e).headers : EndpointAt(e).headers[name] \in Given
      /\ \A name \in DOMAIN EndpointAt(e).query : EndpointAt(e).query[name] \in Given
      /\ \A name \in DOMAIN DefaultHeaders[d] : DefaultHeaders[d][name] \in Given
  BY EndpointsAssumption DEF Loaded, Given, EndpointAt, Endpoints
<1>4. Good(Headers(e, d), path)
  <2> DEFINE mine == EndpointAt(e).headers
             declared == [name \in DOMAIN mine \cup (IF EndpointAt(e).omitDefaultHeaders THEN {}
                                                    ELSE DOMAIN DefaultHeaders[d]) |->
                             IF name \in DOMAIN mine THEN mine[name] ELSE DefaultHeaders[d][name]]
  <2>1. Headers(e, d) = ParametersOf("header", declared, e)
    BY DEF Headers
  <2>2. \A name \in DOMAIN declared : declared[name] \in Given
    BY <1>3
  <2> HIDE DEF declared
  <2> QED
    BY <1>2, <2>1, <2>2
<1>5. Good(Query(e), path)
  <2>1. Query(e) = ParametersOf("query", EndpointAt(e).query, e)
    BY DEF Query
  <2> QED
    BY <1>2, <1>3, <2>1
<1>6. Good(Pages(e), path)
  <2> DEFINE declared == [name \in EndpointAt(e).pages |-> "no"]
  <2>1. Pages(e) = ParametersOf("query", declared, e)
    BY DEF Pages
  <2>2. \A name \in DOMAIN declared : declared[name] \in Given
    BY DEF Given
  <2> HIDE DEF declared
  <2> QED
    BY <1>2, <2>1, <2>2
<1> QED
  BY <1>4, <1>5, <1>6

\* A name that nothing but placeholders has stands for one.
Origin(ps, path) == \A name \in DOMAIN ps : ps[name].in = "path" \/ Namesakes(name, path) # {}

\* The parameters of a path, after an endpoint's were combined into it: of those
\* before it and of the endpoint's placeholders, and what they show.
Layers(ps, all, mine, path) ==
    /\ Good(all, path) /\ Origin(all, path)
    /\ \A name \in DOMAIN ps : name \in DOMAIN all /\ Keeps(ps[name], all[name], name, path)
    /\ \A name \in DOMAIN all \ DOMAIN ps : all[name].in = "path" =>
          name \in DOMAIN mine /\ Keeps(mine[name], all[name], name, path)
Shown(all, e, d, path) ==
    /\ \A name \in Placeholders(path) :
          /\ name \in DOMAIN all
          /\ Namesakes(name, path) = {} =>
               /\ all[name].in = "path" /\ all[name].required = "yes"
               /\ name \in EndpointAt(e).describes => all[name].described # NoEndpoint
    /\ \A p \in Own(e, d) :
          /\ p.name \in DOMAIN all
          /\ p.required = "yes" /\ ~HasNo(p.name, path) => all[p.name].required = "yes"

\* Combining the parameters of an endpoint into those of its path keeps these,
\* and shows the endpoint's.
LEMMA CombinedKeeps ==
  ASSUME Loaded, NEW e \in Endpoints, RoutesTo(e) # {}, NEW d \in PathDocs,
         MemoGood(e, PathParams(e)), NEW ps, NEW path, path = CurrentRoute(e).path,
         Good(ps, path), Origin(ps, path)
  PROVE  /\ Layers(ps, Combined(ps, e, d), PathParams(e), path)
         /\ Shown(Combined(ps, e, d), e, d, path)
<1>2. PICK hs : hs = Headers(e, d)
  OBVIOUS
<1>3. PICK mine : mine = PathParams(e)
  OBVIOUS
<1>4. PICK qs : qs = Query(e)
  OBVIOUS
<1>5. PICK gs : gs = Pages(e)
  OBVIOUS
<1>6. PICK a1 : a1 = Into(ps, hs)
  OBVIOUS
<1>7. PICK a2 : a2 = Into(a1, mine)
  OBVIOUS
<1>8. PICK a3 : a3 = Into(a2, qs)
  OBVIOUS
<1>9. PICK all : all = Into(a3, gs)
  OBVIOUS
<1>10. Good(ps, path) /\ Good(hs, path) /\ Good(mine, path) /\ Good(qs, path) /\ Good(gs, path)
  BY <1>2, <1>3, <1>4, <1>5, OwnAreGood DEF MemoGood
<1>11. all = Combined(ps, e, d)
  BY <1>2, <1>3, <1>4, <1>5, <1>6, <1>7, <1>8, <1>9 DEF Combined
<1>31. Layered(ps, hs, a1, path)
  BY <1>6, <1>10, IntoKeeps
<1>32. Layered(a1, mine, a2, path)
  <2>1. Good(a1, path)
    BY <1>31 DEF Layered
  <2> QED
    BY <1>7, <1>10, <2>1, IntoKeeps
<1>33. Layered(a2, qs, a3, path)
  <2>1. Good(a2, path)
    BY <1>32 DEF Layered
  <2> QED
    BY <1>8, <1>10, <2>1, IntoKeeps
<1>34. Layered(a3, gs, all, path)
  <2>1. Good(a3, path)
    BY <1>33 DEF Layered
  <2> QED
    BY <1>9, <1>10, <2>1, IntoKeeps
<1>12. /\ DOMAIN a1 = DOMAIN ps \cup DOMAIN hs
       /\ \A name \in DOMAIN ps : Keeps(ps[name], a1[name], name, path)
       /\ \A name \in DOMAIN hs :
            /\ name \notin DOMAIN ps => a1[name] = hs[name]
            /\ hs[name].required = "yes" => a1[name].required = "yes"
  BY <1>31 DEF Layered
<1>13. /\ DOMAIN a2 = DOMAIN a1 \cup DOMAIN mine
       /\ \A name \in DOMAIN a1 : Keeps(a1[name], a2[name], name, path)
       /\ \A name \in DOMAIN mine :
            /\ name \notin DOMAIN a1 => a2[name] = mine[name]
            /\ mine[name].described # NoEndpoint => a2[name].described # NoEndpoint
            /\ mine[name].required = "yes" => a2[name].required = "yes"
  BY <1>32 DEF Layered
<1>14. /\ DOMAIN a3 = DOMAIN a2 \cup DOMAIN qs
       /\ \A name \in DOMAIN a2 : Keeps(a2[name], a3[name], name, path)
       /\ \A name \in DOMAIN qs :
            /\ name \notin DOMAIN a2 => a3[name] = qs[name]
            /\ qs[name].required = "yes" => a3[name].required = "yes"
  BY <1>33 DEF Layered
<1>15. /\ Good(all, path) /\ DOMAIN all = DOMAIN a3 \cup DOMAIN gs
       /\ \A name \in DOMAIN a3 : Keeps(a3[name], all[name], name, path)
       /\ \A name \in DOMAIN gs :
            /\ name \notin DOMAIN a3 => all[name] = gs[name]
            /\ gs[name].required = "yes" => all[name].required = "yes"
  BY <1>34 DEF Layered
<1>16. \A name \in DOMAIN a2 : name \in DOMAIN all /\ Keeps(a2[name], all[name], name, path)
  BY <1>14, <1>15, KeepsOn
<1>17. \A name \in DOMAIN a1 : name \in DOMAIN all /\ Keeps(a1[name], all[name], name, path)
  BY <1>13, <1>16, KeepsOn
<1>18. \A name \in DOMAIN ps : name \in DOMAIN all /\ Keeps(ps[name], all[name], name, path)
  BY <1>12, <1>17, KeepsOn
<1>19. /\ \A name \in DOMAIN hs : hs[name].in = "header"
       /\ \A name \in DOMAIN qs : qs[name].in = "query"
       /\ \A name \in DOMAIN gs : gs[name].in = "query"
       /\ \A name \in DOMAIN mine : mine[name].in = "path"
  BY <1>2, <1>3, <1>4, <1>5 DEF Headers, Query, Pages, ParametersOf, Parameter, MemoGood
<1>20. ASSUME NEW name \in DOMAIN hs \cup DOMAIN qs \cup DOMAIN gs PROVE Namesakes(name, path) # {}
  <2>1. \E r : [name |-> name, required |-> r] \in Own(e, d)
    <3>1. CASE name \in DOMAIN hs
      <4>1. [name |-> name, required |-> hs[name].required] \in Own(e, d)
        BY <1>2, <3>1 DEF Own
      <4> QED
        BY <4>1
    <3>2. CASE name \in DOMAIN qs
      <4>1. [name |-> name, required |-> qs[name].required] \in Own(e, d)
        BY <1>4, <3>2 DEF Own
      <4> QED
        BY <4>1
    <3>3. CASE name \in DOMAIN gs
      <4>1. [name |-> name, required |-> gs[name].required] \in Own(e, d)
        BY <1>5, <3>3 DEF Own
      <4> QED
        BY <4>1
    <3> QED
      BY <3>1, <3>2, <3>3
  <2>2. PICK r : [name |-> name, required |-> r] \in Own(e, d)
    BY <2>1
  <2>3. e \in OnPath(path)
    BY OnItsPath
  <2>4. [name |-> name, required |-> r] \in Namesakes(name, path)
    BY <2>2, <2>3 DEF Namesakes
  <2> QED
    BY <2>4
<1>21. ASSUME NEW name \in DOMAIN all \ DOMAIN ps, name \notin DOMAIN hs, name \in DOMAIN mine
       PROVE  Keeps(mine[name], all[name], name, path)
  <2>1. name \notin DOMAIN a1 /\ a2[name] = mine[name] /\ name \in DOMAIN a2
    BY <1>12, <1>13, <1>21
  <2> QED
    BY <1>16, <2>1
<1>22. ASSUME NEW name \in DOMAIN all \ DOMAIN ps, all[name].in = "path"
       PROVE  name \notin DOMAIN hs /\ name \in DOMAIN mine
  <2>1. name \notin DOMAIN hs
    <3> SUFFICES ASSUME name \in DOMAIN hs PROVE FALSE
      OBVIOUS
    <3>1. name \in DOMAIN a1 /\ a1[name].in = "header"
      BY <1>12, <1>19, <1>22
    <3> QED
      BY <1>17, <1>22, <3>1 DEF Keeps
  <2>2. name \in DOMAIN mine
    <3> SUFFICES ASSUME name \notin DOMAIN mine PROVE FALSE
      OBVIOUS
    <3>1. name \notin DOMAIN a2
      BY <1>12, <1>13, <2>1
    <3>2. CASE name \in DOMAIN qs
      <4>1. name \in DOMAIN a3 /\ a3[name].in = "query"
        BY <1>14, <1>19, <3>1, <3>2
      <4> QED
        BY <1>15, <1>22, <4>1 DEF Keeps
    <3>3. CASE name \notin DOMAIN qs
      <4>1. name \in DOMAIN gs /\ all[name] = gs[name]
        BY <1>14, <1>15, <3>1, <3>3
      <4> QED
        BY <1>19, <1>22, <4>1
    <3> QED
      BY <3>2, <3>3
  <2> QED
    BY <2>1, <2>2
<1>23. Origin(all, path)
  <2> SUFFICES ASSUME NEW name \in DOMAIN all, Namesakes(name, path) = {}
               PROVE  all[name].in = "path"
    BY DEF Origin
  <2>1. name \notin DOMAIN hs /\ name \notin DOMAIN qs /\ name \notin DOMAIN gs
    BY <1>20
  <2>2. CASE name \in DOMAIN ps
    BY <1>18, <2>2 DEF Origin, Keeps
  <2>3. CASE name \notin DOMAIN ps
    <3>1. name \in DOMAIN mine
      BY <1>12, <1>13, <1>14, <1>15, <2>1, <2>3
    <3> QED
      BY <1>19, <1>21, <2>1, <2>3, <3>1 DEF Keeps
  <2> QED
    BY <2>2, <2>3
<1>24. ASSUME NEW name \in Placeholders(path)
       PROVE  /\ name \in DOMAIN all
              /\ Namesakes(name, path) = {} =>
                   /\ all[name].in = "path" /\ all[name].required = "yes"
                   /\ name \in EndpointAt(e).describes => all[name].described # NoEndpoint
  <2>1. name \in DOMAIN mine /\ name \in DOMAIN a2
    BY <1>3, <1>13 DEF MemoGood
  <2>2. ASSUME Namesakes(name, path) = {}
        PROVE  /\ all[name].required = "yes"
               /\ name \in EndpointAt(e).describes => all[name].described # NoEndpoint
    <3>1. ~HasNo(name, path)
      BY <2>2 DEF HasNo
    <3>2. mine[name].required = "yes" /\ (name \in EndpointAt(e).describes => mine[name].described # NoEndpoint)
      BY <1>3, <2>1, <3>1 DEF MemoGood
    <3>3. a2[name].required = "yes" /\ (name \in EndpointAt(e).describes => a2[name].described # NoEndpoint)
      BY <1>13, <2>1, <3>2
    <3> QED
      BY <1>16, <2>1, <3>1, <3>3 DEF Keeps
  <2> QED
    BY <1>16, <1>23, <2>1, <2>2 DEF Origin
<1>25. ASSUME NEW p \in Own(e, d)
       PROVE  /\ p.name \in DOMAIN all
              /\ p.required = "yes" /\ ~HasNo(p.name, path) => all[p.name].required = "yes"
  <2>1. PICK layer \in {hs, qs, gs} : \E n \in DOMAIN layer : p = [name |-> n, required |-> layer[n].required]
    BY <1>2, <1>4, <1>5 DEF Own
  <2>2. p.name \in DOMAIN layer /\ p.required = layer[p.name].required
    BY <2>1
  <2>3. CASE layer = hs
    BY <1>12, <1>17, <2>2, <2>3 DEF Keeps
  <2>4. CASE layer = qs
    BY <1>14, <1>15, <2>2, <2>4 DEF Keeps
  <2>5. CASE layer = gs
    BY <1>15, <2>2, <2>5
  <2> QED
    BY <2>1, <2>3, <2>4, <2>5
<1>26. \A name \in DOMAIN all \ DOMAIN ps : all[name].in = "path" =>
          name \in DOMAIN mine /\ Keeps(mine[name], all[name], name, path)
  BY <1>21, <1>22
<1> QED
  BY <1>3, <1>11, <1>15, <1>18, <1>23, <1>24, <1>25, <1>26 DEF Layers, Shown

(***************************************************************************)
(* The documents                                                           *)
(***************************************************************************)

\* Documents hold the memoized parameters themselves.
NowIn(memo, p, name) == IF p.in = "path" THEN memo[p.of][1][name] ELSE p

\* A parameter that is an endpoint's memoized one is on that endpoint's path.
Links(memo, ps, path) ==
    \A name \in DOMAIN ps : ps[name].in = "path" =>
        ps[name].of \in OnPath(path) /\ memo[ps[name].of] # <<>> /\ name \in Placeholders(path)

Held(memo, items) ==
    \A path \in DOMAIN items :
        /\ Good(items[path].parameters, path) /\ Origin(items[path].parameters, path)
        /\ Links(memo, items[path].parameters, path)

\* While a document is rendered, its copies of memoized parameters are up to date.
Fresh(memo, items) ==
    \A path \in DOMAIN items : \A name \in DOMAIN items[path].parameters :
        NowIn(memo, items[path].parameters[name], name) = items[path].parameters[name]

\* ShownAt, of the paths of a document that may not be finished.
ShownOn(memo, item, e, d, path) ==
    /\ CurrentRoute(e).method \in DOMAIN item.operations
    /\ item.operations[CurrentRoute(e).method] \in
           {f \in OnPath(path) : CurrentRoute(f).method = CurrentRoute(e).method}
    /\ Shown([name \in DOMAIN item.parameters |-> NowIn(memo, item.parameters[name], name)], e, d, path)
ShownFor(memo, items, e, d) ==
    /\ CurrentRoute(e).path \in DOMAIN items
    /\ ShownOn(memo, items[CurrentRoute(e).path], e, d, CurrentRoute(e).path)

MemosInv(memo) ==
    \A e \in Endpoints : memo[e] # <<>> =>
        RoutesTo(e) # {} /\ memo[e] = <<memo[e][1]>> /\ MemoGood(e, memo[e][1])

\* What becomes of the memoized parameters.
MemosKeep(memo, memo2) ==
    \A e \in Endpoints : memo[e] # <<>> =>
        /\ memo2[e] # <<>>
        /\ \A name \in Placeholders(CurrentRoute(e).path) :
              Keeps(memo[e][1][name], memo2[e][1][name], name, CurrentRoute(e).path)

Rendering ==
    /\ Held(pathParams, paths) /\ Fresh(pathParams, paths)
    /\ \A e \in Endpoints : e <= reached /\ Shows(document, e) /\ RoutesTo(e) # {} =>
          ShownFor(pathParams, paths, e, document)
Rendered(d) ==
    /\ Held(pathParams, openapi[d][1])
    /\ \A e \in Endpoints : Shows(d, e) /\ RoutesTo(e) # {} =>
          ShownFor(pathParams, openapi[d][1], e, d)

\* The inductive invariant: what was memoized, what the document that is being
\* rendered shows of the endpoints reached so far, and what the others show.
PathsIInv ==
    /\ pathApp \in PathApps \cup {NoApp}
    /\ pathApp = NoApp => document = "none" /\ \A d \in PathDocs : openapi[d] = <<>>
    /\ DOMAIN pathParams = Endpoints /\ MemosInv(pathParams)
    /\ document \in PathDocs \cup {"none"} /\ bypass \in BOOLEAN
    /\ reached \in 0..Len(pathApp.endpoints)
    /\ \A path \in DOMAIN paths : DOMAIN paths[path] = {"parameters", "operations"}
    /\ DOMAIN openapi = PathDocs
    /\ \A d \in PathDocs : openapi[d] # <<>> => openapi[d] = <<openapi[d][1]>> /\ Rendered(d)
    /\ document # "none" => Rendering

\* The parameters of an endpoint's placeholders, memoized or not.
LEMMA PathParamsGood ==
  ASSUME Loaded, MemosInv(pathParams), NEW e \in Endpoints, RoutesTo(e) # {}
  PROVE  MemoGood(e, PathParams(e))
<1>1. CASE pathParams[e] # <<>>
  BY <1>1 DEF MemosInv, PathParams
<1>2. CASE pathParams[e] = <<>>
  <2>1. PICK ps : ps = PathParams(e)
    OBVIOUS
  <2>2. PICK path : path = CurrentRoute(e).path
    OBVIOUS
  <2>3. /\ DOMAIN ps = Placeholders(path)
        /\ \A name \in DOMAIN ps :
             ps[name] = [in |-> "path", required |-> "yes",
                         described |-> IF name \in EndpointAt(e).describes THEN e ELSE NoEndpoint,
                         of |-> e]
    BY <1>2, <2>1, <2>2 DEF PathParams, Parameter
  <2>4. e \in OnPath(path) /\ e \in Nat /\ e # NoEndpoint
    BY <2>2, OnItsPath DEF Loaded, NoEndpoint
  <2>5. ASSUME NEW name \in DOMAIN ps
        PROVE  /\ Allowed(ps[name], name, path) /\ ps[name].in = "path" /\ ps[name].of = e
               /\ name \in EndpointAt(e).describes => ps[name].described # NoEndpoint
               /\ ps[name].required = "yes"
    BY <2>3, <2>4 DEF Allowed, Params, Given, NoEndpoint
  <2> QED
    BY <2>1, <2>2, <2>3, <2>5 DEF MemoGood, Good
<1> QED
  BY <1>1, <1>2

\* What changes of the memoized parameters leaves a document's links good.
LEMMA HeldKeeps ==
  ASSUME NEW memo, NEW memo2, NEW items, Held(memo, items), MemosKeep(memo, memo2)
  PROVE  Held(memo2, items)
<1> SUFFICES ASSUME NEW path \in DOMAIN items PROVE Links(memo2, items[path].parameters, path)
  BY DEF Held
<1>1. Links(memo, items[path].parameters, path)
  BY DEF Held
<1> QED
  BY <1>1 DEF Links, MemosKeep, OnPath

\* A parameter that a document holds, before and after such a change.
LEMMA NowKeeps ==
  ASSUME NEW memo, NEW memo2, NEW items, Held(memo, items), MemosKeep(memo, memo2),
         NEW path \in DOMAIN items, NEW name \in DOMAIN items[path].parameters
  PROVE  Keeps(NowIn(memo, items[path].parameters[name], name),
               NowIn(memo2, items[path].parameters[name], name), name, path)
<1>1. PICK p : p = items[path].parameters[name]
  OBVIOUS
<1>2. CASE p.in = "path"
  <2>1. p.of \in OnPath(path) /\ memo[p.of] # <<>> /\ name \in Placeholders(path)
    BY <1>1, <1>2 DEF Held, Links
  <2>2. p.of \in Endpoints /\ CurrentRoute(p.of).path = path
    BY <2>1 DEF OnPath
  <2>3. Keeps(memo[p.of][1][name], memo2[p.of][1][name], name, path)
    BY <2>1, <2>2 DEF MemosKeep
  <2> QED
    BY <1>1, <1>2, <2>3 DEF NowIn
<1>3. CASE p.in # "path"
  BY <1>1, <1>3, KeepsItself DEF NowIn
<1> QED
  BY <1>2, <1>3

\* What shows an endpoint still does when more was combined into its path.
LEMMA ShownKeeps ==
  ASSUME NEW ps, NEW ps2, NEW e, NEW d, NEW path, Shown(ps, e, d, path),
         \A name \in DOMAIN ps : name \in DOMAIN ps2 /\ Keeps(ps[name], ps2[name], name, path)
  PROVE  Shown(ps2, e, d, path)
<1>1. ASSUME NEW name \in Placeholders(path)
      PROVE  /\ name \in DOMAIN ps2
             /\ Namesakes(name, path) = {} =>
                  /\ ps2[name].in = "path" /\ ps2[name].required = "yes"
                  /\ name \in EndpointAt(e).describes => ps2[name].described # NoEndpoint
  <2>1. name \in DOMAIN ps /\ Keeps(ps[name], ps2[name], name, path)
    BY DEF Shown
  <2>2. Namesakes(name, path) = {} => ~HasNo(name, path)
    BY DEF HasNo
  <2> QED
    BY <2>1, <2>2 DEF Shown, Keeps
<1>2. ASSUME NEW p \in Own(e, d)
      PROVE  /\ p.name \in DOMAIN ps2
             /\ p.required = "yes" /\ ~HasNo(p.name, path) => ps2[p.name].required = "yes"
  <2>1. p.name \in DOMAIN ps /\ Keeps(ps[p.name], ps2[p.name], p.name, path)
    BY DEF Shown
  <2> QED
    BY <2>1 DEF Shown, Keeps
<1> QED
  BY <1>1, <1>2 DEF Shown

\* What a document shows, when memoized parameters change.
LEMMA ShownForKeeps ==
  ASSUME NEW memo, NEW memo2, NEW items, Held(memo, items), MemosKeep(memo, memo2),
         NEW e, NEW d, ShownFor(memo, items, e, d)
  PROVE  ShownFor(memo2, items, e, d)
<1>1. PICK path : path = CurrentRoute(e).path
  OBVIOUS
<1>2. path \in DOMAIN items
  BY <1>1 DEF ShownFor
<1>3. PICK ps : ps = items[path].parameters
  OBVIOUS
<1> DEFINE now(m) == [name \in DOMAIN ps |-> NowIn(m, ps[name], name)]
<1>4. Shown(now(memo), e, d, path)
  BY <1>1, <1>3 DEF ShownFor, ShownOn
<1>5. \A name \in DOMAIN now(memo) : name \in DOMAIN now(memo2)
          /\ Keeps(now(memo)[name], now(memo2)[name], name, path)
  BY <1>2, <1>3, NowKeeps
<1>6. Shown(now(memo2), e, d, path)
  <2> HIDE DEF now
  <2> QED
    BY <1>4, <1>5, ShownKeeps
<1> QED
  BY <1>1, <1>2, <1>3, <1>6 DEF ShownFor, ShownOn

\* The endpoint that is reached next: every one before it that the document
\* shows was reached.
LEMMA NextOf ==
  ASSUME Loaded, reached \in Nat, ~Done
  PROVE  /\ NextEndpoint \in Endpoints /\ NextEndpoint > reached /\ Shows(document, NextEndpoint)
         /\ \A f \in Endpoints : f <= NextEndpoint /\ Shows(document, f) =>
               f <= reached \/ f = NextEndpoint
<1> DEFINE S == {f \in Endpoints : f > reached /\ Shows(document, f)}
<1>1. S # {}
  BY DEF Done
<1>2. S \subseteq Nat
  BY DEF Loaded
<1>3. PICK m \in S : \A k \in S : m <= k
  <2> HIDE DEF S
  <2> QED
    BY <1>1, <1>2, SmallestOf
<1>4. m \in Endpoints /\ m \in Nat /\ m > reached /\ Shows(document, m)
  BY <1>2
<1>5. \A f \in (reached + 1)..(m - 1) : ~Shows(document, f)
  <2> SUFFICES ASSUME NEW f \in (reached + 1)..(m - 1), Shows(document, f) PROVE FALSE
    OBVIOUS
  <2>1. f \in Endpoints /\ f > reached /\ f < m /\ f \in Nat
    BY <1>4 DEF Loaded
  <2> QED
    BY <1>3, <1>4, <2>1
<1>6. PICK e : e = NextEndpoint
  OBVIOUS
<1>7. e \in Endpoints /\ e > reached /\ Shows(document, e)
      /\ \A f \in (reached + 1)..(e - 1) : ~Shows(document, f)
  BY <1>4, <1>5, <1>6 DEF NextEndpoint
<1>8. ASSUME NEW f \in Endpoints, f <= e, Shows(document, f), f > reached, f # e PROVE FALSE
  <2>1. f \in (reached + 1)..(e - 1)
    BY <1>7, <1>8 DEF Loaded
  <2> QED
    BY <1>7, <1>8, <2>1
<1>9. \A f \in Endpoints : f \in Nat
  BY DEF Loaded
<1> QED
  BY <1>6, <1>7, <1>8, <1>9

\* As long as the application is the same, all that is said of it is.
LEMMA SamePaths ==
  ASSUME pathApp' = pathApp
  PROVE  /\ Endpoints' = Endpoints /\ (Loaded' <=> Loaded)
         /\ \A e : RoutesTo(e)' = RoutesTo(e)
         /\ \A memo, items : Held(memo, items)' <=> Held(memo, items)
         /\ \A memo, items : Fresh(memo, items)' <=> Fresh(memo, items)
         /\ \A memo, items, e, d : ShownFor(memo, items, e, d)' <=> ShownFor(memo, items, e, d)
         /\ \A memo : MemosInv(memo)' <=> MemosInv(memo)
         /\ \A e, d : Shows(d, e)' <=> Shows(d, e)
<1>1. Endpoints' = Endpoints /\ (Loaded' <=> Loaded)
  BY DEF Endpoints, Loaded
<1>2. \A e : EndpointAt(e)' = EndpointAt(e)
  BY DEF EndpointAt
<1>3. \A e : RoutesTo(e)' = RoutesTo(e)
  BY <1>2 DEF RoutesTo
<1>4. \A e : CurrentRoute(e)' = CurrentRoute(e)
  BY <1>2, <1>3 DEF CurrentRoute
<1>5. \A e, d : Headers(e, d)' = Headers(e, d)
  BY <1>2 DEF Headers
<1>6. \A e : Query(e)' = Query(e) /\ Pages(e)' = Pages(e)
  BY <1>2 DEF Query, Pages
<1>7. \A e, d : Own(e, d)' = Own(e, d)
  BY <1>5, <1>6 DEF Own
<1>8. \A path : OnPath(path)' = OnPath(path)
  BY <1>1, <1>3, <1>4 DEF OnPath
<1>9. \A name, path : Namesakes(name, path)' = Namesakes(name, path)
  BY <1>7, <1>8 DEF Namesakes
<1>10. \A name, path : HasNo(name, path)' <=> HasNo(name, path)
  BY <1>9 DEF HasNo
<1>11. \A p, name, path : Allowed(p, name, path)' <=> Allowed(p, name, path)
  BY <1>8, <1>10 DEF Allowed
<1>12. \A ps, path : Good(ps, path)' <=> Good(ps, path)
  BY <1>11 DEF Good
<1>13. \A ps, path : Origin(ps, path)' <=> Origin(ps, path)
  BY <1>9 DEF Origin
<1>14. \A memo, ps, path : Links(memo, ps, path)' <=> Links(memo, ps, path)
  BY <1>8 DEF Links
<1>15. \A memo, items : Held(memo, items)' <=> Held(memo, items)
  BY <1>12, <1>13, <1>14 DEF Held
<1>16. \A memo, items : Fresh(memo, items)' <=> Fresh(memo, items)
  BY DEF Fresh, NowIn
<1>17. \A ps, e, d, path : Shown(ps, e, d, path)' <=> Shown(ps, e, d, path)
  BY <1>2, <1>7, <1>9, <1>10 DEF Shown
<1>18. \A memo, item, e, d, path : ShownOn(memo, item, e, d, path)' <=> ShownOn(memo, item, e, d, path)
  BY <1>4, <1>8, <1>17 DEF ShownOn, NowIn
<1>19. \A memo, items, e, d : ShownFor(memo, items, e, d)' <=> ShownFor(memo, items, e, d)
  BY <1>4, <1>18 DEF ShownFor
<1>20. \A e, ps : MemoGood(e, ps)' <=> MemoGood(e, ps)
  BY <1>2, <1>4, <1>10, <1>12 DEF MemoGood
<1>21. \A memo : MemosInv(memo)' <=> MemosInv(memo)
  BY <1>1, <1>3, <1>20 DEF MemosInv
<1>22. \A e, d : Shows(d, e)' <=> Shows(d, e)
  BY <1>2 DEF Shows
<1> QED
  BY <1>1, <1>3, <1>15, <1>16, <1>19, <1>21, <1>22

\* A document that is finished stays as it was when memoized parameters change.
LEMMA RenderedKeeps ==
  ASSUME pathApp' = pathApp, openapi' = openapi, NEW d \in PathDocs, Rendered(d),
         MemosKeep(pathParams, pathParams')
  PROVE  Rendered(d)'
<1>1. PICK memo : memo = pathParams
  OBVIOUS
<1>2. PICK memo2 : memo2 = pathParams'
  OBVIOUS
<1>3. PICK items : items = openapi[d][1]
  OBVIOUS
<1>4. Held(memo2, items)
  BY <1>1, <1>2, <1>3, HeldKeeps DEF Rendered
<1>5. \A e \in Endpoints : Shows(d, e) /\ RoutesTo(e) # {} => ShownFor(memo2, items, e, d)
  <2> SUFFICES ASSUME NEW e \in Endpoints, Shows(d, e), RoutesTo(e) # {}
               PROVE  ShownFor(memo2, items, e, d)
    OBVIOUS
  <2>1. Held(memo, items) /\ MemosKeep(memo, memo2) /\ ShownFor(memo, items, e, d)
    BY <1>1, <1>2, <1>3 DEF Rendered
  <2> QED
    BY <2>1, ShownForKeeps
<1>6. Held(memo2, items)'
  BY <1>4, SamePaths
<1>7. \A e \in Endpoints' : Shows(d, e)' /\ RoutesTo(e)' # {} => ShownFor(memo2, items, e, d)'
  BY <1>5, SamePaths
<1>8. items = openapi'[d][1]
  BY <1>3
<1> QED
  BY <1>2, <1>6, <1>7, <1>8 DEF Rendered

\* An item of a path that the document has not come to yet is empty.
ItemAt(items, path) == IF path \in DOMAIN items THEN items[path]
                       ELSE [parameters |-> << >>, operations |-> << >>]

\* The memoized parameters after those of a path became `all`.
MemosAfter(memo, e, all) ==
    [f \in Endpoints |-> IF f = e \/ memo[f] # <<>> THEN <<Memoized(f, all)>> ELSE <<>>]

\* Of an endpoint's memoized parameters, those that are on the path change as
\* they are combined, and the others do not.
LEMMA MemoizedKeeps ==
  ASSUME Loaded, MemosInv(pathParams), NEW items, Held(pathParams, items), Fresh(pathParams, items),
         NEW e \in Endpoints, RoutesTo(e) # {}, NEW path, path = CurrentRoute(e).path,
         NEW ps, ps = ItemAt(items, path).parameters, NEW all, Layers(ps, all, PathParams(e), path),
         NEW f \in Endpoints, f = e \/ pathParams[f] # <<>>
  PROVE  /\ DOMAIN Memoized(f, all) = Placeholders(CurrentRoute(f).path)
         /\ \A name \in Placeholders(CurrentRoute(f).path) :
              /\ Allowed(Memoized(f, all)[name], name, CurrentRoute(f).path)
              /\ Keeps(PathParams(f)[name], Memoized(f, all)[name], name, CurrentRoute(f).path)
<1>1. PICK mine : mine = PathParams(f)
  OBVIOUS
<1>2. PICK at : at = CurrentRoute(f).path
  OBVIOUS
<1>3. PICK memoized : memoized = Memoized(f, all)
  OBVIOUS
<1>4. RoutesTo(f) # {}
  BY DEF MemosInv
<1>5. MemoGood(f, mine)
  BY <1>1, <1>4, PathParamsGood
<1>6. DOMAIN mine = Placeholders(at) /\ Good(mine, at)
  BY <1>2, <1>5 DEF MemoGood
<1>7. /\ DOMAIN memoized = DOMAIN mine
      /\ \A name \in DOMAIN mine :
           memoized[name] = IF name \in DOMAIN all /\ all[name].in = "path" /\ all[name].of = f
                            THEN all[name] ELSE mine[name]
  BY <1>1, <1>3 DEF Memoized
<1>8. ASSUME NEW name \in Placeholders(at)
      PROVE  Allowed(memoized[name], name, at) /\ Keeps(mine[name], memoized[name], name, at)
  <2>1. CASE name \in DOMAIN all /\ all[name].in = "path" /\ all[name].of = f
    <3>1. memoized[name] = all[name]
      BY <1>6, <1>7, <2>1
    <3>2. CASE name \in DOMAIN ps
      <4>1. path \in DOMAIN items /\ ps = items[path].parameters
        BY <3>2 DEF ItemAt
      <4>2. Keeps(ps[name], all[name], name, path)
        BY <3>2 DEF Layers
      <4>3. ps[name].in = "path" /\ ps[name].of = f
        BY <2>1, <4>2 DEF Keeps
      <4>4. f \in OnPath(path) /\ pathParams[f] # <<>>
        BY <3>2, <4>1, <4>3 DEF Held, Links
      <4>5. at = path
        BY <1>2, <4>4 DEF OnPath
      <4>6. NowIn(pathParams, ps[name], name) = ps[name]
        BY <3>2, <4>1 DEF Fresh
      <4>7. ps[name] = mine[name]
        BY <1>1, <4>3, <4>4, <4>6 DEF NowIn, PathParams
      <4> QED
        BY <2>1, <3>1, <4>2, <4>5, <4>7 DEF Layers, Good
    <3>3. CASE name \notin DOMAIN ps
      <4>1. name \in DOMAIN PathParams(e) /\ Keeps(PathParams(e)[name], all[name], name, path)
        BY <2>1, <3>3 DEF Layers
      <4>2. MemoGood(e, PathParams(e))
        BY PathParamsGood
      <4>3. PathParams(e)[name].of = e
        BY <4>1, <4>2 DEF MemoGood
      <4>4. f = e
        BY <2>1, <4>1, <4>3 DEF Keeps
      <4> QED
        BY <1>1, <1>2, <2>1, <3>1, <4>1, <4>4 DEF Layers, Good
    <3> QED
      BY <3>2, <3>3
  <2>2. CASE ~(name \in DOMAIN all /\ all[name].in = "path" /\ all[name].of = f)
    <3>1. memoized[name] = mine[name]
      BY <1>6, <1>7, <2>2
    <3> QED
      BY <1>6, <3>1, KeepsItself DEF Good
  <2> QED
    BY <2>1, <2>2
<1> QED
  BY <1>1, <1>2, <1>3, <1>6, <1>7, <1>8

\* So the memoized parameters remain good, and keep what they were.
LEMMA MemosAfterKeep ==
  ASSUME Loaded, MemosInv(pathParams), NEW items, Held(pathParams, items), Fresh(pathParams, items),
         NEW e \in Endpoints, RoutesTo(e) # {}, NEW path, path = CurrentRoute(e).path,
         NEW ps, ps = ItemAt(items, path).parameters, NEW all, Layers(ps, all, PathParams(e), path),
         NEW memo2, memo2 = MemosAfter(pathParams, e, all)
  PROVE  MemosInv(memo2) /\ MemosKeep(pathParams, memo2)
<1>1. ASSUME NEW f \in Endpoints, memo2[f] # <<>>
      PROVE  RoutesTo(f) # {} /\ memo2[f] = <<memo2[f][1]>> /\ MemoGood(f, memo2[f][1])
  <2>1. f = e \/ pathParams[f] # <<>>
    BY <1>1 DEF MemosAfter
  <2>2. PICK memoized : memoized = Memoized(f, all)
    OBVIOUS
  <2>3. memo2[f] = <<memoized>>
    BY <2>1, <2>2 DEF MemosAfter
  <2>4. RoutesTo(f) # {}
    BY <2>1 DEF MemosInv
  <2>5. MemoGood(f, PathParams(f))
    BY <2>4, PathParamsGood
  <2>6. PICK mine : mine = PathParams(f)
    OBVIOUS
  <2>7. PICK at : at = CurrentRoute(f).path
    OBVIOUS
  <2>8. /\ DOMAIN memoized = Placeholders(at)
        /\ \A name \in Placeholders(at) :
             Allowed(memoized[name], name, at) /\ Keeps(mine[name], memoized[name], name, at)
    BY <2>1, <2>2, <2>6, <2>7, MemoizedKeeps
  <2>9. MemoGood(f, memoized)
    <3>1. /\ DOMAIN mine = Placeholders(at)
          /\ \A name \in Placeholders(at) :
               /\ mine[name].in = "path" /\ mine[name].of = f
               /\ name \in EndpointAt(f).describes => mine[name].described # NoEndpoint
               /\ ~HasNo(name, at) => mine[name].required = "yes"
      BY <2>5, <2>6, <2>7 DEF MemoGood
    <3>2. Good(memoized, at)
      BY <2>8 DEF Good
    <3>3. \A name \in Placeholders(at) :
               /\ memoized[name].in = "path" /\ memoized[name].of = f
               /\ name \in EndpointAt(f).describes => memoized[name].described # NoEndpoint
               /\ ~HasNo(name, at) => memoized[name].required = "yes"
      BY <2>8, <3>1 DEF Keeps
    <3> QED
      BY <2>7, <2>8, <3>2, <3>3 DEF MemoGood
  <2> QED
    BY <2>3, <2>4, <2>9
<1>2. ASSUME NEW f \in Endpoints, pathParams[f] # <<>>
      PROVE  /\ memo2[f] # <<>>
             /\ \A name \in Placeholders(CurrentRoute(f).path) :
                   Keeps(pathParams[f][1][name], memo2[f][1][name], name, CurrentRoute(f).path)
  <2>1. PICK memoized : memoized = Memoized(f, all)
    OBVIOUS
  <2>2. memo2[f] = <<memoized>>
    BY <1>2, <2>1 DEF MemosAfter
  <2>3. PathParams(f) = pathParams[f][1]
    BY <1>2 DEF PathParams
  <2>4. \A name \in Placeholders(CurrentRoute(f).path) :
          Keeps(PathParams(f)[name], memoized[name], name, CurrentRoute(f).path)
    BY <1>2, <2>1, MemoizedKeeps
  <2> QED
    BY <2>2, <2>3, <2>4
<1> QED
  BY <1>1, <1>2 DEF MemosInv, MemosKeep

\* The paths of a document after an operation and its parameters are put on one.
ItemsAfter(items, e, all, path) ==
    [p \in DOMAIN items \cup {path} |->
        IF p # path THEN items[p]
        ELSE [parameters |-> all,
              operations |-> [m \in DOMAIN ItemAt(items, path).operations \cup {CurrentRoute(e).method} |->
                                IF m = CurrentRoute(e).method THEN e
                                ELSE ItemAt(items, path).operations[m]]]]

\* What a rendering does to the document: what it held is kept and up to date,
\* what it showed is still shown, and so is the endpoint.
LEMMA RenderingGoesOn ==
  ASSUME Loaded, MemosInv(pathParams), NEW items, Held(pathParams, items), Fresh(pathParams, items),
         NEW e \in Endpoints, RoutesTo(e) # {}, NEW path, path = CurrentRoute(e).path,
         NEW ps, ps = ItemAt(items, path).parameters, NEW d \in PathDocs,
         NEW all, Layers(ps, all, PathParams(e), path), Shown(all, e, d, path),
         NEW memo2, memo2 = MemosAfter(pathParams, e, all),
         NEW items2, items2 = ItemsAfter(items, e, all, path)
  PROVE  /\ Held(memo2, items2) /\ Fresh(memo2, items2) /\ ShownFor(memo2, items2, e, d)
         /\ \A f \in Endpoints : RoutesTo(f) # {} /\ ShownFor(pathParams, items, f, d)
               => ShownFor(memo2, items2, f, d)
<1>1. MemosInv(memo2) /\ MemosKeep(pathParams, memo2)
  BY MemosAfterKeep
<1>2. PICK item : item = ItemAt(items, path)
  OBVIOUS
<1>3. PICK method : method = CurrentRoute(e).method
  OBVIOUS
<1>4. /\ DOMAIN items2 = DOMAIN items \cup {path}
      /\ \A p \in DOMAIN items : p # path => items2[p] = items[p]
      /\ items2[path].parameters = all
      /\ items2[path].operations = [m \in DOMAIN item.operations \cup {method} |->
                                      IF m = method THEN e ELSE item.operations[m]]
  BY <1>2, <1>3 DEF ItemsAfter
<1>5. Held(memo2, items)
  BY <1>1, HeldKeeps
<1>6. e \in OnPath(path)
  BY OnItsPath
<1>7. MemoGood(e, PathParams(e))
  BY PathParamsGood
<1>8. \A name \in DOMAIN PathParams(e) : name \in Placeholders(path) /\ PathParams(e)[name].of = e
  BY <1>7 DEF MemoGood
<1>9. memo2[e] # <<>>
  BY DEF MemosAfter
<1>10. ASSUME NEW name \in DOMAIN all, all[name].in = "path"
       PROVE  /\ all[name].of \in OnPath(path) /\ memo2[all[name].of] # <<>>
              /\ name \in Placeholders(path)
  <2>1. CASE name \in DOMAIN ps
    <3>1. path \in DOMAIN items /\ ps = items[path].parameters
      BY <2>1 DEF ItemAt
    <3>2. Keeps(ps[name], all[name], name, path)
      BY <2>1 DEF Layers
    <3>3. ps[name].in = "path" /\ ps[name].of = all[name].of
      BY <1>10, <3>2 DEF Keeps
    <3> QED
      BY <1>5, <2>1, <3>1, <3>3 DEF Held, Links
  <2>2. CASE name \notin DOMAIN ps
    <3>1. name \in DOMAIN PathParams(e) /\ Keeps(PathParams(e)[name], all[name], name, path)
      BY <1>10, <2>2 DEF Layers
    <3>2. all[name].of = e
      BY <1>8, <3>1 DEF Keeps
    <3> QED
      BY <1>6, <1>8, <1>9, <3>1, <3>2
  <2> QED
    BY <2>1, <2>2
<1>11. Held(memo2, items2)
  <2> SUFFICES ASSUME NEW p \in DOMAIN items2
               PROVE  /\ Good(items2[p].parameters, p) /\ Origin(items2[p].parameters, p)
                      /\ Links(memo2, items2[p].parameters, p)
    BY DEF Held
  <2>1. CASE p = path
    <3>1. Good(all, path) /\ Origin(all, path) /\ items2[p].parameters = all
      BY <1>4, <2>1 DEF Layers
    <3>2. Links(memo2, all, path)
      BY <1>10 DEF Links
    <3> QED
      BY <2>1, <3>1, <3>2
  <2>2. CASE p # path
    <3>1. p \in DOMAIN items /\ items2[p] = items[p]
      BY <1>4, <2>2
    <3> QED
      BY <1>5, <3>1 DEF Held
  <2> QED
    BY <2>1, <2>2
<1>12. ASSUME NEW f \in Endpoints, f = e \/ pathParams[f] # <<>>
       PROVE  /\ memo2[f][1] = Memoized(f, all)
              /\ \A name \in Placeholders(CurrentRoute(f).path) :
                   memo2[f][1][name] = IF name \in DOMAIN all /\ all[name].in = "path" /\ all[name].of = f
                                       THEN all[name] ELSE PathParams(f)[name]
  <2>1. PICK memoized : memoized = Memoized(f, all)
    OBVIOUS
  <2>2. memo2[f] = <<memoized>>
    BY <1>12, <2>1 DEF MemosAfter
  <2>3. RoutesTo(f) # {}
    BY <1>12 DEF MemosInv
  <2>4. DOMAIN PathParams(f) = Placeholders(CurrentRoute(f).path)
    BY <2>3, PathParamsGood DEF MemoGood
  <2>5. \A name \in DOMAIN PathParams(f) :
          memoized[name] = IF name \in DOMAIN all /\ all[name].in = "path" /\ all[name].of = f
                           THEN all[name] ELSE PathParams(f)[name]
    BY <2>1 DEF Memoized
  <2> QED
    BY <2>1, <2>2, <2>4, <2>5
<1>13. ASSUME NEW name \in DOMAIN all PROVE NowIn(memo2, all[name], name) = all[name]
  <2>1. CASE all[name].in = "path"
    <3>1. PICK f : f = all[name].of
      OBVIOUS
    <3>2. f \in OnPath(path) /\ memo2[f] # <<>> /\ name \in Placeholders(path)
      BY <1>10, <2>1, <3>1
    <3>3. f \in Endpoints /\ CurrentRoute(f).path = path
      BY <3>2 DEF OnPath
    <3>4. f = e \/ pathParams[f] # <<>>
      BY <3>2, <3>3 DEF MemosAfter
    <3> QED
      BY <1>12, <2>1, <3>1, <3>2, <3>3, <3>4 DEF NowIn
  <2>2. CASE all[name].in # "path"
    BY <2>2 DEF NowIn
  <2> QED
    BY <2>1, <2>2
<1>14. ASSUME NEW p \in DOMAIN items, p # path, NEW name \in DOMAIN items[p].parameters
       PROVE  NowIn(memo2, items[p].parameters[name], name) = items[p].parameters[name]
  <2>1. PICK q : q = items[p].parameters[name]
    OBVIOUS
  <2>2. CASE q.in = "path"
    <3>1. q.of \in OnPath(p) /\ pathParams[q.of] # <<>> /\ name \in Placeholders(p)
      BY <2>1, <2>2 DEF Held, Links
    <3>2. q.of \in Endpoints /\ CurrentRoute(q.of).path = p
      BY <3>1 DEF OnPath
    <3>3. ~(name \in DOMAIN all /\ all[name].in = "path" /\ all[name].of = q.of)
      <4> SUFFICES ASSUME name \in DOMAIN all, all[name].in = "path", all[name].of = q.of PROVE FALSE
        OBVIOUS
      <4>1. q.of \in OnPath(path)
        BY <1>10
      <4> QED
        BY <1>14, <3>2, <4>1 DEF OnPath
    <3>4. memo2[q.of][1][name] = PathParams(q.of)[name]
      BY <1>12, <3>1, <3>2, <3>3
    <3>5. pathParams[q.of][1][name] = q
      BY <2>1, <2>2 DEF Fresh, NowIn
    <3> QED
      BY <2>1, <2>2, <3>1, <3>4, <3>5 DEF NowIn, PathParams
  <2>3. CASE q.in # "path"
    BY <2>1, <2>3 DEF NowIn
  <2> QED
    BY <2>2, <2>3
<1>15. Fresh(memo2, items2)
  <2> SUFFICES ASSUME NEW p \in DOMAIN items2, NEW name \in DOMAIN items2[p].parameters
               PROVE  NowIn(memo2, items2[p].parameters[name], name) = items2[p].parameters[name]
    BY DEF Fresh
  <2>1. CASE p = path
    BY <1>4, <1>13, <2>1
  <2>2. CASE p # path
    BY <1>4, <1>14, <2>2
  <2> QED
    BY <2>1, <2>2
<1>16. Shown([name \in DOMAIN all |-> NowIn(memo2, all[name], name)], e, d, path)
  <2> DEFINE now == [name \in DOMAIN all |-> NowIn(memo2, all[name], name)]
  <2>1. \A name \in DOMAIN all : name \in DOMAIN now /\ Keeps(all[name], now[name], name, path)
    BY <1>13, KeepsItself
  <2> HIDE DEF now
  <2>2. Shown(now, e, d, path)
    BY <2>1, ShownKeeps
  <2> QED
    BY <2>2 DEF now
<1>17. ShownFor(memo2, items2, e, d)
  <2>1. method \in DOMAIN items2[path].operations /\ items2[path].operations[method] = e
    BY <1>4
  <2> QED
    BY <1>3, <1>4, <1>6, <1>16, <2>1 DEF ShownFor, ShownOn
<1>18. ASSUME NEW f \in Endpoints, RoutesTo(f) # {}, ShownFor(pathParams, items, f, d)
       PROVE  ShownFor(memo2, items2, f, d)
  <2>1. CASE CurrentRoute(f).path # path
    <3>1. ShownFor(memo2, items, f, d)
      BY <1>1, <1>18, ShownForKeeps
    <3>2. CurrentRoute(f).path \in DOMAIN items
      BY <3>1 DEF ShownFor
    <3>3. items2[CurrentRoute(f).path] = items[CurrentRoute(f).path]
      BY <1>4, <2>1, <3>2
    <3> QED
      BY <1>4, <3>1, <3>2, <3>3 DEF ShownFor
  <2>2. CASE CurrentRoute(f).path = path
    <3>1. path \in DOMAIN items /\ item = items[path] /\ ps = items[path].parameters
      BY <1>2, <1>18, <2>2 DEF ShownFor, ItemAt
    <3>2. PICK m : m = CurrentRoute(f).method
      OBVIOUS
    <3> DEFINE before == [name \in DOMAIN ps |-> NowIn(pathParams, ps[name], name)]
               now == [name \in DOMAIN all |-> NowIn(memo2, all[name], name)]
    <3>3. /\ m \in DOMAIN item.operations
          /\ item.operations[m] \in {g \in OnPath(path) : CurrentRoute(g).method = m}
          /\ Shown(before, f, d, path)
      BY <1>18, <2>2, <3>1, <3>2 DEF ShownFor, ShownOn
    <3>4. /\ m \in DOMAIN items2[path].operations
          /\ items2[path].operations[m] \in {g \in OnPath(path) : CurrentRoute(g).method = m}
      BY <1>3, <1>4, <1>6, <3>3
    <3>5. \A name \in DOMAIN before : name \in DOMAIN now /\ Keeps(before[name], now[name], name, path)
      <4> SUFFICES ASSUME NEW name \in DOMAIN ps
                   PROVE  name \in DOMAIN now /\ Keeps(before[name], now[name], name, path)
        OBVIOUS
      <4>1. name \in DOMAIN all /\ Keeps(ps[name], all[name], name, path)
        BY DEF Layers
      <4>2. before[name] = ps[name]
        BY <3>1 DEF Fresh
      <4>3. now[name] = all[name]
        BY <1>13, <4>1
      <4> QED
        BY <4>1, <4>2, <4>3
    <3>6. Shown(now, f, d, path)
      <4> HIDE DEF before, now
      <4> QED
        BY <3>3, <3>5, ShownKeeps
    <3> QED
      BY <1>4, <2>2, <3>2, <3>4, <3>6 DEF ShownFor, ShownOn
  <2> QED
    BY <2>1, <2>2
<1> QED
  BY <1>11, <1>15, <1>17, <1>18

\* Before the application is loaded there is nothing to say.
LEMMA PathsInitial == PathsInit => PathsIInv
<1> SUFFICES ASSUME PathsInit PROVE PathsIInv
  OBVIOUS
<1>1. Endpoints = {} /\ Len(pathApp.endpoints) = 0
  BY DEF PathsInit, NoApp, Endpoints
<1>2. DOMAIN pathParams = {} /\ DOMAIN paths = {}
  BY DEF PathsInit
<1>3. MemosInv(pathParams) /\ reached \in 0..Len(pathApp.endpoints)
  BY <1>1 DEF PathsInit, MemosInv
<1>4. DOMAIN openapi = PathDocs /\ \A d \in PathDocs : openapi[d] = <<>>
  BY DEF PathsInit
<1> QED
  BY <1>1, <1>2, <1>3, <1>4 DEF PathsInit, PathsIInv

\* Loading the application: nothing is memoized or rendered yet.
LEMMA StepDeclare ==
  ASSUME PathsIInv, NEW a \in PathApps, DeclarePaths(a) PROVE PathsIInv'
<1>1. /\ pathApp' = a /\ pathParams' = [e \in DOMAIN a.endpoints |-> <<>>]
      /\ UNCHANGED <<document, bypass, reached, paths, openapi>> /\ pathApp = NoApp
  BY DEF DeclarePaths
<1>2. a # NoApp /\ Len(a.endpoints) \in Nat
  <2>1. a # NoApp /\ a.endpoints \in Seq({a.endpoints[i] : i \in DOMAIN a.endpoints})
    BY EndpointsAssumption
  <2>2. PICK S : S = {a.endpoints[i] : i \in DOMAIN a.endpoints}
    OBVIOUS
  <2>3. a.endpoints \in Seq(S)
    BY <2>1, <2>2
  <2> QED
    BY <2>1, <2>3
<1>3. document' = "none" /\ \A d \in PathDocs : openapi'[d] = <<>>
  BY <1>1 DEF PathsIInv
<1>4. Endpoints' = DOMAIN a.endpoints
  BY <1>1 DEF Endpoints
<1>5. MemosInv(pathParams)'
  BY <1>1, <1>4 DEF MemosInv
<1>6. reached = 0
  BY <1>1 DEF PathsIInv, NoApp
<1>7. reached' \in 0..Len(pathApp'.endpoints)
  BY <1>1, <1>2, <1>6
<1> QED
  BY <1>1, <1>2, <1>3, <1>4, <1>5, <1>7 DEF PathsIInv

\* A rendering begins with no paths and no endpoint reached.
LEMMA StepBegin ==
  ASSUME PathsIInv, NEW d \in PathDocs, BeginDocument(d) PROVE PathsIInv'
<1>1. /\ pathApp # NoApp /\ pathApp' = pathApp /\ pathParams' = pathParams /\ openapi' = openapi
      /\ document' = d /\ bypass' \in BOOLEAN /\ reached' = 0 /\ paths' = << >>
  BY DEF BeginDocument
<1>2. Loaded
  BY <1>1, LoadedApp DEF PathsIInv
<1>3. DOMAIN paths' = {}
  BY <1>1
<1>4. Rendering'
  <2>1. Held(pathParams, paths)' /\ Fresh(pathParams, paths)'
    BY <1>3 DEF Held, Fresh
  <2>2. \A e \in Endpoints' : ~(e <= reached')
    BY <1>1, <1>2, SamePaths DEF Loaded
  <2> QED
    BY <2>1, <2>2 DEF Rendering
<1>5. MemosKeep(pathParams, pathParams')
  BY <1>1, KeepsItself DEF MemosKeep
<1>6. \A c \in PathDocs : openapi'[c] # <<>> => openapi'[c] = <<openapi'[c][1]>> /\ Rendered(c)'
  BY <1>1, <1>5, RenderedKeeps DEF PathsIInv
<1>7. MemosInv(pathParams)' /\ Endpoints' = Endpoints
  BY <1>1, SamePaths DEF PathsIInv
<1>8. reached' \in 0..Len(pathApp'.endpoints)
  BY <1>1, <1>2 DEF Loaded
<1> QED
  BY <1>1, <1>3, <1>4, <1>6, <1>7, <1>8 DEF PathsIInv

\* Rendering an endpoint: what the document and the others show is kept.
LEMMA StepRender ==
  ASSUME PathsIInv, RenderPath PROVE PathsIInv'
<1>1. PICK e : e = NextEndpoint
  OBVIOUS
<1>2. PICK path : path = CurrentRoute(e).path
  OBVIOUS
<1>3. PICK item : item = ItemAt(paths, path)
  OBVIOUS
<1>4. PICK ps : ps = item.parameters
  OBVIOUS
<1>5. PICK all : all = Combined(ps, e, document)
  OBVIOUS
<1>6. PICK memo2 : memo2 = MemosAfter(pathParams, e, all)
  OBVIOUS
<1>7. PICK items2 : items2 = ItemsAfter(paths, e, all, path)
  OBVIOUS
<1>8. /\ document # "none" /\ ~Done /\ RoutesTo(e) # {} /\ reached' = e
      /\ pathApp' = pathApp /\ document' = document /\ bypass' = bypass /\ openapi' = openapi
  BY <1>1 DEF RenderPath
<1>9. paths' = items2 /\ pathParams' = memo2
  BY <1>1, <1>2, <1>3, <1>4, <1>5, <1>6, <1>7 DEF RenderPath, ItemsAfter, MemosAfter, ItemAt
<1>10. Loaded /\ document \in PathDocs /\ Rendering /\ reached \in Nat
  BY <1>8, LoadedApp DEF PathsIInv
<1>11. /\ e \in Endpoints /\ e > reached /\ Shows(document, e)
       /\ \A f \in Endpoints : f <= e /\ Shows(document, f) => f <= reached \/ f = e
  BY <1>1, <1>8, <1>10, NextOf
<1>12. MemosInv(pathParams) /\ Held(pathParams, paths) /\ Fresh(pathParams, paths)
  BY <1>10 DEF PathsIInv, Rendering
<1>13. Good(ps, path) /\ Origin(ps, path)
  <2>1. CASE path \in DOMAIN paths
    BY <1>3, <1>4, <1>12, <2>1 DEF ItemAt, Held
  <2>2. CASE path \notin DOMAIN paths
    <3>1. DOMAIN ps = {}
      BY <1>3, <1>4, <2>2 DEF ItemAt
    <3> QED
      BY <3>1 DEF Good, Origin
  <2> QED
    BY <2>1, <2>2
<1>14. Layers(ps, all, PathParams(e), path) /\ Shown(all, e, document, path)
  <2>1. MemoGood(e, PathParams(e))
    BY <1>8, <1>10, <1>11, <1>12, PathParamsGood
  <2> QED
    BY <1>2, <1>5, <1>8, <1>10, <1>11, <1>13, <2>1, CombinedKeeps
<1>15. MemosInv(memo2) /\ MemosKeep(pathParams, memo2)
  BY <1>2, <1>3, <1>4, <1>6, <1>8, <1>10, <1>11, <1>12, <1>14, MemosAfterKeep
<1>16. PICK d : d = document
  OBVIOUS
<1>17. /\ Held(memo2, items2) /\ Fresh(memo2, items2) /\ ShownFor(memo2, items2, e, d)
       /\ \A f \in Endpoints : RoutesTo(f) # {} /\ ShownFor(pathParams, paths, f, d)
              => ShownFor(memo2, items2, f, d)
  BY <1>2, <1>3, <1>4, <1>6, <1>7, <1>8, <1>10, <1>11, <1>12, <1>14, <1>16, RenderingGoesOn
<1>18. \A f \in Endpoints : f <= e /\ Shows(d, f) /\ RoutesTo(f) # {} => ShownFor(memo2, items2, f, d)
  <2> SUFFICES ASSUME NEW f \in Endpoints, f <= e, Shows(d, f), RoutesTo(f) # {}
               PROVE  ShownFor(memo2, items2, f, d)
    OBVIOUS
  <2>1. CASE f = e
    BY <1>17, <2>1
  <2>2. CASE f # e
    <3>1. f <= reached
      BY <1>11, <1>16, <2>2
    <3>2. ShownFor(pathParams, paths, f, d)
      BY <1>10, <1>16, <3>1 DEF Rendering
    <3> QED
      BY <1>17, <3>2
  <2> QED
    BY <2>1, <2>2
<1>19. Rendering'
  <2>1. Held(memo2, items2)' /\ Fresh(memo2, items2)'
    BY <1>8, <1>17, SamePaths
  <2>2. \A f \in Endpoints' : f <= e /\ Shows(d, f)' /\ RoutesTo(f)' # {} => ShownFor(memo2, items2, f, d)'
    BY <1>8, <1>18, SamePaths
  <2>3. d = document' /\ reached' = e
    BY <1>8, <1>16
  <2> QED
    BY <1>9, <2>1, <2>2, <2>3 DEF Rendering
<1>20. \A c \in PathDocs : openapi'[c] # <<>> => openapi'[c] = <<openapi'[c][1]>> /\ Rendered(c)'
  BY <1>8, <1>9, <1>15, RenderedKeeps DEF PathsIInv
<1>21. MemosInv(pathParams)'
  <2>1. MemosInv(memo2)'
    BY <1>8, <1>15, SamePaths
  <2> QED
    BY <1>9, <2>1
<1>22. DOMAIN pathParams' = Endpoints /\ Endpoints' = Endpoints
  BY <1>6, <1>8, <1>9, SamePaths DEF MemosAfter
<1>23. reached' \in 0..Len(pathApp'.endpoints)
  BY <1>8, <1>10, <1>11 DEF Loaded
<1>24. \A p \in DOMAIN paths' : DOMAIN paths'[p] = {"parameters", "operations"}
  <2>1. \A p \in DOMAIN paths : DOMAIN paths[p] = {"parameters", "operations"}
    BY DEF PathsIInv
  <2>2. \A p \in DOMAIN items2 : DOMAIN items2[p] = {"parameters", "operations"}
    BY <1>7, <2>1 DEF ItemsAfter
  <2> QED
    BY <1>9, <2>2
<1>25. /\ pathApp' \in PathApps \cup {NoApp} /\ bypass' \in BOOLEAN
       /\ document' \in PathDocs \cup {"none"} /\ DOMAIN openapi' = PathDocs
       /\ pathApp' = NoApp => document' = "none" /\ \A c \in PathDocs : openapi'[c] = <<>>
  BY <1>8 DEF PathsIInv
<1> QED
  BY <1>19, <1>20, <1>21, <1>22, <1>23, <1>24, <1>25 DEF PathsIInv

\* An endpoint without a route is skipped, or ends the rendering.
LEMMA StepMissing ==
  ASSUME PathsIInv, MissingRoute PROVE PathsIInv'
<1>1. PICK e : e = NextEndpoint
  OBVIOUS
<1>2. /\ document # "none" /\ ~Done /\ RoutesTo(e) = {} /\ reached' = e
      /\ document' = IF bypass THEN document ELSE "none"
      /\ UNCHANGED <<pathApp, pathParams, bypass, paths, openapi>>
  BY <1>1 DEF MissingRoute
<1>3. Loaded /\ document \in PathDocs /\ Rendering /\ reached \in Nat
  BY <1>2, LoadedApp DEF PathsIInv
<1>4. /\ e \in Endpoints
      /\ \A f \in Endpoints : f <= e /\ Shows(document, f) => f <= reached \/ f = e
  BY <1>1, <1>2, <1>3, NextOf
<1>5. PICK memo : memo = pathParams
  OBVIOUS
<1>6. PICK items : items = paths
  OBVIOUS
<1>7. PICK d : d = document
  OBVIOUS
<1>8. ASSUME document' # "none" PROVE Rendering'
  <2>1. document' = d /\ memo = pathParams' /\ items = paths' /\ reached' = e
    BY <1>2, <1>5, <1>6, <1>7, <1>8
  <2>2. Held(memo, items)' /\ Fresh(memo, items)'
    BY <1>2, <1>3, <1>5, <1>6, SamePaths DEF Rendering
  <2>3. \A f \in Endpoints : f <= e /\ Shows(d, f) /\ RoutesTo(f) # {} => ShownFor(memo, items, f, d)
    BY <1>2, <1>3, <1>4, <1>5, <1>6, <1>7 DEF Rendering
  <2>4. \A f \in Endpoints' : f <= e /\ Shows(d, f)' /\ RoutesTo(f)' # {} => ShownFor(memo, items, f, d)'
    BY <1>2, <2>3, SamePaths
  <2> QED
    BY <2>1, <2>2, <2>4 DEF Rendering
<1>9. MemosKeep(pathParams, pathParams')
  BY <1>2, KeepsItself DEF MemosKeep
<1>10. \A c \in PathDocs : openapi'[c] # <<>> => openapi'[c] = <<openapi'[c][1]>> /\ Rendered(c)'
  BY <1>2, <1>9, RenderedKeeps DEF PathsIInv
<1>11. MemosInv(pathParams)' /\ Endpoints' = Endpoints
  BY <1>2, SamePaths DEF PathsIInv
<1>12. reached' \in 0..Len(pathApp'.endpoints)
  BY <1>2, <1>3, <1>4 DEF Loaded
<1>13. pathApp' # NoApp
  BY <1>2 DEF PathsIInv
<1> QED
  BY <1>2, <1>8, <1>10, <1>11, <1>12, <1>13 DEF PathsIInv

\* A document that is finished shows every routed endpoint it is for.
LEMMA StepEnd ==
  ASSUME PathsIInv, EndDocument PROVE PathsIInv'
<1>1. /\ document # "none" /\ Done /\ document' = "none"
      /\ openapi' = [openapi EXCEPT ![document] = <<paths>>]
      /\ UNCHANGED <<pathApp, pathParams, bypass, reached, paths>>
  BY DEF EndDocument
<1>2. Loaded /\ document \in PathDocs /\ Rendering /\ reached \in Nat
  BY <1>1, LoadedApp DEF PathsIInv
<1>3. PICK memo : memo = pathParams
  OBVIOUS
<1>4. PICK d : d = document
  OBVIOUS
<1>5. ASSUME NEW c \in PathDocs, openapi'[c] # <<>>
      PROVE  openapi'[c] = <<openapi'[c][1]>> /\ Rendered(c)'
  <2>1. PICK items : items = openapi'[c][1]
    OBVIOUS
  <2>2. CASE c = d
    <3>1. openapi'[c] = <<paths>> /\ items = paths
      BY <1>1, <1>2, <1>4, <2>1, <2>2 DEF PathsIInv
    <3>2. \A e \in Endpoints : Shows(d, e) => e <= reached
      BY <1>1, <1>2, <1>4 DEF Done, Loaded
    <3>3. /\ Held(memo, items)
          /\ \A e \in Endpoints : Shows(c, e) /\ RoutesTo(e) # {} => ShownFor(memo, items, e, c)
      BY <1>2, <1>3, <1>4, <2>2, <3>1, <3>2 DEF Rendering
    <3>4. /\ Held(memo, items)'
          /\ \A e \in Endpoints' : Shows(c, e)' /\ RoutesTo(e)' # {} => ShownFor(memo, items, e, c)'
      BY <1>1, <3>3, SamePaths
    <3>5. memo = pathParams'
      BY <1>1, <1>3
    <3> QED
      BY <2>1, <3>1, <3>4, <3>5 DEF Rendered
  <2>3. CASE c # d
    <3>1. openapi'[c] = openapi[c]
      BY <1>1, <1>4, <2>3 DEF PathsIInv
    <3>2. openapi[c] = <<openapi[c][1]>> /\ Rendered(c)
      BY <1>5, <3>1 DEF PathsIInv
    <3>3. /\ Held(memo, items)
          /\ \A e \in Endpoints : Shows(c, e) /\ RoutesTo(e) # {} => ShownFor(memo, items, e, c)
      BY <1>3, <2>1, <3>1, <3>2 DEF Rendered
    <3>4. /\ Held(memo, items)'
          /\ \A e \in Endpoints' : Shows(c, e)' /\ RoutesTo(e)' # {} => ShownFor(memo, items, e, c)'
      BY <1>1, <3>3, SamePaths
    <3>5. memo = pathParams'
      BY <1>1, <1>3
    <3> QED
      BY <2>1, <3>1, <3>2, <3>4, <3>5 DEF Rendered
  <2> QED
    BY <2>2, <2>3
<1>6. MemosInv(pathParams)' /\ Endpoints' = Endpoints
  BY <1>1, SamePaths DEF PathsIInv
<1>7. pathApp' # NoApp /\ DOMAIN openapi' = PathDocs
  BY <1>1 DEF PathsIInv
<1> QED
  BY <1>1, <1>5, <1>6, <1>7 DEF PathsIInv

\* Where nothing changes the invariant stays.
LEMMA StepPathsNothing ==
  ASSUME PathsIInv, UNCHANGED pathVars PROVE PathsIInv'
<1>1. /\ pathApp' = pathApp /\ pathParams' = pathParams /\ document' = document /\ bypass' = bypass
      /\ reached' = reached /\ paths' = paths /\ openapi' = openapi
  BY DEF pathVars
<1>2. PICK memo : memo = pathParams
  OBVIOUS
<1>3. PICK items : items = paths
  OBVIOUS
<1>4. PICK d : d = document
  OBVIOUS
<1>5. MemosKeep(pathParams, pathParams')
  BY <1>1, KeepsItself DEF MemosKeep
<1>6. \A c \in PathDocs : openapi'[c] # <<>> => openapi'[c] = <<openapi'[c][1]>> /\ Rendered(c)'
  BY <1>1, <1>5, RenderedKeeps DEF PathsIInv
<1>7. MemosInv(pathParams)' /\ Endpoints' = Endpoints
  BY <1>1, SamePaths DEF PathsIInv
<1>8. ASSUME document # "none" PROVE Rendering'
  <2>1. /\ Held(memo, items) /\ Fresh(memo, items)
        /\ \A e \in Endpoints : e <= reached /\ Shows(d, e) /\ RoutesTo(e) # {} => ShownFor(memo, items, e, d)
    BY <1>2, <1>3, <1>4, <1>8 DEF PathsIInv, Rendering
  <2>2. /\ Held(memo, items)' /\ Fresh(memo, items)'
        /\ \A e \in Endpoints' : e <= reached /\ Shows(d, e)' /\ RoutesTo(e)' # {} => ShownFor(memo, items, e, d)'
    BY <1>1, <2>1, SamePaths
  <2>3. memo = pathParams' /\ items = paths' /\ d = document'
    BY <1>1, <1>2, <1>3, <1>4
  <2> QED
    BY <1>1, <2>2, <2>3 DEF Rendering
<1> QED
  BY <1>1, <1>6, <1>7, <1>8 DEF PathsIInv

\* Whatever documents are rendered, in whatever order and how often, what was
\* memoized fits the endpoints and every document shows those reached in it.
THEOREM PathsInvariant == PathsSpec => []PathsIInv
<1>1. PathsIInv /\ [PathsNext]_pathVars => PathsIInv'
  <2> SUFFICES ASSUME PathsIInv, [PathsNext]_pathVars PROVE PathsIInv'
    OBVIOUS
  <2>1. CASE pathApp = NoApp /\ \E a \in PathApps : DeclarePaths(a)
    BY <2>1, StepDeclare
  <2>2. CASE \E d \in PathDocs : BeginDocument(d)
    BY <2>2, StepBegin
  <2>3. CASE RenderPath
    BY <2>3, StepRender
  <2>4. CASE MissingRoute
    BY <2>4, StepMissing
  <2>5. CASE EndDocument
    BY <2>5, StepEnd
  <2>6. CASE UNCHANGED pathVars
    BY <2>6, StepPathsNothing
  <2> QED
    BY <2>1, <2>2, <2>3, <2>4, <2>5, <2>6 DEF PathsNext
<1> QED
  BY <1>1, PathsInitial, PTL DEF PathsSpec

\* Every variable of the paths of documents keeps its type.
THEOREM PathsAlwaysTyped == PathsSpec => []PathsTypeOK
<1>1. PathsIInv => PathsTypeOK
  <2> SUFFICES ASSUME PathsIInv PROVE PathsTypeOK
    OBVIOUS
  <2>1. \A d \in PathDocs : Len(openapi[d]) <= 1
    <3> SUFFICES ASSUME NEW d \in PathDocs PROVE Len(openapi[d]) <= 1
      OBVIOUS
    <3>1. CASE openapi[d] = <<>>
      BY <3>1
    <3>2. CASE openapi[d] # <<>>
      <4>1. PICK x : openapi[d] = <<x>>
        BY <3>2 DEF PathsIInv
      <4> QED
        BY <4>1
    <3> QED
      BY <3>1, <3>2
  <2>2. \A e \in Endpoints : EndpointAt(e).docs \subseteq PathDocs
    <3>1. CASE pathApp = NoApp
      BY <3>1 DEF NoApp, Endpoints
    <3>2. CASE pathApp \in PathApps
      BY <3>2, EndpointsAssumption DEF EndpointAt, Endpoints
    <3> QED
      BY <3>1, <3>2 DEF PathsIInv
  <2> QED
    BY <2>1, <2>2 DEF PathsIInv, PathsTypeOK
<1> QED
  BY <1>1, PathsInvariant, PTL

\* Every finished document shows each of its routed endpoints at the route that
\* getCurrentRouteConfig picks, with its placeholders, headers and queries, however
\* often the parameters that documents share were combined (app.ts, endpoint.ts).
THEOREM PathsAlwaysAsDeclared == PathsSpec => []PathsAsDeclared
<1>1. PathsIInv => PathsAsDeclared
  <2> SUFFICES ASSUME PathsIInv, NEW d \in PathDocs, openapi[d] # <<>>
               PROVE  /\ \A e \in Endpoints : Shows(d, e) /\ RoutesTo(e) # {} =>
                            \E r \in {pathApp.routes[i] : i \in RoutesTo(e)} :
                               /\ r.path \in DOMAIN openapi[d][1] /\ ShownAt(e, r, d)
                               /\ (EndpointAt(e).action[2] = "update"
                                   /\ \E i \in RoutesTo(e) : pathApp.routes[i].method = "patch")
                                     => r.method = "patch"
                      /\ \A path \in DOMAIN openapi[d][1] :
                            \A name \in DOMAIN openapi[d][1][path].parameters :
                               Now(openapi[d][1][path].parameters[name], name).described
                                 \in {NoEndpoint} \cup OnPath(path)
    BY DEF PathsAsDeclared
  <2>1. Loaded /\ Rendered(d) /\ MemosInv(pathParams)
    BY LoadedApp DEF PathsIInv
  <2>2. PICK items : items = openapi[d][1]
    OBVIOUS
  <2>3. ASSUME NEW e \in Endpoints, Shows(d, e), RoutesTo(e) # {}
        PROVE  \E r \in {pathApp.routes[i] : i \in RoutesTo(e)} :
                  /\ r.path \in DOMAIN items /\ ShownAt(e, r, d)
                  /\ (EndpointAt(e).action[2] = "update"
                      /\ \E i \in RoutesTo(e) : pathApp.routes[i].method = "patch") => r.method = "patch"
    <3>1. PICK r : r = CurrentRoute(e)
      OBVIOUS
    <3>2. /\ r \in {pathApp.routes[i] : i \in RoutesTo(e)}
          /\ (EndpointAt(e).action[2] = "update"
              /\ \E i \in RoutesTo(e) : pathApp.routes[i].method = "patch") => r.method = "patch"
      BY <2>1, <2>3, <3>1, RouteOf
    <3>3. PICK item : item = items[r.path]
      OBVIOUS
    <3>4. PICK now : now = [name \in DOMAIN item.parameters |-> NowIn(pathParams, item.parameters[name], name)]
      OBVIOUS
    <3>5. /\ r.path \in DOMAIN items /\ r.method \in DOMAIN item.operations
          /\ item.operations[r.method] \in {f \in OnPath(r.path) : CurrentRoute(f).method = r.method}
          /\ Shown(now, e, d, r.path)
      BY <2>1, <2>2, <2>3, <3>1, <3>3, <3>4 DEF Rendered, ShownFor, ShownOn
    <3>6. now = [name \in DOMAIN item.parameters |-> Now(item.parameters[name], name)]
      BY <3>4 DEF NowIn, Now
    <3>7. /\ \A name \in Placeholders(r.path) :
               /\ name \in DOMAIN now
               /\ Namesakes(name, r.path) = {} =>
                    /\ now[name].in = "path" /\ now[name].required = "yes"
                    /\ name \in EndpointAt(e).describes => now[name].described # NoEndpoint
          /\ \A p \in Own(e, d) :
               /\ p.name \in DOMAIN now
               /\ p.required = "yes" /\ (\A n \in Namesakes(p.name, r.path) : n.required # "no")
                    => now[p.name].required = "yes"
      BY <3>5 DEF Shown, HasNo
    <3>8. ShownAt(e, r, d)
      BY <2>2, <3>3, <3>5, <3>6, <3>7 DEF ShownAt
    <3> QED
      BY <3>2, <3>5, <3>8
  <2>4. ASSUME NEW path \in DOMAIN items, NEW name \in DOMAIN items[path].parameters
        PROVE  Now(items[path].parameters[name], name).described \in {NoEndpoint} \cup OnPath(path)
    <3>1. PICK p : p = items[path].parameters[name]
      OBVIOUS
    <3>2. CASE p.in = "path"
      <4>1. p.of \in OnPath(path) /\ pathParams[p.of] # <<>> /\ name \in Placeholders(path)
        BY <2>1, <2>2, <2>4, <3>1, <3>2 DEF Rendered, Held, Links
      <4>2. p.of \in Endpoints /\ CurrentRoute(p.of).path = path
        BY <4>1 DEF OnPath
      <4>3. MemoGood(p.of, pathParams[p.of][1])
        BY <2>1, <4>1, <4>2 DEF MemosInv
      <4>4. Allowed(pathParams[p.of][1][name], name, path)
        BY <4>1, <4>2, <4>3 DEF MemoGood, Good
      <4> QED
        BY <3>1, <3>2, <4>4 DEF Now, Allowed
    <3>3. CASE p.in # "path"
      BY <2>1, <2>2, <2>4, <3>1, <3>3 DEF Rendered, Held, Good, Allowed, Now
    <3> QED
      BY <3>2, <3>3
  <2> QED
    BY <2>2, <2>3, <2>4
<1> QED
  BY <1>1, PathsInvariant, PTL

(***************************************************************************)
(* Request bodies: what an expansion shows is what the enum collector is   *)
(* told, and it writes back only below the properties of an object         *)
(***************************************************************************)

\* A segment that can be expanded: a tree whose models are known, and which shows no
\* column yet.
Expandable(t) == DeclaredTree(t) /\ \A p \in ModelNodes(t) : t[p].model \in DOMAIN Columns

LEMMA TreeFacts ==
  ASSUME NEW t, DeclaredTree(t)
  PROVE  /\ <<>> \in DOMAIN t
         /\ \A p \in DOMAIN t :
              /\ p \in Seq(STRING) /\ (p # <<>> => <<p[1]>> \in DOMAIN t)
              /\ t[p].is # "column" /\ t[p].is # "no body"
<1>1. \A p \in DOMAIN t : p \in Seq(STRING) /\ \A i \in 1..Len(p) : SubSeq(p, 1, i) \in DOMAIN t
  BY DEF DeclaredTree
<1>2. ASSUME NEW p \in DOMAIN t, p # <<>> PROVE <<p[1]>> \in DOMAIN t
  <2>1. p \in Seq(STRING) /\ 1 \in 1..Len(p)
    BY <1>1, <1>2
  <2>2. SubSeq(p, 1, 1) = <<p[1]>> \o SubSeq(p, 2, 1)
    BY <2>1, SubSeqRecursiveFirst
  <2>3. SubSeq(p, 2, 1) = <<>>
    BY SubSeqEmpty
  <2>4. <<p[1]>> \o <<>> = <<p[1]>>
    BY <2>1
  <2> QED
    BY <1>1, <2>1, <2>2, <2>3, <2>4
<1>3. \A p \in DOMAIN t : t[p].is \in {"leaf", "holder", "object", "for"}
  BY DEF DeclaredTree
<1>4. \A p \in DOMAIN t : t[p].is # "column" /\ t[p].is # "no body"
  BY <1>3
<1>5. <<>> \in DOMAIN t
  BY DEF DeclaredTree
<1> QED
  BY <1>1, <1>2, <1>4, <1>5

LEMMA AppendEnds ==
  ASSUME NEW S, NEW q \in Seq(S), NEW c \in S
  PROVE  Front(Append(q, c)) = q /\ Last(Append(q, c)) = c
<1>1. Len(Append(q, c)) = Len(q) + 1 /\ Append(q, c)[Len(q) + 1] = c /\ Len(q) \in Nat
  BY AppendProperties
<1>2. Append(q, c) \in Seq(S)
  BY AppendProperties
<1>3. SubSeq(Append(q, c), 1, Len(q)) = q
  <2>1. CASE q = <<>>
    BY <1>1, <2>1, SubSeqEmpty
  <2>2. CASE q # <<>>
    <3>1. Append(q, c) = q \o <<c>> /\ <<c>> \in Seq(S)
      BY AppendIsConcat
    <3>2. 1 \in 1..Len(q) /\ Len(q) \in 1..Len(q)
      BY <2>2
    <3>3. SubSeq(q \o <<c>>, 1, Len(q)) = SubSeq(q, 1, Len(q))
      BY <3>1, <3>2, SubSeqOfConcat1
    <3>4. SubSeq(q, 1, Len(q)) = q
      BY SubSeqFull
    <3> QED
      BY <3>1, <3>3, <3>4
  <2> QED
    BY <2>1, <2>2
<1>4. Len(Append(q, c)) - 1 = Len(q)
  BY <1>1
<1>5. Front(Append(q, c)) = q
  BY <1>3, <1>4 DEF Front
<1>6. Last(Append(q, c)) = c
  BY <1>1 DEF Last
<1> QED
  BY <1>5, <1>6

\* The declaration of an endpoint, with its own model in place.
LEMMA ResolvedKeeps ==
  ASSUME NEW e \in Bodies
  PROVE  LET t == e.segment IN
         /\ Resolved(e, t) = [p \in DOMAIN t |-> Resolved(e, t)[p]]
         /\ DOMAIN Resolved(e, t) = DOMAIN t
         /\ \A p \in DOMAIN t : /\ Resolved(e, t)[p].is = t[p].is
                                /\ p # <<>> => Resolved(e, t)[p] = t[p]
<1> DEFINE t == e.segment
<1>1. Resolved(e, t) = [p \in DOMAIN t |->
        IF p = <<>> /\ t[p].is = "for" /\ t[p].model = "own"
        THEN For(e.own, t[p].given, t[p].only, t[p].including) ELSE t[p]]
  BY DEF Resolved
<1>2. \A p \in DOMAIN t : Resolved(e, t)[p].is = t[p].is
  BY <1>1 DEF For
<1> QED
  BY <1>1, <1>2

LEMMA ResolvedExpands ==
  ASSUME NEW e \in Bodies, NEW legacy, ExpandsBody(e, e.segment, legacy)
  PROVE  Expandable(Resolved(e, e.segment))
<1> DEFINE t == e.segment
           r == Resolved(e, t)
<1>a. DeclaredTree(t) /\ e.own \in DOMAIN Columns \cup {"none"}
  BY BodiesAssumption
<1>b. \A p \in DOMAIN t :
         t[p].is = "for" => t[p].model \in DOMAIN Columns \/ (p = <<>> /\ t[p].model = "own")
  BY <1>a DEF DeclaredTree
<1>c. <<>> \in DOMAIN t
  BY <1>a, TreeFacts
<1>2. /\ r = [p \in DOMAIN t |-> r[p]] /\ DOMAIN r = DOMAIN t
      /\ \A p \in DOMAIN t : r[p].is = t[p].is /\ (p # <<>> => r[p] = t[p])
  BY ResolvedKeeps
<1>3. t[<<>>].is = "for" => r[<<>>].model # "none"
  BY DEF ExpandsBody
<1>4. r[<<>>] = IF t[<<>>].is = "for" /\ t[<<>>].model = "own"
                THEN For(e.own, t[<<>>].given, t[<<>>].only, t[<<>>].including) ELSE t[<<>>]
  BY <1>c DEF Resolved
<1>5. r[<<>>].is = "for" => r[<<>>].model \in DOMAIN Columns
  <2>1. CASE t[<<>>].is = "for" /\ t[<<>>].model = "own"
    <3>1. r[<<>>].model = e.own
      BY <1>4, <2>1 DEF For
    <3> QED
      BY <1>a, <1>3, <2>1, <3>1
  <2>2. CASE ~(t[<<>>].is = "for" /\ t[<<>>].model = "own")
    BY <1>b, <1>c, <1>4, <2>2
  <2> QED
    BY <2>1, <2>2
<1>6. \A p \in DOMAIN r : r[p].is = "for" => r[p].model \in DOMAIN Columns
  <2> SUFFICES ASSUME NEW p \in DOMAIN t, r[p].is = "for" PROVE r[p].model \in DOMAIN Columns
    BY <1>2
  <2>1. CASE p = <<>>
    BY <1>5, <2>1
  <2>2. CASE p # <<>>
    BY <1>b, <1>2, <2>2
  <2> QED
    BY <2>1, <2>2
<1> HIDE DEF t, r
<1>7. DeclaredTree(r)
  <2>1. r = [p \in DOMAIN r |-> r[p]]
    BY <1>2
  <2>2. \A p \in DOMAIN r :
           /\ p \in Seq(STRING) /\ \A i \in 1..Len(p) : SubSeq(p, 1, i) \in DOMAIN r
           /\ r[p].is \in {"leaf", "holder", "object", "for"}
    BY <1>a, <1>2 DEF DeclaredTree
  <2>3. <<>> \in DOMAIN r
    BY <1>c, <1>2
  <2>4. \A p \in DOMAIN r :
           /\ p \in Seq(STRING) /\ \A i \in 1..Len(p) : SubSeq(p, 1, i) \in DOMAIN r
           /\ r[p].is \in {"leaf", "holder", "object", "for"}
           /\ r[p].is = "for" => r[p].model \in DOMAIN Columns \/ (p = <<>> /\ r[p].model = "own")
    BY <1>6, <2>2
  <2> QED
    BY <2>1, <2>3, <2>4 DEF DeclaredTree
<1>8. Expandable(r)
  BY <1>6, <1>7 DEF Expandable, ModelNodes
<1> QED
  BY <1>8 DEF r, t

\* An expansion shows the enums that the collector was told, and no model is left.
LEMMA ExpansionShows ==
  ASSUME NEW t, NEW legacy, Expandable(t)
  PROVE  ShownEnums(Expanded(t, legacy)) = Collected(t, legacy)
<1> DEFINE x == Expanded(t, legacy)
           new == UNION {{Append(q, c) : c \in ModelColumns(t[q], legacy)} : q \in ModelNodes(t)}
<1>1. x = [p \in DOMAIN t \cup new |->
              IF p \notin DOMAIN t THEN Column(t[Front(p)].model, Last(p))
              ELSE IF p \in ModelNodes(t) THEN Object ELSE t[p]]
  BY DEF Expanded, Shape
<1>2. ModelNodes(t) \subseteq DOMAIN t /\ \A q \in ModelNodes(t) : q \in Seq(STRING)
  BY TreeFacts DEF ModelNodes, Expandable
<1>3. \A q \in ModelNodes(t) : ModelColumns(t[q], legacy) \subseteq STRING
  BY <1>2, BodiesAssumption DEF ModelColumns, ModelNodes, Expandable
<1>4. \A q \in ModelNodes(t) : \A c \in ModelColumns(t[q], legacy) :
         Front(Append(q, c)) = q /\ Last(Append(q, c)) = c
  BY <1>2, <1>3, AppendEnds
<1>5. \A p \in DOMAIN t : x[p].is # "column"
  <2>1. \A p \in DOMAIN t : x[p] \in {Object, t[p]}
    BY <1>1
  <2>2. Object.is # "column"
    BY DEF Object
  <2>3. \A p \in DOMAIN t : t[p].is # "column"
    BY TreeFacts DEF Expandable
  <2> QED
    BY <2>1, <2>2, <2>3
<1>6. \A q \in ModelNodes(t) : \A c \in ModelColumns(t[q], legacy) :
         Append(q, c) \notin DOMAIN t =>
            /\ Append(q, c) \in DOMAIN x /\ x[Append(q, c)] = Column(t[q].model, c)
  BY <1>1, <1>4
<1>7. \A p \in DOMAIN x : x[p].is = "column" =>
         \E q \in ModelNodes(t) : \E c \in ModelColumns(t[q], legacy) :
            p = Append(q, c) /\ p \notin DOMAIN t
  BY <1>1, <1>5
<1> HIDE DEF x, new
<1>8. Collected(t, legacy) \subseteq ShownEnums(x)
  <2> SUFFICES ASSUME NEW q \in ModelNodes(t), NEW c \in ModelColumns(t[q], legacy),
                      Append(q, c) \notin DOMAIN t, c \in DOMAIN EnumTypes[t[q].model]
               PROVE  EnumTypes[t[q].model][c] \in ShownEnums(x)
    BY DEF Collected, Enums
  <2>1. Append(q, c) \in DOMAIN x /\ x[Append(q, c)] = Column(t[q].model, c)
    BY <1>6
  <2>2. /\ x[Append(q, c)].is = "column" /\ x[Append(q, c)].model = t[q].model
        /\ x[Append(q, c)].column = c
    BY <2>1 DEF Column
  <2>3. EnumTypes[t[q].model][c] \in Enums(t[q].model, {c})
    BY DEF Enums
  <2> QED
    BY <2>1, <2>2, <2>3 DEF ShownEnums
<1>9. ShownEnums(x) \subseteq Collected(t, legacy)
  <2> SUFFICES ASSUME NEW p \in DOMAIN x, x[p].is = "column",
                      NEW n \in Enums(x[p].model, {x[p].column})
               PROVE  n \in Collected(t, legacy)
    BY DEF ShownEnums
  <2>a. PICK q \in ModelNodes(t) : \E c \in ModelColumns(t[q], legacy) :
           p = Append(q, c) /\ p \notin DOMAIN t
    BY <1>7
  <2>1. PICK c \in ModelColumns(t[q], legacy) : p = Append(q, c) /\ p \notin DOMAIN t
    BY <2>a
  <2>b. x[p] = Column(t[q].model, c)
    BY <1>6, <2>1
  <2>2. x[p].model = t[q].model /\ x[p].column = c
    BY <2>b DEF Column
  <2>3. n = EnumTypes[t[q].model][c] /\ c \in DOMAIN EnumTypes[t[q].model]
    BY <2>2 DEF Enums
  <2>4. n \in Enums(t[q].model, {d \in ModelColumns(t[q], legacy) : Append(q, d) \notin DOMAIN t})
    BY <2>1, <2>3 DEF Enums
  <2> QED
    BY <2>4 DEF Collected
<1> QED
  BY <1>8, <1>9 DEF x

\* What stands below a node of a rendering stands below the first field on its way.
LEMMA ExpansionIsTree ==
  ASSUME NEW t, NEW legacy, Expandable(t)
  PROVE  LET x == Expanded(t, legacy) IN
         /\ <<>> \in DOMAIN x
         /\ \A p \in DOMAIN x : p # <<>> => <<p[1]>> \in DOMAIN x
<1> DEFINE x == Expanded(t, legacy)
<1>1. DOMAIN x = DOMAIN t
          \cup UNION {{Append(q, c) : c \in ModelColumns(t[q], legacy)} : q \in ModelNodes(t)}
  BY DEF Expanded, Shape
<1>2. \A q \in DOMAIN t : q \in Seq(STRING) /\ (q # <<>> => <<q[1]>> \in DOMAIN t)
  BY TreeFacts DEF Expandable
<1>3. \A q \in ModelNodes(t) : ModelColumns(t[q], legacy) \subseteq STRING
  BY BodiesAssumption DEF ModelColumns, ModelNodes, Expandable
<1>4. \A q \in ModelNodes(t) : \A c \in ModelColumns(t[q], legacy) : <<Append(q, c)[1]>> \in DOMAIN x
  <2> SUFFICES ASSUME NEW q \in ModelNodes(t), NEW c \in ModelColumns(t[q], legacy)
               PROVE  <<Append(q, c)[1]>> \in DOMAIN x
    OBVIOUS
  <2>1. q \in DOMAIN t /\ q \in Seq(STRING) /\ c \in STRING
    BY <1>2, <1>3 DEF ModelNodes
  <2>2. Append(q, c) \in DOMAIN x
    BY <1>1
  <2>3. CASE q = <<>>
    <3>1. <<Append(q, c)[1]>> = Append(q, c)
      BY <2>1, <2>3
    <3> QED
      BY <2>2, <3>1
  <2>4. CASE q # <<>>
    <3>1. Append(q, c)[1] = q[1]
      BY <2>1, <2>4
    <3> QED
      BY <1>1, <1>2, <2>1, <2>4, <3>1
  <2> QED
    BY <2>3, <2>4
<1>5. <<>> \in DOMAIN x
  BY <1>1, TreeFacts DEF Expandable
<1> HIDE DEF x
<1>6. ASSUME NEW p \in DOMAIN x, p # <<>> PROVE <<p[1]>> \in DOMAIN x
  <2>1. CASE p \in DOMAIN t
    BY <1>1, <1>2, <1>6, <2>1
  <2>2. CASE p \notin DOMAIN t
    <3>1. PICK q \in ModelNodes(t) : p \in {Append(q, c) : c \in ModelColumns(t[q], legacy)}
      BY <1>1, <2>2
    <3>2. PICK c \in ModelColumns(t[q], legacy) : p = Append(q, c)
      BY <3>1
    <3> QED
      BY <1>4, <3>2
  <2> QED
    BY <2>1, <2>2
<1> QED
  BY <1>5, <1>6 DEF x

LEMMA UnpagedShows ==
  ASSUME NEW e \in Bodies, NEW legacy
  PROVE  LET b == Unpaged(e, e.segment, legacy) IN
         /\ EnumsOfBody(e, e.segment, legacy) = ShownEnums(b)
         /\ <<>> \in DOMAIN b
         /\ \A p \in DOMAIN b : p # <<>> => <<p[1]>> \in DOMAIN b
<1> DEFINE t == e.segment
<1>1. CASE ExpandsBody(e, t, legacy)
  <2>1. Expandable(Resolved(e, t))
    BY <1>1, ResolvedExpands
  <2>2. Unpaged(e, t, legacy) = Expanded(Resolved(e, t), legacy)
    BY <1>1 DEF Unpaged
  <2>3. EnumsOfBody(e, t, legacy) = Collected(Resolved(e, t), legacy)
    BY <1>1 DEF EnumsOfBody
  <2> QED
    BY <2>1, <2>2, <2>3, ExpansionShows, ExpansionIsTree
<1>2. CASE ~ExpandsBody(e, t, legacy)
  <2>1. Unpaged(e, t, legacy) = NoBody /\ EnumsOfBody(e, t, legacy) = {}
    BY <1>2 DEF Unpaged, EnumsOfBody
  <2>2. DOMAIN NoBody = {<<>>} /\ NoBody[<<>>].is # "column"
    BY DEF NoBody, Segment
  <2>3. ShownEnums(NoBody) = {}
    BY <2>2 DEF ShownEnums
  <2> QED
    BY <2>1, <2>2, <2>3
<1> QED
  BY <1>1, <1>2

\* A page hides what stood in its field, and nothing else.
LEMMA PagedShows ==
  ASSUME NEW e, NEW b, <<>> \in DOMAIN b, \A p \in DOMAIN b : p # <<>> => <<p[1]>> \in DOMAIN b
  PROVE  /\ ShownEnums(Paged(e, b)) \subseteq ShownEnums(b)
         /\ ~(e.paged /\ <<"page">> \in DOMAIN b) => ShownEnums(Paged(e, b)) = ShownEnums(b)
<1>1. CASE ~(e.paged /\ b[<<>>].is \in {"no body", "object"})
  BY <1>1 DEF Paged
<1>2. CASE e.paged /\ b[<<>>].is \in {"no body", "object"}
  <2> DEFINE paged == Paged(e, b)
             kept == {q \in DOMAIN b : q # <<>> => q[1] # "page"}
  <2>1. paged = [p \in kept \cup {<<"page">>} |->
                    CASE p = <<>> -> Object [] p = <<"page">> -> Leaf [] OTHER -> b[p]]
    BY <1>2 DEF Paged
  <2>2. Object.is # "column" /\ Leaf.is # "column"
    BY DEF Object, Leaf
  <2>3. <<>> # <<"page">> /\ <<"page">> \notin kept
    OBVIOUS
  <2>4. \A p \in DOMAIN paged : paged[p].is = "column" => p \in DOMAIN b /\ paged[p] = b[p]
    BY <2>1, <2>2
  <2>5. \A p \in kept : p # <<>> => p \in DOMAIN paged /\ paged[p] = b[p]
    BY <2>1, <2>3
  <2>6. <<"page">> \notin DOMAIN b => kept = DOMAIN b
    OBVIOUS
  <2>7. b[<<>>].is # "column"
    BY <1>2
  <2> HIDE DEF paged, kept
  <2>8. ShownEnums(paged) \subseteq ShownEnums(b)
    BY <2>4 DEF ShownEnums
  <2>9. ASSUME <<"page">> \notin DOMAIN b PROVE ShownEnums(b) \subseteq ShownEnums(paged)
    <3>1. \A p \in DOMAIN b : b[p].is = "column" => p \in DOMAIN paged /\ paged[p] = b[p]
      BY <2>5, <2>6, <2>7, <2>9
    <3> QED
      BY <3>1 DEF ShownEnums
  <2> QED
    BY <1>2, <2>8, <2>9 DEF paged
<1> QED
  BY <1>1, <1>2

\* Rendering a body whose models are in place leaves it as it was written.
LEMMA InPlaceIsLeft ==
  ASSUME NEW e \in Bodies, NEW legacy, ModelsInPlace(e.segment)
  PROVE  LeftOfBody(e, e.segment, legacy) = e.segment
<1> DEFINE t == e.segment
           r == Resolved(e, t)
           left == Left(r, legacy)
<1>1. DeclaredTree(t)
  BY BodiesAssumption
<1>2. t = [p \in DOMAIN t |-> t[p]] /\ <<>> \in DOMAIN t
  BY <1>1 DEF DeclaredTree
<1>3. /\ r = [p \in DOMAIN t |-> r[p]] /\ DOMAIN r = DOMAIN t
      /\ \A p \in DOMAIN t : r[p].is = t[p].is /\ (p # <<>> => r[p] = t[p])
  BY ResolvedKeeps
<1>4. ModelNodes(r) = ModelNodes(t)
  BY <1>3 DEF ModelNodes
<1>5. Below(r, {"object"}) = {}
  <2>1. Below(t, {"object"}) = {}
    BY DEF ModelsInPlace
  <2> QED
    BY <1>3, <1>4, <2>1 DEF Below
<1>6. left = [p \in DOMAIN r |-> r[p]]
  <2>1. left = Shape(r, {}, legacy)
    BY <1>5 DEF Left
  <2>2. Shape(r, {}, legacy) = [p \in DOMAIN r |-> r[p]]
    BY DEF Shape
  <2> QED
    BY <2>1, <2>2
<1> HIDE DEF t, r, left
<1>7. [left EXCEPT ![<<>>] = t[<<>>]] = [p \in DOMAIN t |-> t[p]]
  BY <1>3, <1>6
<1>8. LeftOfBody(e, t, legacy) = IF ExpandsBody(e, t, legacy) THEN [left EXCEPT ![<<>>] = t[<<>>]] ELSE t
  BY DEF LeftOfBody, left, r
<1>9. LeftOfBody(e, t, legacy) = t
  BY <1>2, <1>7, <1>8
<1> QED
  BY <1>9 DEF t

\* No rendering leaves a model's params unexpanded.
LEMMA NoModelIsLeft ==
  ASSUME NEW e, NEW t, NEW legacy
  PROVE  ModelNodes(RequestBody(e, t, legacy)) = {}
<1> DEFINE b == Unpaged(e, t, legacy)
<1>1. \A p \in DOMAIN b : b[p].is # "for"
  <2>1. ASSUME NEW x PROVE \A p \in DOMAIN Expanded(x, legacy) : Expanded(x, legacy)[p].is # "for"
    <3> DEFINE z == Expanded(x, legacy)
    <3> SUFFICES ASSUME NEW p \in DOMAIN z PROVE z[p].is # "for"
      OBVIOUS
    <3>1. z[p] = IF p \notin DOMAIN x THEN Column(x[Front(p)].model, Last(p))
                 ELSE IF p \in ModelNodes(x) THEN Object ELSE x[p]
      BY DEF Expanded, Shape
    <3> QED
      BY <3>1 DEF Column, Object, ModelNodes
  <2>2. \A p \in DOMAIN NoBody : NoBody[p].is # "for"
    BY DEF NoBody, Segment
  <2> QED
    BY <2>1, <2>2 DEF Unpaged
<1> HIDE DEF b
<1>2. \A p \in DOMAIN Paged(e, b) : Paged(e, b)[p].is # "for"
  <2>1. CASE ~(e.paged /\ b[<<>>].is \in {"no body", "object"})
    BY <1>1, <2>1 DEF Paged
  <2>2. CASE e.paged /\ b[<<>>].is \in {"no body", "object"}
    <3>1. Paged(e, b) = [p \in {q \in DOMAIN b : q # <<>> => q[1] # "page"} \cup {<<"page">>} |->
                           CASE p = <<>> -> Object [] p = <<"page">> -> Leaf [] OTHER -> b[p]]
      BY <2>2 DEF Paged
    <3>2. Object.is # "for" /\ Leaf.is # "for"
      BY DEF Object, Leaf
    <3> QED
      BY <1>1, <3>1, <3>2
  <2> QED
    BY <2>1, <2>2
<1> QED
  BY <1>2 DEF RequestBody, ModelNodes, b

\* What the renderings of an application have left: nothing before the endpoint is
\* declared, no model unexpanded, and a declaration whose models are in place as it
\* was written.
InPlaceKept ==
    /\ requestBody = written.segment
    /\ \A d \in Documents :
         /\ rendered[d] \in {<<>>, <<RequestBody(written, written.segment, d \in Legacy)>>}
         /\ enumsFile[d] # NoFile =>
              /\ rendered[d] # <<>>
              /\ enumsFile[d] = EnumsOfBody(written, written.segment, d \in Legacy)
BodiesIInv ==
    /\ written \in Bodies \cup {NotYet}
    /\ DOMAIN rendered = Documents /\ DOMAIN enumsFile = Documents
    /\ written = NotYet =>
         /\ requestBody = Segment(Leaf)
         /\ \A d \in Documents : rendered[d] = <<>> /\ enumsFile[d] = NoFile
    /\ \A d \in Documents : rendered[d] # <<>> =>
         \E body : rendered[d] = <<body>> /\ ModelNodes(body) = {}
    /\ written # NotYet /\ ModelsInPlace(written.segment) => InPlaceKept

\* A rendering of d, which may write the enums file of d.
RenderingOf(d) ==
    /\ written # NotYet /\ d \in Documents /\ Render(d)
    /\ enumsFile' \in {enumsFile,
          [enumsFile EXCEPT ![d] = EnumsOfBody(written, requestBody, d \in Legacy)]}

LEMMA RenderingKeeps ==
  ASSUME BodiesIInv, NEW d, RenderingOf(d)
  PROVE  BodiesIInv'
<1>1. written' = written /\ written \in Bodies /\ d \in Documents /\ Documents' = Documents
  BY DEF RenderingOf, Render, BodiesIInv, Documents
<1>2. /\ DOMAIN rendered = Documents
      /\ rendered' = [rendered EXCEPT ![d] = <<RequestBody(written, requestBody, d \in Legacy)>>]
  BY DEF RenderingOf, Render, BodiesIInv
<1>3. requestBody' = LeftOfBody(written, requestBody, d \in Legacy)
  BY DEF RenderingOf, Render
<1>4. /\ DOMAIN enumsFile = Documents
      /\ \/ enumsFile' = enumsFile
         \/ enumsFile' = [enumsFile EXCEPT ![d] = EnumsOfBody(written, requestBody, d \in Legacy)]
  BY DEF RenderingOf, BodiesIInv
<1>5. DOMAIN rendered' = Documents /\ DOMAIN enumsFile' = Documents
  BY <1>2, <1>4
<1>6. ASSUME NEW f \in Documents, rendered'[f] # <<>>
      PROVE  \E body : rendered'[f] = <<body>> /\ ModelNodes(body) = {}
  <2>1. CASE f = d
    <3>1. rendered'[f] = <<RequestBody(written, requestBody, d \in Legacy)>>
      BY <1>2, <2>1
    <3> QED
      BY <3>1, NoModelIsLeft
  <2>2. CASE f # d
    <3>1. rendered'[f] = rendered[f]
      BY <1>2, <2>2
    <3> QED
      BY <1>6, <3>1 DEF BodiesIInv
  <2> QED
    BY <2>1, <2>2
<1>7. ASSUME ModelsInPlace(written.segment) PROVE InPlaceKept'
  <2>1. InPlaceKept
    BY <1>7 DEF BodiesIInv, RenderingOf
  <2>2. requestBody = written.segment
    BY <2>1 DEF InPlaceKept
  <2>3. requestBody' = written.segment
    BY <1>1, <1>3, <1>7, <2>2, InPlaceIsLeft
  <2>4. ASSUME NEW f \in Documents
        PROVE  /\ rendered'[f] \in {<<>>, <<RequestBody(written, written.segment, f \in Legacy)>>}
               /\ enumsFile'[f] # NoFile =>
                    /\ rendered'[f] # <<>>
                    /\ enumsFile'[f] = EnumsOfBody(written, written.segment, f \in Legacy)
    <3>1. /\ rendered[f] \in {<<>>, <<RequestBody(written, written.segment, f \in Legacy)>>}
          /\ enumsFile[f] # NoFile =>
               /\ rendered[f] # <<>>
               /\ enumsFile[f] = EnumsOfBody(written, written.segment, f \in Legacy)
      BY <2>1 DEF InPlaceKept
    <3>2. CASE f = d
      <4>1. rendered'[f] = <<RequestBody(written, written.segment, f \in Legacy)>>
        BY <1>2, <2>2, <3>2
      <4>2. enumsFile'[f] \in {enumsFile[f], EnumsOfBody(written, written.segment, f \in Legacy)}
        BY <1>4, <2>2, <3>2
      <4>3. rendered'[f] # <<>>
        BY <4>1
      <4> QED
        BY <3>1, <4>1, <4>2, <4>3
    <3>3. CASE f # d
      <4>1. rendered'[f] = rendered[f] /\ enumsFile'[f] = enumsFile[f]
        BY <1>2, <1>4, <3>3
      <4> QED
        BY <3>1, <4>1
    <3> QED
      BY <3>2, <3>3
  <2> QED
    BY <1>1, <2>3, <2>4 DEF InPlaceKept
<1>8. written' \in Bodies \cup {NotYet} /\ written' # NotYet
  BY <1>1 DEF RenderingOf
<1> QED
  BY <1>1, <1>5, <1>6, <1>7, <1>8 DEF BodiesIInv

\* However a body is rendered, and for however many documents, a declaration whose
\* models are in place is left as it was written, no rendering holds an unexpanded
\* model, and an enums file has what the expansion told the collector (endpoint.ts,
\* body-segment.ts).
THEOREM BodiesInvariant == BodySpec => []BodiesIInv
<1>1. BodyInit => BodiesIInv
  <2> SUFFICES ASSUME BodyInit PROVE BodiesIInv
    OBVIOUS
  <2>1. /\ written = NotYet /\ requestBody = Segment(Leaf)
        /\ rendered = [d \in Documents |-> <<>>] /\ enumsFile = [d \in Documents |-> NoFile]
    BY DEF BodyInit
  <2> QED
    BY <2>1 DEF BodiesIInv
<1>2. BodiesIInv /\ [BodyNext]_bodyVars => BodiesIInv'
  <2> SUFFICES ASSUME BodiesIInv, [BodyNext]_bodyVars PROVE BodiesIInv'
    OBVIOUS
  <2>1. ASSUME NEW e \in Bodies, DeclareBody(e) PROVE BodiesIInv'
    <3>1. /\ written' = e /\ requestBody' = e.segment
          /\ rendered' = rendered /\ enumsFile' = enumsFile /\ Documents' = Documents
      BY <2>1 DEF DeclareBody, Documents
    <3>2. /\ DOMAIN rendered = Documents /\ DOMAIN enumsFile = Documents
          /\ \A d \in Documents : rendered[d] = <<>> /\ enumsFile[d] = NoFile
      BY <2>1 DEF DeclareBody, BodiesIInv
    <3>3. e # NotYet
      BY BodiesAssumption
    <3>4. InPlaceKept'
      BY <3>1, <3>2 DEF InPlaceKept
    <3> QED
      BY <3>1, <3>2, <3>3, <3>4 DEF BodiesIInv
  <2>2. CASE CacheDocument
    <3>1. PICK i \in DOMAIN DocNames : Render(DocNames[i])
      BY <2>2 DEF CacheDocument
    <3>2. DocNames[i] \in Documents
      BY <3>1 DEF Documents, ToSet
    <3>3. RenderingOf(DocNames[i])
      BY <2>2, <3>1, <3>2 DEF CacheDocument, RenderingOf
    <3> QED
      BY <3>3, RenderingKeeps
  <2>3. ASSUME NEW d \in Documents, RenderAgain(d) \/ WriteEnums(d) PROVE BodiesIInv'
    <3>1. rendered[d] # <<>>
      BY <2>3 DEF RenderAgain, WriteEnums, Cached
    <3>2. written # NotYet
      BY <3>1 DEF BodiesIInv
    <3>3. RenderingOf(d)
      BY <2>3, <3>2 DEF RenderAgain, WriteEnums, RenderingOf
    <3> QED
      BY <3>3, RenderingKeeps
  <2>4. CASE UNCHANGED bodyVars
    BY <2>4 DEF bodyVars, BodiesIInv, InPlaceKept, Documents
  <2> QED
    BY <2>1, <2>2, <2>3, <2>4 DEF BodyNext
<1> QED
  BY <1>1, <1>2, PTL DEF BodySpec

\* Every variable of the request bodies keeps its type, and no rendering holds an
\* unexpanded model.
THEOREM BodiesAlwaysTyped == BodySpec => []BodyTypeOK
<1>1. BodiesIInv => BodyTypeOK
  <2> SUFFICES ASSUME BodiesIInv PROVE BodyTypeOK
    OBVIOUS
  <2>1. \/ written = NotYet /\ requestBody = Segment(Leaf)
        \/ {written.writes, written.declares, written.required, written.paged} \subseteq BOOLEAN
    BY BodiesAssumption DEF BodiesIInv
  <2>2. ASSUME NEW d \in Documents
        PROVE  Len(rendered[d]) <= 1 /\ \A i \in DOMAIN rendered[d] : ModelNodes(rendered[d][i]) = {}
    <3>1. CASE rendered[d] = <<>>
      BY <3>1
    <3>2. CASE rendered[d] # <<>>
      <4>1. PICK body : rendered[d] = <<body>> /\ ModelNodes(body) = {}
        BY <3>2 DEF BodiesIInv
      <4> QED
        BY <4>1
    <3> QED
      BY <3>1, <3>2
  <2> QED
    BY <2>1, <2>2 DEF BodyTypeOK, BodiesIInv
<1> QED
  BY <1>1, BodiesInvariant, PTL

\* A body whose models stand at its top, in `combining` or in arrays and combinators
\* is the same in every rendering of a document, and the document's enums file has
\* the enums that it shows (parseObjectPropertyStatement, OpenapiEnumCollector).
THEOREM ModelBodiesAlwaysStable == BodySpec => []ModelBodiesStable
<1>1. BodiesIInv => ModelBodiesStable
  <2> SUFFICES ASSUME BodiesIInv, written # NotYet, ModelsInPlace(written.segment),
                      NEW d \in Documents
               PROVE  LET legacy == d \in Legacy IN
                      /\ rendered[d] \in {<<>>, <<RequestBody(written, written.segment, legacy)>>}
                      /\ enumsFile[d] # NoFile =>
                           /\ rendered[d] # <<>> /\ ShownEnums(rendered[d][1]) \subseteq enumsFile[d]
                           /\ ~(written.paged
                                /\ <<"page">> \in DOMAIN Unpaged(written, written.segment, legacy))
                                => enumsFile[d] = ShownEnums(rendered[d][1])
    BY DEF ModelBodiesStable
  <2> DEFINE b == Unpaged(written, written.segment, d \in Legacy)
  <2>1. InPlaceKept /\ written \in Bodies
    BY DEF BodiesIInv
  <2>2. /\ rendered[d] \in {<<>>, <<Paged(written, b)>>}
        /\ enumsFile[d] # NoFile =>
             rendered[d] # <<>> /\ enumsFile[d] = EnumsOfBody(written, written.segment, d \in Legacy)
    BY <2>1 DEF InPlaceKept, RequestBody
  <2>3. /\ EnumsOfBody(written, written.segment, d \in Legacy) = ShownEnums(b)
        /\ ShownEnums(Paged(written, b)) \subseteq ShownEnums(b)
        /\ ~(written.paged /\ <<"page">> \in DOMAIN b) => ShownEnums(Paged(written, b)) = ShownEnums(b)
    <3>1. /\ EnumsOfBody(written, written.segment, d \in Legacy) = ShownEnums(b)
          /\ <<>> \in DOMAIN b /\ \A p \in DOMAIN b : p # <<>> => <<p[1]>> \in DOMAIN b
      BY <2>1, UnpagedShows
    <3> HIDE DEF b
    <3> QED
      BY <3>1, PagedShows
  <2>4. ASSUME enumsFile[d] # NoFile PROVE rendered[d][1] = Paged(written, b)
    BY <2>2, <2>4
  <2> QED
    BY <2>2, <2>3, <2>4 DEF RequestBody
<1> QED
  BY <1>1, BodiesInvariant, PTL
=============================================================================
