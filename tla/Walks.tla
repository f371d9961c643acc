-------------------------------- MODULE Walks --------------------------------
(***************************************************************************)
(* Definitions by recursion.  Every recursive function proved about here   *)
(* walks from an element to the one it depends on, until a root: from a    *)
(* class to its parent, or from a number to the one before.                *)
(***************************************************************************)
EXTENDS Integers, WellFoundedInduction, TLAPS

\* Sets of naturals have a least element.
LEMMA SmallestOf ==
  ASSUME NEW T \in SUBSET Nat, T # {}
  PROVE  \E m \in T : \A k \in T : m <= k
<1> DEFINE R == OpToRel(<, Nat)
<1>1. IsWellFoundedOn(R, Nat)
  BY NatLessThanWellFounded
<1>2. PICK m \in T : \A k \in T : <<k, m>> \notin R
  <2> HIDE DEF R
  <2> QED
    BY <1>1, WFMin
<1>3. \A k \in T : ~(k < m)
  BY <1>2 DEF OpToRel
<1> HIDE DEF R
<1> QED
  BY <1>3

\* A walk: from every element outside Roots, up leads to one of a lower rank.
Walk(D, Roots, up, rank) ==
    /\ rank \in [D -> Nat]
    /\ \A d \in D : d \notin Roots => up[d] \in D /\ rank[up[d]] < rank[d]

Bounded(D, rank) == \E n \in Nat : \A d \in D : rank[d] <= n

Closed(S, D, Roots, up) == \A d \in D : (d \in Roots \/ up[d] \in S) => d \in S

\* The function that begins with start at the roots, and takes a step from there.
Follows(f, D, Roots, up, start, step) ==
    \A d \in D : f[d] = IF d \in Roots THEN start[d] ELSE step[d][f[up[d]]]

\* A set that holds the roots, and an element whenever it holds the one it leads
\* to, holds them all.
LEMMA WalkInduction ==
  ASSUME NEW D, NEW Roots, NEW up, NEW rank, Walk(D, Roots, up, rank),
         NEW S, Closed(S, D, Roots, up)
  PROVE  D \subseteq S
<1> SUFFICES ASSUME NEW x \in D, x \notin S PROVE FALSE
  OBVIOUS
<1> DEFINE T == {rank[d] : d \in D \ S}
<1>1. T \in SUBSET Nat /\ T # {}
  BY DEF Walk
<1>2. PICK m \in T : \A k \in T : m <= k
  BY <1>1, SmallestOf
<1>3. PICK d \in D \ S : m = rank[d]
  OBVIOUS
<1>4. up[d] \in D \ S /\ rank[up[d]] < rank[d]
  BY DEF Walk, Closed
<1>5. m <= rank[up[d]] /\ rank[up[d]] \in Nat /\ m \in Nat
  BY <1>2, <1>4 DEF Walk
<1> QED
  BY <1>3, <1>4, <1>5

\* A function defined along a walk of bounded rank exists.
LEMMA WalkExists ==
  ASSUME NEW D, NEW Roots, NEW up, NEW rank, Walk(D, Roots, up, rank),
         Bounded(D, rank),
         NEW Z, NEW start \in [D -> Z], NEW step \in [D -> [Z -> Z]]
  PROVE  \E f \in [D -> Z] : Follows(f, D, Roots, up, start, step)
<1> DEFINE Obeys(f, d) == f[d] = IF d \in Roots THEN start[d] ELSE step[d][f[up[d]]]
           S == {m \in Nat : \E f \in [D -> Z] : \A d \in D : rank[d] <= m => Obeys(f, d)}
           prev == [m \in Nat |-> m - 1]
           self == [m \in Nat |-> m]
<1>1. 0 \in S
  <2>1. \A d \in D : rank[d] <= 0 => d \in Roots
    BY DEF Walk
  <2> QED
    BY <2>1
<1>2. ASSUME NEW m \in S PROVE m + 1 \in S
  <2>1. PICK f \in [D -> Z] : \A d \in D : rank[d] <= m => Obeys(f, d)
    OBVIOUS
  <2> DEFINE g == [d \in D |-> IF d \in Roots THEN start[d] ELSE step[d][f[up[d]]]]
  <2>2. g \in [D -> Z]
    BY DEF Walk
  <2>3. ASSUME NEW d \in D, rank[d] <= m + 1 PROVE Obeys(g, d)
    <3>1. CASE d \in Roots
      BY <3>1
    <3>2. CASE d \notin Roots
      <4>1. up[d] \in D /\ rank[up[d]] <= m
        BY <2>3, <3>2 DEF Walk
      <4>2. g[up[d]] = f[up[d]]
        BY <2>1, <4>1
      <4> QED
        BY <3>2, <4>2
    <3> QED
      BY <3>1, <3>2
  <2> HIDE DEF g, Obeys
  <2> QED
    BY <2>2, <2>3
<1>3. Walk(Nat, {0}, prev, self)
  BY DEF Walk
<1>4. Closed(S, Nat, {0}, prev)
  <2> HIDE DEF S
  <2> SUFFICES ASSUME NEW m \in Nat, m # 0, m - 1 \in S PROVE m \in S
    BY <1>1 DEF Closed
  <2>1. (m - 1) + 1 \in S
    BY <1>2
  <2> QED
    BY <2>1
<1>5. Nat \subseteq S
  <2> HIDE DEF S, prev, self
  <2> QED
    BY <1>3, <1>4, WalkInduction
<1>6. PICK n \in Nat : \A d \in D : rank[d] <= n
  BY DEF Bounded
<1>7. n \in S
  BY <1>5
<1>8. PICK f \in [D -> Z] : \A d \in D : rank[d] <= n => Obeys(f, d)
  BY <1>7
<1>9. Follows(f, D, Roots, up, start, step)
  BY <1>6, <1>8 DEF Follows
<1> QED
  BY <1>9

\* Counting down is a walk.
Before(n) == [i \in 0..n |-> i - 1]
LEMMA NumbersWalk ==
  ASSUME NEW n \in Nat
  PROVE  \E rank : Walk(0..n, {0}, Before(n), rank) /\ Bounded(0..n, rank)
<1> DEFINE rank == [i \in 0..n |-> i]
<1>1. Walk(0..n, {0}, Before(n), rank) /\ Bounded(0..n, rank)
  <2>1. Walk(0..n, {0}, Before(n), rank)
    BY DEF Walk, Before
  <2>2. Bounded(0..n, rank)
    BY DEF Bounded
  <2> QED
    BY <2>1, <2>2
<1> QED
  BY <1>1

=============================================================================
