--------------------------- MODULE RouterDsl_proofs ---------------------------
(***************************************************************************)
(* For any names, options and depths of nesting: every route of a routes   *)
(* callback is registered at the path its nesting means, and the routes    *)
(* of a resource's callback come before its own. What the nesting means    *)
(* is defined by recursion, so the proof first unfolds it, frame by        *)
(* frame; the invariant then keeps the routers in scope as every open      *)
(* call found them, which is what the call restores.                       *)
(***************************************************************************)
EXTENDS RouterDsl, Walks, SequenceTheorems

(***************************************************************************)
(* What a nesting means, frame by frame                                    *)
(***************************************************************************)

Given == RouteNames \cup {"id", "member", "leaf", "none"}
Segs == [seg : {"dir", "id", "idOf"}, name : Given]

\* The forms of what a frame adds to a path.
Forms == {<<>>} \cup {<<Dir(n)>> : n \in Given} \cup {<<Dir(n), Id>> : n \in Given}
                \cup {<<Dir(n), IdOf(n)>> : n \in Given}

LEMMA FormTypes ==
  ASSUME NEW n \in Given
  PROVE  Dir(n) \in Segs /\ Id \in Segs /\ IdOf(n) \in Segs
BY DEF Dir, Id, IdOf, Segs, Given

LEMMA FormsAreSeqs == Forms \subseteq Seq(Segs)
<1>1. <<>> \in Seq(Segs)
  OBVIOUS
<1>2. \A n \in Given : /\ <<Dir(n)>> \in Seq(Segs) /\ <<Dir(n), Id>> \in Seq(Segs)
                       /\ <<Dir(n), IdOf(n)>> \in Seq(Segs)
  BY FormTypes
<1> QED
  BY <1>1, <1>2, Zenon DEF Forms

\* What a frame adds before a collection takes the last of it away.
Whole(nest, i) ==
    CASE nest[i].kind = "collection" -> <<>>
      [] nest[i].kind = "resources" ->
            <<Dir(nest[i].name),
              IF \E j \in DOMAIN nest : j > i /\ nest[j].kind \in Resourceful
              THEN IdOf(nest[i].name) ELSE Id>>
      [] OTHER -> <<Dir(nest[i].name)>>
Collected(nest, i) ==
    nest[i].kind # "collection" /\ i < Len(nest) /\ nest[i + 1].kind = "collection"

LEMMA ContributionParts ==
  ASSUME NEW nest, NEW i
  PROVE  Contribution(nest, i) = IF Collected(nest, i) THEN Front(Whole(nest, i)) ELSE Whole(nest, i)
BY DEF Contribution, Collected, Whole

LEMMA FrontProperties ==
  ASSUME NEW S, NEW s \in Seq(S), s # <<>>
  PROVE  /\ Front(s) \in Seq(S) /\ Len(Front(s)) = Len(s) - 1
         /\ \A i \in 1..Len(s) - 1 : Front(s)[i] = s[i]
         /\ Len(s) \in Nat \ {0} /\ Last(s) = s[Len(s)] /\ Last(s) \in S
<1> DEFINE n == Len(s)
<1>1. n \in Nat \ {0}
  BY EmptySeq
<1>2. \A i \in 1..n - 1 : s[i] \in S
  BY <1>1, ElementOfSeq
<1>3. /\ SubSeq(s, 1, n - 1) \in Seq(S)
      /\ Len(SubSeq(s, 1, n - 1)) = IF 1 <= n - 1 THEN (n - 1) - 1 + 1 ELSE 0
      /\ \A i \in 1..(n - 1) - 1 + 1 : SubSeq(s, 1, n - 1)[i] = s[1 + i - 1]
  <2>1. 1 \in Int /\ n - 1 \in Int
    BY <1>1
  <2> HIDE DEF n
  <2> QED
    BY <1>2, <2>1, SubSeqProperties
<1>4. Front(s) = SubSeq(s, 1, n - 1) /\ Last(s) = s[n]
  BY Zenon DEF Front, Last
<1>5. s[n] \in S
  BY <1>1, ElementOfSeq
<1>6. \A m \in Nat \ {0} : /\ (m - 1) - 1 + 1 = m - 1 /\ (~(1 <= m - 1) => m - 1 = 0)
                           /\ \A i \in 1..m - 1 : 1 + i - 1 = i
  OBVIOUS
<1>7. Len(SubSeq(s, 1, n - 1)) = n - 1 /\ \A i \in 1..n - 1 : SubSeq(s, 1, n - 1)[i] = s[i]
  BY <1>1, <1>3, <1>6
<1> QED
  BY <1>1, <1>3, <1>4, <1>5, <1>7, Zenon

LEMMA FrontOfAppend ==
  ASSUME NEW S, NEW s \in Seq(S), NEW x \in S
  PROVE  Front(Append(s, x)) = s /\ Last(Append(s, x)) = x
<1>1. /\ Append(s, x) \in Seq(S) /\ Append(s, x) # <<>> /\ Len(Append(s, x)) = Len(s) + 1
      /\ \A i \in 1..Len(s) : Append(s, x)[i] = s[i]
      /\ Append(s, x)[Len(s) + 1] = x /\ Len(s) \in Nat
  BY AppendProperties, LenProperties
<1> DEFINE a == Append(s, x)
           f == Front(a)
<1>2. /\ f \in Seq(S) /\ Len(f) = Len(a) - 1 /\ \A i \in 1..Len(a) - 1 : f[i] = a[i]
      /\ Last(a) = a[Len(a)]
  <2> HIDE DEF a
  <2> QED
    BY <1>1, FrontProperties DEF a
<1> HIDE DEF a, f
<1>3. Len(a) = Len(s) + 1 /\ a[Len(s) + 1] = x /\ \A i \in 1..Len(s) : a[i] = s[i]
  BY <1>1 DEF a
<1>4. Len(f) = Len(s) /\ \A i \in 1..Len(f) : f[i] = s[i]
  BY <1>1, <1>2, <1>3
<1>5. f = s
  BY <1>2, <1>4, SeqEqual
<1> QED
  BY <1>2, <1>3, <1>5 DEF f, a

LEMMA FrontOfConcat ==
  ASSUME NEW S, NEW s \in Seq(S), NEW t \in Seq(S), t # <<>>
  PROVE  Front(s \o t) = s \o Front(t)
<1> DEFINE l == Front(s \o t)
           r == s \o Front(t)
<1>1. /\ s \o t \in Seq(S) /\ Len(s \o t) = Len(s) + Len(t)
      /\ \A i \in 1..Len(s) + Len(t) : (s \o t)[i] = IF i <= Len(s) THEN s[i] ELSE t[i - Len(s)]
      /\ Len(s) \in Nat /\ Len(t) \in Nat \ {0}
  BY ConcatProperties, LenProperties, EmptySeq
<1>2. s \o t # <<>>
  BY <1>1
<1>3. /\ Front(t) \in Seq(S) /\ Len(Front(t)) = Len(t) - 1
      /\ \A i \in 1..Len(t) - 1 : Front(t)[i] = t[i]
  BY FrontProperties
<1>4. /\ l \in Seq(S) /\ Len(l) = Len(s) + Len(t) - 1
      /\ \A i \in 1..Len(s) + Len(t) - 1 : l[i] = (s \o t)[i]
  <2> DEFINE c == s \o t
  <2>1. c \in Seq(S) /\ c # <<>> /\ Len(c) = Len(s) + Len(t)
    BY <1>1, <1>2
  <2> HIDE DEF c
  <2>2. Front(c) \in Seq(S) /\ Len(Front(c)) = Len(c) - 1 /\ \A i \in 1..Len(c) - 1 : Front(c)[i] = c[i]
    BY <2>1, FrontProperties
  <2> QED
    BY <2>1, <2>2 DEF c
<1>5. /\ r \in Seq(S) /\ Len(r) = Len(s) + Len(Front(t))
      /\ \A i \in 1..Len(s) + Len(Front(t)) : r[i] = IF i <= Len(s) THEN s[i] ELSE Front(t)[i - Len(s)]
  BY <1>3, ConcatProperties
<1> HIDE DEF l, r
<1>6. \A i \in 1..Len(l) : l[i] = r[i]
  <2> TAKE i \in 1..Len(l)
  <2>1. i \in 1..Len(s) + Len(t) /\ i \in 1..Len(s) + Len(Front(t)) /\ l[i] = (s \o t)[i]
    BY <1>1, <1>3, <1>4
  <2>2. CASE i <= Len(s)
    BY <1>1, <1>5, <2>1, <2>2
  <2>3. CASE ~(i <= Len(s))
    <3>1. i - Len(s) \in 1..Len(t) - 1
      BY <1>1, <1>4, <2>3
    <3> QED
      BY <1>1, <1>3, <1>5, <2>1, <2>3, <3>1
  <2> QED
    BY <2>2, <2>3
<1>7. Len(l) = Len(r)
  BY <1>1, <1>3, <1>4, <1>5
<1> QED
  BY <1>4, <1>5, <1>6, <1>7, SeqEqual DEF l, r

LEMMA FrontOfForm ==
  ASSUME NEW n \in Given, NEW x \in Segs
  PROVE  Front(<<Dir(n), x>>) = <<Dir(n)>> /\ Front(<<Dir(n)>>) = <<>>
<1>1. Dir(n) \in Segs /\ <<>> \in Seq(Segs) /\ <<Dir(n)>> \in Seq(Segs)
  BY FormTypes
<1>2. <<Dir(n), x>> = Append(<<Dir(n)>>, x) /\ <<Dir(n)>> = Append(<<>>, Dir(n))
  OBVIOUS
<1> QED
  BY <1>1, <1>2, FrontOfAppend

LEMMA ContributionForm ==
  ASSUME NEW nest \in Seq(Frames), NEW i \in 1..Len(nest)
  PROVE  Contribution(nest, i) \in Forms
<1> DEFINE n == nest[i].name
<1>1. n \in Given /\ nest[i].kind \in Kinds
  <2>1. nest[i] \in Frames
    OBVIOUS
  <2> QED
    BY <2>1 DEF Frames, Given
<1>2. Whole(nest, i) \in {<<>>, <<Dir(n)>>, <<Dir(n), Id>>, <<Dir(n), IdOf(n)>>}
  BY DEF Whole
<1>3. Collected(nest, i) => Whole(nest, i) \in {<<Dir(n)>>, <<Dir(n), Id>>, <<Dir(n), IdOf(n)>>}
  BY DEF Whole, Collected
<1>4. Collected(nest, i) => Front(Whole(nest, i)) \in {<<>>, <<Dir(n)>>}
  BY <1>1, <1>3, FrontOfForm, FormTypes
<1>5. {<<>>, <<Dir(n)>>, <<Dir(n), Id>>, <<Dir(n), IdOf(n)>>} \subseteq Forms
  BY <1>1 DEF Forms
<1> QED
  BY <1>2, <1>4, <1>5, ContributionParts

Room(cn) == MakeRoomForNewIdParam(cn)

LEMMA RoomTypes ==
  ASSUME NEW S, NEW N, S = [seg : {"dir", "id", "idOf"}, name : N], NEW s \in Seq(S)
  PROVE  /\ Room(s) \in Seq(S) /\ Len(Room(s)) = Len(s)
         /\ \A i \in 1..Len(s) :
               Room(s)[i] = IF s[i].seg = "id" /\ i > 1 THEN IdOf(s[i - 1].name) ELSE s[i]
<1> DEFINE e == [i \in 1..Len(s) |-> IF s[i].seg = "id" /\ i > 1 THEN IdOf(s[i - 1].name) ELSE s[i]]
<1>1. Len(s) \in Nat /\ \A i \in 1..Len(s) : s[i] \in S
  BY LenProperties, ElementOfSeq
<1>2. \A i \in 1..Len(s) : e[i] \in S
  <2> TAKE i \in 1..Len(s)
  <2>1. CASE s[i].seg = "id" /\ i > 1
    <3>1. s[i - 1] \in S
      BY <1>1, <2>1
    <3>2. IdOf(s[i - 1].name) \in S
      BY <3>1 DEF IdOf
    <3> QED
      BY <2>1, <3>2
  <2>2. CASE ~(s[i].seg = "id" /\ i > 1)
    BY <1>1, <2>2
  <2> QED
    BY <2>1, <2>2
<1>3. Room(s) = e
  BY Zenon DEF Room, MakeRoomForNewIdParam
<1>4. e \in [1..Len(s) -> S]
  BY <1>2
<1>5. e \in Seq(S) /\ Len(e) = Len(s)
  <2> HIDE DEF e
  <2> QED
    BY <1>1, <1>4
<1>6. \A i \in 1..Len(s) : e[i] = IF s[i].seg = "id" /\ i > 1 THEN IdOf(s[i - 1].name) ELSE s[i]
  BY Zenon
<1> HIDE DEF e
<1> QED
  BY <1>3, <1>5, <1>6

\* Room is made in what a frame adds apart from what comes before it.
LEMMA RoomOfForm ==
  ASSUME NEW n \in Given
  PROVE  /\ Room(<<>>) = <<>> /\ Room(<<Dir(n)>>) = <<Dir(n)>>
         /\ Room(<<Dir(n), Id>>) = <<Dir(n), IdOf(n)>>
         /\ Room(<<Dir(n), IdOf(n)>>) = <<Dir(n), IdOf(n)>>
<1>1. Room(<<>>) = <<>>
  BY DEF Room, MakeRoomForNewIdParam
<1>2. ASSUME NEW s \in Seq(Segs), NEW r \in Seq(Segs), Len(s) = Len(r),
             \A i \in 1..Len(s) : r[i] = IF s[i].seg = "id" /\ i > 1 THEN IdOf(s[i - 1].name) ELSE s[i]
      PROVE  Room(s) = r
  <2>1. /\ Room(s) \in Seq(Segs) /\ Len(Room(s)) = Len(s)
        /\ \A i \in 1..Len(s) :
              Room(s)[i] = IF s[i].seg = "id" /\ i > 1 THEN IdOf(s[i - 1].name) ELSE s[i]
    BY RoomTypes DEF Segs
  <2>2. \A i \in 1..Len(Room(s)) : Room(s)[i] = r[i]
    BY <1>2, <2>1
  <2> QED
    BY <1>2, <2>1, <2>2, SeqEqual
<1>3. Dir(n) \in Segs /\ Id \in Segs /\ IdOf(n) \in Segs
  BY FormTypes
<1>4. Dir(n).seg = "dir" /\ Id.seg = "id" /\ IdOf(n).seg = "idOf" /\ Dir(n).name = n
  BY DEF Dir, Id, IdOf
<1>5. Room(<<Dir(n)>>) = <<Dir(n)>>
  <2> DEFINE s == <<Dir(n)>>
  <2>1. s \in Seq(Segs) /\ Len(s) = 1 /\ s[1] = Dir(n)
    BY <1>3
  <2> HIDE DEF s
  <2>2. \A i \in 1..Len(s) : s[i] = IF s[i].seg = "id" /\ i > 1 THEN IdOf(s[i - 1].name) ELSE s[i]
    BY <1>4, <2>1
  <2> QED
    BY <1>2, <2>1, <2>2 DEF s
<1>6. ASSUME NEW x \in {Id, IdOf(n)} PROVE Room(<<Dir(n), x>>) = <<Dir(n), IdOf(n)>>
  <2> DEFINE s == <<Dir(n), x>>
             r == <<Dir(n), IdOf(n)>>
  <2>1. s \in Seq(Segs) /\ Len(s) = 2 /\ s[1] = Dir(n) /\ s[2] = x
    BY <1>3
  <2>2. r \in Seq(Segs) /\ Len(r) = 2 /\ r[1] = Dir(n) /\ r[2] = IdOf(n)
    BY <1>3
  <2> HIDE DEF s, r
  <2>3. \A i \in 1..Len(s) : r[i] = IF s[i].seg = "id" /\ i > 1 THEN IdOf(s[i - 1].name) ELSE s[i]
    <3>1. r[1] = s[1] /\ s[1].seg # "id"
      BY <1>4, <2>1, <2>2
    <3>2. r[2] = IF s[2].seg = "id" THEN IdOf(s[1].name) ELSE s[2]
      BY <1>4, <2>1, <2>2
    <3>3. \A i \in 1..Len(s) : (i = 1 \/ i = 2)
      BY <2>1
    <3> QED
      BY <3>1, <3>2, <3>3
  <2> QED
    BY <1>2, <2>1, <2>2, <2>3 DEF s, r
<1> QED
  BY <1>1, <1>5, <1>6

LEMMA RoomOfConcat ==
  ASSUME NEW s \in Seq(Segs), NEW c \in Forms
  PROVE  Room(s \o c) = Room(s) \o Room(c) /\ Room(c) \in Seq(Segs)
<1> DEFINE a == s \o c
           l == Room(a)
           m == Room(s)
           d == Room(c)
           r == m \o d
<1>0. c \in Seq(Segs)
  BY FormsAreSeqs
<1>1. /\ Len(s) \in Nat /\ Len(c) \in Nat /\ a \in Seq(Segs) /\ Len(a) = Len(s) + Len(c)
      /\ \A i \in 1..Len(s) + Len(c) : a[i] = IF i <= Len(s) THEN s[i] ELSE c[i - Len(s)]
  BY <1>0, ConcatProperties, LenProperties
<1>2. /\ m \in Seq(Segs) /\ Len(m) = Len(s)
      /\ \A i \in 1..Len(s) : m[i] = IF s[i].seg = "id" /\ i > 1 THEN IdOf(s[i - 1].name) ELSE s[i]
  BY RoomTypes DEF Segs
<1>3. /\ d \in Seq(Segs) /\ Len(d) = Len(c)
      /\ \A i \in 1..Len(c) : d[i] = IF c[i].seg = "id" /\ i > 1 THEN IdOf(c[i - 1].name) ELSE c[i]
  BY <1>0, RoomTypes DEF Segs
<1>4. /\ l \in Seq(Segs) /\ Len(l) = Len(a)
      /\ \A i \in 1..Len(a) : l[i] = IF a[i].seg = "id" /\ i > 1 THEN IdOf(a[i - 1].name) ELSE a[i]
  <2> HIDE DEF a
  <2> QED
    BY <1>1, RoomTypes DEF Segs
<1>5. /\ r \in Seq(Segs) /\ Len(r) = Len(m) + Len(d)
      /\ \A i \in 1..Len(m) + Len(d) : r[i] = IF i <= Len(m) THEN m[i] ELSE d[i - Len(m)]
  <2>1. m \in Seq(Segs) /\ d \in Seq(Segs)
    BY <1>2, <1>3
  <2> HIDE DEF m, d
  <2> QED
    BY <2>1, ConcatProperties
<1>9. /\ \A i \in 1..Len(s) : a[i] = s[i] /\ r[i] = m[i]
      /\ \A i \in 1..Len(s) + Len(c) : i > Len(s) =>
            i - Len(s) \in 1..Len(c) /\ a[i] = c[i - Len(s)] /\ r[i] = d[i - Len(s)]
  <2>1. Len(m) = Len(s) /\ Len(d) = Len(c)
    BY <1>2, <1>3
  <2> HIDE DEF a, m, d, r
  <2>2. \A i \in 1..Len(s) : a[i] = s[i] /\ r[i] = m[i]
    BY <1>1, <1>5, <2>1
  <2>3. ASSUME NEW i \in 1..Len(s) + Len(c), i > Len(s)
        PROVE  i - Len(s) \in 1..Len(c) /\ a[i] = c[i - Len(s)] /\ r[i] = d[i - Len(s)]
    BY <1>1, <1>5, <2>1, <2>3
  <2> QED
    BY <2>2, <2>3
<1>6. Len(c) >= 1 => c[1].seg # "id"
  <2>1. c = <<>> \/ \E n \in Given : c = <<Dir(n)>> \/ c = <<Dir(n), Id>> \/ c = <<Dir(n), IdOf(n)>>
    BY Zenon DEF Forms
  <2>2. c = <<>> \/ \E n \in Given : c[1] = Dir(n)
    BY <2>1
  <2>3. \A n \in Given : Dir(n).seg # "id"
    BY DEF Dir
  <2>4. Len(<<>>) = 0
    OBVIOUS
  <2> QED
    BY <2>2, <2>3, <2>4
<1> HIDE DEF a, l, m, d, r
<1>7. \A i \in 1..Len(l) : l[i] = r[i]
  <2> TAKE i \in 1..Len(l)
  <2>1. i \in 1..Len(s) + Len(c) /\ i \in 1..Len(a)
    BY <1>1, <1>4
  <2>a. l[i] = IF a[i].seg = "id" /\ i > 1 THEN IdOf(a[i - 1].name) ELSE a[i]
    BY <1>4, <2>1
  <2>2. CASE i <= Len(s)
    <3>1. i \in 1..Len(s) /\ (i > 1 => i - 1 \in 1..Len(s))
      BY <1>1, <2>1, <2>2
    <3>2. a[i] = s[i] /\ (i > 1 => a[i - 1] = s[i - 1]) /\ r[i] = m[i]
      BY <1>9, <3>1
    <3> QED
      BY <1>2, <2>a, <3>1, <3>2
  <2>3. CASE i = Len(s) + 1
    <3>1. i > Len(s) /\ i - Len(s) = 1
      BY <1>1, <2>3
    <3>2. 1 \in 1..Len(c) /\ a[i] = c[1] /\ r[i] = d[1]
      BY <1>9, <2>1, <3>1
    <3>3. d[1] = c[1] /\ c[1].seg # "id"
      BY <1>1, <1>3, <1>6, <3>2
    <3> QED
      BY <2>a, <3>2, <3>3
  <2>4. CASE i > Len(s) + 1
    <3>1. /\ i - Len(s) > 1 /\ i > 1 /\ (i - 1) - Len(s) = (i - Len(s)) - 1
          /\ i - 1 \in 1..Len(s) + Len(c) /\ i - 1 > Len(s) /\ i > Len(s)
      BY <1>1, <2>1, <2>4
    <3>2. i - Len(s) \in 1..Len(c) /\ a[i] = c[i - Len(s)] /\ r[i] = d[i - Len(s)]
      BY <1>9, <2>1, <3>1
    <3>3. a[i - 1] = c[(i - Len(s)) - 1]
      BY <1>9, <3>1
    <3>4. d[i - Len(s)] = IF c[i - Len(s)].seg = "id" THEN IdOf(c[(i - Len(s)) - 1].name) ELSE c[i - Len(s)]
      BY <1>3, <3>1, <3>2
    <3> QED
      BY <2>a, <3>1, <3>2, <3>3, <3>4
  <2> QED
    BY <1>1, <2>1, <2>2, <2>3, <2>4
<1>8. l = r
  <2>1. Len(l) = Len(r)
    BY <1>1, <1>2, <1>3, <1>4, <1>5
  <2> QED
    BY <1>4, <1>5, <1>7, <2>1, SeqEqual
<1> QED
  BY <1>3, <1>8 DEF l, r, a, m, d

(***************************************************************************)
(* The path of a nesting                                                   *)
(***************************************************************************)

\* u holds the paths of the beginnings of a nest.
Grown(u, nest) ==
    /\ u[0] = <<>>
    /\ \A i \in 1..Len(nest) : u[i] = u[i - 1] \o Contribution(nest, i)

LEMMA PrefixUnfold ==
  ASSUME NEW nest \in Seq(Frames)
  PROVE  \E u \in [0..Len(nest) -> Seq(Segs)] : Grown(u, nest) /\ Prefix(nest) = u[Len(nest)]
<1> DEFINE n == Len(nest)
           start == [i \in 0..n |-> <<>>]
           step == [i \in 0..n |-> [s \in Seq(Segs) |-> IF i = 0 THEN s ELSE s \o Contribution(nest, i)]]
           Is(f) == f = [i \in 0..n |-> IF i = 0 THEN <<>> ELSE f[i - 1] \o Contribution(nest, i)]
           f == CHOOSE upTo : Is(upTo)
<1>1. n \in Nat
  OBVIOUS
<1>2. PICK rank : Walk(0..n, {0}, Before(n), rank) /\ Bounded(0..n, rank)
  BY <1>1, NumbersWalk
<1>3. start \in [0..n -> Seq(Segs)]
  OBVIOUS
<1>a. \A i \in 1..n : Contribution(nest, i) \in Seq(Segs)
  BY ContributionForm, FormsAreSeqs
<1>4. step \in [0..n -> [Seq(Segs) -> Seq(Segs)]]
  <2>1. \A i \in 0..n, s \in Seq(Segs) : i # 0 => s \o Contribution(nest, i) \in Seq(Segs)
    BY <1>1, <1>a
  <2> QED
    BY <2>1
<1>5. PICK u \in [0..n -> Seq(Segs)] : Follows(u, 0..n, {0}, Before(n), start, step)
  <2> HIDE DEF start, step, n
  <2> QED
    BY <1>2, <1>3, <1>4, WalkExists
<1>6. \A i \in 0..n : u[i] = IF i = 0 THEN <<>> ELSE u[i - 1] \o Contribution(nest, i)
  <2> SUFFICES ASSUME NEW i \in 0..n PROVE u[i] = IF i = 0 THEN <<>> ELSE u[i - 1] \o Contribution(nest, i)
    OBVIOUS
  <2>1. u[i] = IF i \in {0} THEN start[i] ELSE step[i][u[Before(n)[i]]]
    BY <1>5 DEF Follows
  <2>2. CASE i = 0
    BY <2>1, <2>2
  <2>3. CASE i # 0
    <3>1. Before(n)[i] = i - 1 /\ i - 1 \in 0..n
      BY <1>1, <2>3 DEF Before
    <3>2. u[i - 1] \in Seq(Segs)
      BY <3>1
    <3>3. u[i] = step[i][u[i - 1]]
      BY <2>1, <2>3, <3>1
    <3>4. step[i][u[i - 1]] = u[i - 1] \o Contribution(nest, i)
      BY <2>3, <3>2
    <3> QED
      BY <2>3, <3>3, <3>4
  <2> QED
    BY <2>2, <2>3
<1>7. Is(u)
  BY <1>6, Zenon
<1>8. Is(f)
  BY <1>7, Zenon
<1>9. \A i \in 0..n : f[i] = IF i = 0 THEN <<>> ELSE f[i - 1] \o Contribution(nest, i)
  BY <1>8, Zenon
<1>10. Prefix(nest) = f[n]
  BY Zenon DEF Prefix
<1> DEFINE S == {i \in 0..n : f[i] = u[i]}
<1> HIDE DEF f
<1>11. Closed(S, 0..n, {0}, Before(n))
  <2> SUFFICES ASSUME NEW i \in 0..n, i = 0 \/ Before(n)[i] \in S PROVE f[i] = u[i]
    BY DEF Closed
  <2>1. CASE i = 0
    BY <1>6, <1>9, <2>1
  <2>2. CASE i # 0
    <3>1. f[i - 1] = u[i - 1]
      BY <2>2 DEF Before
    <3> QED
      BY <1>6, <1>9, <2>2, <3>1
  <2> QED
    BY <2>1, <2>2
<1>12. 0..n \subseteq S
  <2> HIDE DEF S
  <2> QED
    BY <1>2, <1>11, WalkInduction
<1>13. Prefix(nest) = u[n]
  BY <1>1, <1>10, <1>12
<1>14. Grown(u, nest)
  <2>1. u[0] = <<>>
    BY <1>1, <1>6
  <2>2. \A i \in 1..n : u[i] = u[i - 1] \o Contribution(nest, i)
    <3>1. \A i \in 1..n : i \in 0..n /\ i # 0
      BY <1>1
    <3> QED
      BY <1>6, <3>1
  <2> QED
    BY <2>1, <2>2, Zenon DEF Grown
<1> QED
  BY <1>13, <1>14

LEMMA PrefixTypes ==
  ASSUME NEW nest \in Seq(Frames)
  PROVE  Prefix(nest) \in Seq(Segs)
BY PrefixUnfold

\* A path grown along two nests at once: what relates their frames' contributions
\* relates the paths.
Alike(m, n, nest) ==
    n <= Len(m) /\ n <= Len(nest) /\ \A i \in 1..n : Contribution(m, i) = Contribution(nest, i)
Roomy(m, n, nest) ==
    n <= Len(m) /\ n <= Len(nest) /\ \A i \in 1..n : Contribution(m, i) = Room(Contribution(nest, i))

Along(u, nest, v, more) ==
    /\ nest \in Seq(Frames) /\ more \in Seq(Frames)
    /\ u \in [0..Len(nest) -> Seq(Segs)] /\ Grown(u, nest) /\ Grown(v, more)

LEMMA GrownAlike ==
  ASSUME NEW nest, NEW more, NEW u, NEW v, Along(u, nest, v, more),
         NEW n \in Nat, Alike(more, n, nest)
  PROVE  v[n] = u[n]
<1> DEFINE S == {i \in 0..n : v[i] = u[i]}
<1>1. PICK rank : Walk(0..n, {0}, Before(n), rank)
  BY NumbersWalk
<1>2. Closed(S, 0..n, {0}, Before(n))
  <2> SUFFICES ASSUME NEW i \in 0..n, i = 0 \/ Before(n)[i] \in S PROVE v[i] = u[i]
    BY DEF Closed
  <2>0. nest \in Seq(Frames) /\ more \in Seq(Frames) /\ Grown(u, nest) /\ Grown(v, more)
    BY DEF Along
  <2>1. CASE i = 0
    BY <2>0, <2>1 DEF Grown
  <2>2. CASE i # 0
    <3>1. v[i - 1] = u[i - 1] /\ i \in 1..n /\ i \in 1..Len(nest) /\ i \in 1..Len(more)
      BY <2>0, <2>2 DEF Before, Alike
    <3>2. v[i] = v[i - 1] \o Contribution(more, i) /\ u[i] = u[i - 1] \o Contribution(nest, i)
      BY <2>0, <3>1 DEF Grown
    <3> QED
      BY <3>1, <3>2 DEF Alike
  <2> QED
    BY <2>1, <2>2
<1>3. 0..n \subseteq S
  <2> HIDE DEF S
  <2> QED
    BY <1>1, <1>2, WalkInduction
<1> QED
  BY <1>3

LEMMA GrownRoomy ==
  ASSUME NEW nest, NEW more, NEW u, NEW v, Along(u, nest, v, more),
         NEW n \in Nat, Roomy(more, n, nest)
  PROVE  v[n] = Room(u[n])
<1> DEFINE S == {i \in 0..n : v[i] = Room(u[i])}
<1>1. PICK rank : Walk(0..n, {0}, Before(n), rank)
  BY NumbersWalk
<1>2. Closed(S, 0..n, {0}, Before(n))
  <2> SUFFICES ASSUME NEW i \in 0..n, i = 0 \/ Before(n)[i] \in S PROVE v[i] = Room(u[i])
    BY DEF Closed
  <2>0. /\ nest \in Seq(Frames) /\ more \in Seq(Frames) /\ Grown(u, nest) /\ Grown(v, more)
        /\ u \in [0..Len(nest) -> Seq(Segs)]
    BY DEF Along
  <2>1. CASE i = 0
    <3>1. v[0] = <<>> /\ u[0] = <<>>
      BY <2>0 DEF Grown
    <3>2. Room(<<>>) = <<>>
      BY DEF Room, MakeRoomForNewIdParam
    <3> QED
      BY <2>1, <3>1, <3>2
  <2>2. CASE i # 0
    <3>1. v[i - 1] = Room(u[i - 1]) /\ i \in 1..n /\ i \in 1..Len(nest) /\ i \in 1..Len(more)
      BY <2>0, <2>2 DEF Before, Roomy
    <3>2. v[i] = v[i - 1] \o Contribution(more, i) /\ u[i] = u[i - 1] \o Contribution(nest, i)
      BY <2>0, <3>1 DEF Grown
    <3>a. i - 1 \in 0..Len(nest)
      BY <3>1
    <3>b. u[i - 1] \in Seq(Segs)
      BY <2>0, <3>a
    <3>c. Contribution(nest, i) \in Forms
      BY <2>0, <3>1, ContributionForm
    <3>4. Room(u[i - 1] \o Contribution(nest, i)) = Room(u[i - 1]) \o Room(Contribution(nest, i))
      BY <3>b, <3>c, RoomOfConcat
    <3> QED
      BY <3>1, <3>2, <3>4 DEF Roomy
  <2> QED
    BY <2>1, <2>2
<1>3. 0..n \subseteq S
  <2> HIDE DEF S
  <2> QED
    BY <1>1, <1>2, WalkInduction
<1> QED
  BY <1>3

(***************************************************************************)
(* A frame more                                                            *)
(***************************************************************************)

LEMMA FrameAppended ==
  ASSUME NEW nest \in Seq(Frames), NEW f \in Frames, NEW m, m = Append(nest, f)
  PROVE  /\ m \in Seq(Frames) /\ Len(m) = Len(nest) + 1 /\ Len(nest) \in Nat
         /\ m[Len(nest) + 1] = f /\ \A i \in 1..Len(nest) : m[i] = nest[i]
         /\ DOMAIN m = 1..Len(nest) + 1 /\ DOMAIN nest = 1..Len(nest)
BY AppendProperties, LenProperties

\* A resource nested in the others makes all of them name their parameters.
LEMMA ResourceAppended ==
  ASSUME NEW nest \in Seq(Frames), NEW f \in Frames, f.kind \in Resourceful
  PROVE  Roomy(Append(nest, f), Len(nest), nest)
<1> DEFINE n == Len(nest)
<1>1. PICK m : m = Append(nest, f)
  OBVIOUS
<1>2. /\ m \in Seq(Frames) /\ Len(m) = n + 1 /\ n \in Nat /\ m[n + 1] = f
      /\ \A i \in 1..n : m[i] = nest[i]
      /\ DOMAIN m = 1..n + 1
  BY <1>1, FrameAppended
<1> SUFFICES ASSUME NEW i \in 1..n PROVE Contribution(m, i) = Room(Contribution(nest, i))
  BY <1>1, <1>2 DEF Roomy
<1> DEFINE a == nest[i].name
<1>3. m[i] = nest[i] /\ a \in Given /\ nest[i].kind \in Kinds
  <2>1. nest[i] \in Frames
    OBVIOUS
  <2> QED
    BY <1>2, <2>1 DEF Frames, Given
<1>4. \E j \in DOMAIN m : j > i /\ m[j].kind \in Resourceful
  <2>1. n + 1 \in DOMAIN m /\ n + 1 > i /\ m[n + 1].kind \in Resourceful
    BY <1>2
  <2> QED
    BY <2>1
<1>5. Collected(m, i) <=> Collected(nest, i)
  <2>1. CASE i < n
    <3>1. m[i + 1] = nest[i + 1] /\ i < n + 1
      BY <1>2, <2>1
    <3> QED
      BY <1>2, <1>3, <2>1, <3>1 DEF Collected
  <2>2. CASE i = n
    <3>1. m[i + 1].kind # "collection"
      BY <1>2, <2>2 DEF Resourceful
    <3> QED
      BY <2>2, <3>1 DEF Collected
  <2> QED
    BY <1>2, <2>1, <2>2
<1>6. /\ Room(<<>>) = <<>> /\ Room(<<Dir(a)>>) = <<Dir(a)>>
      /\ Room(<<Dir(a), Id>>) = <<Dir(a), IdOf(a)>> /\ Room(<<Dir(a), IdOf(a)>>) = <<Dir(a), IdOf(a)>>
      /\ Front(<<Dir(a), IdOf(a)>>) = <<Dir(a)>> /\ Front(<<Dir(a), Id>>) = <<Dir(a)>>
      /\ Front(<<Dir(a)>>) = <<>>
  BY <1>3, RoomOfForm, FrontOfForm, FormTypes
<1>7. CASE nest[i].kind = "collection"
  <2>1. Whole(m, i) = <<>> /\ Whole(nest, i) = <<>> /\ ~Collected(m, i) /\ ~Collected(nest, i)
    BY <1>3, <1>7 DEF Whole, Collected
  <2> QED
    BY <1>6, <2>1, ContributionParts
<1>8. CASE nest[i].kind = "resources"
  <2>1. /\ Whole(m, i) = <<Dir(a), IdOf(a)>>
        /\ Whole(nest, i) \in {<<Dir(a), IdOf(a)>>, <<Dir(a), Id>>}
    BY <1>3, <1>4, <1>8 DEF Whole
  <2>2. CASE Collected(nest, i)
    <3>1. Contribution(m, i) = <<Dir(a)>>
      BY <1>5, <1>6, <2>1, <2>2, ContributionParts
    <3>2. Contribution(nest, i) = <<Dir(a)>>
      BY <1>6, <2>1, <2>2, ContributionParts
    <3> QED
      BY <1>6, <3>1, <3>2
  <2>3. CASE ~Collected(nest, i)
    <3>1. Contribution(m, i) = <<Dir(a), IdOf(a)>>
      BY <1>5, <2>1, <2>3, ContributionParts
    <3>2. Contribution(nest, i) \in {<<Dir(a), IdOf(a)>>, <<Dir(a), Id>>}
      BY <2>1, <2>3, ContributionParts
    <3> QED
      BY <1>6, <3>1, <3>2
  <2> QED
    BY <2>2, <2>3
<1>9. CASE nest[i].kind \notin {"collection", "resources"}
  <2>1. Whole(m, i) = <<Dir(a)>> /\ Whole(nest, i) = <<Dir(a)>>
    BY <1>3, <1>9 DEF Whole
  <2>2. CASE Collected(nest, i)
    <3>1. Contribution(m, i) = <<>> /\ Contribution(nest, i) = <<>>
      BY <1>5, <1>6, <2>1, <2>2, ContributionParts
    <3> QED
      BY <1>6, <3>1
  <2>3. CASE ~Collected(nest, i)
    <3>1. Contribution(m, i) = <<Dir(a)>> /\ Contribution(nest, i) = <<Dir(a)>>
      BY <1>5, <2>1, <2>3, ContributionParts
    <3> QED
      BY <1>6, <3>1
  <2> QED
    BY <2>2, <2>3
<1> QED
  BY <1>7, <1>8, <1>9

\* Any other frame changes nothing of the frames outside, but a collection what
\* the one it is directly inside adds.
LEMMA OtherAppended ==
  ASSUME NEW nest \in Seq(Frames), NEW f \in Frames, f.kind \notin Resourceful,
         NEW i \in 1..Len(nest)
  PROVE  Contribution(Append(nest, f), i) =
            IF f.kind = "collection" /\ i = Len(nest) /\ nest[i].kind # "collection"
            THEN Front(Contribution(nest, i)) ELSE Contribution(nest, i)
<1> DEFINE n == Len(nest)
<1>1. PICK m : m = Append(nest, f)
  OBVIOUS
<1>2. /\ m \in Seq(Frames) /\ Len(m) = n + 1 /\ n \in Nat /\ m[n + 1] = f
      /\ \A j \in 1..n : m[j] = nest[j]
      /\ DOMAIN m = 1..n + 1 /\ DOMAIN nest = 1..n
  BY <1>1, FrameAppended
<1>3. m[i] = nest[i]
  BY <1>2
<1>4. (\E j \in DOMAIN m : j > i /\ m[j].kind \in Resourceful)
      <=> (\E j \in DOMAIN nest : j > i /\ nest[j].kind \in Resourceful)
  BY <1>2
<1>5. Whole(m, i) = Whole(nest, i)
  BY <1>3, <1>4 DEF Whole
<1>6. CASE i < n
  <2>1. Collected(m, i) <=> Collected(nest, i)
    BY <1>2, <1>3, <1>6 DEF Collected
  <2> QED
    BY <1>1, <1>5, <1>6, <2>1, ContributionParts
<1>7. CASE i = n
  <2>1. ~Collected(nest, i)
    BY <1>2, <1>7 DEF Collected
  <2>2. Collected(m, i) <=> nest[i].kind # "collection" /\ f.kind = "collection"
    BY <1>2, <1>3, <1>7 DEF Collected
  <2> QED
    BY <1>1, <1>5, <1>7, <2>1, <2>2, ContributionParts
<1>8. i < n \/ i = n
  <2>1. \A k \in Nat : \A j \in 1..k : j < k \/ j = k
    OBVIOUS
  <2>2. n \in Nat
    BY <1>2
  <2> HIDE DEF n
  <2> QED
    BY <2>1, <2>2 DEF n
<1> QED
  BY <1>6, <1>7, <1>8

\* The new frame itself.
LEMMA LastContribution ==
  ASSUME NEW nest \in Seq(Frames), NEW f \in Frames
  PROVE  Contribution(Append(nest, f), Len(nest) + 1) =
            CASE f.kind = "collection" -> <<>>
              [] f.kind = "resources" -> <<Dir(f.name), Id>>
              [] OTHER -> <<Dir(f.name)>>
<1> DEFINE k == Len(nest) + 1
<1>1. PICK m : m = Append(nest, f)
  OBVIOUS
<1>2. /\ m \in Seq(Frames) /\ Len(m) = k /\ k \in Nat /\ m[k] = f /\ DOMAIN m = 1..k
  BY <1>1, FrameAppended
<1>3. ~\E j \in DOMAIN m : j > k /\ m[j].kind \in Resourceful
  BY <1>2
<1>4. ~Collected(m, k)
  BY <1>2 DEF Collected
<1> HIDE DEF k
<1>5. Whole(m, k) = CASE f.kind = "collection" -> <<>>
                      [] f.kind = "resources" -> <<Dir(f.name), Id>>
                      [] OTHER -> <<Dir(f.name)>>
  BY <1>2, <1>3 DEF Whole
<1> QED
  BY <1>1, <1>4, <1>5, ContributionParts DEF k

\* namespace(), scope(), resource() and resources() make of the path of a nesting
\* that of the nesting with the call in it.
LEMMA NamespacedMeans ==
  ASSUME NEW nest \in Seq(Frames), NEW f \in Frames, f.kind # "collection"
  PROVE  Namespaced(Prefix(nest), f.kind, f.name) = Prefix(Append(nest, f))
<1>0. PICK n \in Nat : n = Len(nest)
  BY LenProperties
<1>1. PICK m : m = Append(nest, f)
  OBVIOUS
<1>2. m \in Seq(Frames) /\ Len(m) = n + 1 /\ n \in Nat
  BY <1>0, <1>1, FrameAppended
<1>3. PICK u \in [0..Len(nest) -> Seq(Segs)] : Grown(u, nest) /\ Prefix(nest) = u[n]
  BY <1>0, PrefixUnfold
<1>4. PICK v \in [0..Len(m) -> Seq(Segs)] : Grown(v, m) /\ Prefix(m) = v[n + 1]
  BY <1>2, PrefixUnfold
<1>5. f.name \in Given /\ f.kind \in Kinds
  BY DEF Frames, Given
<1>6. Dir(f.name) \in Segs /\ u[n] \in Seq(Segs)
  BY <1>0, <1>2, <1>3, <1>5, FormTypes
<1>7. v[n + 1] = v[n] \o Contribution(m, n + 1)
  <2>1. n + 1 \in 1..Len(m) /\ (n + 1) - 1 = n
    BY <1>2
  <2> QED
    BY <1>4, <2>1 DEF Grown
<1>8. Room(u[n]) \in Seq(Segs)
  BY <1>6, RoomTypes DEF Segs
<1>9. CASE f.kind \in Resourceful
  <2>1. v[n] = Room(u[n])
    <3>1. Roomy(m, n, nest)
      BY <1>0, <1>1, <1>9, ResourceAppended
    <3>2. Along(u, nest, v, m)
      BY <1>2, <1>3, <1>4 DEF Along
    <3> QED
      BY <3>1, <3>2, GrownRoomy
  <2>2. CASE f.kind = "resources"
    <3>1. Contribution(m, n + 1) = <<Dir(f.name), Id>>
      BY <1>1, <2>2, LastContribution, <1>0
    <3>2. Namespaced(u[n], f.kind, f.name) = Room(u[n]) \o <<Dir(f.name), Id>>
      BY <2>2 DEF Namespaced, Room
    <3> QED
      BY <1>1, <1>3, <1>4, <1>7, <2>1, <3>1, <3>2
  <2>3. CASE f.kind = "resource"
    <3>1. Contribution(m, n + 1) = <<Dir(f.name)>>
      BY <1>1, <2>3, LastContribution, <1>0
    <3>2. Namespaced(u[n], f.kind, f.name) = Append(Room(u[n]), Dir(f.name))
      BY <2>3 DEF Namespaced, Room
    <3>3. Append(Room(u[n]), Dir(f.name)) = Room(u[n]) \o <<Dir(f.name)>>
      BY <1>6, <1>8, AppendIsConcat
    <3> QED
      BY <1>1, <1>3, <1>4, <1>7, <2>1, <3>1, <3>2, <3>3
  <2> QED
    BY <1>9, <2>2, <2>3 DEF Resourceful
<1>10. CASE f.kind \notin Resourceful
  <2>1. v[n] = u[n]
    <3>1. Alike(m, n, nest)
      BY <1>0, <1>1, <1>2, <1>10, OtherAppended DEF Alike
    <3>2. Along(u, nest, v, m)
      BY <1>2, <1>3, <1>4 DEF Along
    <3> QED
      BY <3>1, <3>2, GrownAlike
  <2>2. f.kind \in {"namespace", "scope"}
    BY <1>5, <1>10 DEF Kinds
  <2>3. Contribution(m, n + 1) = <<Dir(f.name)>>
    BY <1>1, <2>2, LastContribution, <1>0
  <2>4. Namespaced(u[n], f.kind, f.name) = Append(u[n], Dir(f.name))
    BY <2>2 DEF Namespaced
  <2>5. Append(u[n], Dir(f.name)) = u[n] \o <<Dir(f.name)>>
    BY <1>6, AppendIsConcat
  <2> QED
    BY <1>1, <1>3, <1>4, <1>7, <2>1, <2>3, <2>4, <2>5
<1> QED
  BY <1>9, <1>10

\* collection() takes the last of the path away.
LEMMA CollectionMeans ==
  ASSUME NEW nest \in Seq(Frames), NEW f \in Frames, f.kind = "collection",
         nest # <<>>, nest[Len(nest)].kind # "collection"
  PROVE  Front(Prefix(nest)) = Prefix(Append(nest, f))
<1>0. PICK n \in Nat \ {0} : n = Len(nest)
  BY EmptySeq
<1> DEFINE c == Contribution(nest, n)
<1>1. PICK m : m = Append(nest, f)
  OBVIOUS
<1>2. m \in Seq(Frames) /\ Len(m) = n + 1 /\ n \in Nat \ {0}
  BY <1>0, <1>1, FrameAppended
<1>3. PICK u \in [0..Len(nest) -> Seq(Segs)] : Grown(u, nest) /\ Prefix(nest) = u[n]
  BY <1>0, PrefixUnfold
<1>4. PICK v \in [0..Len(m) -> Seq(Segs)] : Grown(v, m) /\ Prefix(m) = v[n + 1]
  BY <1>2, PrefixUnfold
<1>5. v[n - 1] = u[n - 1]
  <2>1. \A i \in 1..n - 1 : i \in 1..Len(nest) /\ i # Len(nest)
    BY <1>0
  <2>2. \A i \in 1..n - 1 : Contribution(m, i) = Contribution(nest, i)
    BY <1>0, <1>1, <2>1, OtherAppended DEF Resourceful
  <2>3. PICK k \in Nat : k = n - 1
    BY <1>2
  <2>4. Alike(m, k, nest)
    BY <1>0, <1>2, <2>2, <2>3 DEF Alike
  <2>a. Along(u, nest, v, m)
    BY <1>2, <1>3, <1>4 DEF Along
  <2>5. v[k] = u[k]
    BY <2>4, <2>a, GrownAlike
  <2> QED
    BY <2>3, <2>5
<1>6. u[n] = u[n - 1] \o c /\ v[n] = v[n - 1] \o Contribution(m, n)
  <2>1. n \in 1..Len(nest) /\ n \in 1..Len(m)
    BY <1>0, <1>2
  <2> QED
    BY <1>3, <1>4, <2>1, Zenon DEF Grown
<1>7. v[n + 1] = v[n] \o Contribution(m, n + 1)
  <2>1. n + 1 \in 1..Len(m) /\ (n + 1) - 1 = n
    BY <1>2
  <2> QED
    BY <1>4, <2>1 DEF Grown
<1>8. Contribution(m, n) = Front(c)
  <2>1. n \in 1..Len(nest)
    BY <1>0, <1>2
  <2> QED
    BY <1>0, <1>1, <2>1, OtherAppended DEF Resourceful
<1>9. Contribution(m, n + 1) = <<>>
  BY <1>0, <1>1, LastContribution
<1>10. c # <<>> /\ c \in Seq(Segs)
  <2>1. c = Whole(nest, n)
    BY <1>0, ContributionParts DEF Collected
  <2>2. Whole(nest, n) # <<>>
    BY <1>0 DEF Whole
  <2>3. n \in 1..Len(nest)
    BY <1>0, <1>2
  <2>4. c \in Seq(Segs)
    BY <2>3, ContributionForm, FormsAreSeqs
  <2> QED
    BY <2>1, <2>2, <2>4
<1>11. u[n - 1] \in Seq(Segs) /\ v[n] \in Seq(Segs)
  <2>1. n - 1 \in 0..Len(nest) /\ n \in 0..Len(m)
    BY <1>0, <1>2
  <2> QED
    BY <2>1
<1>12. Front(u[n - 1] \o c) = u[n - 1] \o Front(c)
  <2> HIDE DEF c
  <2> QED
    BY <1>10, <1>11, FrontOfConcat
<1>13. v[n] \o <<>> = v[n]
  BY <1>11, ConcatEmptySeq
<1> HIDE DEF c
<1> QED
  BY <1>1, <1>3, <1>4, <1>5, <1>6, <1>7, <1>8, <1>9, <1>12, <1>13

\* Popping takes off what the call added.
LEMMA PoppedMeans ==
  ASSUME NEW c \in Seq(Segs), NEW kind \in Kinds \ {"collection"}, NEW a \in Given
  PROVE  Popped(Namespaced(c, kind, a), kind) = IF kind \in Resourceful THEN Room(c) ELSE c
<1>1. Dir(a) \in Segs /\ Id \in Segs /\ Room(c) \in Seq(Segs)
  BY FormTypes, RoomTypes DEF Segs
<1>2. CASE kind = "resources"
  <2> DEFINE r == Room(c)
  <2>1. Namespaced(c, kind, a) = r \o <<Dir(a), Id>>
    BY <1>2 DEF Namespaced, Room
  <2>2. <<Dir(a), Id>> \in Seq(Segs) /\ <<Dir(a)>> \in Seq(Segs)
        /\ <<Dir(a), Id>> # <<>> /\ <<Dir(a)>> # <<>>
    BY <1>1
  <2>3. Front(<<Dir(a), Id>>) = <<Dir(a)>> /\ Front(<<Dir(a)>>) = <<>>
    BY <1>1, FrontOfForm
  <2> HIDE DEF r
  <2>4. r \in Seq(Segs)
    BY <1>1 DEF r
  <2>5. Front(r \o <<Dir(a), Id>>) = r \o <<Dir(a)>>
    BY <2>2, <2>3, <2>4, FrontOfConcat
  <2>6. Front(r \o <<Dir(a)>>) = r \o <<>>
    BY <2>2, <2>3, <2>4, FrontOfConcat
  <2>7. r \o <<>> = r
    BY <2>4, ConcatEmptySeq
  <2> QED
    BY <1>2, <2>1, <2>5, <2>6, <2>7 DEF Popped, Resourceful, r
<1>3. CASE kind = "resource"
  <2>1. Namespaced(c, kind, a) = Append(Room(c), Dir(a))
    BY <1>3 DEF Namespaced, Room
  <2>2. Front(Append(Room(c), Dir(a))) = Room(c)
    BY <1>1, FrontOfAppend
  <2> QED
    BY <1>3, <2>1, <2>2 DEF Popped, Resourceful
<1>4. CASE kind \in {"namespace", "scope"}
  <2>1. Namespaced(c, kind, a) = Append(c, Dir(a))
    BY <1>4 DEF Namespaced
  <2>2. Front(Append(c, Dir(a))) = c
    BY <1>1, FrontOfAppend
  <2> QED
    BY <1>4, <2>1, <2>2 DEF Popped, Resourceful
<1> QED
  BY <1>2, <1>3, <1>4 DEF Kinds, Resourceful

\* A resource's own actions stand beside the resource, whose parents make room.
LEMMA OwnPrefixMeans ==
  ASSUME NEW nest \in Seq(Frames), NEW f \in Frames, f.kind \in Resourceful
  PROVE  Front(OwnPrefix(Append(nest, f))) = Room(Prefix(nest))
<1> DEFINE g == [f EXCEPT !.kind = "resource"]
<1>1. Front(Append(nest, f)) = nest /\ Last(Append(nest, f)) = f
  BY FrontOfAppend
<1>2. g \in Frames /\ g.kind = "resource" /\ g.name = f.name /\ f.name \in Given
  BY DEF Frames, Kinds, Resourceful, Given
<1>3. OwnPrefix(Append(nest, f)) = Prefix(Append(nest, g))
  BY <1>1, Zenon DEF OwnPrefix
<1> HIDE DEF g
<1>4. Prefix(Append(nest, g)) = Namespaced(Prefix(nest), "resource", g.name)
  BY <1>2, NamespacedMeans
<1>5. Namespaced(Prefix(nest), "resource", g.name) = Append(Room(Prefix(nest)), Dir(g.name))
  BY DEF Namespaced, Room
<1>6. Room(Prefix(nest)) \in Seq(Segs)
  BY PrefixTypes, RoomTypes DEF Segs
<1>7. Front(Append(Room(Prefix(nest)), Dir(g.name))) = Room(Prefix(nest))
  BY <1>2, <1>6, FormTypes, FrontOfAppend
<1> QED
  BY <1>3, <1>4, <1>5, <1>7

(***************************************************************************)
(* Opening a call, and closing it                                          *)
(***************************************************************************)

Routers == [cn : Seq(Segments), nest : Seq(Frames)]
Calls == [on : Nat, kind : Kinds, name : RouteNames \cup {"none"}, id : Nat,
          methods : SUBSET {"index", "create", "update", "show", "destroy"},
          saved : Seq(Segments)]

FrameOf(call) == [kind |-> call.kind, name |-> call.name, call |-> call.id]

\* What a call makes of the routers in scope.
Inner(rs, call) ==
    [cn |-> IF call.kind = "collection" THEN Front(rs[call.on].cn)
            ELSE Namespaced(rs[call.on].cn, call.kind, call.name),
     nest |-> Append(rs[call.on].nest, FrameOf(call))]
Opened(rs, call) ==
    Append(IF call.kind = "collection" THEN rs ELSE [rs EXCEPT ![call.on] = Inner(rs, call)],
           Inner(rs, call))

\* The call can be made with those routers in scope.
Made(rs, call) ==
    /\ call \in Calls /\ call.on \in 1..Len(rs)
    /\ call.saved = rs[call.on].cn
    /\ call.kind = "collection" => Len(rs[call.on].cn) > 1
    /\ call.kind # "collection" => call.name \in RouteNames

\* Every router's path is the one its nesting means, and it is nested in calls of
\* ids alone.
Meant(rs, ids) ==
    \A r \in 1..Len(rs) :
        /\ ~Doubled(rs[r].nest) => rs[r].cn = Prefix(rs[r].nest)
        /\ \A f \in 1..Len(rs[r].nest) : rs[r].nest[f].call \in ids

LEMMA SegmentsAreSegs == Segments \subseteq Segs
BY DEF Segments, Segs, Given

LEMMA FrameTypes ==
  ASSUME NEW call \in Calls
  PROVE  FrameOf(call) \in Frames
BY DEF Calls, FrameOf, Frames

LEMMA NamespacedTypes ==
  ASSUME NEW c \in Seq(Segments), NEW kind \in Kinds \ {"collection"}, NEW a \in RouteNames
  PROVE  Namespaced(c, kind, a) \in Seq(Segments)
<1>1. Dir(a) \in Segments /\ Id \in Segments
  BY DEF Dir, Id, Segments
<1>2. Room(c) \in Seq(Segments)
  BY RoomTypes DEF Segments
<1>3. <<Dir(a), Id>> \in Seq(Segments)
  BY <1>1
<1>4. Room(c) \o <<Dir(a), Id>> \in Seq(Segments)
  BY <1>2, <1>3, ConcatProperties
<1>5. Append(Room(c), Dir(a)) \in Seq(Segments) /\ Append(c, Dir(a)) \in Seq(Segments)
  BY <1>1, <1>2, AppendProperties
<1> QED
  BY <1>4, <1>5, Zenon DEF Namespaced, Room, Kinds, Resourceful

LEMMA RouterTypes ==
  ASSUME NEW rs \in Seq(Routers), NEW r \in 1..Len(rs)
  PROVE  rs[r] \in Routers /\ rs[r].cn \in Seq(Segments) /\ rs[r].nest \in Seq(Frames)
<1>1. rs[r] \in Routers
  BY ElementOfSeq
<1> QED
  BY <1>1 DEF Routers

LEMMA InnerTypes ==
  ASSUME NEW rs \in Seq(Routers), NEW call, Made(rs, call)
  PROVE  Inner(rs, call) \in Routers
<1>1. call \in Calls /\ call.on \in 1..Len(rs) /\ call.kind \in Kinds
  BY DEF Made, Calls
<1>2. rs[call.on].cn \in Seq(Segments) /\ rs[call.on].nest \in Seq(Frames)
  BY <1>1, RouterTypes
<1>3. Append(rs[call.on].nest, FrameOf(call)) \in Seq(Frames)
  BY <1>1, <1>2, FrameTypes, AppendProperties
<1>4. CASE call.kind = "collection"
  <2>1. rs[call.on].cn # <<>>
    BY <1>4 DEF Made
  <2>2. Front(rs[call.on].cn) \in Seq(Segments)
    BY <1>2, <2>1, FrontProperties
  <2> QED
    BY <1>3, <1>4, <2>2 DEF Inner, Routers
<1>5. CASE call.kind # "collection"
  <2>1. Namespaced(rs[call.on].cn, call.kind, call.name) \in Seq(Segments)
    BY <1>1, <1>2, <1>5, NamespacedTypes DEF Made
  <2> QED
    BY <1>3, <1>5, <2>1 DEF Inner, Routers
<1> QED
  BY <1>4, <1>5

\* Opening a call changes the router it is made on, if any, and adds one.
LEMMA OpenedParts ==
  ASSUME NEW rs \in Seq(Routers), NEW call, Made(rs, call)
  PROVE  /\ Opened(rs, call) \in Seq(Routers) /\ Len(Opened(rs, call)) = Len(rs) + 1
         /\ Len(rs) \in Nat
         /\ Opened(rs, call)[Len(rs) + 1] = Inner(rs, call)
         /\ \A r \in 1..Len(rs) :
               Opened(rs, call)[r] = IF r = call.on /\ call.kind # "collection"
                                     THEN Inner(rs, call) ELSE rs[r]
<1> DEFINE i == Inner(rs, call)
           base == IF call.kind = "collection" THEN rs ELSE [rs EXCEPT ![call.on] = i]
<1>1. i \in Routers /\ call.on \in 1..Len(rs) /\ Len(rs) \in Nat
  BY InnerTypes, LenProperties DEF Made
<1>2. /\ base \in Seq(Routers) /\ Len(base) = Len(rs)
      /\ \A r \in 1..Len(rs) : base[r] = IF r = call.on /\ call.kind # "collection" THEN i ELSE rs[r]
  <2>1. CASE call.kind = "collection"
    BY <2>1
  <2>2. CASE call.kind # "collection"
    <3> HIDE DEF i
    <3>1. /\ [rs EXCEPT ![call.on] = i] \in Seq(Routers) /\ Len([rs EXCEPT ![call.on] = i]) = Len(rs)
          /\ \A j \in 1..Len(rs) : [rs EXCEPT ![call.on] = i][j] = IF j = call.on THEN i ELSE rs[j]
      BY <1>1, ExceptSeq
    <3> QED
      BY <2>2, <3>1
  <2> QED
    BY <2>1, <2>2
<1>3. Opened(rs, call) = Append(base, i)
  BY DEF Opened
<1> HIDE DEF base, i
<1>4. /\ Append(base, i) \in Seq(Routers) /\ Len(Append(base, i)) = Len(base) + 1
      /\ \A r \in 1..Len(base) : Append(base, i)[r] = base[r]
      /\ Append(base, i)[Len(base) + 1] = i
  BY <1>1, <1>2, AppendProperties
<1> QED
  BY <1>1, <1>2, <1>3, <1>4 DEF i

LEMMA PrefixOfNone == Prefix(<<>>) = <<>>
<1>1. <<>> \in Seq(Frames) /\ Len(<<>>) = 0
  BY EmptySeq
<1>2. PICK u \in [0..Len(<<>>) -> Seq(Segs)] : Grown(u, <<>>) /\ Prefix(<<>>) = u[Len(<<>>)]
  BY <1>1, PrefixUnfold
<1> QED
  BY <1>1, <1>2 DEF Grown

\* Collections directly inside one another stay so whatever is nested in them.
LEMMA DoubledAppended ==
  ASSUME NEW nest \in Seq(Frames), NEW f \in Frames
  PROVE  /\ Doubled(nest) => Doubled(Append(nest, f))
         /\ f.kind = "collection" /\ nest # <<>> /\ nest[Len(nest)].kind = "collection"
               => Doubled(Append(nest, f))
<1>1. PICK m : m = Append(nest, f)
  OBVIOUS
<1>0. PICK n \in Nat : n = Len(nest)
  BY LenProperties
<1>2. Len(m) = n + 1 /\ m[n + 1] = f /\ \A i \in 1..n : m[i] = nest[i]
  BY <1>0, <1>1, FrameAppended
<1>3. ASSUME Doubled(nest) PROVE Doubled(m)
  <2>1. PICK i \in 1..n - 1 : nest[i].kind = "collection" /\ nest[i + 1].kind = "collection"
    BY <1>0, <1>3 DEF Doubled
  <2>2. i \in 1..Len(m) - 1 /\ m[i] = nest[i] /\ m[i + 1] = nest[i + 1]
    BY <1>2, <2>1
  <2> QED
    BY <2>1, <2>2 DEF Doubled
<1>4. ASSUME f.kind = "collection", nest # <<>>, nest[n].kind = "collection" PROVE Doubled(m)
  <2>1. n \in 1..n
    BY <1>0, <1>4, EmptySeq
  <2>2. n \in 1..Len(m) - 1 /\ m[n] = nest[n] /\ m[n + 1] = f
    BY <1>2, <2>1
  <2> QED
    BY <1>4, <2>2 DEF Doubled
<1> QED
  BY <1>0, <1>1, <1>3, <1>4

LEMMA InnerMeant ==
  ASSUME NEW rs \in Seq(Routers), NEW call, Made(rs, call), NEW ids, Meant(rs, ids),
         ~Doubled(Inner(rs, call).nest)
  PROVE  Inner(rs, call).cn = Prefix(Inner(rs, call).nest)
<1> DEFINE f == FrameOf(call)
<1>1. call \in Calls /\ call.on \in 1..Len(rs)
  BY DEF Made
<1>2. PICK n0 \in Seq(Frames) : n0 = rs[call.on].nest
  BY <1>1, RouterTypes
<1>3. PICK c0 \in Seq(Segments) : c0 = rs[call.on].cn
  BY <1>1, RouterTypes
<1>4. f \in Frames /\ f.kind = call.kind /\ f.name = call.name
  BY <1>1, FrameTypes DEF FrameOf
<1>5. Inner(rs, call).nest = Append(n0, f)
  BY <1>2 DEF Inner
<1> HIDE DEF f
<1>6. ~Doubled(n0)
  BY <1>4, <1>5, DoubledAppended
<1>7. c0 = Prefix(n0)
  BY <1>1, <1>2, <1>3, <1>6 DEF Meant
<1>8. CASE call.kind = "collection"
  <2>1. Inner(rs, call).cn = Front(c0)
    BY <1>3, <1>8 DEF Inner
  <2>2. n0 # <<>>
    <3>1. Len(c0) > 1
      BY <1>3, <1>8 DEF Made
    <3>2. c0 # <<>>
      BY <3>1, EmptySeq
    <3> QED
      BY <1>7, <3>2, PrefixOfNone
  <2>3. n0[Len(n0)].kind # "collection"
    BY <1>4, <1>5, <1>8, <2>2, DoubledAppended
  <2>4. Front(Prefix(n0)) = Prefix(Append(n0, f))
    BY <1>4, <1>8, <2>2, <2>3, CollectionMeans
  <2> QED
    BY <1>5, <1>7, <2>1, <2>4
<1>9. CASE call.kind # "collection"
  <2>1. Inner(rs, call).cn = Namespaced(c0, f.kind, f.name)
    BY <1>3, <1>4, <1>9 DEF Inner
  <2>2. Namespaced(Prefix(n0), f.kind, f.name) = Prefix(Append(n0, f))
    BY <1>4, <1>9, NamespacedMeans
  <2> QED
    BY <1>5, <1>7, <2>1, <2>2
<1> QED
  BY <1>8, <1>9

LEMMA OpenedMeant ==
  ASSUME NEW rs \in Seq(Routers), NEW call, Made(rs, call), NEW ids, Meant(rs, ids)
  PROVE  Meant(Opened(rs, call), ids \cup {call.id})
<1>1. PICK now : now = Opened(rs, call)
  OBVIOUS
<1>2. PICK i : i = Inner(rs, call)
  OBVIOUS
<1>3. /\ now \in Seq(Routers) /\ Len(now) = Len(rs) + 1 /\ Len(rs) \in Nat
      /\ \A r \in 1..Len(now) : now[r] = i \/ (r \in 1..Len(rs) /\ now[r] = rs[r])
  <2>1. /\ now \in Seq(Routers) /\ Len(now) = Len(rs) + 1 /\ Len(rs) \in Nat
        /\ now[Len(rs) + 1] = i
        /\ \A r \in 1..Len(rs) : now[r] = IF r = call.on /\ call.kind # "collection" THEN i ELSE rs[r]
    BY <1>1, <1>2, OpenedParts
  <2>2. ASSUME NEW r \in 1..Len(now) PROVE now[r] = i \/ (r \in 1..Len(rs) /\ now[r] = rs[r])
    <3>1. r = Len(rs) + 1 \/ r \in 1..Len(rs)
      BY <2>1
    <3> QED
      BY <2>1, <3>1
  <2> QED
    BY <2>1, <2>2
<1>4. ~Doubled(i.nest) => i.cn = Prefix(i.nest)
  BY <1>2, InnerMeant
<1>5. \A f \in 1..Len(i.nest) : i.nest[f].call \in ids \cup {call.id}
  <2>1. call \in Calls /\ call.on \in 1..Len(rs)
    BY DEF Made
  <2>2. PICK n0 \in Seq(Frames) : n0 = rs[call.on].nest
    BY <2>1, RouterTypes
  <2>3. PICK g \in Frames : g = FrameOf(call) /\ g.call = call.id
    BY <2>1, FrameTypes DEF FrameOf
  <2>4. PICK m : m = i.nest
    OBVIOUS
  <2>5. m = Append(n0, g)
    BY <1>2, <2>2, <2>3, <2>4 DEF Inner
  <2>6. /\ Len(m) = Len(n0) + 1 /\ Len(n0) \in Nat /\ m[Len(n0) + 1] = g
        /\ \A k \in 1..Len(n0) : m[k] = n0[k]
    BY <2>5, FrameAppended
  <2>7. \A k \in 1..Len(n0) : n0[k].call \in ids
    BY <2>1, <2>2 DEF Meant
  <2>8. ASSUME NEW k \in 1..Len(m) PROVE m[k].call \in ids \cup {call.id}
    <3>1. k = Len(n0) + 1 \/ k \in 1..Len(n0)
      BY <2>6
    <3> QED
      BY <2>3, <2>6, <2>7, <3>1
  <2> QED
    BY <2>4, <2>8
<1>6. ASSUME NEW r \in 1..Len(now)
      PROVE  /\ ~Doubled(now[r].nest) => now[r].cn = Prefix(now[r].nest)
             /\ \A f \in 1..Len(now[r].nest) : now[r].nest[f].call \in ids \cup {call.id}
  <2>1. CASE now[r] = i
    BY <1>4, <1>5, <2>1
  <2>2. CASE r \in 1..Len(rs) /\ now[r] = rs[r]
    BY <2>2 DEF Meant
  <2> QED
    BY <1>3, <2>1, <2>2
<1> QED
  BY <1>1, <1>6 DEF Meant

\* What CloseCall makes of the router the call was made on.
Closing(call, outer, popped, cn, nest) ==
    /\ popped = IF call.kind = "collection" THEN outer.cn ELSE Popped(outer.cn, call.kind)
    /\ cn = IF call.kind \in Resourceful THEN call.saved ELSE popped
    /\ nest = IF call.kind = "collection" THEN outer.nest ELSE Front(outer.nest)

\* What CloseCall makes of the routers is what they were before the call.
LEMMA ClosedBack ==
  ASSUME NEW rs \in Seq(Routers), NEW call, Made(rs, call), NEW now, now = Opened(rs, call),
         NEW popped, NEW cn, NEW nest, Closing(call, now[call.on], popped, cn, nest)
  PROVE  /\ Front([now EXCEPT ![call.on] = [cn |-> cn, nest |-> nest]]) = rs
         /\ call.kind # "collection" => now[call.on].nest = Append(rs[call.on].nest, FrameOf(call))
         /\ call.kind \in Resourceful => popped = Room(rs[call.on].cn)
<1> DEFINE on == call.on
<1>1. call \in Calls /\ on \in 1..Len(rs) /\ call.saved = rs[on].cn /\ call.kind \in Kinds
  BY DEF Made, Calls
<1>2. PICK i : i = Inner(rs, call)
  OBVIOUS
<1>3. /\ now \in Seq(Routers) /\ Len(now) = Len(rs) + 1 /\ Len(rs) \in Nat
      /\ \A r \in 1..Len(rs) : now[r] = IF r = on /\ call.kind # "collection" THEN i ELSE rs[r]
  BY <1>2, OpenedParts
<1>4. PICK c0 \in Seq(Segments) : c0 = rs[on].cn
  BY <1>1, RouterTypes
<1>5. PICK n0 \in Seq(Frames) : n0 = rs[on].nest
  BY <1>1, RouterTypes
<1>6. rs[on] = [cn |-> c0, nest |-> n0]
  <2>1. rs[on] \in Routers
    BY <1>1, RouterTypes
  <2> QED
    BY <1>4, <1>5, <2>1 DEF Routers
<1>7. /\ cn = c0 /\ nest = n0
      /\ call.kind # "collection" => now[on].nest = Append(n0, FrameOf(call))
      /\ call.kind \in Resourceful => popped = Room(c0)
  <2>1. CASE call.kind = "collection"
    <3>1. now[on] = rs[on] /\ call.kind \notin Resourceful
      BY <1>1, <1>3, <2>1 DEF Resourceful
    <3> QED
      BY <1>4, <1>5, <2>1, <3>1 DEF Closing
  <2>2. CASE call.kind # "collection"
    <3>1. now[on] = i
      BY <1>1, <1>3, <2>2
    <3>2. i.nest = Append(n0, FrameOf(call)) /\ i.cn = Namespaced(c0, call.kind, call.name)
      BY <1>2, <1>4, <1>5, <2>2 DEF Inner
    <3>3. FrameOf(call) \in Frames
      BY <1>1, FrameTypes
    <3>4. Front(Append(n0, FrameOf(call))) = n0
      BY <3>3, FrontOfAppend
    <3>5. c0 \in Seq(Segs) /\ call.name \in Given /\ call.kind \in Kinds \ {"collection"}
      BY <1>1, <2>2, SegmentsAreSegs, SeqMonotonic DEF Made, Given
    <3>6. Popped(i.cn, call.kind) = IF call.kind \in Resourceful THEN Room(c0) ELSE c0
      BY <3>2, <3>5, PoppedMeans
    <3> QED
      BY <1>1, <1>4, <2>2, <3>1, <3>2, <3>4, <3>6 DEF Closing
  <2> QED
    BY <2>1, <2>2
<1>8. Front([now EXCEPT ![on] = [cn |-> cn, nest |-> nest]]) = rs
  <2>1. PICK e : e = [now EXCEPT ![on] = rs[on]]
    OBVIOUS
  <2>2. on \in 1..Len(now) /\ rs[on] \in Routers
    BY <1>1, <1>3, RouterTypes
  <2>3. /\ e \in Seq(Routers) /\ Len(e) = Len(now)
        /\ \A j \in 1..Len(now) : e[j] = IF j = on THEN rs[on] ELSE now[j]
    BY <1>3, <2>1, <2>2, ExceptSeq
  <2>4. e # <<>>
    BY <1>3, <2>3, EmptySeq
  <2>5. /\ Front(e) \in Seq(Routers) /\ Len(Front(e)) = Len(e) - 1
        /\ \A j \in 1..Len(e) - 1 : Front(e)[j] = e[j]
    BY <2>3, <2>4, FrontProperties
  <2>6. PICK b \in Seq(Routers) : b = Front(e)
    BY <2>5
  <2>7. Len(b) = Len(rs) /\ \A j \in 1..Len(rs) : b[j] = e[j]
    BY <1>3, <2>3, <2>5, <2>6
  <2>8. \A j \in 1..Len(rs) : e[j] = rs[j]
    BY <1>3, <2>3
  <2>9. b = rs
    BY <2>7, <2>8, SeqEqual
  <2> QED
    BY <1>6, <1>7, <2>1, <2>6, <2>9
<1> QED
  BY <1>4, <1>5, <1>7, <1>8

(***************************************************************************)
(* The routes a call registers                                             *)
(***************************************************************************)

HttpMethods == {"get", "post", "put", "patch", "delete"}
Routes == [method : HttpMethods, path : Seq(Segments), nest : Seq(Frames),
           tail : Seq(Segments), own : Nat]
OwnRoutes(cn, nest, id) == {Route(m, cn, t, nest, id) : m \in HttpMethods, t \in Seq(Segments)}

LEMMA RouteTypes ==
  ASSUME NEW cn \in Seq(Segments), NEW nest \in Seq(Frames), NEW id \in Nat
  PROVE  OwnRoutes(cn, nest, id) \subseteq Routes
<1> SUFFICES ASSUME NEW m \in HttpMethods, NEW t \in Seq(Segments)
             PROVE  Route(m, cn, t, nest, id) \in Routes
  BY DEF OwnRoutes
<1>1. cn \o t \in Seq(Segments)
  BY ConcatProperties
<1> QED
  BY <1>1 DEF Route, Routes

\* The resourceful actions of a call are routes of its own, all in one place.
LEMMA ActionsTypes ==
  ASSUME NEW call \in Calls, call.name \in RouteNames, NEW cn, NEW nest
  PROVE  ResourcefulActions(call, cn, nest) \in Seq(OwnRoutes(cn, nest, call.id))
<1> DEFINE n == Len(Verbs)
           Own == OwnRoutes(cn, nest, call.id)
           tail(v) == IF call.kind = "resources" /\ v[1] \notin {"index", "create"}
                      THEN <<Dir(call.name), Id>> ELSE <<Dir(call.name)>>
           route(k) == Route(Verbs[k][2], cn, tail(Verbs[k]), nest, call.id)
           start == [k \in 0..n |-> <<>>]
           step == [k \in 0..n |-> [s \in Seq(Own) |->
                      IF k # 0 /\ Verbs[k][1] \in call.methods THEN Append(s, route(k)) ELSE s]]
           Is(f) == f = [k \in 0..n |->
                      IF k = 0 THEN <<>>
                      ELSE IF Verbs[k][1] \in call.methods THEN Append(f[k - 1], route(k))
                      ELSE f[k - 1]]
           f == CHOOSE upTo : Is(upTo)
<1>1. n = 6 /\ \A k \in 1..n : Verbs[k][2] \in HttpMethods
  BY DEF Verbs, HttpMethods
<1>2. \A k \in 1..n : route(k) \in Own
  <2>1. Dir(call.name) \in Segments /\ Id \in Segments
    BY DEF Dir, Id, Segments
  <2>2. \A k \in 1..n : tail(Verbs[k]) \in Seq(Segments)
    BY <2>1
  <2> HIDE DEF tail, n
  <2> QED
    BY <1>1, <2>2 DEF OwnRoutes
<1> HIDE DEF route, Own
<1>3. PICK rank : Walk(0..n, {0}, Before(n), rank) /\ Bounded(0..n, rank)
  BY <1>1, NumbersWalk
<1>4. start \in [0..n -> Seq(Own)]
  OBVIOUS
<1>5. step \in [0..n -> [Seq(Own) -> Seq(Own)]]
  <2>1. \A k \in 0..n, s \in Seq(Own) : k # 0 => Append(s, route(k)) \in Seq(Own)
    <3> HIDE DEF n
    <3> QED
      BY <1>1, <1>2, AppendProperties
  <2> HIDE DEF n
  <2> QED
    BY <2>1
<1>6. PICK u \in [0..n -> Seq(Own)] : Follows(u, 0..n, {0}, Before(n), start, step)
  <2> HIDE DEF start, step, n
  <2> QED
    BY <1>3, <1>4, <1>5, WalkExists
<1> HIDE DEF n
<1>7. \A k \in 0..n : u[k] = IF k = 0 THEN <<>>
                             ELSE IF Verbs[k][1] \in call.methods THEN Append(u[k - 1], route(k))
                             ELSE u[k - 1]
  <2> SUFFICES ASSUME NEW k \in 0..n
               PROVE  u[k] = IF k = 0 THEN <<>>
                             ELSE IF Verbs[k][1] \in call.methods THEN Append(u[k - 1], route(k))
                             ELSE u[k - 1]
    OBVIOUS
  <2>1. u[k] = IF k \in {0} THEN start[k] ELSE step[k][u[Before(n)[k]]]
    BY <1>6 DEF Follows
  <2>2. CASE k = 0
    BY <2>1, <2>2
  <2>3. CASE k # 0
    <3>1. Before(n)[k] = k - 1 /\ k - 1 \in 0..n
      BY <1>1, <2>3 DEF Before
    <3>2. u[k - 1] \in Seq(Own)
      BY <3>1
    <3>3. u[k] = step[k][u[k - 1]]
      BY <2>1, <2>3, <3>1
    <3>4. step[k][u[k - 1]] = IF Verbs[k][1] \in call.methods THEN Append(u[k - 1], route(k)) ELSE u[k - 1]
      BY <2>3, <3>2
    <3> QED
      BY <2>3, <3>3, <3>4
  <2> QED
    BY <2>2, <2>3
<1>8. Is(u)
  BY <1>7, Zenon
<1>9. Is(f)
  BY <1>8, Zenon
<1>10. \A k \in 0..n : f[k] = IF k = 0 THEN <<>>
                              ELSE IF Verbs[k][1] \in call.methods THEN Append(f[k - 1], route(k))
                              ELSE f[k - 1]
  BY <1>9, Zenon
<1>11. ResourcefulActions(call, cn, nest) = f[n]
  BY Zenon DEF ResourcefulActions, route, n
<1> DEFINE S == {k \in 0..n : f[k] \in Seq(Own)}
<1> HIDE DEF f
<1>12. Closed(S, 0..n, {0}, Before(n))
  <2> SUFFICES ASSUME NEW k \in 0..n, k = 0 \/ Before(n)[k] \in S PROVE f[k] \in Seq(Own)
    BY DEF Closed
  <2>1. CASE k = 0
    <3>1. f[k] = <<>> /\ <<>> \in Seq(Own)
      BY <1>10, <2>1
    <3> QED
      BY <3>1
  <2>2. CASE k # 0
    <3>1. k \in 1..n /\ f[k - 1] \in Seq(Own)
      BY <1>1, <2>2 DEF Before
    <3>2. Append(f[k - 1], route(k)) \in Seq(Own)
      BY <1>2, <3>1, AppendProperties
    <3>3. f[k] = IF Verbs[k][1] \in call.methods THEN Append(f[k - 1], route(k)) ELSE f[k - 1]
      BY <1>10, <2>2
    <3> QED
      BY <3>1, <3>2, <3>3
  <2> QED
    BY <2>1, <2>2
<1>13. 0..n \subseteq S
  <2> HIDE DEF S
  <2> QED
    BY <1>3, <1>12, WalkInduction
<1>14. n \in 0..n
  BY <1>1
<1>15. f[n] \in Seq(Own)
  BY <1>13, <1>14
<1> QED
  BY <1>11, <1>15 DEF Own

(***************************************************************************)
(* What the open calls made of the routers                                 *)
(***************************************************************************)

Ids(cs, k) == {cs[j].id : j \in 1..k}

\* H holds the routers as they were when each of the calls cs was made, and rs,
\* which they have become.
History(H, cs, rs) ==
    /\ H \in [0..Len(cs) -> Seq(Routers)]
    /\ H[Len(cs)] = rs
    /\ \A k \in 1..Len(cs) : Made(H[k - 1], cs[k]) /\ H[k] = Opened(H[k - 1], cs[k])
    /\ \A k \in 0..Len(cs) : Meant(H[k], Ids(cs, k))

LEMMA CallAppended ==
  ASSUME NEW cs \in Seq(Calls), NEW c \in Calls
  PROVE  /\ Append(cs, c) \in Seq(Calls) /\ Len(Append(cs, c)) = Len(cs) + 1 /\ Len(cs) \in Nat
         /\ Append(cs, c)[Len(cs) + 1] = c /\ \A j \in 1..Len(cs) : Append(cs, c)[j] = cs[j]
         /\ \A k \in 0..Len(cs) : Ids(Append(cs, c), k) = Ids(cs, k)
         /\ Ids(Append(cs, c), Len(cs) + 1) = Ids(cs, Len(cs)) \cup {c.id}
<1>1. PICK a : a = Append(cs, c)
  OBVIOUS
<1>2. PICK n \in Nat : n = Len(cs)
  BY LenProperties
<1>3. a \in Seq(Calls) /\ Len(a) = n + 1 /\ a[n + 1] = c /\ \A j \in 1..n : a[j] = cs[j]
  BY <1>1, <1>2, AppendProperties
<1>4. ASSUME NEW k \in 0..n PROVE Ids(a, k) = Ids(cs, k)
  <2>1. \A j \in 1..k : j \in 1..n /\ a[j] = cs[j]
    BY <1>3
  <2> QED
    BY <2>1 DEF Ids
<1>5. Ids(a, n + 1) = Ids(cs, n) \cup {c.id}
  <2>1. 1..n + 1 = (1..n) \cup {n + 1}
    OBVIOUS
  <2>2. \A j \in 1..n : a[j].id = cs[j].id
    BY <1>3
  <2> QED
    BY <1>3, <2>1, <2>2 DEF Ids
<1> QED
  BY <1>1, <1>2, <1>3, <1>4, <1>5

LEMMA HistoryOpened ==
  ASSUME NEW cs \in Seq(Calls), NEW rs \in Seq(Routers), NEW H, History(H, cs, rs),
         NEW c, Made(rs, c)
  PROVE  \E G : History(G, Append(cs, c), Opened(rs, c))
<1>1. PICK a : a = Append(cs, c)
  OBVIOUS
<1>2. PICK n \in Nat : n = Len(cs)
  BY LenProperties
<1>3. PICK now \in Seq(Routers) : now = Opened(rs, c)
  BY OpenedParts
<1>4. /\ Len(a) = n + 1 /\ a[n + 1] = c /\ \A j \in 1..n : a[j] = cs[j]
      /\ \A k \in 0..n : Ids(a, k) = Ids(cs, k)
      /\ Ids(a, n + 1) = Ids(cs, n) \cup {c.id}
  BY <1>1, <1>2, CallAppended DEF Made
<1> DEFINE G == [k \in 0..n + 1 |-> IF k = n + 1 THEN now ELSE H[k]]
<1>5. /\ H \in [0..n -> Seq(Routers)] /\ H[n] = rs
      /\ \A k \in 1..n : Made(H[k - 1], cs[k]) /\ H[k] = Opened(H[k - 1], cs[k])
      /\ \A k \in 0..n : Meant(H[k], Ids(cs, k))
  BY <1>2 DEF History
<1>6. /\ G \in [0..n + 1 -> Seq(Routers)] /\ G[n + 1] = now
      /\ \A k \in 0..n : G[k] = H[k]
  BY <1>5
<1> HIDE DEF G
<1>7. ASSUME NEW k \in 1..n + 1 PROVE Made(G[k - 1], a[k]) /\ G[k] = Opened(G[k - 1], a[k])
  <2>1. CASE k = n + 1
    <3>1. k - 1 = n /\ k - 1 \in 0..n
      BY <2>1
    <3>2. G[k - 1] = rs /\ a[k] = c /\ G[k] = now
      BY <1>4, <1>5, <1>6, <2>1, <3>1
    <3> QED
      BY <1>3, <3>2
  <2>2. CASE k # n + 1
    <3>1. k \in 1..n /\ k - 1 \in 0..n /\ k \in 0..n
      BY <2>2
    <3>2. G[k - 1] = H[k - 1] /\ G[k] = H[k] /\ a[k] = cs[k]
      BY <1>4, <1>6, <3>1
    <3> QED
      BY <1>5, <3>1, <3>2
  <2> QED
    BY <2>1, <2>2
<1>8. ASSUME NEW k \in 0..n + 1 PROVE Meant(G[k], Ids(a, k))
  <2>1. CASE k = n + 1
    <3>1. Meant(rs, Ids(cs, n))
      <4>1. n \in 0..n
        OBVIOUS
      <4> QED
        BY <1>5, <4>1
    <3>2. Meant(now, Ids(cs, n) \cup {c.id})
      BY <1>3, <3>1, OpenedMeant
    <3> QED
      BY <1>4, <1>6, <2>1, <3>2
  <2>2. CASE k # n + 1
    <3>1. k \in 0..n
      BY <2>2
    <3> QED
      BY <1>4, <1>5, <1>6, <3>1
  <2> QED
    BY <2>1, <2>2
<1>9. History(G, a, now)
  BY <1>4, <1>6, <1>7, <1>8 DEF History
<1> QED
  BY <1>1, <1>3, <1>9

LEMMA HistoryClosed ==
  ASSUME NEW cs \in Seq(Calls), cs # <<>>, NEW rs \in Seq(Routers), NEW H, History(H, cs, rs)
  PROVE  /\ H[Len(cs) - 1] \in Seq(Routers)
         /\ Made(H[Len(cs) - 1], Last(cs)) /\ rs = Opened(H[Len(cs) - 1], Last(cs))
         /\ \E G : History(G, Front(cs), H[Len(cs) - 1])
         /\ Meant(H[Len(cs) - 1], Ids(cs, Len(cs) - 1))
<1>1. PICK a : a = Front(cs)
  OBVIOUS
<1>2. PICK n \in Nat \ {0} : n = Len(cs)
  BY FrontProperties
<1>3. Len(a) = n - 1 /\ (\A j \in 1..n - 1 : a[j] = cs[j]) /\ Last(cs) = cs[n]
  BY <1>1, <1>2, FrontProperties
<1> DEFINE G == [k \in 0..n - 1 |-> H[k]]
<1>5. /\ H \in [0..n -> Seq(Routers)] /\ H[n] = rs
      /\ \A k \in 1..n : Made(H[k - 1], cs[k]) /\ H[k] = Opened(H[k - 1], cs[k])
      /\ \A k \in 0..n : Meant(H[k], Ids(cs, k))
  BY <1>2 DEF History
<1>6. G \in [0..n - 1 -> Seq(Routers)] /\ \A k \in 0..n - 1 : G[k] = H[k]
  BY <1>5
<1> HIDE DEF G
<1>7. ASSUME NEW k \in 1..n - 1 PROVE Made(G[k - 1], a[k]) /\ G[k] = Opened(G[k - 1], a[k])
  <2>1. k \in 1..n /\ k - 1 \in 0..n - 1 /\ k \in 0..n - 1
    OBVIOUS
  <2>2. G[k - 1] = H[k - 1] /\ G[k] = H[k] /\ a[k] = cs[k]
    BY <1>3, <1>6, <2>1
  <2> QED
    BY <1>5, <2>1, <2>2
<1>8. ASSUME NEW k \in 0..n - 1 PROVE Meant(G[k], Ids(a, k))
  <2>1. k \in 0..n /\ \A j \in 1..k : j \in 1..n - 1
    OBVIOUS
  <2>2. \A j \in 1..k : a[j] = cs[j]
    BY <1>3, <2>1
  <2>3. Ids(a, k) = Ids(cs, k)
    BY <2>2 DEF Ids
  <2> QED
    BY <1>5, <1>6, <2>1, <2>3
<1>9. n - 1 \in 0..n - 1 /\ n - 1 \in 0..n /\ n \in 1..n
  OBVIOUS
<1>10. History(G, a, H[n - 1])
  <2>1. G[n - 1] = H[n - 1]
    BY <1>6, <1>9
  <2> QED
    BY <1>3, <1>6, <1>7, <1>8, <2>1 DEF History
<1>11. H[n - 1] \in Seq(Routers) /\ Made(H[n - 1], cs[n]) /\ rs = Opened(H[n - 1], cs[n])
       /\ Meant(H[n - 1], Ids(cs, n - 1))
  BY <1>5, <1>9
<1> QED
  BY <1>1, <1>2, <1>3, <1>10, <1>11

(***************************************************************************)
(* The routes registered                                                   *)
(***************************************************************************)

\* RoutesMatchNesting of one route, and of the order of a sequence of them.
Placed(r) ==
    ~Doubled(r.nest) =>
        r.path = (IF r.own = 0 THEN Prefix(r.nest) ELSE Front(OwnPrefix(r.nest))) \o r.tail
InOrder(rg) ==
    \A i, j \in DOMAIN rg :
        /\ rg[i].own # 0 /\ rg[j].own # rg[i].own
        /\ \E f \in DOMAIN rg[j].nest : rg[j].nest[f].call = rg[i].own
        => j < i

LEMMA MatchNestingParts ==
  ASSUME registered \in Seq(Routes)
  PROVE  RoutesMatchNesting <=> (\A i \in 1..Len(registered) : Placed(registered[i])) /\ InOrder(registered)
<1>1. DOMAIN registered = 1..Len(registered)
  BY LenProperties
<1> QED
  BY <1>1, Zenon DEF RoutesMatchNesting, Placed, InOrder

\* The routes new, all of one call or of none, are nested in calls of ids.
NestedIn(new, own, ids) ==
    \A i \in 1..Len(new) :
        new[i].own = own /\ \A f \in 1..Len(new[i].nest) : new[i].nest[f].call \in ids

\* The calls of ids have registered nothing of their own.
Unregistered(rg, ids) == \A i \in 1..Len(rg) : rg[i].own # 0 => rg[i].own \notin ids

LEMMA RoutesAppended ==
  ASSUME NEW rg \in Seq(Routes), NEW new \in Seq(Routes), NEW own \in Nat, NEW ids,
         \A i \in 1..Len(rg) : Placed(rg[i]), \A i \in 1..Len(new) : Placed(new[i]),
         InOrder(rg), NestedIn(new, own, ids), Unregistered(rg, ids)
  PROVE  /\ rg \o new \in Seq(Routes)
         /\ \A i \in 1..Len(rg \o new) : Placed((rg \o new)[i])
         /\ InOrder(rg \o new)
         /\ \A left : (own # 0 => own \notin left) /\ left \subseteq ids
                          => Unregistered(rg \o new, left)
<1>1. PICK c : c = rg \o new
  OBVIOUS
<1>2. PICK n \in Nat : n = Len(rg)
  BY LenProperties
<1>3. PICK m \in Nat : m = Len(new)
  BY LenProperties
<1>4. /\ c \in Seq(Routes) /\ Len(c) = n + m
      /\ \A i \in 1..n + m : c[i] = IF i <= n THEN rg[i] ELSE new[i - n]
  BY <1>1, <1>2, <1>3, ConcatProperties
<1>5. ASSUME NEW i \in 1..n + m
      PROVE  \/ i \in 1..n /\ c[i] = rg[i]
             \/ i > n /\ i - n \in 1..m /\ c[i] = new[i - n]
  BY <1>4
<1>6. \A i \in 1..n + m : Placed(c[i])
  <2> TAKE i \in 1..n + m
  <2>1. CASE i \in 1..n /\ c[i] = rg[i]
    BY <1>2, <2>1
  <2>2. CASE i - n \in 1..m /\ c[i] = new[i - n]
    BY <1>3, <2>2
  <2> QED
    BY <1>5, <2>1, <2>2
<1>7. DOMAIN c = 1..n + m /\ DOMAIN rg = 1..n
  BY <1>2, <1>4, LenProperties
<1>8. InOrder(c)
  <2> SUFFICES ASSUME NEW i \in 1..n + m, NEW j \in 1..n + m,
                      c[i].own # 0, c[j].own # c[i].own,
                      NEW f \in DOMAIN c[j].nest, c[j].nest[f].call = c[i].own
               PROVE  j < i
    BY <1>7 DEF InOrder
  <2>1. c[j] \in Routes
    BY <1>4, ElementOfSeq
  <2>2. c[j].nest \in Seq(Frames)
    BY <2>1 DEF Routes
  <2>3. f \in 1..Len(c[j].nest)
    BY <2>2, LenProperties
  <2>4. CASE i \in 1..n /\ c[i] = rg[i] /\ j \in 1..n /\ c[j] = rg[j]
    BY <1>7, <2>4 DEF InOrder
  <2>5. CASE i > n /\ j \in 1..n
    BY <2>5
  <2>6. CASE i - n \in 1..m /\ c[i] = new[i - n] /\ j - n \in 1..m /\ c[j] = new[j - n]
    <3>1. c[i].own = own /\ c[j].own = own
      BY <1>3, <2>6 DEF NestedIn
    <3> QED
      BY <3>1
  <2>7. CASE i \in 1..n /\ c[i] = rg[i] /\ j - n \in 1..m /\ c[j] = new[j - n]
    <3>1. c[i].own \in ids
      BY <1>3, <2>3, <2>7 DEF NestedIn
    <3>2. c[i].own \notin ids
      BY <1>2, <2>7 DEF Unregistered
    <3> QED
      BY <3>1, <3>2
  <2> QED
    BY <1>5, <2>4, <2>5, <2>6, <2>7
<1>9. ASSUME NEW left, own # 0 => own \notin left, left \subseteq ids PROVE Unregistered(c, left)
  <2> SUFFICES ASSUME NEW i \in 1..n + m, c[i].own # 0 PROVE c[i].own \notin left
    BY <1>4 DEF Unregistered
  <2>1. CASE i \in 1..n /\ c[i] = rg[i]
    BY <1>2, <1>9, <2>1 DEF Unregistered
  <2>2. CASE i - n \in 1..m /\ c[i] = new[i - n]
    <3>1. c[i].own = own
      BY <1>3, <2>2 DEF NestedIn
    <3> QED
      BY <1>9, <3>1
  <2> QED
    BY <1>5, <2>1, <2>2
<1> QED
  BY <1>1, <1>4, <1>6, <1>8, <1>9

(***************************************************************************)
(* The invariant                                                           *)
(***************************************************************************)

\* Closing the open calls, the innermost first, restores what they found.
Stacked == \E H : History(H, openCalls, routers)

\* The ids of the open calls, given one after another.
Numbered ==
    /\ \A j \in 1..Len(openCalls) : openCalls[j].id \in 1..nCalls
    /\ \A j, k \in 1..Len(openCalls) : j < k => openCalls[j].id < openCalls[k].id

\* A call that has registered its own routes has been made, and is closed.
OwnAreClosed ==
    /\ Unregistered(registered, Ids(openCalls, Len(openCalls)))
    /\ \A i \in 1..Len(registered) : registered[i].own <= nCalls

DslIInv ==
    /\ DslTypeOK
    /\ Stacked
    /\ Numbered
    /\ OwnAreClosed
    /\ \A i \in 1..Len(registered) : Placed(registered[i])
    /\ InOrder(registered)

LEMMA TypesNamed ==
  DslTypeOK <=> /\ routers \in Seq(Routers) /\ openCalls \in Seq(Calls)
                /\ Len(routers) = Len(openCalls) + 1 /\ registered \in Seq(Routes)
                /\ nCalls \in 0..MaxOpened /\ nCrud \in 0..MaxCrud
BY Zenon DEF DslTypeOK, Routers, Calls, Routes, HttpMethods

LEMMA DslInitially == DslInit => DslIInv
<1> SUFFICES ASSUME DslInit PROVE DslIInv
  OBVIOUS
<1>1. /\ routers = <<[cn |-> <<>>, nest |-> <<>>]>> /\ openCalls = <<>> /\ registered = <<>>
      /\ nCalls = 0 /\ nCrud = 0
  BY DEF DslInit
<1>2. routers \in Seq(Routers) /\ Len(routers) = 1 /\ routers[1].cn = <<>> /\ routers[1].nest = <<>>
  <2>1. [cn |-> <<>>, nest |-> <<>>] \in Routers
    BY DEF Routers
  <2> QED
    BY <1>1, <2>1
<1>3. openCalls \in Seq(Calls) /\ Len(openCalls) = 0 /\ registered \in Seq(Routes) /\ Len(registered) = 0
  BY <1>1
<1>4. DslTypeOK
  BY <1>1, <1>2, <1>3, BoundsAssumption, TypesNamed
<1>5. Meant(routers, Ids(openCalls, 0))
  <2>1. \A r \in 1..Len(routers) : routers[r].cn = Prefix(routers[r].nest) /\ routers[r].nest = <<>>
    BY <1>2, PrefixOfNone
  <2>2. Len(<<>>) = 0
    OBVIOUS
  <2> QED
    BY <2>1, <2>2 DEF Meant
<1>6. History([k \in 0..0 |-> routers], openCalls, routers)
  <2>1. PICK G : G = [k \in 0..0 |-> routers]
    OBVIOUS
  <2>2. G \in [0..0 -> Seq(Routers)] /\ \A k \in 0..0 : k = 0 /\ G[k] = routers
    BY <1>2, <2>1
  <2>3. G[0] = routers
    BY <2>2
  <2> QED
    BY <1>3, <1>5, <2>1, <2>2, <2>3 DEF History
<1>7. DOMAIN registered = {}
  BY <1>3, LenProperties
<1> QED
  BY <1>3, <1>4, <1>6, <1>7 DEF DslIInv, Numbered, OwnAreClosed, Unregistered, InOrder

LEMMA OpenKeeps ==
  ASSUME DslIInv, NEW c, Made(routers, c), c.id = nCalls + 1, nCalls < MaxOpened,
         nCalls' = nCalls + 1, openCalls' = Append(openCalls, c), routers' = Opened(routers, c),
         registered' = registered, nCrud' = nCrud
  PROVE  DslIInv'
<1>1. /\ routers \in Seq(Routers) /\ openCalls \in Seq(Calls)
      /\ Len(routers) = Len(openCalls) + 1 /\ registered \in Seq(Routes)
      /\ nCalls \in 0..MaxOpened /\ nCrud \in 0..MaxCrud
  BY TypesNamed DEF DslIInv
<1>2. PICK n \in Nat : n = Len(openCalls)
  BY <1>1, LenProperties
<1>3. c \in Calls
  BY DEF Made
<1>4. PICK a : a = openCalls'
  OBVIOUS
<1>5. /\ a \in Seq(Calls) /\ Len(a) = n + 1 /\ a[n + 1] = c /\ \A j \in 1..n : a[j] = openCalls[j]
      /\ Ids(a, n + 1) = Ids(openCalls, n) \cup {c.id}
  BY <1>1, <1>2, <1>3, <1>4, CallAppended
<1>6. routers' \in Seq(Routers) /\ Len(routers') = Len(routers) + 1
  BY <1>1, OpenedParts
<1>7. DslTypeOK'
  <2>1. nCalls + 1 \in 0..MaxOpened
    BY <1>1, BoundsAssumption
  <2>2. DslTypeOK' <=> /\ routers' \in Seq(Routers) /\ openCalls' \in Seq(Calls)
                       /\ Len(routers') = Len(openCalls') + 1 /\ registered' \in Seq(Routes)
                       /\ nCalls' \in 0..MaxOpened /\ nCrud' \in 0..MaxCrud
    BY Zenon DEF DslTypeOK, Routers, Calls, Routes, HttpMethods
  <2>3. Len(routers') = Len(a) + 1
    BY <1>1, <1>2, <1>5, <1>6
  <2> QED
    BY <1>1, <1>4, <1>5, <1>6, <2>1, <2>2, <2>3
<1>8. Stacked'
  <2>1. PICK H : History(H, openCalls, routers)
    BY DEF DslIInv, Stacked
  <2>2. PICK G : History(G, Append(openCalls, c), Opened(routers, c))
    BY <1>1, <2>1, HistoryOpened
  <2>3. History(G, openCalls', routers')
    BY <2>2
  <2> QED
    BY <2>3 DEF Stacked
<1>9. Numbered'
  <2>1. \A j \in 1..n : openCalls[j].id \in 1..nCalls
    BY <1>2 DEF DslIInv, Numbered
  <2>2. \A j, k \in 1..n : j < k => openCalls[j].id < openCalls[k].id
    BY <1>2 DEF DslIInv, Numbered
  <2>3. \A j \in 1..n + 1 : j = n + 1 \/ j \in 1..n
    OBVIOUS
  <2>4. \A j \in 1..n + 1 : a[j].id \in 1..nCalls + 1
    <3>1. \A j \in 1..n : openCalls[j].id \in 1..nCalls + 1
      BY <1>1, <2>1
    <3>2. c.id \in 1..nCalls + 1
      BY <1>1
    <3> QED
      BY <1>5, <2>3, <3>1, <3>2
  <2>5. ASSUME NEW j \in 1..n + 1, NEW k \in 1..n + 1, j < k PROVE a[j].id < a[k].id
    <3>1. j \in 1..n
      BY <2>5
    <3>2. CASE k = n + 1
      <4>1. a[j].id \in 1..nCalls /\ a[k].id = nCalls + 1
        BY <1>5, <2>1, <3>1, <3>2
      <4> QED
        BY <1>1, <4>1
    <3>3. CASE k \in 1..n
      BY <1>5, <2>2, <2>5, <3>1, <3>3
    <3> QED
      BY <2>3, <3>2, <3>3
  <2> QED
    BY <1>4, <1>5, <2>4, <2>5 DEF Numbered
<1>10. OwnAreClosed'
  <2>1. \A i \in 1..Len(registered) : registered[i].own <= nCalls /\ registered[i].own \in Nat
    <3>1. \A i \in 1..Len(registered) : registered[i] \in Routes
      BY <1>1, ElementOfSeq
    <3> QED
      BY <3>1 DEF DslIInv, OwnAreClosed, Routes
  <2>2. Unregistered(registered, Ids(openCalls, n))
    BY <1>2 DEF DslIInv, OwnAreClosed
  <2>3. Unregistered(registered, Ids(a, n + 1))
    <3>1. \A i \in 1..Len(registered) : registered[i].own # c.id
      BY <1>1, <2>1
    <3> QED
      BY <1>5, <2>2, <3>1 DEF Unregistered
  <2>4. \A i \in 1..Len(registered) : registered[i].own <= nCalls + 1
    BY <1>1, <2>1
  <2> QED
    BY <1>4, <1>5, <2>3, <2>4 DEF OwnAreClosed
<1>11. /\ \A i \in 1..Len(registered') : Placed(registered'[i])
       /\ InOrder(registered')
  BY DEF DslIInv
<1> QED
  BY <1>7, <1>8, <1>9, <1>10, <1>11 DEF DslIInv

LEMMA CallKeeps ==
  ASSUME DslIInv, NEW r \in InScope, NEW kind \in Kinds \ {"collection"}, NEW n \in RouteNames,
         OpenCall(r, kind, n)
  PROVE  DslIInv'
<1>1. routers \in Seq(Routers) /\ nCalls \in Nat /\ r \in 1..Len(routers)
  BY TypesNamed, BoundsAssumption DEF DslIInv, InScope
<1>2. PICK methods \in Methods(kind) :
         openCalls' = Append(openCalls, [on |-> r, kind |-> kind, name |-> n, id |-> nCalls',
                                         methods |-> methods, saved |-> routers[r].cn])
  BY DEF OpenCall
<1>3. PICK c : c = [on |-> r, kind |-> kind, name |-> n, id |-> nCalls',
                    methods |-> methods, saved |-> routers[r].cn]
  OBVIOUS
<1>4. nCalls' = nCalls + 1 /\ nCalls < MaxOpened /\ registered' = registered /\ nCrud' = nCrud
  BY DEF OpenCall
<1>5. methods \in SUBSET {"index", "create", "update", "show", "destroy"}
  <2>1. DefaultMethods(kind) \subseteq AllMethods
    BY DEF DefaultMethods, AllMethods
  <2>2. \/ methods = DefaultMethods(kind) \/ methods \in OnlySets
        \/ \E e \in ExceptSets : methods = DefaultMethods(kind) \ e
    BY Zenon DEF Methods
  <2>3. methods \subseteq AllMethods
    BY <2>1, <2>2, OptionsAssumption, Zenon
  <2> QED
    BY <2>3 DEF AllMethods
<1>6. Made(routers, c)
  <2>1. routers[r].cn \in Seq(Segments) /\ r \in Nat
    BY <1>1, RouterTypes
  <2>2. c \in Calls
    BY <1>1, <1>3, <1>4, <1>5, <2>1 DEF Calls
  <2> QED
    BY <1>1, <1>3, <2>2 DEF Made
<1>7. routers' = Opened(routers, c)
  <2>1. PICK i : i = [cn |-> Namespaced(routers[r].cn, kind, n),
                      nest |-> Append(routers[r].nest, [kind |-> kind, name |-> n, call |-> nCalls'])]
    OBVIOUS
  <2>2. routers' = Append([routers EXCEPT ![r] = i], i)
    BY <2>1, Zenon DEF OpenCall
  <2>3. Inner(routers, c) = i
    BY <1>3, <2>1 DEF Inner, FrameOf
  <2> QED
    BY <1>3, <2>2, <2>3 DEF Opened
<1>8. openCalls' = Append(openCalls, c) /\ c.id = nCalls + 1
  BY <1>2, <1>3, <1>4
<1> QED
  BY <1>4, <1>6, <1>7, <1>8, OpenKeeps

LEMMA CollectionKeeps ==
  ASSUME DslIInv, NEW r \in InScope, Collection(r)
  PROVE  DslIInv'
<1>1. routers \in Seq(Routers) /\ nCalls \in Nat /\ r \in 1..Len(routers)
  BY TypesNamed, BoundsAssumption DEF DslIInv, InScope
<1>2. PICK c : c = [on |-> r, kind |-> "collection", name |-> "none", id |-> nCalls',
                    methods |-> {}, saved |-> routers[r].cn]
  OBVIOUS
<1>3. /\ nCalls' = nCalls + 1 /\ nCalls < MaxOpened /\ registered' = registered /\ nCrud' = nCrud
      /\ Len(routers[r].cn) > 1
  BY DEF Collection
<1>4. Made(routers, c)
  <2>1. routers[r].cn \in Seq(Segments) /\ r \in Nat
    BY <1>1, RouterTypes
  <2>2. c \in Calls
    BY <1>1, <1>2, <1>3, <2>1 DEF Calls, Kinds
  <2> QED
    BY <1>1, <1>2, <1>3, <2>2 DEF Made
<1>5. routers' = Opened(routers, c)
  <2>1. PICK i : i = [cn |-> Front(routers[r].cn),
                      nest |-> Append(routers[r].nest, [kind |-> "collection", name |-> "none",
                                                        call |-> nCalls'])]
    OBVIOUS
  <2>2. routers' = Append(routers, i)
    BY <2>1, Zenon DEF Collection
  <2>3. Inner(routers, c) = i
    BY <1>2, <2>1 DEF Inner, FrameOf
  <2> QED
    BY <1>2, <2>2, <2>3 DEF Opened
<1>6. openCalls' = Append(openCalls, c) /\ c.id = nCalls + 1
  BY <1>2, <1>3, Zenon DEF Collection
<1> QED
  BY <1>3, <1>4, <1>5, <1>6, OpenKeeps

\* Routes registered by no call or by one that is closing, when the calls left
\* open are among those before.
LEMMA RegisterKeeps ==
  ASSUME DslIInv, NEW new \in Seq(Routes), NEW own \in Nat, own <= nCalls,
         \A i \in 1..Len(new) : Placed(new[i]),
         NestedIn(new, own, Ids(openCalls, Len(openCalls))),
         registered' = registered \o new, nCalls' = nCalls,
         Ids(openCalls, Len(openCalls))' \subseteq Ids(openCalls, Len(openCalls)),
         own # 0 => own \notin Ids(openCalls, Len(openCalls))'
  PROVE  /\ registered' \in Seq(Routes) /\ OwnAreClosed'
         /\ \A i \in 1..Len(registered') : Placed(registered'[i])
         /\ InOrder(registered')
<1>1. /\ registered \in Seq(Routes) /\ (\A i \in 1..Len(registered) : Placed(registered[i]))
      /\ InOrder(registered) /\ OwnAreClosed
  BY TypesNamed DEF DslIInv
<1>2. PICK ids : ids = Ids(openCalls, Len(openCalls))
  OBVIOUS
<1>3. PICK left : left = Ids(openCalls, Len(openCalls))'
  OBVIOUS
<1>4. Unregistered(registered, ids)
  BY <1>1, <1>2 DEF OwnAreClosed
<1>5. PICK c : c = registered \o new
  OBVIOUS
<1>6. /\ c \in Seq(Routes) /\ \A i \in 1..Len(c) : Placed(c[i])
      /\ InOrder(c) /\ Unregistered(c, left)
  BY <1>1, <1>2, <1>3, <1>4, <1>5, RoutesAppended
<1>7. \A i \in 1..Len(c) : c[i].own <= nCalls
  <2>1. /\ Len(c) = Len(registered) + Len(new) /\ Len(registered) \in Nat /\ Len(new) \in Nat
        /\ \A i \in 1..Len(registered) + Len(new) :
              c[i] = IF i <= Len(registered) THEN registered[i] ELSE new[i - Len(registered)]
    BY <1>1, <1>5, ConcatProperties, LenProperties
  <2>2. \A i \in 1..Len(registered) : registered[i].own <= nCalls
    BY <1>1 DEF OwnAreClosed
  <2>3. \A i \in 1..Len(new) : new[i].own <= nCalls
    BY DEF NestedIn
  <2>4. ASSUME NEW i \in 1..Len(registered) + Len(new) PROVE c[i].own <= nCalls
    <3>1. CASE i <= Len(registered)
      BY <2>1, <2>2, <3>1
    <3>2. CASE ~(i <= Len(registered))
      <4>1. i - Len(registered) \in 1..Len(new)
        BY <2>1, <3>2
      <4> QED
        BY <2>1, <2>3, <3>2, <4>1
    <3> QED
      BY <3>1, <3>2
  <2> QED
    BY <2>1, <2>4
<1> QED
  BY <1>3, <1>5, <1>6, <1>7 DEF OwnAreClosed

LEMMA CrudKeeps ==
  ASSUME DslIInv, NEW r \in InScope, Crud(r)
  PROVE  DslIInv'
<1>1. /\ routers \in Seq(Routers) /\ openCalls \in Seq(Calls)
      /\ Len(routers) = Len(openCalls) + 1 /\ registered \in Seq(Routes)
      /\ nCalls \in 0..MaxOpened /\ nCrud \in 0..MaxCrud /\ r \in 1..Len(routers)
  BY TypesNamed DEF DslIInv, InScope
<1>2. /\ registered' = Append(registered, Route("get", routers[r].cn, <<Dir("leaf")>>, routers[r].nest, 0))
      /\ nCrud < MaxCrud /\ nCrud' = nCrud + 1
      /\ routers' = routers /\ openCalls' = openCalls /\ nCalls' = nCalls
  BY DEF Crud
<1>3. PICK cn \in Seq(Segments) : cn = routers[r].cn
  BY <1>1, RouterTypes
<1>4. PICK nest \in Seq(Frames) : nest = routers[r].nest
  BY <1>1, RouterTypes
<1>5. PICK g : g = Route("get", cn, <<Dir("leaf")>>, nest, 0)
  OBVIOUS
<1>6. g \in Routes
  <2>1. <<Dir("leaf")>> \in Seq(Segments)
    BY DEF Dir, Segments
  <2>2. PICK t \in Seq(Segments) : t = <<Dir("leaf")>>
    BY <2>1
  <2>3. PICK m \in HttpMethods : m = "get"
    BY DEF HttpMethods
  <2>4. g = Route(m, cn, t, nest, 0)
    BY <1>5, <2>2, <2>3
  <2>5. g \in OwnRoutes(cn, nest, 0)
    BY <2>4 DEF OwnRoutes
  <2> QED
    BY <2>5, RouteTypes
<1>7. Meant(routers, Ids(openCalls, Len(openCalls)))
  <2>1. PICK H : History(H, openCalls, routers)
    BY DEF DslIInv, Stacked
  <2>2. Len(openCalls) \in 0..Len(openCalls)
    BY <1>1, LenProperties
  <2> QED
    BY <2>1, <2>2 DEF History
<1>8. g.nest = nest /\ g.own = 0 /\ g.path = cn \o g.tail
  BY <1>5 DEF Route
<1>9. Placed(g)
  <2>1. ~Doubled(nest) => cn = Prefix(nest)
    BY <1>1, <1>3, <1>4, <1>7 DEF Meant
  <2> QED
    BY <1>8, <2>1 DEF Placed
<1>10. <<g>> \in Seq(Routes) /\ Len(<<g>>) = 1 /\ <<g>>[1] = g
  BY <1>6
<1>11. PICK new \in Seq(Routes) : new = <<g>> /\ \A i \in 1..Len(new) : new[i] = g
  <2>1. PICK one : one = <<g>>
    OBVIOUS
  <2>2. one \in Seq(Routes) /\ Len(one) = 1 /\ one[1] = g
    BY <1>10, <2>1
  <2>3. \A i \in 1..1 : i = 1
    OBVIOUS
  <2>4. \A i \in 1..Len(one) : one[i] = g
    BY <2>2, <2>3
  <2> QED
    BY <2>1, <2>2, <2>4
<1>12. NestedIn(new, 0, Ids(openCalls, Len(openCalls)))
  <2>1. \A f \in 1..Len(nest) : nest[f].call \in Ids(openCalls, Len(openCalls))
    BY <1>1, <1>4, <1>7 DEF Meant
  <2> QED
    BY <1>8, <1>11, <2>1 DEF NestedIn
<1>13. registered' = registered \o new
  <2>1. Append(registered, g) = registered \o <<g>>
    BY <1>1, <1>6, AppendIsConcat
  <2> QED
    BY <1>2, <1>3, <1>4, <1>5, <1>11, <2>1
<1>14. Ids(openCalls, Len(openCalls))' = Ids(openCalls, Len(openCalls))
  BY <1>2 DEF Ids
<1>15. /\ registered' \in Seq(Routes) /\ OwnAreClosed'
       /\ \A i \in 1..Len(registered') : Placed(registered'[i])
       /\ InOrder(registered')
  <2>1. \A i \in 1..Len(new) : Placed(new[i])
    BY <1>9, <1>11
  <2>2. 0 \in Nat /\ 0 <= nCalls
    BY <1>1, BoundsAssumption
  <2>3. nCalls' = nCalls
    BY <1>2
  <2> QED
    BY <1>12, <1>13, <1>14, <2>1, <2>2, <2>3, RegisterKeeps
<1>16. DslTypeOK'
  <2>1. DslTypeOK' <=> /\ routers' \in Seq(Routers) /\ openCalls' \in Seq(Calls)
                       /\ Len(routers') = Len(openCalls') + 1 /\ registered' \in Seq(Routes)
                       /\ nCalls' \in 0..MaxOpened /\ nCrud' \in 0..MaxCrud
    BY Zenon DEF DslTypeOK, Routers, Calls, Routes, HttpMethods
  <2>2. nCrud + 1 \in 0..MaxCrud
    BY <1>1, <1>2, BoundsAssumption
  <2> QED
    BY <1>1, <1>2, <1>15, <2>1, <2>2
<1>17. Stacked' /\ Numbered'
  <2>1. Stacked /\ Numbered
    BY DEF DslIInv
  <2>2. Numbered'
    BY <1>2, <2>1 DEF Numbered
  <2>3. PICK H : History(H, openCalls, routers)
    BY <2>1 DEF Stacked
  <2>4. History(H, openCalls', routers')
    BY <1>2, <2>3
  <2> QED
    BY <2>2, <2>4 DEF Stacked
<1> QED
  BY <1>15, <1>16, <1>17 DEF DslIInv

\* The routes a call registers as it closes are its own, and stand where its nesting
\* says.
OwnAndPlaced(new, call, nest) ==
    \A i \in 1..Len(new) : Placed(new[i]) /\ new[i].own = call.id /\ new[i].nest = nest

LEMMA ClosingRoutes ==
  ASSUME NEW rs \in Seq(Routers), NEW call, Made(rs, call), call.id \in Nat \ {0},
         NEW before, Meant(rs, before), NEW popped,
         NEW nest \in Seq(Frames), call.kind \in Resourceful,
         nest = Append(rs[call.on].nest, FrameOf(call)), popped = Room(rs[call.on].cn),
         NEW new, new = ResourcefulActions(call, popped, nest)
  PROVE  new \in Seq(Routes) /\ OwnAndPlaced(new, call, nest)
<1>1. /\ call \in Calls /\ call.on \in 1..Len(rs) /\ call.name \in RouteNames
      /\ FrameOf(call) \in Frames /\ FrameOf(call).kind = call.kind
  BY FrameTypes DEF Made, Resourceful, FrameOf
<1>2. PICK c0 \in Seq(Segments) : c0 = rs[call.on].cn
  BY <1>1, RouterTypes
<1>3. PICK n0 \in Seq(Frames) : n0 = rs[call.on].nest
  BY <1>1, RouterTypes
<1>4. popped \in Seq(Segments)
  BY <1>2, RoomTypes DEF Segments
<1>5. PICK Own : Own = OwnRoutes(popped, nest, call.id)
  OBVIOUS
<1>6. new \in Seq(Own)
  BY <1>1, <1>5, ActionsTypes
<1>7. Own \subseteq Routes
  BY <1>4, <1>5, RouteTypes
<1>8. ~Doubled(nest) => popped = Front(OwnPrefix(nest))
  <2>1. Doubled(n0) => Doubled(nest)
    BY <1>1, <1>3, DoubledAppended
  <2>2. ~Doubled(n0) => c0 = Prefix(n0)
    BY <1>1, <1>2, <1>3 DEF Meant
  <2>3. Front(OwnPrefix(nest)) = Room(Prefix(n0))
    BY <1>1, <1>3, OwnPrefixMeans
  <2> QED
    BY <1>2, <2>1, <2>2, <2>3
<1>9. ASSUME NEW g \in Own PROVE Placed(g) /\ g.own = call.id /\ g.nest = nest
  <2>1. PICK m \in HttpMethods, t \in Seq(Segments) : g = Route(m, popped, t, nest, call.id)
    BY <1>5 DEF OwnRoutes
  <2>2. g.own = call.id /\ g.nest = nest /\ g.path = popped \o g.tail
    BY <2>1 DEF Route
  <2> QED
    BY <1>8, <2>2 DEF Placed
<1>10. new \in Seq(Routes)
  BY <1>6, <1>7, SeqMonotonic
<1>11. \A i \in 1..Len(new) : new[i] \in Own
  BY <1>6, ElementOfSeq
<1> QED
  BY <1>9, <1>10, <1>11 DEF OwnAndPlaced

LEMMA CloseKeeps ==
  ASSUME DslIInv, CloseCall
  PROVE  DslIInv'
<1>1. /\ routers \in Seq(Routers) /\ openCalls \in Seq(Calls) /\ openCalls # <<>>
      /\ Len(routers) = Len(openCalls) + 1 /\ registered \in Seq(Routes)
      /\ nCalls \in 0..MaxOpened /\ nCrud \in 0..MaxCrud
  BY TypesNamed DEF DslIInv, CloseCall
<1>2. PICK n \in Nat \ {0} : n = Len(openCalls)
  BY <1>1, FrontProperties
<1>3. PICK call \in Calls : call = Last(openCalls) /\ call = openCalls[n]
  BY <1>1, <1>2, FrontProperties
<1>4. PICK cs \in Seq(Calls) : /\ cs = Front(openCalls) /\ Len(cs) = n - 1
                               /\ \A j \in 1..n - 1 : cs[j] = openCalls[j]
  BY <1>1, <1>2, FrontProperties
<1>5. PICK H : History(H, openCalls, routers)
  BY DEF DslIInv, Stacked
<1>6. PICK rs \in Seq(Routers) :
         /\ Made(rs, call) /\ routers = Opened(rs, call)
         /\ \E G : History(G, cs, rs)
         /\ Meant(rs, Ids(openCalls, n - 1))
  BY <1>1, <1>2, <1>3, <1>4, <1>5, HistoryClosed
<1>7. Len(rs) \in Nat /\ Len(routers) = Len(rs) + 1 /\ call.on \in 1..Len(routers)
  BY <1>6, OpenedParts DEF Made
<1>8. PICK outer : outer = routers[call.on] /\ outer.nest \in Seq(Frames)
  BY <1>1, <1>7, RouterTypes
<1>9. PICK popped : popped = IF call.kind = "collection" THEN outer.cn ELSE Popped(outer.cn, call.kind)
  OBVIOUS
<1>10. PICK cn : cn = IF call.kind \in Resourceful THEN call.saved ELSE popped
  OBVIOUS
<1>11. PICK nest : nest = IF call.kind = "collection" THEN outer.nest ELSE Front(outer.nest)
  OBVIOUS
<1>12. /\ routers' = Front([routers EXCEPT ![call.on] = [cn |-> cn, nest |-> nest]])
       /\ registered' = IF call.kind \in Resourceful
                        THEN registered \o ResourcefulActions(call, popped, outer.nest)
                        ELSE registered
       /\ openCalls' = cs /\ nCalls' = nCalls /\ nCrud' = nCrud
  BY <1>3, <1>4, <1>8, <1>9, <1>10, <1>11, Zenon DEF CloseCall
<1>13. /\ routers' = rs
       /\ call.kind # "collection" => outer.nest = Append(rs[call.on].nest, FrameOf(call))
       /\ call.kind \in Resourceful => popped = Room(rs[call.on].cn)
  <2>1. PICK now : now = routers /\ now = Opened(rs, call) /\ outer = now[call.on]
    BY <1>6, <1>8
  <2>2. Closing(call, now[call.on], popped, cn, nest)
    BY <1>9, <1>10, <1>11, <2>1, Zenon DEF Closing
  <2>3. rs \in Seq(Routers) /\ Made(rs, call)
    BY <1>6
  <2>4. /\ Front([now EXCEPT ![call.on] = [cn |-> cn, nest |-> nest]]) = rs
        /\ call.kind # "collection" => now[call.on].nest = Append(rs[call.on].nest, FrameOf(call))
        /\ call.kind \in Resourceful => popped = Room(rs[call.on].cn)
    BY <2>1, <2>2, <2>3, ClosedBack
  <2> QED
    BY <1>12, <2>1, <2>4
<1>14. /\ \A j \in 1..n : openCalls[j].id \in 1..nCalls
       /\ \A j, k \in 1..n : j < k => openCalls[j].id < openCalls[k].id
  BY <1>2 DEF DslIInv, Numbered
<1>15. call.id \in 1..nCalls /\ call.id \in Nat \ {0} /\ call.id <= nCalls
  BY <1>1, <1>2, <1>3, <1>14
<1>16. PICK ids : ids = Ids(openCalls, n)
  OBVIOUS
<1>17. PICK left : left = Ids(cs, n - 1)
  OBVIOUS
<1>18. left \subseteq ids /\ call.id \notin left
  <2>1. ASSUME NEW j \in 1..n - 1 PROVE cs[j].id \in ids /\ cs[j].id # call.id
    <3>1. j \in 1..n /\ n \in 1..n /\ j < n
      OBVIOUS
    <3>2. openCalls[j].id < openCalls[n].id /\ openCalls[j].id \in 1..nCalls
      BY <1>14, <3>1
    <3> QED
      BY <1>1, <1>3, <1>4, <1>15, <1>16, <3>1, <3>2 DEF Ids
  <2> QED
    BY <1>17, <2>1 DEF Ids
<1>19. /\ registered' \in Seq(Routes) /\ OwnAreClosed'
       /\ \A i \in 1..Len(registered') : Placed(registered'[i])
       /\ InOrder(registered')
  <2>1. /\ Ids(openCalls, Len(openCalls))' = left /\ Ids(openCalls, Len(openCalls)) = ids
    <3>1. Ids(openCalls', Len(openCalls')) = left
      BY <1>4, <1>12, <1>17
    <3> QED
      BY <1>2, <1>16, <3>1
  <2>2. CASE call.kind \in Resourceful
    <3>1. PICK new : new = ResourcefulActions(call, popped, outer.nest)
      OBVIOUS
    <3>2. call.kind # "collection"
      BY <2>2 DEF Resourceful
    <3>3. /\ new \in Seq(Routes)
          /\ \A i \in 1..Len(new) : Placed(new[i]) /\ new[i].own = call.id /\ new[i].nest = outer.nest
      <4>1. PICK within \in Seq(Frames) : within = outer.nest
        BY <1>8
      <4>2. within = Append(rs[call.on].nest, FrameOf(call)) /\ popped = Room(rs[call.on].cn)
        BY <1>13, <2>2, <3>2, <4>1
      <4>3. new = ResourcefulActions(call, popped, within)
        BY <3>1, <4>1
      <4>4. new \in Seq(Routes) /\ OwnAndPlaced(new, call, within)
        <5>1. PICK before : Meant(rs, before)
          BY <1>6
        <5>2. Made(rs, call) /\ call.id \in Nat \ {0}
          BY <1>6, <1>15
        <5> QED
          BY <2>2, <4>2, <4>3, <5>1, <5>2, ClosingRoutes
      <4> QED
        BY <4>1, <4>4 DEF OwnAndPlaced
    <3>4. \A f \in 1..Len(outer.nest) : outer.nest[f].call \in ids
      <4>1. n \in 0..Len(openCalls)
        BY <1>2
      <4>2. Meant(routers, ids)
        BY <1>2, <1>5, <1>16, <4>1 DEF History
      <4> QED
        BY <1>7, <1>8, <4>2 DEF Meant
    <3>5. NestedIn(new, call.id, ids)
      BY <3>3, <3>4 DEF NestedIn
    <3>6. registered' = registered \o new
      BY <1>12, <2>2, <3>1
    <3> QED
      BY <1>12, <1>15, <1>18, <2>1, <3>3, <3>5, <3>6, RegisterKeeps
  <2>3. CASE call.kind \notin Resourceful
    <3>1. PICK new : new = <<>>
      OBVIOUS
    <3>2. new \in Seq(Routes) /\ Len(new) = 0
      BY <3>1
    <3>3. registered' = registered \o new
      BY <1>1, <1>12, <2>3, <3>1, ConcatEmptySeq
    <3>4. NestedIn(new, 0, ids) /\ \A i \in 1..Len(new) : Placed(new[i])
      BY <3>2 DEF NestedIn
    <3>5. 0 \in Nat /\ 0 <= nCalls
      BY <1>1, BoundsAssumption
    <3>6. nCalls' = nCalls
      BY <1>12
    <3> QED
      BY <1>18, <2>1, <3>2, <3>3, <3>4, <3>5, <3>6, RegisterKeeps
  <2> QED
    BY <2>2, <2>3
<1>20. DslTypeOK'
  <2>1. DslTypeOK' <=> /\ routers' \in Seq(Routers) /\ openCalls' \in Seq(Calls)
                       /\ Len(routers') = Len(openCalls') + 1 /\ registered' \in Seq(Routes)
                       /\ nCalls' \in 0..MaxOpened /\ nCrud' \in 0..MaxCrud
    BY Zenon DEF DslTypeOK, Routers, Calls, Routes, HttpMethods
  <2>2. Len(rs) = Len(cs) + 1
    BY <1>1, <1>2, <1>4, <1>7
  <2> QED
    BY <1>1, <1>12, <1>13, <1>19, <2>1, <2>2
<1>21. Stacked' /\ Numbered'
  <2>1. PICK G : History(G, cs, rs)
    BY <1>6
  <2>2. History(G, openCalls', routers')
    BY <1>12, <1>13, <2>1
  <2>3. Numbered'
    <3>1. \A j \in 1..n - 1 : j \in 1..n /\ cs[j] = openCalls[j]
      BY <1>4
    <3>2. /\ \A j \in 1..n - 1 : cs[j].id \in 1..nCalls
          /\ \A j, k \in 1..n - 1 : j < k => cs[j].id < cs[k].id
      BY <1>14, <3>1
    <3> QED
      BY <1>4, <1>12, <3>2 DEF Numbered
  <2> QED
    BY <2>2, <2>3 DEF Stacked
<1> QED
  BY <1>19, <1>20, <1>21 DEF DslIInv

LEMMA DslStep == DslIInv /\ [DslNext]_dslVars => DslIInv'
<1> SUFFICES ASSUME DslIInv, [DslNext]_dslVars PROVE DslIInv'
  OBVIOUS
<1>1. CASE \E r \in InScope, kind \in Kinds \ {"collection"}, n \in RouteNames : OpenCall(r, kind, n)
  BY <1>1, CallKeeps
<1>2. CASE \E r \in InScope : Collection(r)
  BY <1>2, CollectionKeeps
<1>3. CASE \E r \in InScope : Crud(r)
  BY <1>3, CrudKeeps
<1>4. CASE CloseCall
  BY <1>4, CloseKeeps
<1>5. CASE UNCHANGED dslVars
  <2>1. /\ routers' = routers /\ openCalls' = openCalls /\ registered' = registered
        /\ nCalls' = nCalls /\ nCrud' = nCrud
    BY <1>5 DEF dslVars
  <2>2. DslTypeOK'
    BY <2>1, Zenon DEF DslIInv, DslTypeOK
  <2>3. PICK H : History(H, openCalls, routers)
    BY DEF DslIInv, Stacked
  <2>4. History(H, openCalls', routers')
    BY <2>1, <2>3
  <2>5. Numbered' /\ OwnAreClosed'
    BY <2>1, Zenon DEF DslIInv, Numbered, OwnAreClosed, Ids
  <2> QED
    BY <2>1, <2>2, <2>4, <2>5 DEF DslIInv, Stacked
<1> QED
  BY <1>1, <1>2, <1>3, <1>4, <1>5, Zenon DEF DslNext

\* What the open calls of a routes callback have made of the routers in scope, and
\* what they will restore, holds in every state of the DSL.
THEOREM DslInvariant == DslSpec => []DslIInv
BY DslInitially, DslStep, PTL DEF DslSpec

\* The routers in scope, the open calls and the registered routes stay in their
\* types however deep namespace(), scope(), resource(), resources() and collection()
\* of src/src/router/index.ts nest: every open call has a router of its own.
THEOREM DslTypeCorrect == DslSpec => []DslTypeOK
<1>1. DslIInv => DslTypeOK
  BY DEF DslIInv
<1> QED
  BY <1>1, DslInvariant, PTL

\* Every route of a routes callback is registered at the path its nesting means,
\* whichever router in scope it was registered on and whatever was opened, renamed,
\* popped and closed before, and the routes of a resource's callback come before
\* its own: for all names, options and depths.
THEOREM RoutesAlwaysMatchNesting == DslSpec => []RoutesMatchNesting
<1>1. DslIInv => RoutesMatchNesting
  BY TypesNamed, MatchNestingParts DEF DslIInv
<1> QED
  BY <1>1, DslInvariant, PTL
===============================================================================
