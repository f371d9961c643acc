--------------------------- MODULE Payloads_proofs ----------------------------
(***************************************************************************)
(* What a request carries, and what answers it. For any values, types and  *)
(* options, a cast that is accepted has exactly the number the value       *)
(* stands for, and one that is refused stands for none. For any columns,   *)
(* declared as anything, and any objects in a request, params are          *)
(* returned all or nothing: the proof treats the casts as what they are    *)
(* to the loop, an outcome for each value, and needs only that they        *)
(* always have one. For any actions, documents, statuses and history of    *)
(* requests, a cached validator never gives a request another verdict      *)
(* than its own schema does, and a cached stringifier is always the one    *)
(* of the answer's status.                                                 *)
(***************************************************************************)
EXTENDS ParamsFor, PayloadValidation, Walks

(***************************************************************************)
(* Every cast has an outcome                                               *)
(***************************************************************************)
Outcome(o) == o.is \in {"accepted", "refused", "threw"}

\* The ways in which a cast ends.
LEMMA Endings ==
  /\ \A v : Outcome(Accept(v)) /\ Accept(v).is = "accepted"
  /\ Outcome(Refuse) /\ Outcome(Throw)
  /\ \A condition, v : Outcome(AcceptIf(condition, v))
  BY DEF Outcome, Accept, Refuse, Throw, AcceptIf

\* The cast of a value to a type that is no array has an outcome.
LEMMA ScalarOutcome ==
  ASSUME NEW v, NEW base \in NonArrayTypes, NEW o
  PROVE  Outcome(CastScalar(v, base, o))
<1>1. ASSUME NEW w PROVE Outcome(CastPresent(w, base, o))
  <2>1. Outcome(MatchRegexOrThrow(w))
    BY Endings DEF MatchRegexOrThrow
  <2>2. Outcome(CastString(w, o))
    BY <2>1, Endings DEF CastString
  <2>3. Outcome(CastBigint(w, o)) /\ Outcome(CastBoolean(w))
    BY Endings DEF CastBigint, CastBoolean
  <2>4. Outcome(CastInteger(w, o)) /\ Outcome(CastNumber(w, o))
    BY Endings DEF CastInteger, CastNumber
  <2> QED
    BY <2>1, <2>2, <2>3, <2>4, Endings DEF CastPresent, NonArrayTypes
<1> QED
  BY <1>1, Endings DEF CastScalar

\* If one of several outcomes is a failure, the first one is a failure.
LEMMA FirstFailureOutcome ==
  ASSUME NEW n \in Nat, NEW f, DOMAIN f = 1..n,
         \A i \in 1..n : Outcome(f[i]),
         NEW j \in 1..n, f[j].is # "accepted"
  PROVE  /\ Outcome(FirstFailure(f)) /\ FirstFailure(f).is # "accepted"
         /\ \E m \in 1..n : FirstFailure(f) = f[m]
<1> DEFINE T == {i \in 1..n : f[i].is # "accepted"}
<1>1. T \in SUBSET Nat /\ T # {}
  OBVIOUS
<1>2. PICK m \in T : \A k \in T : m <= k
  BY <1>1, SmallestOf
<1>3. \A k \in 1..(m - 1) : f[k].is = "accepted"
  BY <1>2
<1>4. \E i \in DOMAIN f : f[i].is # "accepted" /\ \A k \in 1..(i - 1) : f[k].is = "accepted"
  BY <1>2, <1>3
<1> QED
  BY <1>4 DEF FirstFailure

\* An array is cast item by item.
LEMMA ItemsOutcome ==
  ASSUME NEW S, NEW items \in Seq(S), NEW base \in NonArrayTypes, NEW o
  PROVE  Outcome(CastItems(items, base, o))
<1> DEFINE f == [i \in DOMAIN items |-> CastScalar(items[i], base, [o EXCEPT !.allowNull = TRUE])]
<1>1. Len(items) \in Nat /\ DOMAIN items = 1..Len(items) /\ DOMAIN f = 1..Len(items)
  OBVIOUS
<1>2. \A i \in 1..Len(items) : Outcome(f[i])
  BY <1>1, ScalarOutcome
<1>3. CASE \E i \in DOMAIN items : f[i].is # "accepted"
  <2>1. CastItems(items, base, o) = FirstFailure(f)
    BY <1>3 DEF CastItems
  <2> HIDE DEF f
  <2> QED
    BY <1>1, <1>2, <1>3, <2>1, FirstFailureOutcome
<1>4. CASE ~ \E i \in DOMAIN items : f[i].is # "accepted"
  <2>1. \E v : CastItems(items, base, o) = Accept(v)
    BY <1>4 DEF CastItems
  <2> QED
    BY <2>1, Endings
<1> QED
  BY <1>3, <1>4

(***************************************************************************)
(* What is left of an array                                                *)
(***************************************************************************)

\* u holds what is left of each beginning of items.
Keeps(u, items) ==
    /\ u[0] = <<>>
    /\ \A i \in 1..Len(items) :
          u[i] = IF Absent(items[i]) THEN u[i - 1] ELSE Append(u[i - 1], items[i])

LEMMA PresentUnfold ==
  ASSUME NEW S, NEW items \in Seq(S)
  PROVE  \E u \in [0..Len(items) -> Seq(S)] :
            Keeps(u, items) /\ Present(items) = u[Len(items)]
<1> DEFINE n == Len(items)
           start == [i \in 0..n |-> <<>>]
           step == [i \in 0..n |-> [s \in Seq(S) |->
                      IF i # 0 /\ ~Absent(items[i]) THEN Append(s, items[i]) ELSE s]]
           Is(f) == f = [i \in 0..n |->
                      IF i = 0 THEN <<>>
                      ELSE IF Absent(items[i]) THEN f[i - 1] ELSE Append(f[i - 1], items[i])]
           f == CHOOSE kept : Is(kept)
<1>1. n \in Nat /\ \A i \in 1..n : items[i] \in S
  OBVIOUS
<1>2. PICK rank : Walk(0..n, {0}, Before(n), rank) /\ Bounded(0..n, rank)
  BY <1>1, NumbersWalk
<1>3. start \in [0..n -> Seq(S)]
  OBVIOUS
<1>4. step \in [0..n -> [Seq(S) -> Seq(S)]]
  <2>1. \A i \in 0..n, s \in Seq(S) : i # 0 => Append(s, items[i]) \in Seq(S)
    BY <1>1
  <2> HIDE DEF n
  <2> QED
    BY <2>1
<1>5. PICK u \in [0..n -> Seq(S)] : Follows(u, 0..n, {0}, Before(n), start, step)
  <2> HIDE DEF start, step, n
  <2> QED
    BY <1>2, <1>3, <1>4, WalkExists
<1> HIDE DEF n
<1>6. \A i \in 0..n : u[i] = IF i = 0 THEN <<>>
                             ELSE IF Absent(items[i]) THEN u[i - 1]
                             ELSE Append(u[i - 1], items[i])
  <2> SUFFICES ASSUME NEW i \in 0..n
               PROVE  u[i] = IF i = 0 THEN <<>>
                             ELSE IF Absent(items[i]) THEN u[i - 1]
                             ELSE Append(u[i - 1], items[i])
    OBVIOUS
  <2>1. u[i] = IF i \in {0} THEN start[i] ELSE step[i][u[Before(n)[i]]]
    BY <1>5 DEF Follows
  <2>2. CASE i = 0
    BY <2>1, <2>2
  <2>3. CASE i # 0
    <3>1. Before(n)[i] = i - 1 /\ i - 1 \in 0..n
      BY <1>1, <2>3 DEF Before
    <3>2. u[i - 1] \in Seq(S)
      BY <3>1
    <3>3. u[i] = step[i][u[i - 1]]
      BY <2>1, <2>3, <3>1
    <3>4. step[i][u[i - 1]] = IF Absent(items[i]) THEN u[i - 1] ELSE Append(u[i - 1], items[i])
      BY <2>3, <3>2
    <3> QED
      BY <2>3, <3>3, <3>4
  <2> QED
    BY <2>2, <2>3
<1>7. Is(u)
  BY <1>6, Zenon
<1>8. Is(f)
  BY <1>7, Zenon
<1>9. \A i \in 0..n : f[i] = IF i = 0 THEN <<>>
                             ELSE IF Absent(items[i]) THEN f[i - 1]
                             ELSE Append(f[i - 1], items[i])
  BY <1>8, Zenon
<1>10. Present(items) = f[n]
  BY Zenon DEF Present, n
<1> HIDE DEF f
<1> DEFINE A == {i \in 0..n : f[i] = u[i]}
<1>11. Closed(A, 0..n, {0}, Before(n))
  <2> SUFFICES ASSUME NEW i \in 0..n, i = 0 \/ Before(n)[i] \in A PROVE f[i] = u[i]
    BY DEF Closed
  <2>1. CASE i = 0
    BY <1>6, <1>9, <2>1
  <2>2. CASE i # 0
    <3>1. Before(n)[i] = i - 1
      BY DEF Before
    <3>2. f[i - 1] = u[i - 1]
      BY <2>2, <3>1
    <3> QED
      BY <1>6, <1>9, <2>2, <3>2
  <2> QED
    BY <2>1, <2>2
<1>12. n \in A
  <2>1. 0..n \subseteq A
    <3> HIDE DEF A
    <3> QED
      BY <1>2, <1>11, WalkInduction
  <2>2. n \in 0..n
    BY <1>1
  <2> HIDE DEF A
  <2> QED
    BY <2>1, <2>2
<1>13. Keeps(u, items)
  <2>1. 0 \in 0..n /\ \A i \in 1..n : i \in 0..n /\ i # 0
    BY <1>1
  <2>2. u[0] = <<>>
    BY <1>6, <2>1
  <2>3. \A i \in 1..n : u[i] = IF Absent(items[i]) THEN u[i - 1] ELSE Append(u[i - 1], items[i])
    BY <1>6, <2>1
  <2> QED
    BY <2>2, <2>3 DEF Keeps, n
<1> QED
  BY <1>10, <1>12, <1>13 DEF n

\* The items of s and t are absent at the same places, and otherwise related.
Paired(s, t, R) ==
    /\ Len(s) = Len(t)
    /\ \A i \in 1..Len(s) : /\ Absent(s[i]) <=> Absent(t[i])
                            /\ ~Absent(s[i]) => <<s[i], t[i]>> \in R

AllIn(s, t, R) == Len(s) = Len(t) /\ \A j \in 1..Len(s) : <<s[j], t[j]>> \in R

LEMMA AppendAllIn ==
  ASSUME NEW S, NEW T, NEW s \in Seq(S), NEW t \in Seq(T), NEW R, AllIn(s, t, R),
         NEW x \in S, NEW y \in T, <<x, y>> \in R
  PROVE  AllIn(Append(s, x), Append(t, y), R)
<1>1. /\ Len(Append(s, x)) = Len(s) + 1 /\ Len(Append(t, y)) = Len(s) + 1 /\ Len(s) \in Nat
      /\ \A j \in 1..Len(s) : Append(s, x)[j] = s[j] /\ Append(t, y)[j] = t[j]
      /\ Append(s, x)[Len(s) + 1] = x /\ Append(t, y)[Len(s) + 1] = y
  BY DEF AllIn
<1>2. PICK p, q : p = Append(s, x) /\ q = Append(t, y)
  OBVIOUS
<1>3. \A j \in 1..(Len(s) + 1) : <<p[j], q[j]>> \in R
  <2>1. \A j \in 1..Len(s) : p[j] = s[j] /\ q[j] = t[j]
    BY <1>1, <1>2
  <2>2. p[Len(s) + 1] = x /\ q[Len(s) + 1] = y
    BY <1>1, <1>2
  <2>3. \A j \in 1..(Len(s) + 1) : j \in 1..Len(s) \/ j = Len(s) + 1
    BY <1>1
  <2> QED
    BY <2>1, <2>2, <2>3 DEF AllIn
<1> QED
  BY <1>1, <1>2, <1>3 DEF AllIn

\* So what is left of s and t has the same length, and is related at each place.
LEMMA PresentPairs ==
  ASSUME NEW S, NEW T, NEW s \in Seq(S), NEW t \in Seq(T), NEW R, Paired(s, t, R)
  PROVE  AllIn(Present(s), Present(t), R)
<1> DEFINE n == Len(s)
<1>1. n \in Nat /\ Len(t) = n /\ (\A i \in 1..n : s[i] \in S /\ t[i] \in T)
  BY DEF Paired
<1>2. PICK u \in [0..n -> Seq(S)] : Keeps(u, s) /\ Present(s) = u[n]
  BY PresentUnfold
<1>3. PICK w \in [0..n -> Seq(T)] : Keeps(w, t) /\ Present(t) = w[n]
  BY <1>1, PresentUnfold
<1>4. PICK rank : Walk(0..n, {0}, Before(n), rank)
  BY <1>1, NumbersWalk
<1> DEFINE A == {i \in 0..n : AllIn(u[i], w[i], R)}
<1>5. Closed(A, 0..n, {0}, Before(n))
  <2> SUFFICES ASSUME NEW i \in 0..n, i = 0 \/ Before(n)[i] \in A PROVE AllIn(u[i], w[i], R)
    BY DEF Closed
  <2>1. CASE i = 0
    BY <1>2, <1>3, <2>1 DEF Keeps, AllIn
  <2>2. CASE i # 0
    <3>1. Before(n)[i] = i - 1 /\ i \in 1..n /\ i - 1 \in 0..n
      BY <1>1, <2>2 DEF Before
    <3>2. AllIn(u[i - 1], w[i - 1], R)
      BY <2>2, <3>1
    <3>3. u[i - 1] \in Seq(S) /\ w[i - 1] \in Seq(T)
      BY <3>1
    <3>4. CASE Absent(s[i])
      BY <1>1, <1>2, <1>3, <3>1, <3>2, <3>4 DEF Keeps, Paired
    <3>5. CASE ~Absent(s[i])
      <4>1. u[i] = Append(u[i - 1], s[i]) /\ w[i] = Append(w[i - 1], t[i])
        BY <1>1, <1>2, <1>3, <3>1, <3>5 DEF Keeps, Paired
      <4>2. s[i] \in S /\ t[i] \in T /\ <<s[i], t[i]>> \in R
        BY <1>1, <3>1, <3>5 DEF Paired
      <4> QED
        BY <3>2, <3>3, <4>1, <4>2, AppendAllIn
    <3> QED
      BY <3>4, <3>5
  <2> QED
    BY <2>1, <2>2
<1>6. n \in A
  <2>1. 0..n \subseteq A
    <3> HIDE DEF A
    <3> QED
      BY <1>4, <1>5, WalkInduction
  <2>2. n \in 0..n
    BY <1>1
  <2> HIDE DEF A
  <2> QED
    BY <2>1, <2>2
<1> QED
  BY <1>2, <1>3, <1>6

\* Nothing that is there is left out.
LEMMA PresentHas ==
  ASSUME NEW S, NEW s \in Seq(S), NEW k \in 1..Len(s), ~Absent(s[k])
  PROVE  /\ Present(s) \in Seq(S)
         /\ \E j \in DOMAIN Present(s) : Present(s)[j] = s[k]
<1> DEFINE n == Len(s)
           Has(q) == \E j \in 1..Len(q) : q[j] = s[k]
<1>1. n \in Nat /\ (\A i \in 1..n : s[i] \in S)
  OBVIOUS
<1>2. PICK u \in [0..n -> Seq(S)] : Keeps(u, s) /\ Present(s) = u[n]
  BY PresentUnfold
<1>3. PICK rank : Walk(0..n, {0}, Before(n), rank)
  BY <1>1, NumbersWalk
<1> DEFINE A == {i \in 0..n : k <= i => Has(u[i])}
<1>4. Closed(A, 0..n, {0}, Before(n))
  <2> SUFFICES ASSUME NEW i \in 1..n, i - 1 \in A, k <= i PROVE Has(u[i])
    BY <1>1 DEF Closed, Before
  <2>1. u[i - 1] \in Seq(S) /\ s[i] \in S
    BY <1>1
  <2>2. \A j \in 1..Len(u[i - 1]) : Append(u[i - 1], s[i])[j] = u[i - 1][j]
    BY <2>1
  <2>3. /\ Len(Append(u[i - 1], s[i])) = Len(u[i - 1]) + 1 /\ Len(u[i - 1]) \in Nat
        /\ Append(u[i - 1], s[i])[Len(u[i - 1]) + 1] = s[i]
    BY <2>1
  <2>0. u[i] = IF Absent(s[i]) THEN u[i - 1] ELSE Append(u[i - 1], s[i])
    BY <1>2 DEF Keeps
  <2>4. CASE k = i
    <3>1. PICK q : q = Append(u[i - 1], s[i])
      OBVIOUS
    <3>2. Len(u[i - 1]) + 1 \in 1..Len(q) /\ q[Len(u[i - 1]) + 1] = s[k]
      BY <2>3, <2>4, <3>1
    <3> QED
      BY <2>0, <2>4, <3>1, <3>2
  <2>5. CASE k # i
    <3>1. PICK j \in 1..Len(u[i - 1]) : u[i - 1][j] = s[k]
      BY <2>5
    <3>2. CASE Absent(s[i])
      BY <2>0, <3>1, <3>2
    <3>3. CASE ~Absent(s[i])
      <4>1. PICK q : q = Append(u[i - 1], s[i])
        OBVIOUS
      <4>2. j \in 1..Len(q) /\ q[j] = s[k]
        BY <2>2, <2>3, <3>1, <4>1
      <4> QED
        BY <2>0, <3>3, <4>1, <4>2
    <3> QED
      BY <3>2, <3>3
  <2> QED
    BY <2>4, <2>5
<1>5. n \in A
  <2>1. 0..n \subseteq A
    <3> HIDE DEF A
    <3> QED
      BY <1>3, <1>4, WalkInduction
  <2>2. n \in 0..n
    BY <1>1
  <2> HIDE DEF A
  <2> QED
    BY <2>1, <2>2
<1>6. Has(u[n])
  BY <1>5
<1>7. Present(s) \in Seq(S)
  <2>1. u[n] \in Seq(S)
    BY <1>1
  <2> QED
    BY <1>2, <2>1
<1> QED
  BY <1>2, <1>6, <1>7

(***************************************************************************)
(* The cast of one value                                                   *)
(***************************************************************************)

Bases == NonArrayTypes \cup Regexes

\* The values with items of S.
ValuesWith(S) == [kind : ValueKinds, n : Int, len : Nat, pad : {0, 2}, forms : SUBSET Forms,
                  items : S]

LEMMA AsValuesWith == Values = ValuesWith(Seq(ItemValues)) /\ ItemValues = ValuesWith({NoItems})
  BY Zenon DEF Values, ItemValues, ValuesWith

LEMMA FieldsWith ==
  ASSUME NEW S, NEW v, v \in ValuesWith(S)
  PROVE  /\ v.n \in Int /\ v.items \in S /\ v.kind \in ValueKinds /\ v.len \in Nat
         /\ v.pad \in {0, 2} /\ v.forms \in SUBSET Forms
  BY DEF ValuesWith

LEMMA WholeWith ==
  ASSUME NEW S, NEW v, v \in ValuesWith(S)
  PROVE  v = [kind |-> v.kind, n |-> v.n, len |-> v.len, pad |-> v.pad,
              forms |-> v.forms, items |-> v.items]
  BY DEF ValuesWith

LEMMA MadeWith ==
  ASSUME NEW S, NEW items \in S, NEW kind \in ValueKinds, NEW n \in Int, NEW len \in Nat,
         NEW pad \in {0, 2}, NEW forms \in SUBSET Forms
  PROVE  [kind |-> kind, n |-> n, len |-> len, pad |-> pad, forms |-> forms, items |-> items]
           \in ValuesWith(S)
  BY DEF ValuesWith

LEMMA ItemsAreValues == ItemValues \subseteq Values
<1>1. ASSUME NEW S, NEW e \in S, NEW v, v \in ValuesWith({e}) PROVE v \in ValuesWith(S)
  BY <1>1 DEF ValuesWith
<1>2. NoItems \in Seq(ItemValues)
  BY DEF NoItems
<1>3. ValuesWith({NoItems}) \subseteq ValuesWith(Seq(ItemValues))
  BY <1>1, <1>2, Zenon
<1> QED
  BY <1>3, AsValuesWith

LEMMA ValueFields ==
  ASSUME NEW v, v \in Values
  PROVE  /\ v.n \in Int /\ v.kind \in ValueKinds /\ v.len \in Nat
         /\ v.pad \in {0, 2} /\ v.forms \in SUBSET Forms
<1>1. PICK S : v \in ValuesWith(S)
  BY AsValuesWith
<1>2. v.n \in Int
  BY <1>1 DEF ValuesWith
<1> QED
  BY <1>1, <1>2 DEF ValuesWith

LEMMA ValueItems == ASSUME NEW v, v \in Values PROVE v.items \in Seq(ItemValues)
<1>1. PICK S : S = Seq(ItemValues) /\ v \in ValuesWith(S)
  BY AsValuesWith
<1>2. v.items \in S
  BY <1>1, FieldsWith
<1> QED
  BY <1>1, <1>2

\* Trimming takes away white space and nothing else.
LEMMA TrimFacts ==
  ASSUME NEW v, v \in Values
  PROVE  /\ Trim(v).kind = v.kind /\ Trim(v).n = v.n
         /\ Trim(v).forms = v.forms /\ Trim(v).items = v.items
         /\ Trim(v).pad = 0 /\ Trim(v).len = v.len
         /\ Trim(Trim(v)) = Trim(v)
         /\ Absent(Trim(v)) <=> Absent(v)
         /\ Readable(Trim(v)) <=> Readable(v)
<1>1. Trim(v) = [kind |-> v.kind, n |-> v.n, len |-> v.len, pad |-> 0,
                 forms |-> v.forms, items |-> v.items]
  <2>1. PICK S : v \in ValuesWith(S)
    BY AsValuesWith
  <2> QED
    BY <2>1, WholeWith DEF Trim
<1>3. Trim(Trim(v)) = Trim(v)
  BY <1>1 DEF Trim
<1> QED
  BY <1>1, <1>3 DEF Absent, Readable

LEMMA TrimIn ==
  ASSUME NEW S, NEW v, v \in ValuesWith(S)
  PROVE  Trim(v) \in ValuesWith(S)
  BY DEF Trim, ValuesWith

LEMMA TrimType ==
  ASSUME NEW v, v \in Values
  PROVE  Trim(v) \in Values /\ (v \in ItemValues => Trim(v) \in ItemValues)
  BY TrimIn, AsValuesWith, Zenon

\* Of an even number of halves, an integer: rounding keeps the safe ones, and
\* makes none of the others safe.
LEMMA RoundedIntegers ==
  ASSUME NEW n \in Int, n % 2 = 0
  PROVE  /\ IsSafeInteger(Rounded(n)) <=> n \in -14..14
         /\ n \in -14..14 => Rounded(n) = n
<1>1. CASE n \in -8..8
  <2>1. Spacing(n) = 1
    BY <1>1 DEF Spacing
  <2>2. \A k \in -8..8 : k \div 1 = k /\ k * 1 = k
    OBVIOUS
  <2> QED
    BY <1>1, <2>1, <2>2 DEF IsSafeInteger, Rounded
<1>2. CASE n \notin -8..8 /\ n \in -16..16
  <2>1. Spacing(n) = 2 /\ (n \div 2) * 2 = n
    BY <1>2 DEF Spacing
  <2> QED
    BY <1>2, <2>1 DEF IsSafeInteger, Rounded
<1>3. CASE n \notin -16..16
  <2>1. Spacing(n) = 4
    BY <1>3 DEF Spacing
  <2>2. /\ (n \div 4) * 4 \in Int /\ (n \div 4) * 4 <= n /\ n < (n \div 4) * 4 + 4
        /\ n > 16 => (n \div 4) * 4 >= 16
        /\ n < -16 => (n \div 4) * 4 + 4 <= -16
    BY <1>3
  <2>3. PICK b : b = (n \div 4) * 4
    OBVIOUS
  <2>4. Rounded(n) = b \/ Rounded(n) = b + 4
    BY <2>1, <2>3 DEF Rounded
  <2>5. n > 16 => Rounded(n) >= 16
    BY <2>2, <2>3, <2>4
  <2>6. n < -16 => Rounded(n) <= -16
    <3> SUFFICES ASSUME n < -16 PROVE Rounded(n) <= -16
      OBVIOUS
    <3> QED
      BY <2>2, <2>3, <2>4
  <2>7. Rounded(n) \in Int /\ ~(Rounded(n) \in -14..14)
    BY <1>3, <2>2, <2>3, <2>4, <2>5, <2>6
  <2> QED
    BY <1>3, <2>7 DEF IsSafeInteger
<1> QED
  BY <1>1, <1>2, <1>3

\* A rounded number is a number.
LEMMA RoundedInt == ASSUME NEW n \in Int PROVE Rounded(n) \in Int
<1>1. Spacing(n) \in {1, 2, 4}
  BY DEF Spacing
<1>2. (n \div 1) * 1 \in Int /\ (n \div 2) * 2 \in Int /\ (n \div 4) * 4 \in Int
  OBVIOUS
<1> QED
  BY <1>1, <1>2 DEF Rounded

\* The cast to an integer is exact, in what it takes and in what it refuses.
LEMMA IntegerExact ==
  ASSUME NEW v, v \in Values, Readable(v), NEW o \in CastOptions
  PROVE  \/ /\ CastInteger(v, o) = Accept(Num(v.n)) /\ v.n \in -14..14
            /\ Num(v.n) \in Meaning(v, "integer", o)
         \/ CastInteger(v, o) = Refuse /\ Meaning(v, "integer", o) = {}
<1>1. v.n \in Int
  BY ValueFields
<1>2. Meaning(v, "integer", o)
        = {Num(n) : n \in {k \in -14..14 : IsDigits(v) /\ k = v.n /\ WithinRange(k, o)}}
  BY DEF Meaning
<1>3. CASE IsDigits(v)
  <2>1. v.n % 2 = 0
    BY <1>3 DEF IsDigits, Readable
  <2>2. /\ IsSafeInteger(Rounded(v.n)) <=> v.n \in -14..14
        /\ v.n \in -14..14 => Rounded(v.n) = v.n
    BY <1>1, <2>1, RoundedIntegers
  <2>3. CASE v.n \in -14..14 /\ WithinRange(v.n, o)
    <3>1. CastInteger(v, o) = Accept(Num(v.n))
      BY <1>3, <2>2, <2>3 DEF CastInteger, AcceptIf
    <3>2. Num(v.n) \in Meaning(v, "integer", o)
      BY <1>2, <1>3, <2>3
    <3> QED
      BY <2>3, <3>1, <3>2
  <2>4. CASE ~(v.n \in -14..14 /\ WithinRange(v.n, o))
    <3>1. CastInteger(v, o) = Refuse
      BY <2>2, <2>4 DEF CastInteger, AcceptIf
    <3>2. Meaning(v, "integer", o) = {}
      BY <1>2, <2>4
    <3> QED
      BY <3>1, <3>2
  <2> QED
    BY <2>3, <2>4
<1>4. CASE ~IsDigits(v)
  BY <1>2, <1>4 DEF CastInteger, AcceptIf
<1> QED
  BY <1>3, <1>4

\* And so is the cast to a bigint.
LEMMA BigintExact ==
  ASSUME NEW v, v \in Values, NEW o \in CastOptions
  PROVE  \/ \E w \in {v, Text(0, {"digits"}, v.n)} :
               CastBigint(v, o) = Accept(w) /\ w.kind = "text" /\ w \in Meaning(v, "bigint", o)
         \/ CastBigint(v, o) = Refuse /\ Meaning(v, "bigint", o) = {}
<1> DEFINE made == Text(0, {"digits"}, v.n)
<1>1. Meaning(v, "bigint", o)
        = {w \in {v, made} : w.kind = "text" /\ IsDigits(v) /\ WithinRange(v.n, o)}
  BY DEF Meaning
<1>2. made.kind = "text"
  BY DEF Text, Val
<1> HIDE DEF made
<1>3. CastBigint(v, o) = AcceptIf(IsDigits(v) /\ WithinRange(v.n, o),
                                  IF v.kind = "text" THEN v ELSE made)
  BY DEF CastBigint, made
<1>4. CASE IsDigits(v) /\ WithinRange(v.n, o)
  <2>1. CastBigint(v, o) = Accept(IF v.kind = "text" THEN v ELSE made)
    BY <1>3, <1>4 DEF AcceptIf
  <2> QED
    BY <1>1, <1>2, <1>4, <2>1 DEF made
<1>5. CASE ~(IsDigits(v) /\ WithinRange(v.n, o))
  <2>1. CastBigint(v, o) = Refuse
    BY <1>3, <1>5 DEF AcceptIf
  <2>2. Meaning(v, "bigint", o) = {}
    BY <1>1, <1>5
  <2> QED
    BY <2>1, <2>2
<1> QED
  BY <1>4, <1>5

\* The values that casts make up are values.
LEMMA MadeValues ==
  /\ Null \in ItemValues /\ Undefined \in ItemValues /\ Object \in ItemValues
  /\ \A b \in BOOLEAN : Bool(b) \in ItemValues /\ ~Absent(Bool(b))
  /\ \A n \in Int : Num(n) \in ItemValues /\ Text(0, {"digits"}, n) \in ItemValues
  /\ \A n : ~Absent(Num(n)) /\ Num(n).kind = "num" /\ Num(n).n = n
  /\ \A t \in {"date", "datetime", "time", "timetz"} :
        Moment(t) \in ItemValues /\ ~Absent(Moment(t))
  /\ Absent(Null) /\ Absent(Undefined)
<1>0. ASSUME NEW kind \in ValueKinds, NEW n \in Int, NEW len \in Nat, NEW forms \in SUBSET Forms
      PROVE  /\ Val(kind, n, len, forms, NoItems) \in ItemValues
             /\ Val(kind, n, len, forms, NoItems).kind = kind
  <2>1. Val(kind, n, len, forms, NoItems) \in ItemValues
    BY DEF Val, ItemValues
  <2>2. Val(kind, n, len, forms, NoItems).kind = kind
    BY DEF Val
  <2> QED
    BY <2>1, <2>2
<1>a. \A t \in {"undefined", "null", "object", "bool", "num", "text", "date", "datetime", "time", "timetz"} : t \in ValueKinds
  BY DEF ValueKinds
<1>1. Null \in ItemValues /\ Undefined \in ItemValues /\ Object \in ItemValues
  BY <1>0, <1>a DEF Null, Undefined, Object
<1>2. \A b \in BOOLEAN : Bool(b) \in ItemValues /\ ~Absent(Bool(b))
  BY <1>0, <1>a DEF Bool, Absent
<1>3. \A n \in Int : Num(n) \in ItemValues /\ Text(0, {"digits"}, n) \in ItemValues
  BY <1>0, <1>a DEF Num, Text, Forms
<1>4. \A n : ~Absent(Num(n)) /\ Num(n).kind = "num" /\ Num(n).n = n
  BY DEF Num, Val, Absent
<1>5. \A t \in {"date", "datetime", "time", "timetz"} :
        Moment(t) \in ItemValues /\ ~Absent(Moment(t))
  BY <1>0, <1>a DEF Moment, Absent
<1>6. Absent(Null) /\ Absent(Undefined)
  BY <1>0, <1>a DEF Null, Undefined, Absent
<1> QED
  BY <1>1, <1>2, <1>3, <1>4, <1>5, <1>6

\* A cast of a present value that takes it gives a present value.
Kept(r, v) ==
    /\ r.is = "accepted" => /\ ~Absent(r.value) /\ r.value \in Values
                            /\ v \in ItemValues => r.value \in ItemValues
    /\ r.is # "accepted" => r.value = Undefined

\* And it gives what the value stands for; one that refuses had nothing to give.
Good(r, v, base, o) ==
    /\ Kept(r, v)
    /\ r.is = "accepted" => Stands(v, r.value, base, o)
    /\ r.is # "accepted" => Meaning(v, base, o) = {}

\* The ways to accept, each with the value itself or with one that is made, and
\* to refuse.
LEMMA KeptIf ==
  ASSUME NEW v, v \in Values, NEW w, w = v \/ w \in ItemValues, ~Absent(w)
  PROVE  /\ Kept(Accept(w), v)
         /\ \A condition : Kept(AcceptIf(condition, w), v)
<1>1. w \in Values /\ (v \in ItemValues => w \in ItemValues)
  BY ItemsAreValues
<1> QED
  BY <1>1 DEF Kept, Accept, AcceptIf, Refuse

LEMMA KeptRefuse == \A v : Kept(Refuse, v) /\ Kept(Throw, v)
  BY DEF Kept, Refuse, Throw

LEMMA GoodInteger ==
  ASSUME NEW v, v \in Values, Readable(v), Trim(v) = v, NEW o \in CastOptions
  PROVE  Good(CastInteger(v, o), v, "integer", o)
<1>1. v.n \in Int
  BY ValueFields
<1>2. Num(v.n) \in ItemValues /\ ~Absent(Num(v.n))
  BY <1>1, MadeValues
<1>3. CASE CastInteger(v, o) = Accept(Num(v.n)) /\ Num(v.n) \in Meaning(v, "integer", o)
  <2>1. Kept(Accept(Num(v.n)), v)
    BY <1>2, KeptIf
  <2> QED
    BY <1>3, <2>1 DEF Good, Stands, Accept
<1>4. CASE CastInteger(v, o) = Refuse /\ Meaning(v, "integer", o) = {}
  BY <1>4, KeptRefuse DEF Good, Refuse
<1> QED
  BY <1>3, <1>4, IntegerExact

LEMMA GoodBigint ==
  ASSUME NEW v, v \in Values, Trim(v) = v, ~Absent(v), NEW o \in CastOptions
  PROVE  Good(CastBigint(v, o), v, "bigint", o)
<1>1. v.n \in Int
  BY ValueFields
<1>2. Text(0, {"digits"}, v.n) \in ItemValues
  BY <1>1, MadeValues
<1>3. ASSUME NEW w \in {v, Text(0, {"digits"}, v.n)}, CastBigint(v, o) = Accept(w),
             w.kind = "text", w \in Meaning(v, "bigint", o)
      PROVE  Good(CastBigint(v, o), v, "bigint", o)
  <2>1. ~Absent(w)
    BY <1>3 DEF Absent
  <2>2. Kept(Accept(w), v)
    BY <1>2, <2>1, KeptIf
  <2> QED
    BY <1>3, <2>2 DEF Good, Stands, Accept
<1>4. CASE CastBigint(v, o) = Refuse /\ Meaning(v, "bigint", o) = {}
  BY <1>4, KeptRefuse DEF Good, Refuse
<1> QED
  BY <1>3, <1>4, BigintExact

LEMMA GoodNumber ==
  ASSUME NEW v, v \in Values, Trim(v) = v, NEW o \in CastOptions
  PROVE  Good(CastNumber(v, o), v, "number", o)
<1> DEFINE reads == v.kind = "num" \/ (v.kind = "text" /\ "decimal" \in v.forms)
<1>1. PICK k \in Int : k = Rounded(v.n)
  BY ValueFields, RoundedInt
<1>2. Meaning(v, "number", o)
        = {Num(n) : n \in {j \in {k} : reads /\ Finite(j) /\ WithinRange(j, o)}}
  BY <1>1 DEF Meaning
<1>3. CastNumber(v, o) = AcceptIf(reads /\ Finite(k) /\ WithinRange(k, o), Num(k))
  BY <1>1 DEF CastNumber
<1> HIDE DEF reads
<1>4. CASE reads /\ Finite(k) /\ WithinRange(k, o)
  <2>1. CastNumber(v, o) = Accept(Num(k)) /\ Num(k) \in Meaning(v, "number", o)
    BY <1>2, <1>3, <1>4 DEF AcceptIf
  <2>2. Kept(Accept(Num(k)), v)
    BY MadeValues, KeptIf
  <2> QED
    BY <2>1, <2>2 DEF Good, Stands, Accept
<1>5. CASE ~(reads /\ Finite(k) /\ WithinRange(k, o))
  <2>1. CastNumber(v, o) = Refuse /\ Meaning(v, "number", o) = {}
    BY <1>2, <1>3, <1>5 DEF AcceptIf
  <2> QED
    BY <2>1, KeptRefuse DEF Good, Refuse
<1> QED
  BY <1>4, <1>5

\* Any other type means what the cast makes of the value.
LEMMA GoodOther ==
  ASSUME NEW v, Trim(v) = v, NEW base, base \notin {"integer", "bigint", "number"}, NEW o,
         Kept(CastPresent(v, base, o), v)
  PROVE  Good(CastPresent(v, base, o), v, base, o)
<1> DEFINE r == CastPresent(v, base, o)
<1>1. Meaning(v, base, o) = {w \in {r.value} : r.is = "accepted"}
  BY DEF Meaning
<1> HIDE DEF r
<1> QED
  BY <1>1 DEF Good, Stands, r

LEMMA KeptRegex ==
  ASSUME NEW v, v \in Values, ~Absent(v)
  PROVE  Kept(MatchRegexOrThrow(v), v)
  BY KeptIf, KeptRefuse DEF MatchRegexOrThrow

LEMMA KeptPresent ==
  ASSUME NEW v, v \in Values, ~Absent(v), NEW base \in Bases, NEW o,
         base \notin {"integer", "bigint", "number"}
  PROVE  Kept(CastPresent(v, base, o), v)
<1>1. /\ Kept(Accept(v), v) /\ Kept(MatchRegexOrThrow(v), v)
      /\ \A condition : Kept(AcceptIf(condition, v), v)
  BY KeptIf, KeptRegex
<1>2. CASE base = "string"
  <2>1. Kept(CastString(v, o), v)
    BY <1>1, KeptRefuse DEF CastString
  <2> QED
    BY <1>2, <2>1 DEF CastPresent
<1>3. CASE base = "boolean"
  <2>1. Kept(Accept(Bool(TRUE)), v) /\ \A condition : Kept(AcceptIf(condition, Bool(FALSE)), v)
    BY MadeValues, KeptIf
  <2>2. CastBoolean(v) = Accept(Bool(TRUE)) \/ \E c : CastBoolean(v) = AcceptIf(c, Bool(FALSE))
    BY DEF CastBoolean
  <2>3. CastPresent(v, base, o) = CastBoolean(v)
    BY <1>3 DEF CastPresent
  <2> QED
    BY <2>1, <2>2, <2>3
<1>4. CASE base \in {"date", "datetime", "time", "timetz"}
  <2>1. \A c : Kept(AcceptIf(c, Moment(base)), v)
    BY <1>4, MadeValues, KeptIf
  <2>2. CastPresent(v, base, o) = AcceptIf(v.kind = "text" /\ base \in v.forms, Moment(base))
    BY <1>4 DEF CastPresent
  <2> QED
    BY <2>1, <2>2
<1>5. CASE base \in {"json", "uuid"}
  <2>1. \E c : CastPresent(v, base, o) = AcceptIf(c, v)
    BY <1>5 DEF CastPresent
  <2> QED
    BY <1>1, <2>1
<1>6. CASE base = "null"
  BY <1>6, KeptRefuse DEF CastPresent
<1>7. CASE base = "regex"
  BY <1>1, <1>7 DEF CastPresent
<1> QED
  BY <1>2, <1>3, <1>4, <1>5, <1>6, <1>7, RegexesAssumption DEF Bases, NonArrayTypes

LEMMA GoodPresent ==
  ASSUME NEW v, v \in Values, Readable(v), Trim(v) = v, ~Absent(v), NEW base \in Bases,
         NEW o \in CastOptions
  PROVE  Good(CastPresent(v, base, o), v, base, o)
<1>1. CASE base = "bigint"
  BY <1>1, GoodBigint DEF CastPresent
<1>2. CASE base = "integer"
  BY <1>2, GoodInteger DEF CastPresent
<1>3. CASE base = "number"
  BY <1>3, GoodNumber DEF CastPresent
<1>4. CASE base \notin {"integer", "bigint", "number"}
  BY <1>4, KeptPresent, GoodOther
<1> QED
  BY <1>1, <1>2, <1>3, <1>4

\* The cast of one value, present or not.
Fair(r, v, base, o) ==
    IF Absent(v)
    THEN r = IF base = "null" THEN Accept(Null) ELSE AcceptIf(o.allowNull, v)
    ELSE Good(r, Trim(v), base, o)

LEMMA ScalarFair ==
  ASSUME NEW v, v \in Values, Readable(v), NEW base \in Bases, NEW o \in CastOptions
  PROVE  Fair(CastScalar(v, base, o), v, base, o)
<1>1. CASE Absent(v)
  BY <1>1 DEF Fair, CastScalar
<1>2. CASE ~Absent(v)
  <2>1. /\ Trim(v) \in Values /\ Readable(Trim(v)) /\ Trim(Trim(v)) = Trim(v) /\ ~Absent(Trim(v))
    BY <1>2, TrimFacts, TrimType
  <2>2. Good(CastPresent(Trim(v), base, o), Trim(v), base, o)
    BY <2>1, GoodPresent
  <2> QED
    BY <1>2, <2>2 DEF Fair, CastScalar
<1> QED
  BY <1>1, <1>2

(***************************************************************************)
(* The cast of an array                                                    *)
(***************************************************************************)

\* Two options that differ in what they do with nulls ask for the same values,
\* and white space around one makes no difference.
LEMMA SameMeaning ==
  ASSUME NEW v, v \in Values, NEW y, NEW base, NEW o \in CastOptions
  PROVE  LET p == [o EXCEPT !.allowNull = TRUE] IN
         /\ p \in CastOptions /\ p.allowNull
         /\ \A w : Meaning(w, base, p) = Meaning(w, base, o)
         /\ \A w : Stands(w, y, base, p) <=> Stands(w, y, base, o)
         /\ Stands(Trim(v), y, base, o) <=> Stands(v, y, base, o)
<1> DEFINE p == [o EXCEPT !.allowNull = TRUE]
<1>1. /\ p \in CastOptions /\ p.allowNull /\ p.minimum = o.minimum /\ p.maximum = o.maximum
      /\ p.minLength = o.minLength /\ p.maxLength = o.maxLength
      /\ p.enum = o.enum /\ p.match = o.match
  BY DEF CastOptions
<1> HIDE DEF p
<1>2. \A n : WithinRange(n, p) <=> WithinRange(n, o)
  BY <1>1 DEF WithinRange
<1>3. ASSUME NEW w PROVE Meaning(w, base, p) = Meaning(w, base, o)
  <2>1. CASE base = "integer"
    BY <1>2, <2>1 DEF Meaning
  <2>2. CASE base = "bigint"
    BY <1>2, <2>2 DEF Meaning
  <2>3. CASE base = "number"
    BY <1>2, <2>3 DEF Meaning
  <2>4. CASE base \notin {"integer", "bigint", "number"}
    <3>1. CastString(w, p) = CastString(w, o)
      BY <1>1 DEF CastString, WithinLength
    <3>2. CastPresent(w, base, p) = CastPresent(w, base, o)
      BY <2>4, <3>1 DEF CastPresent
    <3> QED
      BY <2>4, <3>2 DEF Meaning
  <2> QED
    BY <2>1, <2>2, <2>3, <2>4
<1>4. \A w : Stands(w, y, base, p) <=> Stands(w, y, base, o)
  BY <1>3 DEF Stands
<1>5. Trim(Trim(v)) = Trim(v)
  BY TrimFacts
<1>6. Stands(Trim(v), y, base, o) <=> Stands(v, y, base, o)
  BY <1>5 DEF Stands
<1> QED
  BY <1>1, <1>3, <1>4, <1>6 DEF p

LEMMA ArrayValue ==
  ASSUME NEW s, s \in Seq(ItemValues)
  PROVE  Arr(s) \in Values /\ ~Absent(Arr(s)) /\ Arr(s).items = s
<1>1. ASSUME NEW S, s \in S PROVE Arr(s) \in ValuesWith(S)
  BY <1>1 DEF Arr, Val, ValuesWith, ValueKinds
<1>2. Arr(s) \in Values
  BY <1>1, AsValuesWith
<1>3. ~Absent(Arr(s)) /\ Arr(s).items = s
  BY DEF Arr, Val, Absent
<1> QED
  BY <1>2, <1>3

StandFor(base, o) == {p \in ItemValues \X ItemValues : Stands(p[1], p[2], base, o)}

AllReadable(items) == \A i \in 1..Len(items) : Readable(items[i])

\* One item, with a null let through.
LEMMA ItemFair ==
  ASSUME NEW v, v \in ItemValues, Readable(v), NEW base \in NonArrayTypes, NEW o \in CastOptions,
         NEW r, r = CastScalar(v, base, [o EXCEPT !.allowNull = TRUE])
  PROVE  /\ r.is = "accepted" => /\ r.value \in ItemValues /\ (Absent(v) <=> Absent(r.value))
                                 /\ ~Absent(v) => <<v, r.value>> \in StandFor(base, o)
         /\ r.is # "accepted" => /\ r.value = Undefined /\ ~Absent(v)
                                 /\ Meaning(Trim(v), base, o) = {}
<1> DEFINE p == [o EXCEPT !.allowNull = TRUE]
<1>1. /\ p \in CastOptions /\ p.allowNull /\ v \in Values
      /\ \A w : Meaning(w, base, p) = Meaning(w, base, o)
  BY SameMeaning, ItemsAreValues
<1>2. ASSUME NEW y PROVE Stands(Trim(v), y, base, p) <=> Stands(v, y, base, o)
  BY <1>1, SameMeaning
<1>3. r = CastScalar(v, base, p)
  OBVIOUS
<1> HIDE DEF p
<1>4. Fair(r, v, base, p)
  BY <1>1, <1>3, ScalarFair DEF Bases
<1>5. CASE Absent(v)
  <2>1. r = Accept(IF base = "null" THEN Null ELSE v)
    BY <1>1, <1>4, <1>5 DEF Fair, AcceptIf
  <2> QED
    BY <1>5, <2>1, MadeValues DEF Accept
<1>6. CASE ~Absent(v)
  <2>1. Good(r, Trim(v), base, p)
    BY <1>4, <1>6 DEF Fair
  <2>2. Trim(v) \in ItemValues
    BY <1>1, TrimType
  <2>3. ASSUME r.is = "accepted"
        PROVE  r.value \in ItemValues /\ ~Absent(r.value) /\ <<v, r.value>> \in StandFor(base, o)
    <3>1. r.value \in ItemValues /\ ~Absent(r.value) /\ Stands(Trim(v), r.value, base, p)
      BY <2>1, <2>2, <2>3 DEF Good, Kept
    <3>2. Stands(v, r.value, base, o)
      BY <1>2, <3>1
    <3> QED
      BY <3>1, <3>2 DEF StandFor
  <2>4. r.is # "accepted" => r.value = Undefined /\ Meaning(Trim(v), base, o) = {}
    BY <1>1, <2>1 DEF Good, Kept
  <2> QED
    BY <1>6, <2>3, <2>4
<1> QED
  BY <1>5, <1>6

\* What the cast of an array gives.
ItemsCast(r, items, base, o) ==
    /\ r.is = "accepted" =>
          /\ r.value \in Values /\ ~Absent(r.value)
          /\ base # "null" => AllIn(Present(items), r.value.items, StandFor(base, o))
          /\ base = "null" => \A i \in DOMAIN items : Absent(items[i])
    /\ r.is # "accepted" => r.value = Undefined
    /\ r.is # "accepted" =>
          \E j \in DOMAIN Present(items) : Meaning(Trim(Present(items)[j]), base, o) = {}

LEMMA ItemsFair ==
  ASSUME NEW items, items \in Seq(ItemValues), AllReadable(items), NEW base \in NonArrayTypes,
         NEW o \in CastOptions
  PROVE  ItemsCast(CastItems(items, base, o), items, base, o)
<1> DEFINE n == Len(items)
           f == [i \in DOMAIN items |-> CastScalar(items[i], base, [o EXCEPT !.allowNull = TRUE])]
           values == [i \in DOMAIN items |-> f[i].value]
           r == CastItems(items, base, o)
<1>1. n \in Nat /\ DOMAIN items = 1..n /\ DOMAIN f = 1..n /\ DOMAIN values = 1..n
      /\ \A i \in 1..n : items[i] \in ItemValues /\ Readable(items[i])
  BY DEF AllReadable
<1>2. r = IF \E i \in DOMAIN items : f[i].is # "accepted" THEN FirstFailure(f)
          ELSE Accept(Arr(IF base = "null" THEN values ELSE Present(values)))
  BY DEF CastItems
<1>3. ASSUME NEW i \in 1..n
      PROVE  /\ Outcome(f[i])
             /\ f[i].is = "accepted" =>
                   /\ f[i].value \in ItemValues /\ (Absent(items[i]) <=> Absent(f[i].value))
                   /\ ~Absent(items[i]) => <<items[i], f[i].value>> \in StandFor(base, o)
             /\ f[i].is # "accepted" =>
                   /\ f[i].value = Undefined /\ ~Absent(items[i])
                   /\ Meaning(Trim(items[i]), base, o) = {}
  <2>1. f[i] = CastScalar(items[i], base, [o EXCEPT !.allowNull = TRUE])
    BY <1>1
  <2>2. items[i] \in ItemValues /\ Readable(items[i])
    BY <1>1
  <2> HIDE DEF f
  <2> QED
    BY <2>1, <2>2, ItemFair, ScalarOutcome
<1>4. \A i \in 1..n : values[i] = f[i].value
  BY <1>1
<1> HIDE DEF f, values, r, n
<1>5. CASE \E i \in 1..n : f[i].is # "accepted"
  <2>1. r = FirstFailure(f)
    BY <1>1, <1>2, <1>5
  <2>2. PICK m \in 1..n : r = f[m] /\ r.is # "accepted"
    BY <1>1, <1>3, <1>5, <2>1, FirstFailureOutcome
  <2>3. r.value = Undefined /\ ~Absent(items[m])
    BY <1>3, <2>2
  <2>4. PICK j \in DOMAIN Present(items) : Present(items)[j] = items[m]
    BY <2>3, PresentHas DEF n
  <2>5. Meaning(Trim(Present(items)[j]), base, o) = {}
    BY <1>3, <2>2, <2>4
  <2> QED
    BY <2>2, <2>3, <2>5 DEF ItemsCast, r
<1>6. CASE \A i \in 1..n : f[i].is = "accepted"
  <2>1. r = Accept(Arr(IF base = "null" THEN values ELSE Present(values)))
    BY <1>1, <1>2, <1>6
  <2>2. \A i \in 1..n : values[i] \in ItemValues
    BY <1>3, <1>4, <1>6
  <2>3. values \in Seq(ItemValues) /\ Len(values) = n
    <3>1. values \in [1..n -> ItemValues]
      BY <1>1, <2>2 DEF values
    <3> QED
      BY <1>1, <3>1
  <2>4. Paired(items, values, StandFor(base, o))
    BY <1>3, <1>4, <1>6, <2>3 DEF Paired, n
  <2>5. AllIn(Present(items), Present(values), StandFor(base, o))
    BY <2>3, <2>4, PresentPairs
  <2>6. Present(values) \in Seq(ItemValues)
    <3>1. PICK u \in [0..Len(values) -> Seq(ItemValues)] : Present(values) = u[Len(values)]
      BY <2>3, PresentUnfold
    <3> QED
      BY <1>1, <2>3, <3>1
  <2>7. PICK s : s = IF base = "null" THEN values ELSE Present(values)
    OBVIOUS
  <2>8. s \in Seq(ItemValues) /\ r = Accept(Arr(s)) /\ (base # "null" => s = Present(values))
    BY <2>1, <2>3, <2>6, <2>7
  <2>9. r.is = "accepted" /\ r.value = Arr(s)
    BY <2>8 DEF Accept
  <2>10. r.value \in Values /\ ~Absent(r.value) /\ r.value.items = s
    BY <2>8, <2>9, ArrayValue
  <2>11. base = "null" => \A i \in DOMAIN items : Absent(items[i])
    <3>1. \A v, o2 : Meaning(v, "null", o2) = {}
      BY DEF Meaning, CastPresent, Refuse
    <3>2. ASSUME base = "null", NEW i \in 1..n, ~Absent(items[i]) PROVE FALSE
      BY <1>3, <1>6, <3>1, <3>2 DEF StandFor, Stands
    <3> QED
      BY <1>1, <3>2
  <2> QED
    BY <2>5, <2>8, <2>9, <2>10, <2>11 DEF ItemsCast, r
<1> QED
  BY <1>5, <1>6

(***************************************************************************)
(* castParam                                                               *)
(***************************************************************************)

\* What a request may hold, and nothing.
Legible(w) ==
    /\ w \in Values /\ Readable(w) /\ AllReadable(w.items)
    /\ w.kind # "array" => w \in ItemValues

LEMMA AllLegible == \A w \in Sent \cup {Undefined} : Legible(w)
<1>1. ASSUME NEW w \in Sent PROVE Legible(w)
  <2>1. w \in Values /\ Readable(w) /\ (w.kind # "array" => w.items = NoItems)
        /\ \A i \in DOMAIN w.items : Readable(w.items[i])
    BY SentAssumption
  <2>2. w.items \in Seq(ItemValues)
    BY <2>1, ValueItems
  <2>3. AllReadable(w.items)
    BY <2>1, <2>2 DEF AllReadable
  <2>4. PICK S : w \in ValuesWith(S)
    BY <2>1, AsValuesWith
  <2>5. w.items = NoItems => w \in ItemValues
    BY <2>4 DEF ValuesWith, ItemValues
  <2> QED
    BY <2>1, <2>3, <2>5 DEF Legible
<1>2. Legible(Undefined)
  <2>1. Undefined \in ItemValues /\ Undefined \in Values
    BY MadeValues, ItemsAreValues
  <2>2. Undefined.items = NoItems /\ Undefined.kind = "undefined"
    BY DEF Undefined, Val
  <2>3. AllReadable(NoItems)
    BY DEF AllReadable, NoItems
  <2> QED
    BY <2>1, <2>2, <2>3 DEF Legible, Readable
<1> QED
  BY <1>1, <1>2

\* Of one item that is there, the same one is left.
LEMMA PresentOne ==
  ASSUME NEW x, ~Absent(x)
  PROVE  /\ Len(Present(<<x>>)) = 1 /\ Present(<<x>>)[1] = x /\ DOMAIN Present(<<x>>) = {1}
<1>1. PICK s : s = <<x>>
  OBVIOUS
<1>2. s \in Seq({x}) /\ Len(s) = 1 /\ s[1] = x
  BY <1>1
<1>3. PICK u \in [0..Len(s) -> Seq({x})] : Keeps(u, s) /\ Present(s) = u[Len(s)]
  BY <1>2, PresentUnfold
<1>4. u[1] = Append(u[0], x) /\ u[0] = <<>>
  BY <1>2, <1>3 DEF Keeps
<1>5. PICK e : e = Append(<<>>, x)
  OBVIOUS
<1>6. Len(e) = 1 /\ e[1] = x /\ DOMAIN e = {1}
  BY <1>5
<1> QED
  BY <1>1, <1>2, <1>3, <1>4, <1>5, <1>6

LEMMA ScalarCastSound ==
  ASSUME NEW w, Legible(w), NEW t \in Types, ~t.array, NEW o \in CastOptions,
         NEW r, r = Cast(w, t, o)
  PROVE  Sound(r, w, t, o) /\ r.value \in Values
<1> DEFINE v == Trim(w)
<1>1. t.base \in Bases /\ w \in Values /\ Readable(w)
  BY DEF Types, Bases, Legible
<1>2. r = CastScalar(w, t.base, o)
  BY DEF Cast
<1>3. Fair(r, w, t.base, o)
  BY <1>1, <1>2, ScalarFair
<1>4. (Absent(v) <=> Absent(w)) /\ Trim(v) = v
  BY <1>1, TrimFacts
<1> HIDE DEF v
<1>5. CASE Absent(w)
  <2>1. r = IF t.base = "null" THEN Accept(Null) ELSE AcceptIf(o.allowNull, w)
    BY <1>3, <1>5 DEF Fair
  <2>2. /\ r.is = "accepted" => Absent(r.value) /\ (o.allowNull \/ NullType(t))
        /\ r.is \in {"refused", "threw"} => ~o.allowNull /\ ~NullType(t)
        /\ r.value \in Values
    BY <1>1, <1>5, <2>1, MadeValues, ItemsAreValues DEF Accept, AcceptIf, Refuse, NullType
  <2> QED
    BY <1>4, <1>5, <2>2 DEF Sound, v
<1>6. CASE ~Absent(w)
  <2>1. Good(r, v, t.base, o)
    BY <1>3, <1>6 DEF Fair, v
  <2>2. /\ r.is = "accepted" => ~Absent(r.value) /\ Stands(v, r.value, t.base, o) /\ r.value \in Values
        /\ r.is # "accepted" => r.value \in Values
    BY <2>1, MadeValues, ItemsAreValues DEF Good, Kept
  <2>3. /\ Present(<<v>>)[1] = v /\ 1 \in DOMAIN Present(<<v>>)
    BY <1>4, <1>6, PresentOne
  <2>4. r.is \in {"refused", "threw"} =>
          \E i \in DOMAIN Present(<<v>>) : Meaning(Trim(Present(<<v>>)[i]), t.base, o) = {}
    BY <1>4, <2>1, <2>3 DEF Good
  <2> QED
    BY <1>4, <1>6, <2>2, <2>4 DEF Sound, v
<1> QED
  BY <1>5, <1>6

\* What was cast from items is sound, if they are what was sent.
LEMMA ItemsCastSound ==
  ASSUME NEW r, NEW w, NEW t, t.array, NEW o, NEW sent, ~Absent(Trim(w)),
         sent = IF Trim(w).kind = "array" THEN Trim(w).items ELSE <<Trim(w)>>,
         r.is = "accepted" => ~Absent(r.value),
         r.is = "accepted" /\ t.base # "null" =>
            /\ Len(r.value.items) = Len(Present(sent))
            /\ \A i \in DOMAIN Present(sent) : Stands(Present(sent)[i], r.value.items[i], t.base, o),
         r.is = "accepted" /\ t.base = "null" => \A i \in DOMAIN sent : Absent(sent[i]),
         r.is # "accepted" =>
            \E i \in DOMAIN Present(sent) : Meaning(Trim(Present(sent)[i]), t.base, o) = {}
  PROVE  Sound(r, w, t, o)
<1>1. (IF t.array /\ Trim(w).kind = "array" THEN Trim(w).items ELSE <<Trim(w)>>) = sent
  OBVIOUS
<1> QED
  BY <1>1 DEF Sound

LEMMA ArrayCastSound ==
  ASSUME NEW w, Legible(w), NEW t \in Types, t.array, NEW o \in CastOptions,
         NEW r, r = Cast(w, t, o)
  PROVE  Sound(r, w, t, o) /\ r.value \in Values
<1> DEFINE v == Trim(w)
<1>1. t.base \in NonArrayTypes /\ w \in Values /\ Readable(w)
  BY DEF Types, Legible
<1>2. (Absent(v) <=> Absent(w)) /\ Trim(v) = v /\ v.kind = w.kind /\ v.items = w.items
  BY <1>1, TrimFacts
<1>3. Undefined \in Values /\ Absent(Undefined)
  BY MadeValues, ItemsAreValues
<1> HIDE DEF v
<1>4. CASE Absent(w)
  <2>1. r = AcceptIf(o.allowNull, w)
    BY <1>4 DEF Cast
  <2>2. /\ r.is = "accepted" => Absent(r.value) /\ o.allowNull
        /\ r.is \in {"refused", "threw"} => ~o.allowNull /\ ~NullType(t)
        /\ r.value \in Values
    BY <1>1, <1>3, <1>4, <2>1 DEF AcceptIf, Accept, Refuse, NullType
  <2> QED
    BY <1>2, <1>4, <2>2 DEF Sound, v
<1>5. CASE ~Absent(w) /\ w.kind = "array"
  <2>1. r = CastItems(w.items, t.base, o)
    BY <1>5 DEF Cast, CastArray
  <2>2. w.items \in Seq(ItemValues) /\ AllReadable(w.items)
    BY <1>1, ValueItems DEF Legible
  <2>3. ItemsCast(r, w.items, t.base, o)
    BY <1>1, <2>1, <2>2, ItemsFair
  <2>4. PICK p : p = Present(w.items)
    OBVIOUS
  <2>5. p \in Seq(ItemValues)
    <3>1. PICK u \in [0..Len(w.items) -> Seq(ItemValues)] : p = u[Len(w.items)]
      BY <2>2, <2>4, PresentUnfold
    <3> QED
      BY <2>2, <3>1
  <2>6. r.is = "accepted" /\ t.base # "null" =>
          /\ Len(r.value.items) = Len(p)
          /\ \A i \in DOMAIN p : Stands(p[i], r.value.items[i], t.base, o)
    <3>1. SUFFICES ASSUME r.is = "accepted", t.base # "null"
                   PROVE  /\ Len(r.value.items) = Len(p)
                          /\ \A i \in DOMAIN p : Stands(p[i], r.value.items[i], t.base, o)
      OBVIOUS
    <3>2. AllIn(p, r.value.items, StandFor(t.base, o))
      BY <2>3, <2>4, <3>1 DEF ItemsCast
    <3>3. DOMAIN p = 1..Len(p)
      BY <2>5
    <3>4. \A x, y : <<x, y>> \in StandFor(t.base, o) => Stands(x, y, t.base, o)
      BY DEF StandFor
    <3> QED
      BY <3>2, <3>3, <3>4 DEF AllIn
  <2>7. /\ r.is = "accepted" => ~Absent(r.value)
        /\ r.is = "accepted" /\ t.base = "null" =>
              \A i \in DOMAIN w.items : Absent(w.items[i])
        /\ r.is # "accepted" => \E i \in DOMAIN p : Meaning(Trim(p[i]), t.base, o) = {}
        /\ r.value \in Values
    BY <1>3, <2>3, <2>4 DEF ItemsCast
  <2>8. PICK sent : sent = w.items /\ p = Present(sent)
    BY <2>4
  <2>9. sent = IF Trim(w).kind = "array" THEN Trim(w).items ELSE <<Trim(w)>>
    BY <1>2, <1>5, <2>8 DEF v
  <2>10. ~Absent(Trim(w))
    BY <1>2, <1>5 DEF v
  <2>11. Sound(r, w, t, o)
    BY <2>6, <2>7, <2>8, <2>9, <2>10, ItemsCastSound
  <2> QED
    BY <2>7, <2>11
<1>6. CASE ~Absent(w) /\ w.kind # "array" /\ t.base = "null"
  <2>1. r = Refuse
    BY <1>6 DEF Cast, CastArray
  <2>2. PICK sent : sent = <<v>>
    OBVIOUS
  <2>3. Present(sent)[1] = v /\ 1 \in DOMAIN Present(sent)
    BY <1>2, <1>6, <2>2, PresentOne
  <2>4. Meaning(Trim(v), "null", o) = {}
    BY DEF Meaning, CastPresent, Refuse
  <2>5. \E i \in DOMAIN Present(sent) : Meaning(Trim(Present(sent)[i]), t.base, o) = {}
    BY <1>6, <2>3, <2>4
  <2>6. /\ sent = IF Trim(w).kind = "array" THEN Trim(w).items ELSE <<Trim(w)>>
        /\ ~Absent(Trim(w))
    BY <1>2, <1>6, <2>2 DEF v
  <2>7. r.is = "refused" /\ r.value = Undefined
    BY <2>1 DEF Refuse
  <2> QED
    BY <1>3, <2>5, <2>6, <2>7, ItemsCastSound
<1>7. CASE ~Absent(w) /\ w.kind # "array" /\ t.base # "null"
  <2>1. r = CastItems(<<w>>, t.base, o)
    BY <1>7 DEF Cast, CastArray
  <2>2. PICK s : s = <<w>>
    OBVIOUS
  <2>3. w \in ItemValues
    BY <1>7 DEF Legible
  <2>4. s \in Seq(ItemValues) /\ AllReadable(s)
    BY <1>1, <2>2, <2>3 DEF AllReadable
  <2>5. ItemsCast(r, s, t.base, o)
    BY <1>1, <2>1, <2>2, <2>4, ItemsFair
  <2>6. Len(Present(s)) = 1 /\ Present(s)[1] = w /\ DOMAIN Present(s) = {1}
    BY <1>7, <2>2, PresentOne
  <2>7. PICK sent : sent = <<v>>
    OBVIOUS
  <2>8. Len(Present(sent)) = 1 /\ Present(sent)[1] = v /\ DOMAIN Present(sent) = {1}
    BY <1>2, <1>7, <2>7, PresentOne
  <2>9. r.is = "accepted" => /\ Len(r.value.items) = 1
                             /\ Stands(w, r.value.items[1], t.base, o)
    BY <1>7, <2>5, <2>6 DEF ItemsCast, AllIn, StandFor
  <2>10. \A y : Stands(v, y, t.base, o) <=> Stands(w, y, t.base, o)
    BY <1>1, SameMeaning DEF v
  <2>11. r.is # "accepted" => Meaning(Trim(w), t.base, o) = {}
    BY <2>5, <2>6 DEF ItemsCast
  <2>12. r.is = "accepted" /\ t.base # "null" =>
           /\ Len(r.value.items) = Len(Present(sent))
           /\ \A i \in DOMAIN Present(sent) : Stands(Present(sent)[i], r.value.items[i], t.base, o)
    BY <2>8, <2>9, <2>10
  <2>13. r.is # "accepted" =>
           \E i \in DOMAIN Present(sent) : Meaning(Trim(Present(sent)[i]), t.base, o) = {}
    BY <1>2, <2>8, <2>11 DEF v
  <2>14. (r.is = "accepted" => ~Absent(r.value)) /\ r.value \in Values
    BY <1>3, <2>5 DEF ItemsCast
  <2>15. sent = IF Trim(w).kind = "array" THEN Trim(w).items ELSE <<Trim(w)>>
    BY <1>2, <1>7, <2>7 DEF v
  <2>16. ~Absent(Trim(w))
    BY <1>2, <1>7 DEF v
  <2>17. Sound(r, w, t, o)
    BY <1>7, <2>12, <2>13, <2>14, <2>15, <2>16, ItemsCastSound
  <2> QED
    BY <2>14, <2>17
<1> QED
  BY <1>4, <1>5, <1>6, <1>7

\* A finished cast of the last key is the cast of what was found there, and one
\* that ended before depends on what it found on the way.
CastIInv ==
    /\ CastTypeOK
    /\ named \in Sent \cup {Undefined} /\ bracketed \in Sent \cup {Undefined}
    /\ keys = <<>> /\ outcome \notin {Idle, Waiting} =>
          outcome = Cast(Lookup(named, bracketed, type), type, opts)
    /\ keys # <<>> /\ outcome # Waiting =>
          outcome = IF Head(keys) = "undefined" THEN AcceptIf(opts.allowNull, Undefined) ELSE Refuse

LEMMA CastEnds ==
  ASSUME NEW w, Legible(w), NEW t \in Types, NEW o \in CastOptions, NEW r, r = Cast(w, t, o)
  PROVE  Outcome(r) /\ r.value \in Values /\ Sound(r, w, t, o)
<1>1. Sound(r, w, t, o) /\ r.value \in Values
  BY ScalarCastSound, ArrayCastSound
<1>2. Outcome(r)
  <2>1. ASSUME NEW base \in Bases, NEW p PROVE Outcome(CastScalar(w, base, p))
    <3>1. base \in NonArrayTypes \/ base = "regex"
      BY RegexesAssumption DEF Bases
    <3>2. CastPresent(Trim(w), "regex", p) = MatchRegexOrThrow(Trim(w))
      BY DEF CastPresent
    <3>3. Outcome(MatchRegexOrThrow(Trim(w)))
      BY Endings DEF MatchRegexOrThrow
    <3> QED
      BY <3>1, <3>2, <3>3, ScalarOutcome, Endings DEF CastScalar
  <2>2. CASE ~t.array
    <3>1. t.base \in Bases
      BY DEF Types, Bases
    <3> QED
      BY <2>1, <2>2, <3>1 DEF Cast
  <2>3. CASE t.array
    <3>1. t.base \in NonArrayTypes
      BY <2>3 DEF Types
    <3>2. w.items \in Seq(ItemValues)
      BY ValueItems DEF Legible
    <3>3. <<w>> \in Seq({w})
      OBVIOUS
    <3>4. Outcome(CastItems(w.items, t.base, o)) /\ Outcome(CastItems(<<w>>, t.base, o))
      BY <3>1, <3>2, <3>3, ItemsOutcome
    <3> QED
      BY <2>3, <3>4, Endings DEF Cast, CastArray
  <2> QED
    BY <2>2, <2>3
<1> QED
  BY <1>1, <1>2

\* The value that is looked up is one that a request may hold, or nothing.
LEMMA LookedUp == CastIInv => Legible(Lookup(named, bracketed, type))
  BY AllLegible DEF CastIInv, Lookup

LEMMA CastInitially == CastInit => CastIInv
<1> SUFFICES ASSUME CastInit PROVE CastIInv
  OBVIOUS
<1>1. AnyOpts \in OptSets
  BY OptionsGiven DEF AnyOpts
<1>2. AnyType \in Types
  BY DEF AnyType, Types, NonArrayTypes
<1>3. Undefined \in Values
  BY MadeValues, ItemsAreValues
<1>4. Idle.is = "idle" /\ Idle.value = Undefined
  BY DEF Idle
<1> QED
  BY <1>1, <1>2, <1>3, <1>4 DEF CastInit, CastIInv, CastTypeOK

LEMMA StepCasts == CastIInv /\ [CastNext]_castVars => CastIInv'
<1> SUFFICES ASSUME CastIInv, [CastNext]_castVars PROVE CastIInv'
  OBVIOUS
<1>1. /\ Undefined \in Values /\ Idle.is = "idle" /\ Waiting.is = "waiting"
      /\ Idle.value = Undefined /\ Waiting.value = Undefined
  BY MadeValues, ItemsAreValues DEF Idle, Waiting
<1>2. CASE CastParam
  <2>1. /\ keys' \in Paths /\ named' \in Sent /\ type' \in Types /\ opts' \in OptSets
        /\ bracketed' \in Sent \cup {Undefined} /\ outcome' = Waiting
    BY <1>2 DEF CastParam
  <2>2. Sent \subseteq Values
    BY SentAssumption
  <2> QED
    BY <1>1, <2>1, <2>2, PathsAssumption DEF CastIInv, CastTypeOK
<1>3. CASE Descend
  <2>1. /\ keys # <<>> /\ UNCHANGED <<named, bracketed, type, opts>>
        /\ keys' = IF Head(keys) = "object" THEN Tail(keys) ELSE keys
        /\ outcome' = Waiting \/ (keys' = keys /\ outcome' \in {Accept(Undefined), Refuse})
    BY <1>3 DEF Descend, AcceptIf
  <2>2. keys' \in Seq({"object", "undefined", "null", "array", "scalar"})
    BY <2>1 DEF CastIInv, CastTypeOK
  <2>3. outcome'.is \in {"waiting", "accepted", "refused"} /\ outcome'.value = Undefined
    BY <1>1, <2>1 DEF Accept, Refuse
  <2>4. CastTypeOK'
    BY <1>1, <2>1, <2>2, <2>3 DEF CastIInv, CastTypeOK
  <2>5. outcome' # Waiting =>
          /\ keys' = keys
          /\ outcome' = IF Head(keys) = "undefined" THEN AcceptIf(opts.allowNull, Undefined)
                        ELSE Refuse
    BY <1>3 DEF Descend
  <2>6. keys' = <<>> => outcome' = Waiting
    BY <2>1, <2>5
  <2> QED
    BY <2>1, <2>4, <2>5, <2>6 DEF CastIInv
<1>4. CASE CastLast
  <2>1. /\ outcome' = Cast(Lookup(named, bracketed, type), type, opts) /\ keys = <<>>
        /\ UNCHANGED <<keys, named, bracketed, type, opts>>
    BY <1>4 DEF CastLast
  <2>2. type \in Types /\ opts \in CastOptions
    BY OptionsGiven DEF CastIInv, CastTypeOK
  <2>3. Outcome(outcome') /\ outcome'.value \in Values
    BY <2>1, <2>2, LookedUp, CastEnds
  <2>4. CastTypeOK'
    BY <2>1, <2>3 DEF CastIInv, CastTypeOK, Outcome
  <2>5. Lookup(named, bracketed, type)' = Lookup(named, bracketed, type)
    BY <2>1 DEF Lookup
  <2> QED
    BY <2>1, <2>4, <2>5 DEF CastIInv
<1>5. CASE UNCHANGED castVars
  <2>1. Lookup(named, bracketed, type)' = Lookup(named, bracketed, type)
    BY <1>5 DEF castVars, Lookup
  <2> QED
    BY <1>5, <2>1 DEF castVars, CastIInv, CastTypeOK
<1> QED
  BY <1>2, <1>3, <1>4, <1>5 DEF CastNext

\* Every reachable state satisfies the invariant.
THEOREM CastInvariant == CastSpec => []CastIInv
  BY CastInitially, StepCasts, PTL DEF CastSpec

\* Every variable of castParam stays in its type.
THEOREM CastTypeCorrect == CastSpec => []CastTypeOK
<1>1. CastIInv => CastTypeOK
  BY DEF CastIInv
<1> QED
  BY <1>1, CastInvariant, PTL

\* Whatever a request holds and whatever is asked of it: a cast returns what was
\* sent and nothing else, with no number rounded, and refuses nothing that the
\* type and the options allow; a path that ends on the way lets through nothing
\* but an absent object.
THEOREM CastAlwaysSound == CastSpec => []CastSound
<1>1. CastIInv => CastSound
  <2> SUFFICES ASSUME CastIInv PROVE CastSound
    OBVIOUS
  <2>1. type \in Types /\ opts \in CastOptions
    BY OptionsGiven DEF CastIInv, CastTypeOK
  <2>2. ASSUME outcome \in {Idle, Waiting}, NEW v PROVE Sound(outcome, v, type, opts)
    <3>1. outcome.is \notin {"accepted", "refused", "threw"}
      BY <2>2 DEF Idle, Waiting
    <3> QED
      BY <3>1 DEF Sound
  <2>3. ASSUME keys = <<>>
        PROVE  Sound(outcome, Lookup(named, bracketed, type), type, opts)
    <3>1. CASE outcome \in {Idle, Waiting}
      BY <2>2, <3>1
    <3>2. CASE outcome \notin {Idle, Waiting}
      <4>1. outcome = Cast(Lookup(named, bracketed, type), type, opts)
        BY <2>3, <3>2 DEF CastIInv
      <4> QED
        BY <2>1, <4>1, LookedUp, CastEnds
    <3> QED
      BY <3>1, <3>2
  <2>4. ASSUME keys # <<>>, outcome.is = "accepted"
        PROVE  Head(keys) = "undefined" /\ opts.allowNull
    <3>1. outcome # Waiting
      BY <2>4 DEF Waiting
    <3> QED
      BY <2>4, <3>1 DEF CastIInv, AcceptIf, Refuse
  <2>5. ASSUME keys # <<>>, Head(keys) = "undefined", ~NullType(type)
        PROVE  Sound(outcome, Undefined, type, opts)
    <3>1. CASE outcome = Waiting
      BY <2>2, <3>1
    <3>2. CASE outcome # Waiting
      <4>1. outcome = AcceptIf(opts.allowNull, Undefined)
        BY <2>5, <3>2 DEF CastIInv
      <4>2. Absent(Undefined)
        BY MadeValues
      <4>3. outcome = Cast(Undefined, type, opts)
        BY <2>5, <4>1, <4>2 DEF Cast, CastScalar, NullType
      <4> QED
        BY <2>1, <4>3, AllLegible, CastEnds
    <3> QED
      BY <3>1, <3>2
  <2>6. ASSUME keys # <<>>, Head(keys) = "undefined", outcome.is \in {"refused", "threw"}
        PROVE  ~opts.allowNull
    <3>1. outcome # Waiting
      BY <2>6 DEF Waiting
    <3> QED
      BY <2>6, <3>1 DEF CastIInv, AcceptIf, Accept
  <2> QED
    BY <2>3, <2>4, <2>5, <2>6 DEF CastSound
<1> QED
  BY <1>1, CastInvariant, PTL

(***************************************************************************)
(* paramsFor and extractParams                                             *)
(***************************************************************************)

\* Any type that is looked up for a column is one that castParam knows.
LEMMA CastTypesKnown ==
  /\ \A d \in DOMAIN CastTypeOf : CastTypeOf[d] \in NonArrayTypes
  /\ \A t : CastTypeOfOpenapi(t) \in NonArrayTypes \cup {"none"}
<1>1. \A d \in DOMAIN CastTypeOf : CastTypeOf[d] \in NonArrayTypes
  BY DEF CastTypeOf, NonArrayTypes
<1>2. \A t : CastTypeOfOpenapi(t) \in NonArrayTypes \cup {"none"}
  BY DEF CastTypeOfOpenapi, NonArrayTypes
<1> QED
  BY <1>1, <1>2

\* So the cast of a column has an outcome, or is dropped without a value.
LEMMA ColumnOutcome ==
  ASSUME NEW v, v.items \in Seq(ItemValues), NEW m
  PROVE  \/ Outcome(CastColumn(v, m))
         \/ CastColumn(v, m).is = "dropped" /\ CastColumn(v, m).value = Undefined
<1>1. ASSUME NEW base \in NonArrayTypes
      PROVE  Outcome(Cast(v, [base |-> base, array |-> m.array], OptsFor(m)))
  <2> DEFINE t == [base |-> base, array |-> m.array]
  <2>1. t.base = base /\ t.array = m.array
    OBVIOUS
  <2> HIDE DEF t
  <2>2. Outcome(CastScalar(v, base, OptsFor(m)))
    BY ScalarOutcome
  <2>3. Outcome(CastItems(v.items, base, OptsFor(m)))
    BY ItemsOutcome
  <2>4. Outcome(CastItems(<<v>>, base, OptsFor(m)))
    <3>1. <<v>> \in Seq({v})
      OBVIOUS
    <3> QED
      BY <3>1, ItemsOutcome
  <2>5. Outcome(CastArray(v, base, OptsFor(m)))
    BY <2>3, <2>4, Endings DEF CastArray
  <2>6. Outcome(Cast(v, t, OptsFor(m)))
    BY <2>1, <2>2, <2>5, Endings DEF Cast
  <2> QED
    BY <2>6 DEF t
<1>2. Outcome(CastEnums(v, m))
  <2> DEFINE f == [i \in DOMAIN v.items |-> CastScalar(v.items[i], "string", OptsFor(m))]
  <2>1. Len(v.items) \in Nat /\ DOMAIN f = 1..Len(v.items)
    OBVIOUS
  <2>2. \A i \in 1..Len(v.items) : Outcome(f[i])
    BY <2>1, ScalarOutcome DEF NonArrayTypes
  <2>3. \/ CastEnums(v, m) = Refuse
        \/ CastEnums(v, m) = FirstFailure(f) /\ \E i \in DOMAIN f : f[i].is # "accepted"
        \/ \E w : CastEnums(v, m) = Accept(w)
    BY DEF CastEnums
  <2> HIDE DEF f
  <2> QED
    BY <2>1, <2>2, <2>3, FirstFailureOutcome, Endings
<1>3. "string" \in NonArrayTypes
  BY DEF NonArrayTypes
<1> QED
  BY <1>1, <1>2, <1>3, CastTypesKnown, Endings DEF CastColumn

(***************************************************************************)
(* The loop                                                                *)
(***************************************************************************)

\* What becomes of column c of element i.
Result(i, c) == CastColumn(elements[i][c], meta[c])
FitFor(i, c) == ~Asked(i, c) \/ Result(i, c).is \in {"accepted", "dropped"}
Taken(i, c) == IF Asked(i, c) /\ Result(i, c).is = "accepted" THEN Result(i, c).value ELSE Undefined
Looked == {Columns[k] : k \in 1..(cursor[2] - 1)}

\* The objects that params are taken from.
Sources == Elements \cup {Nothing}

Shape ==
    /\ doing \in {"idle", "extracting", "returned", "refused", "threw"}
    /\ elements \in Seq(Sources)
    /\ DOMAIN params = 1..Len(elements)
    /\ \A i \in 1..Len(elements) : DOMAIN params[i] = ColumnNames
    /\ cursor \in (1..(Len(elements) + 1)) \X (1..(Len(Columns) + 1))

\* Every element before the cursor has passed, and its params are taken.
Passed ==
    doing \in {"extracting", "refused", "returned"} =>
        \A i \in 1..Len(elements), c \in ColumnNames :
            i < cursor[1] => FitFor(i, c) /\ params[i][c] = Taken(i, c)

\* Of the element at the cursor, the columns looked at are taken or failed.
Partial ==
    doing \in {"extracting", "refused"} /\ cursor[1] <= Len(elements) =>
        /\ failed = {c \in Looked : ~FitFor(cursor[1], c)}
        /\ \A c \in ColumnNames :
              params[cursor[1]][c] = IF c \in Looked THEN Taken(cursor[1], c) ELSE Undefined

\* Nothing is taken of the elements after it.
Untouched == doing = "extracting" => \A i \in 1..Len(elements) : i > cursor[1] => params[i] = Nothing

\* A call ends only at the end of an element.
Ended ==
    /\ doing = "refused" /\ elements # <<>> =>
          cursor[1] <= Len(elements) /\ cursor[2] > Len(Columns)
    /\ doing = "returned" => cursor[1] > Len(elements)

ForIInv == Shape /\ Passed /\ Partial /\ Untouched /\ Ended

\* Of a column that was asked for and is cast, the outcome is one the loop
\* takes, notes as failed, or gives up on.
LEMMA ResultFacts ==
  ASSUME ForIInv, NEW i \in 1..Len(elements), NEW c \in ColumnNames
  PROVE  \/ Outcome(Result(i, c))
         \/ Result(i, c).is = "dropped" /\ Result(i, c).value = Undefined
<1>1. elements[i] \in Elements \/ elements[i] = Nothing
  BY DEF ForIInv, Shape, Sources
<1>2. CASE elements[i] \in Elements
  <2>1. elements[i][c] \in Values
    BY <1>2, ElementsAssumption
  <2>2. elements[i][c].items \in Seq(ItemValues)
    BY <2>1, ValueItems
  <2> QED
    BY <2>2, ColumnOutcome DEF Result
<1>3. CASE elements[i] = Nothing
  <2>1. elements[i][c] = Undefined
    BY <1>3 DEF Nothing
  <2>2. Undefined.items = NoItems
    BY DEF Undefined, Val
  <2>3. NoItems \in Seq(ItemValues)
    BY DEF NoItems
  <2>4. elements[i][c].items \in Seq(ItemValues)
    BY <2>1, <2>2, <2>3
  <2> QED
    BY <2>4, ColumnOutcome DEF Result
<1> QED
  BY <1>1, <1>2, <1>3

\* When every column has been looked at, they all have.
LEMMA AllLooked ==
  ASSUME ForIInv, cursor[2] > Len(Columns)
  PROVE  Looked = ColumnNames
<1>1. cursor[2] = Len(Columns) + 1 /\ Len(Columns) \in Nat /\ DOMAIN Columns = 1..Len(Columns)
  BY ColumnsAssumption DEF ForIInv, Shape
<1> QED
  BY <1>1 DEF Looked, ColumnNames, ToSet

LEMMA ForInitially == ForInit => ForIInv
<1> SUFFICES ASSUME ForInit PROVE ForIInv
  OBVIOUS
<1>1. Len(Columns) \in Nat
  BY ColumnsAssumption
<1>2. Shape
  BY <1>1 DEF ForInit, Shape
<1> QED
  BY <1>2 DEF ForInit, ForIInv, Passed, Partial, Untouched, Ended

\* A call: nothing has been looked at.
LEMMA CallStep == ForIInv /\ Call => ForIInv'
<1> SUFFICES ASSUME ForIInv, Call PROVE ForIInv'
  OBVIOUS
<1>1. Len(Columns) \in Nat
  BY ColumnsAssumption
<1>2. Nothing \in Sources /\ Elements \subseteq Sources
  BY DEF Sources
<1>3. /\ elements' \in Seq(Sources)
      /\ doing' \in {"extracting", "refused", "threw"} /\ (doing' = "refused" => elements' = <<>>)
  <2>1. ASSUME NEW value, value.objects \in Seq(Sources),
               NEW array, NEW key, Source(value, array, key)
        PROVE  /\ elements' \in Seq(Sources)
               /\ doing' \in {"extracting", "refused", "threw"}
               /\ doing' = "refused" => elements' = <<>>
    <3>1. <<Nothing>> \in Seq(Sources) /\ <<>> \in Seq(Sources)
      BY <1>2
    <3>2. /\ elements' \in {<<>>, <<Nothing>>, value.objects}
          /\ doing' \in {"extracting", "refused", "threw"}
          /\ doing' = "refused" => elements' = <<>>
      BY <2>1 DEF Source
    <3> QED
      BY <2>1, <3>1, <3>2
  <2>2. \A e \in Elements, f \in Elements :
           <<e>> \in Seq(Sources) /\ <<e, f>> \in Seq(Sources)
    BY <1>2
  <2>3. PICK array \in BOOLEAN, key \in BOOLEAN :
           \/ \E is \in {"absent", "scalar", "mixed"} : Source([is |-> is, objects |-> <<>>], array, key)
           \/ \E e \in Elements : Source([is |-> "object", objects |-> <<e>>], array, key)
           \/ \E e, f \in Elements : Source([is |-> "objects", objects |-> <<e, f>>], array, key)
    BY DEF Call
  <2>4. \E value : value.objects \in Seq(Sources) /\ Source(value, array, key)
    <3>1. CASE \E is \in {"absent", "scalar", "mixed"} : Source([is |-> is, objects |-> <<>>], array, key)
      <4>1. PICK is \in {"absent", "scalar", "mixed"} : Source([is |-> is, objects |-> <<>>], array, key)
        BY <3>1
      <4>2. [is |-> is, objects |-> <<>>].objects \in Seq(Sources)
        OBVIOUS
      <4> QED
        BY <4>1, <4>2
    <3>2. CASE \E e \in Elements : Source([is |-> "object", objects |-> <<e>>], array, key)
      BY <2>2, <3>2
    <3>3. CASE \E e, f \in Elements : Source([is |-> "objects", objects |-> <<e, f>>], array, key)
      BY <2>2, <3>3
    <3> QED
      BY <2>3, <3>1, <3>2, <3>3
  <2> QED
    BY <2>1, <2>4
<1>4. cursor' = <<1, 1>> /\ params' = [i \in DOMAIN elements' |-> Nothing] /\ failed' = {}
  BY DEF Call
<1>5. Len(elements') \in Nat /\ DOMAIN elements' = 1..Len(elements')
  BY <1>3
<1>6. \A i \in 1..Len(elements') : params'[i] = Nothing
  BY <1>4, <1>5
<1>7. Shape'
  BY <1>1, <1>3, <1>4, <1>5, <1>6 DEF Shape, Nothing
<1>8. Looked' = {}
  BY <1>4 DEF Looked
<1>9. Passed' /\ Untouched'
  BY <1>4, <1>5, <1>6 DEF Passed, Untouched
<1>10. Partial'
  BY <1>4, <1>5, <1>6, <1>8 DEF Partial, Nothing
<1>11. Ended'
  BY <1>3, <1>4 DEF Ended
<1> QED
  BY <1>7, <1>9, <1>10, <1>11 DEF ForIInv

\* The next column: taken, noted as failed, skipped, or the end of it all.
LEMMA ColumnStep == ForIInv /\ NextColumn => ForIInv'
<1> SUFFICES ASSUME ForIInv, NextColumn PROVE ForIInv'
  OBVIOUS
<1> DEFINE i == cursor[1]
           k == cursor[2]
           c == Columns[k]
<1>1. /\ doing = "extracting" /\ i \in 1..Len(elements) /\ k \in 1..Len(Columns)
      /\ Len(elements) \in Nat /\ Len(Columns) \in Nat
      /\ cursor' = <<i, k + 1>> /\ elements' = elements /\ meta' = meta /\ allowed' = allowed
      /\ Extract(c)
  BY ColumnsAssumption DEF NextColumn, ForIInv, Shape
<1>2. c \in ColumnNames
  BY <1>1, ColumnsAssumption
<1>3. Looked' = Looked \cup {c}
  BY <1>1 DEF Looked
<1>4. PICK r : r = Result(i, c)
  OBVIOUS
<1>5. \/ Outcome(r)
      \/ r.is = "dropped" /\ r.value = Undefined
  BY <1>1, <1>2, <1>4, ResultFacts
<1>6. \/ /\ ~Asked(i, c) /\ UNCHANGED <<doing, params, failed>>
      \/ /\ Asked(i, c)
         /\ params' = IF r.is = "accepted" THEN [params EXCEPT ![i][c] = r.value] ELSE params
         /\ failed' = IF r.is = "refused" THEN failed \cup {c} ELSE failed
         /\ doing' = IF r.is = "threw" THEN "threw" ELSE doing
  BY <1>1, <1>4 DEF Extract, Asked, Result
<1>7. DOMAIN params = 1..Len(elements) /\ (\A j \in 1..Len(elements) : DOMAIN params[j] = ColumnNames)
  BY DEF ForIInv, Shape
<1> HIDE DEF c
<1>8. /\ DOMAIN params' = 1..Len(elements)
      /\ \A j \in 1..Len(elements) : DOMAIN params'[j] = ColumnNames
      /\ \A j \in 1..Len(elements) : j # i => params'[j] = params[j]
      /\ \A d \in ColumnNames : d # c => params'[i][d] = params[i][d]
      /\ params'[i][c] = IF Asked(i, c) /\ r.is = "accepted" THEN r.value ELSE params[i][c]
  BY <1>1, <1>2, <1>6, <1>7
<1>9. \A j, d : /\ Asked(j, d)' <=> Asked(j, d)
                /\ Result(j, d)' = Result(j, d)
  BY <1>1 DEF Asked, Result
<1>10. \A j, d : (FitFor(j, d)' <=> FitFor(j, d)) /\ Taken(j, d)' = Taken(j, d)
  BY <1>9 DEF FitFor, Taken
<1>11. Shape'
  BY <1>1, <1>5, <1>6, <1>8 DEF ForIInv, Shape
<1>12. Passed'
  BY <1>1, <1>8, <1>10 DEF ForIInv, Passed
<1>13. Untouched' /\ Ended'
  BY <1>1, <1>6, <1>8 DEF ForIInv, Untouched, Ended
<1>14. CASE doing' = "extracting"
  <2>1. /\ failed = {d \in Looked : ~FitFor(i, d)}
        /\ \A d \in ColumnNames : params[i][d] = IF d \in Looked THEN Taken(i, d) ELSE Undefined
    BY <1>1 DEF ForIInv, Partial
  <2>2. /\ FitFor(i, c) <=> ~Asked(i, c) \/ r.is \in {"accepted", "dropped"}
        /\ Taken(i, c) = IF Asked(i, c) /\ r.is = "accepted" THEN r.value ELSE Undefined
    BY <1>4 DEF FitFor, Taken
  <2>3. failed' = IF FitFor(i, c) THEN failed ELSE failed \cup {c}
    BY <1>1, <1>5, <1>6, <1>14, <2>2 DEF Outcome
  <2>4. failed' = {d \in Looked' : ~FitFor(i, d)}
    BY <1>3, <2>1, <2>3
  <2>5. params'[i][c] = Taken(i, c)
    BY <1>2, <1>8, <2>1, <2>2
  <2>6. \A d \in ColumnNames : params'[i][d] = IF d \in Looked' THEN Taken(i, d) ELSE Undefined
    BY <1>3, <1>8, <2>1, <2>5
  <2>7. Partial'
    BY <1>1, <1>10, <2>4, <2>6 DEF Partial
  <2> QED
    BY <1>11, <1>12, <1>13, <2>7 DEF ForIInv
<1>15. CASE doing' = "threw"
  BY <1>11, <1>12, <1>13, <1>15 DEF ForIInv, Partial
<1> QED
  BY <1>1, <1>6, <1>14, <1>15

\* The end of an element: a refusal, or on to the next one.
LEMMA ElementStep == ForIInv /\ NextElement => ForIInv'
<1> SUFFICES ASSUME ForIInv, NextElement PROVE ForIInv'
  OBVIOUS
<1> DEFINE i == cursor[1]
<1>1. /\ doing = "extracting" /\ i \in 1..Len(elements) /\ cursor[2] > Len(Columns)
      /\ Len(elements) \in Nat /\ Len(Columns) \in Nat
      /\ elements' = elements /\ meta' = meta /\ allowed' = allowed /\ params' = params
      /\ failed' = failed
  BY ColumnsAssumption DEF NextElement, ForIInv, Shape
<1>2. Looked = ColumnNames
  BY <1>1, AllLooked
<1>3. /\ failed = {d \in ColumnNames : ~FitFor(i, d)}
      /\ \A d \in ColumnNames : params[i][d] = Taken(i, d)
  BY <1>1, <1>2 DEF ForIInv, Partial
<1>4. \A j, d : (FitFor(j, d)' <=> FitFor(j, d)) /\ Taken(j, d)' = Taken(j, d)
  BY <1>1 DEF FitFor, Taken, Asked, Result
<1>5. CASE failed = {}
  <2>1. doing' = doing /\ cursor' = <<i + 1, 1>>
    BY <1>5 DEF NextElement
  <2>2. Shape'
    BY <1>1, <2>1 DEF ForIInv, Shape
  <2>3. Passed'
    BY <1>1, <1>3, <1>4, <1>5, <2>1 DEF ForIInv, Passed
  <2>4. Looked' = {}
    BY <2>1 DEF Looked
  <2>5. Partial' /\ Untouched'
    BY <1>1, <1>5, <2>1, <2>4 DEF ForIInv, Partial, Untouched, Nothing
  <2>6. Ended'
    BY <1>1, <2>1 DEF Ended
  <2> QED
    BY <2>2, <2>3, <2>5, <2>6 DEF ForIInv
<1>6. CASE failed # {}
  <2>1. doing' = "refused" /\ cursor' = cursor
    BY <1>6 DEF NextElement
  <2>2. Shape' /\ Untouched' /\ Ended'
    BY <1>1, <2>1 DEF ForIInv, Shape, Untouched, Ended
  <2>3. Passed'
    BY <1>1, <1>4, <2>1 DEF ForIInv, Passed
  <2>4. Partial'
    BY <1>1, <1>4, <2>1 DEF ForIInv, Partial, Looked
  <2> QED
    BY <2>2, <2>3, <2>4 DEF ForIInv
<1> QED
  BY <1>5, <1>6

\* The end of a call.
LEMMA ReturnStep == ForIInv /\ Return => ForIInv'
<1> SUFFICES ASSUME ForIInv, Return PROVE ForIInv'
  OBVIOUS
<1>1. /\ doing = "extracting" /\ doing' = "returned" /\ cursor[1] > Len(elements)
      /\ elements' = elements /\ meta' = meta /\ allowed' = allowed /\ params' = params
      /\ cursor' = cursor
  BY DEF Return
<1>2. \A j, d : (FitFor(j, d)' <=> FitFor(j, d)) /\ Taken(j, d)' = Taken(j, d)
  BY <1>1 DEF FitFor, Taken, Asked, Result
<1>3. Shape' /\ Untouched' /\ Ended' /\ Partial'
  BY <1>1 DEF ForIInv, Shape, Untouched, Ended, Partial
<1>4. Passed'
  BY <1>1, <1>2 DEF ForIInv, Passed
<1> QED
  BY <1>3, <1>4 DEF ForIInv

\* A step that changes nothing.
LEMMA Stutter == ForIInv /\ UNCHANGED forVars => ForIInv'
<1> SUFFICES ASSUME ForIInv, UNCHANGED forVars PROVE ForIInv'
  OBVIOUS
<1>1. /\ doing' = doing /\ elements' = elements /\ meta' = meta /\ allowed' = allowed
      /\ params' = params /\ cursor' = cursor /\ failed' = failed
  BY DEF forVars
<1>2. \A j, d : (FitFor(j, d)' <=> FitFor(j, d)) /\ Taken(j, d)' = Taken(j, d)
  BY <1>1 DEF FitFor, Taken, Asked, Result
<1>3. Shape' /\ Untouched' /\ Ended'
  BY <1>1 DEF ForIInv, Shape, Untouched, Ended
<1>4. Passed'
  BY <1>1, <1>2 DEF ForIInv, Passed
<1>5. Partial'
  BY <1>1, <1>2 DEF ForIInv, Partial, Looked
<1> QED
  BY <1>3, <1>4, <1>5 DEF ForIInv

(***************************************************************************)
(* Theorems                                                                *)
(***************************************************************************)

\* The loop's invariant: elements before the cursor are taken whole, the one
\* at it up to the column reached, and those after it not at all.
THEOREM ForInvariant == ForSpec => []ForIInv
<1>1. ForInit => ForIInv
  BY ForInitially
<1>2. ForIInv /\ [ForNext]_forVars => ForIInv'
  BY CallStep, ColumnStep, ElementStep, ReturnStep, Stutter DEF ForNext
<1> QED
  BY <1>1, <1>2, PTL DEF ForSpec

\* Params are returned all or nothing, each as its own column's cast makes it,
\* and a refusal names every unfit column of the first element with one.
THEOREM AlwaysAllOrNothing == ForSpec => []AllOrNothing
<1>1. ForIInv => AllOrNothing
  <2> SUFFICES ASSUME ForIInv PROVE AllOrNothing
    OBVIOUS
  <2>1. DOMAIN elements = 1..Len(elements) /\ Len(elements) \in Nat
    BY DEF ForIInv, Shape
  <2>2. ASSUME doing = "returned", NEW i \in DOMAIN elements, NEW c \in ColumnNames
        PROVE  /\ FitFor(i, c)
               /\ params[i][c] = IF Asked(i, c) THEN Result(i, c).value ELSE Undefined
    <3>1. FitFor(i, c) /\ params[i][c] = Taken(i, c)
      BY <2>1, <2>2 DEF ForIInv, Passed, Ended, Shape
    <3>2. Outcome(Result(i, c)) \/ (Result(i, c).is = "dropped" /\ Result(i, c).value = Undefined)
      BY <2>1, <2>2, ResultFacts
    <3> QED
      BY <3>1, <3>2 DEF FitFor, Taken, Outcome
  <2>3. ASSUME doing = "refused", elements # <<>>
        PROVE  /\ failed = {c \in ColumnNames : ~FitFor(cursor[1], c)}
               /\ \A i \in 1..(cursor[1] - 1), c \in ColumnNames : FitFor(i, c)
    <3>1. cursor[1] \in 1..Len(elements) /\ cursor[2] > Len(Columns)
      BY <2>1, <2>3 DEF ForIInv, Ended, Shape
    <3>2. Looked = ColumnNames
      BY <3>1, AllLooked
    <3>3. failed = {c \in ColumnNames : ~FitFor(cursor[1], c)}
      BY <2>3, <3>1, <3>2 DEF ForIInv, Partial
    <3>4. \A i \in 1..(cursor[1] - 1), c \in ColumnNames : FitFor(i, c)
      BY <2>1, <2>3, <3>1 DEF ForIInv, Passed
    <3> QED
      BY <3>3, <3>4
  <2> QED
    BY <2>2, <2>3 DEF AllOrNothing, FitFor, Result
<1> QED
  BY <1>1, ForInvariant, PTL

(***************************************************************************)
(* The validation of payloads                                              *)
(***************************************************************************)
\* A key that names a part of a request leads to the schema of that very part.
\* For responses nothing of the kind holds: the key leaves out the status.
ValidatorsInv ==
    \A k \in DOMAIN validators :
        \E a \in Actions, d \in Docs, t \in Targets :
            /\ k = [action |-> a, doc |-> d, target |-> t]
            /\ t \in RequestTargets => validators[k] = Schema(a, d, t, NoStatus)

StringifiersInv ==
    \A k \in DOMAIN stringifiers :
        \E a \in Actions, d \in Docs, s \in Statuses :
            /\ k = [action |-> a, doc |-> d, status |-> s]
            /\ stringifiers[k] = Schema(a, d, "responseBody", s)

\* No status is set before the action, and the search for a stringifier has
\* passed only documents without a schema for the status.
StatusInv ==
    /\ pc \in RequestTargets \cup {"idle"} => status = NoStatus
    /\ pc \in {"responseBody", "stringify", "sent"} => status \in Statuses
    /\ pc = "stringify" => \A i \in DOMAIN DocNames :
                               i < at => status \notin documented[action][DocNames[i]]

ValidationIInv == /\ TypeOK
        /\ ValidatorsInv
        /\ StringifiersInv
        /\ StatusInv
        /\ SerializedByOwnSchema

\* While a document has its turn, it is one of the documents.
LEMMA DocInDocs ==
    ASSUME TypeOK, at <= Len(DocNames)
    PROVE  at \in DOMAIN DocNames /\ Doc \in Docs
<1>1. at \in 1..Len(DocNames)
  BY PayloadAssumption DEF TypeOK
<1> QED
  BY <1>1, PayloadAssumption DEF Doc, Docs

\* The initial state of the process, with empty caches, satisfies the invariant.
LEMMA ValidationInitially == Init => ValidationIInv
<1> SUFFICES ASSUME Init PROVE ValidationIInv
  OBVIOUS
<1>1. DOMAIN validators = {} /\ DOMAIN stringifiers = {}
  BY DEF Init
<1>2. 1 \in 1..Len(DocNames) + 1
  BY PayloadAssumption
<1> QED
  BY <1>1, <1>2, PayloadAssumption
  DEF Init, ValidationIInv, TypeOK, ValidatorsInv, StringifiersInv, StatusInv,
      SerializedByOwnSchema, RequestTargets, Targets

\* What a document's turn leaves in the validators' cache.
LEMMA ValidateCache ==
    ASSUME ValidationIInv, Validate
    PROVE  /\ \A k \in DOMAIN validators' : validators'[k] \in Schemas
           /\ ValidatorsInv'
<1> DEFINE own == Schema(action, Doc, pc, status)
           key == CacheKey(pc)
<1>1. pc \in Targets /\ at <= Len(DocNames) /\ Doc \in Docs /\ action \in Actions
  BY DocInDocs DEF ValidationIInv, TypeOK, Validate
<1>2. own \in Schemas
  BY <1>1 DEF ValidationIInv, TypeOK, Schema, Schemas
<1>3. pc \in RequestTargets => own = Schema(action, Doc, pc, NoStatus)
  BY DEF ValidationIInv, StatusInv
<1>4. CASE validators' = validators
  BY <1>4 DEF ValidationIInv, TypeOK, ValidatorsInv
<1>5. CASE validators' = With(validators, key, own)
  <2>1. ASSUME NEW k \in DOMAIN validators'
        PROVE  \/ k \in DOMAIN validators /\ validators'[k] = validators[k]
               \/ k = key /\ validators'[k] = own
    BY <1>5 DEF With, Cached
  <2>2. key = [action |-> action, doc |-> Doc, target |-> pc]
    BY DEF CacheKey
  <2>3. \A k \in DOMAIN validators' : validators'[k] \in Schemas
    BY <1>2, <2>1 DEF ValidationIInv, TypeOK
  <2>4. ASSUME NEW k \in DOMAIN validators'
        PROVE  \E a \in Actions, d \in Docs, t \in Targets :
                  /\ k = [action |-> a, doc |-> d, target |-> t]
                  /\ t \in RequestTargets => validators'[k] = Schema(a, d, t, NoStatus)
    <3> HIDE DEF own, key
    <3>1. CASE k \in DOMAIN validators /\ validators'[k] = validators[k]
      BY <3>1 DEF ValidationIInv, ValidatorsInv
    <3>2. CASE k = key /\ validators'[k] = own
      BY <3>2, <1>1, <1>3, <2>2
    <3> QED
      BY <2>1, <3>1, <3>2
  <2> QED
    BY <2>3, <2>4 DEF ValidatorsInv
<1> QED
  BY <1>4, <1>5 DEF Validate

\* What the choice of a stringifier leaves in its cache.
LEMMA StringifyCache ==
    ASSUME ValidationIInv, Stringify
    PROVE  /\ \A k \in DOMAIN stringifiers' : stringifiers'[k] \in Schemas
           /\ StringifiersInv'
           /\ pc' = "sent" /\ fast[action] /\ at <= Len(DocNames) =>
                 sentBy' = {Schema(action, Doc, "responseBody", status)}
<1> DEFINE own == Schema(action, Doc, "responseBody", status)
           key == StringifyKey
<1>1. pc = "stringify" /\ action \in Actions /\ status \in Statuses
  BY DEF ValidationIInv, TypeOK, StatusInv, Stringify
<1>2. CASE stringifiers' = stringifiers /\ ~(pc' = "sent" /\ fast[action] /\ at <= Len(DocNames))
  BY <1>2 DEF ValidationIInv, TypeOK, StringifiersInv
<1>3. CASE /\ at <= Len(DocNames)
           /\ stringifiers' = With(stringifiers, key, own)
           /\ sentBy' = {Cached(stringifiers, key, own)}
  <2>1. Doc \in Docs
    BY <1>3, DocInDocs DEF ValidationIInv
  <2>2. own \in Schemas
    BY <1>1, <2>1 DEF Schema, Schemas, Targets
  <2>3. key = [action |-> action, doc |-> Doc, status |-> status]
    BY DEF StringifyKey
  <2>4. key \in DOMAIN stringifiers => stringifiers[key] = own
    <3> HIDE DEF own
    <3> SUFFICES ASSUME key \in DOMAIN stringifiers PROVE stringifiers[key] = own
      OBVIOUS
    <3>1. PICK a \in Actions, d \in Docs, s \in Statuses :
             /\ key = [action |-> a, doc |-> d, status |-> s]
             /\ stringifiers[key] = Schema(a, d, "responseBody", s)
      BY DEF ValidationIInv, StringifiersInv
    <3>2. a = action /\ d = Doc /\ s = status
      BY <2>3, <3>1
    <3> QED
      BY <3>1, <3>2 DEF own
  <2>5. Cached(stringifiers, key, own) = own
    BY <2>4 DEF Cached
  <2>6. ASSUME NEW k \in DOMAIN stringifiers'
        PROVE  \/ k \in DOMAIN stringifiers /\ stringifiers'[k] = stringifiers[k]
               \/ k = key /\ stringifiers'[k] = own
    BY <1>3, <2>4 DEF With, Cached
  <2>7. \A k \in DOMAIN stringifiers' : stringifiers'[k] \in Schemas
    BY <2>2, <2>6 DEF ValidationIInv, TypeOK
  <2>8. ASSUME NEW k \in DOMAIN stringifiers'
        PROVE  \E a \in Actions, d \in Docs, s \in Statuses :
                  /\ k = [action |-> a, doc |-> d, status |-> s]
                  /\ stringifiers'[k] = Schema(a, d, "responseBody", s)
    <3> HIDE DEF own, key
    <3>1. CASE k \in DOMAIN stringifiers /\ stringifiers'[k] = stringifiers[k]
      BY <3>1 DEF ValidationIInv, StringifiersInv
    <3>2. CASE k = key /\ stringifiers'[k] = own
      BY <3>2, <1>1, <2>1, <2>3 DEF own
    <3> QED
      BY <2>6, <3>1, <3>2
  <2>9. StringifiersInv'
    BY <2>8 DEF StringifiersInv
  <2> QED
    BY <1>3, <2>5, <2>7, <2>9
<1>4. \/ stringifiers' = stringifiers /\ ~(pc' = "sent" /\ fast[action] /\ at <= Len(DocNames))
      \/ /\ at <= Len(DocNames)
         /\ stringifiers' = With(stringifiers, key, own)
         /\ sentBy' = {Cached(stringifiers, key, own)}
  <2>1. at \in Nat /\ Len(DocNames) \in Nat
    BY PayloadAssumption DEF ValidationIInv, TypeOK
  <2> QED
    BY <2>1, <1>1 DEF Stringify
<1> QED
  BY <1>2, <1>3, <1>4

\* Each step leaves every variable in its type; the two that write a cache by
\* the lemmas above.
LEMMA StepTypeOK == ValidationIInv /\ [Next]_vars => TypeOK'
<1> SUFFICES ASSUME ValidationIInv, [Next]_vars PROVE TypeOK'
  OBVIOUS
<1>1. /\ Len(DocNames) \in Nat
      /\ 1 \in 1..Len(DocNames) + 1
      /\ at <= Len(DocNames) => at + 1 \in 1..Len(DocNames) + 1
  BY PayloadAssumption DEF ValidationIInv, TypeOK
<1>2. ASSUME NEW a \in Actions, NEW t \in Targets, NEW S \in SUBSET (Statuses \cup {NoStatus}),
             Inspect(a, t, S)
      PROVE  pc' = t /\ at' = 1 /\ bad' \in SUBSET Schemas
  BY <1>2 DEF Inspect, Schema, Schemas
<1>3. CASE Begin
  <2>1. action' \in Actions /\ Inspect(action', "headers", {NoStatus})
    BY <1>3 DEF Begin
  <2>2. pc' = "headers" /\ at' = 1 /\ bad' \in SUBSET Schemas
    BY <1>2, <2>1 DEF Targets, RequestTargets
  <2> QED
    BY <1>1, <1>3, <2>2 DEF Begin, ValidationIInv, TypeOK, Targets, RequestTargets, fixed, caches
<1>4. CASE Validate
  <2>1. \A k \in DOMAIN validators' : validators'[k] \in Schemas
    BY <1>4, ValidateCache
  <2>2. at <= Len(DocNames) /\ pc' \in {pc, "rejected"}
    BY <1>4 DEF Validate
  <2>3. at' \in {at, at + 1}
    BY <1>4 DEF Validate
  <2> QED
    BY <1>1, <1>4, <2>1, <2>2, <2>3 DEF Validate, ValidationIInv, TypeOK, fixed
<1>5. CASE Accepted
  <2>1. pc' \in {"query", "requestBody", "action", "stringify"} /\ at' \in {at, 1} /\ bad' \in SUBSET Schemas
    BY <1>2, <1>5 DEF Accepted, ValidationIInv, TypeOK, Targets, RequestTargets
  <2> QED
    BY <1>1, <1>5, <2>1 DEF Accepted, ValidationIInv, TypeOK, Targets, RequestTargets, fixed, caches
<1>6. CASE Render
  <2>1. pc' = "responseBody" /\ at' = 1 /\ bad' \in SUBSET Schemas
    BY <1>2, <1>6 DEF Render, ValidationIInv, TypeOK, Targets
  <2> QED
    BY <1>1, <1>6, <2>1 DEF Render, ValidationIInv, TypeOK, Targets, fixed, caches
<1>7. CASE RenderError
  BY <1>1, <1>7 DEF RenderError, ValidationIInv, TypeOK, fixed, caches
<1>8. CASE Stringify
  <2>1. \A k \in DOMAIN stringifiers' : stringifiers'[k] \in Schemas
    BY <1>8, StringifyCache
  <2>2. pc' \in {pc, "sent"}
    BY <1>8 DEF Stringify
  <2>3. at' \in 1..Len(DocNames) + 1
    <3>1. CASE at > Len(DocNames)
      BY <1>8, <3>1 DEF Stringify, ValidationIInv, TypeOK
    <3>2. CASE at <= Len(DocNames)
      BY <1>1, <1>8, <3>2 DEF Stringify, ValidationIInv, TypeOK
    <3> QED
      BY <1>1, <3>1, <3>2 DEF ValidationIInv, TypeOK
  <2>4. sentBy' \in SUBSET Schemas
    <3>1. CASE pc' = "sent" /\ fast[action] /\ at <= Len(DocNames)
      <4>1. sentBy' = {Schema(action, Doc, "responseBody", status)}
        BY <1>8, <3>1, StringifyCache
      <4> QED
        BY <4>1, <3>1, DocInDocs DEF Schema, Schemas, Targets, ValidationIInv, TypeOK
    <3>2. CASE ~(pc' = "sent" /\ fast[action] /\ at <= Len(DocNames))
      BY <1>1, <1>8, <3>2 DEF Stringify, ValidationIInv, TypeOK
    <3> QED
      BY <3>1, <3>2
  <2> QED
    BY <1>1, <1>8, <2>1, <2>2, <2>3, <2>4 DEF Stringify, ValidationIInv, TypeOK, fixed
<1>9. CASE Finish
  BY <1>1, <1>9 DEF Finish, ValidationIInv, TypeOK, fixed, caches
<1>10. CASE UNCHANGED vars
  BY <1>10 DEF vars, fixed, caches, ValidationIInv, TypeOK
<1> QED
  BY <1>3, <1>4, <1>5, <1>6, <1>7, <1>8, <1>9, <1>10 DEF Next

\* The status is known exactly from the action on, and a step past a document
\* shows that it has no schema for it.
LEMMA StepStatus == ValidationIInv /\ [Next]_vars => StatusInv'
<1> SUFFICES ASSUME ValidationIInv, [Next]_vars PROVE StatusInv'
  OBVIOUS
<1> USE DEF ValidationIInv, StatusInv, TypeOK, RequestTargets, Targets, fixed, caches
<1>1. CASE Begin
  BY <1>1 DEF Begin, Inspect
<1>2. CASE Validate
  BY <1>2 DEF Validate
<1>3. CASE Accepted
  BY <1>3, PayloadAssumption DEF Accepted, Inspect
<1>4. CASE Render
  BY <1>4 DEF Render, Inspect
<1>5. CASE RenderError
  BY <1>5, PayloadAssumption DEF RenderError
<1>6. CASE Stringify
  <2>1. CASE pc' = "sent"
    BY <1>6, <2>1 DEF Stringify
  <2>2. CASE at <= Len(DocNames) /\ ~HasSchema(Doc) /\ at' = at + 1 /\ pc' = pc
    <3>1. status \notin documented[action][DocNames[at]]
      BY <1>6, <2>2 DEF HasSchema, Doc, Stringify
    <3> QED
      BY <1>6, <2>2, <3>1, PayloadAssumption DEF Stringify
  <2> QED
    BY <1>6, <2>1, <2>2, PayloadAssumption DEF Stringify
<1>7. CASE Finish
  BY <1>7 DEF Finish
<1>8. CASE UNCHANGED vars
  BY <1>8 DEF vars
<1> QED
  BY <1>1, <1>2, <1>3, <1>4, <1>5, <1>6, <1>7, <1>8 DEF Next

\* Only the choice of a stringifier sends an answer, and it chooses as the
\* property says.
LEMMA StepSerialized == ValidationIInv /\ [Next]_vars => SerializedByOwnSchema'
<1> SUFFICES ASSUME ValidationIInv, [Next]_vars PROVE SerializedByOwnSchema'
  OBVIOUS
<1>1. CASE Stringify /\ pc' = "sent" /\ fast[action]
  <2> DEFINE having == {i \in DOMAIN DocNames : status \in documented[action][DocNames[i]]}
  <2>1. pc = "stringify" /\ \A i \in having : at <= i
    BY <1>1, PayloadAssumption DEF Stringify, ValidationIInv, TypeOK, StatusInv
  <2>2. UNCHANGED <<documented, fast, action, status>>
    BY <1>1 DEF Stringify, fixed
  <2>3. CASE at > Len(DocNames)
    <3>1. having = {}
      BY <2>1, <2>3, PayloadAssumption DEF ValidationIInv, TypeOK
    <3>2. sentBy' = {}
      BY <1>1, <2>3 DEF Stringify
    <3> QED
      BY <2>2, <3>1, <3>2 DEF SerializedByOwnSchema
  <2>4. CASE at <= Len(DocNames)
    <3>1. sentBy' = {Schema(action, DocNames[at], "responseBody", status)}
      BY <1>1, <2>4, StringifyCache DEF Doc
    <3>2. HasSchema(Doc)
      BY <1>1, <2>1, <2>4, PayloadAssumption DEF Stringify, ValidationIInv, TypeOK
    <3>3. at \in having
      BY <2>1, <2>4, <3>2, DocInDocs DEF HasSchema, Doc, RequestTargets, ValidationIInv
    <3> QED
      BY <2>1, <2>2, <3>1, <3>3 DEF SerializedByOwnSchema
  <2> QED
    BY <2>3, <2>4, PayloadAssumption DEF ValidationIInv, TypeOK
<1>2. CASE pc' # "sent" \/ ~fast'[action']
  BY <1>2 DEF SerializedByOwnSchema
<1>3. CASE UNCHANGED vars
  BY <1>3 DEF vars, fixed, caches, ValidationIInv, SerializedByOwnSchema
<1>4. \/ Stringify /\ pc' = "sent" /\ fast[action]
      \/ pc' # "sent" \/ ~fast'[action']
      \/ UNCHANGED vars
  BY DEF Next, Begin, Validate, Accepted, Render, RenderError, Stringify, Finish, Inspect,
         fixed, Targets, RequestTargets
<1> QED
  BY <1>1, <1>2, <1>3, <1>4

\* The invariant holds in every reachable state.
THEOREM ValidationInvariant == Spec => []ValidationIInv
<1>1. ASSUME ValidationIInv, [Next]_vars PROVE ValidationIInv'
  <2>1. ValidatorsInv'
    <3>1. CASE Validate
      BY <1>1, <3>1, ValidateCache
    <3>2. CASE validators' = validators
      BY <1>1, <3>2 DEF ValidationIInv, ValidatorsInv
    <3> QED
      BY <1>1, <3>1, <3>2
      DEF Next, vars, caches, Begin, Accepted, Render, RenderError, Stringify, Finish
  <2>2. StringifiersInv'
    <3>1. CASE Stringify
      BY <1>1, <3>1, StringifyCache
    <3>2. CASE stringifiers' = stringifiers
      BY <1>1, <3>2 DEF ValidationIInv, StringifiersInv
    <3> QED
      BY <1>1, <3>1, <3>2
      DEF Next, vars, caches, Begin, Validate, Accepted, Render, RenderError, Finish
  <2> QED
    BY <1>1, <2>1, <2>2, StepTypeOK, StepStatus, StepSerialized DEF ValidationIInv
<1> QED
  BY <1>1, ValidationInitially, PTL DEF Spec

\* Every variable of the validation stays in its type.
THEOREM ValidationTypeCorrect == Spec => []TypeOK
<1>1. ValidationIInv => TypeOK
  BY DEF ValidationIInv
<1> QED
  BY <1>1, ValidationInvariant, PTL

\* However many documents, statuses and earlier requests: an answer is
\* serialized by the schema of its own status in the first document that has one.
THEOREM AlwaysSerializedByOwnSchema == Spec => []SerializedByOwnSchema
<1>1. ValidationIInv => SerializedByOwnSchema
  BY DEF ValidationIInv
<1> QED
  BY <1>1, ValidationInvariant, PTL

\* Whatever the process has cached, each part of a request is judged by its own
\* schema in every document that validates it.
THEOREM RequestVerdictsAlwaysExact == Spec => RequestVerdictsExact
<1> DEFINE Verdicts == \A d \in Docs : pc \in RequestTargets /\ Judging(d) => Exact(d)
<1>1. ASSUME ValidationIInv, [Next]_vars PROVE [Verdicts]_vars
  <2>1. SUFFICES ASSUME Next, NEW d \in Docs, pc \in RequestTargets, Judging(d)
                 PROVE  Exact(d)
    BY <1>1
  <2> DEFINE own == Schema(action, Doc, pc, status)
             key == CacheKey(pc)
  <2>2. Validate
    BY <2>1, <1>1, PayloadAssumption
    DEF Next, Begin, Accepted, Render, RenderError, Stringify, Finish, Judging,
        RequestTargets, ValidationIInv, TypeOK
  <2>3. pc' = "rejected" <=> Cached(validators, key, own) \in bad
    BY <2>1, <2>2 DEF Validate, Judging, RequestTargets
  <2>4. key \in DOMAIN validators => validators[key] = own
    <3> SUFFICES ASSUME key \in DOMAIN validators PROVE validators[key] = own
      OBVIOUS
    <3>1. PICK a \in Actions, e \in Docs, t \in Targets :
             /\ key = [action |-> a, doc |-> e, target |-> t]
             /\ t \in RequestTargets => validators[key] = Schema(a, e, t, NoStatus)
      BY <1>1 DEF ValidationIInv, ValidatorsInv
    <3>2. a = action /\ e = Doc /\ t = pc
      BY <3>1 DEF CacheKey
    <3> QED
      BY <1>1, <2>1, <3>1, <3>2 DEF ValidationIInv, StatusInv
  <2>5. Cached(validators, key, own) = own
    BY <2>4 DEF Cached
  <2> QED
    BY <2>1, <2>3, <2>5 DEF Exact, OwnSchema, Judging
<1> QED
  BY <1>1, ValidationInvariant, PTL DEF Spec, RequestVerdictsExact
===============================================================================
