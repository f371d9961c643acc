----------------------------- MODULE ParamsCast -----------------------------
(***************************************************************************)
(* castParam: a request parameter, possibly nested, cast to a declared     *)
(* type (src/src/server/params.ts, src/src/controller/index.ts).           *)
(*                                                                         *)
(* Numbers are counted in halves: 2 * k is the integer k, odd ones are     *)
(* fractions.  Floats are scaled down: integers are exact up to 8, as      *)
(* JavaScript's are up to 2^53, and 7 stands for MAX_SAFE_INTEGER.         *)
(***************************************************************************)
EXTENDS Integers, Sequences, SequencesExt

CONSTANTS
    Sent,      \* values a request may hold
    Paths,     \* what the objects named by a dotted key hold on the way
    OptSets,   \* options of a cast
    Regexes    \* is a RegExp among the types declared?

(***************************************************************************)
(* Values                                                                  *)
(***************************************************************************)

ValueKinds == {"undefined", "null", "inf", "object", "num", "bool", "array", "text",
               "date", "datetime", "time", "timetz"}
Val(kind, n, len, forms, items) ==
    [kind |-> kind, n |-> n, len |-> len, pad |-> 0, forms |-> forms, items |-> items]

\* What a text may read as; "member" and "match": as a value of the enum, or of
\* the pattern, that the cast is given.
Forms == {"digits", "decimal", "true", "false", "member", "match", "date", "datetime",
          "time", "timetz", "uuid"}

NoItems == <<>>
Undefined == Val("undefined", 0, 0, {}, NoItems)
Null == Val("null", 0, 0, {}, NoItems)
Infinite == Val("inf", 0, 0, {}, NoItems)
Object == Val("object", 0, 0, {}, NoItems)
Num(n) == Val("num", n, 0, {}, NoItems)
Bool(b) == Val("bool", IF b THEN 1 ELSE 0, 0, {}, NoItems)
Arr(s) == Val("array", 0, 0, {}, s)
\* A text of len characters, without the white space around it, that reads as
\* each of the forms, and as the number n if one of them is a number.
Text(len, forms, n) == Val("text", n, len, forms, NoItems)
Padded(v) == [v EXCEPT !.pad = 2]
Moment(form) == Val(form, 0, 0, {}, NoItems)

Absent(v) == v.kind \in {"null", "undefined"}

\* How far apart floats are: halves, then integers, then even integers.
Spacing(n) == IF n \in -8..8 THEN 1 ELSE IF n \in -16..16 THEN 2 ELSE 4
\* The nearest float, the even one of two.
Rounded(n) ==
    LET s == Spacing(n)
        below == (n \div s) * s
        over == n - below
    IN IF 2 * over < s \/ (2 * over = s /\ below % (2 * s) = 0) THEN below ELSE below + s
Finite(n) == n \in -32..32
IsSafeInteger(n) == n \in -14..14

(***************************************************************************)
(* Casts                                                                   *)
(***************************************************************************)

NonArrayTypes == {"string", "bigint", "boolean", "integer", "number", "date",
                  "datetime", "time", "timetz", "json", "null", "uuid"}
Types == [base : NonArrayTypes \cup Regexes, array : {FALSE}]
         \cup [base : NonArrayTypes, array : {TRUE}]

\* No options given; 999 is no bound.
NoOpts == [allowNull |-> FALSE, minimum |-> -999, maximum |-> 999, minLength |-> 0,
           maxLength |-> 999, enum |-> FALSE, match |-> FALSE]

Accept(v) == [is |-> "accepted", value |-> v]
Refuse == [is |-> "refused", value |-> Undefined]
Throw == [is |-> "threw", value |-> Undefined]
AcceptIf(condition, v) == IF condition THEN Accept(v) ELSE Refuse

Trim(v) == [v EXCEPT !.pad = 0]

\* A text of digits, or a number that JavaScript prints as one.
IsDigits(v) == \/ v.kind = "text" /\ "digits" \in v.forms
               \/ v.kind = "num" /\ v.n % 2 = 0
WithinRange(n, o) == o.minimum <= n /\ n <= o.maximum
WithinLength(v, o) == o.minLength <= v.len + v.pad /\ v.len + v.pad <= o.maxLength

\* Longer texts are not matched against a pattern: a plain Error.
MatchRegexOrThrow(v) ==
    IF v.kind # "text" THEN Refuse
    ELSE IF v.len > 4 THEN Throw
    ELSE AcceptIf("match" \in v.forms, v)

CastString(v, o) ==
    IF \/ v.kind # "text" \/ ~WithinLength(v, o)
       \/ o.enum /\ "member" \notin v.forms THEN Refuse
    ELSE IF o.match THEN MatchRegexOrThrow(v) ELSE Accept(v)

\* Compared as BigInts, exactly, and returned as text.
CastBigint(v, o) ==
    AcceptIf(IsDigits(v) /\ WithinRange(v.n, o),
             IF v.kind = "text" THEN v ELSE Text(0, {"digits"}, v.n))

CastBoolean(v) ==
    LET Means(b, form) == \/ v = Bool(b)
                          \/ v.kind = "num" /\ v.n = (IF b THEN 2 ELSE 0)
                          \/ v.kind = "text" /\ form \in v.forms
    IN IF Means(TRUE, "true") THEN Accept(Bool(TRUE))
       ELSE AcceptIf(Means(FALSE, "false"), Bool(FALSE))

\* Mutant: digits too long to be exact are rounded.
CastIntegerUnsafe(v, o) ==
    LET parsed == Rounded(v.n)
    IN AcceptIf(IsDigits(v) /\ WithinRange(parsed, o), Num(parsed))

CastInteger(v, o) ==
    LET parsed == Rounded(v.n)
    IN AcceptIf(IsDigits(v) /\ IsSafeInteger(parsed) /\ WithinRange(parsed, o), Num(parsed))

CastNumber(v, o) ==
    LET number == Rounded(v.n)
    IN AcceptIf(/\ \/ v.kind = "num"
                   \/ v.kind = "text" /\ "decimal" \in v.forms
                /\ Finite(number) /\ WithinRange(number, o), Num(number))

\* A value that is neither null nor undefined, cast to a type that is no array.
CastPresent(v, base, o) ==
    CASE base = "string" -> CastString(v, o)
      [] base = "bigint" -> CastBigint(v, o)
      [] base = "boolean" -> CastBoolean(v)
      [] base = "integer" -> CastInteger(v, o)
      [] base = "number" -> CastNumber(v, o)
      [] base \in {"date", "datetime", "time", "timetz"} ->
            AcceptIf(v.kind = "text" /\ base \in v.forms, Moment(base))
      [] base = "json" -> AcceptIf(v.kind \in {"object", "array"}, v)
      [] base = "uuid" -> AcceptIf(v.kind = "text" /\ "uuid" \in v.forms, v)
      [] base = "null" -> Refuse
      [] base = "regex" -> MatchRegexOrThrow(v)

CastScalar(v, base, o) ==
    IF ~Absent(v) THEN CastPresent(Trim(v), base, o)
    ELSE IF base = "null" THEN Accept(Null) ELSE AcceptIf(o.allowNull, v)

\* A failure refuses the whole array; an Error passes the refusals by, unless
\* one came before.
FirstFailure(outcomes) ==
    outcomes[CHOOSE i \in DOMAIN outcomes :
                /\ outcomes[i].is # "accepted"
                /\ \A j \in 1..(i - 1) : outcomes[j].is = "accepted"]

\* compact: without the items that are null or undefined.
Present(items) ==
    LET kept[i \in 0..Len(items)] ==
            IF i = 0 THEN <<>>
            ELSE IF Absent(items[i]) THEN kept[i - 1] ELSE Append(kept[i - 1], items[i])
    IN kept[Len(items)]

CastItems(items, base, o) ==
    LET outcomes == [i \in DOMAIN items |-> CastScalar(items[i], base, [o EXCEPT !.allowNull = TRUE])]
        values == [i \in DOMAIN items |-> outcomes[i].value]
    IN IF \E i \in DOMAIN items : outcomes[i].is # "accepted" THEN FirstFailure(outcomes)
       ELSE Accept(Arr(IF base = "null" THEN values ELSE Present(values)))

\* One value is taken for an array of one, but for null[].
CastArray(v, base, o) ==
    IF v.kind = "array" THEN CastItems(v.items, base, o)
    ELSE IF base = "null" THEN Refuse ELSE CastItems(<<v>>, base, o)

Cast(v, type, o) ==
    IF type.array /\ ~Absent(v) THEN CastArray(v, type.base, o)
    ELSE IF type.array THEN AcceptIf(o.allowNull, v)
    ELSE CastScalar(v, type.base, o)

\* An array may be sent as name[]: only looked at if name is not there.
Lookup(named, bracketed, type) ==
    IF named = Undefined /\ type.array THEN bracketed ELSE named

(***************************************************************************)
(* castParam('a.b.c', type, options)                                       *)
(***************************************************************************)

VARIABLES
    keys,      \* what is found under each key before the last
    named,     \* the value under the last key
    bracketed, \* and the one under the same key with []
    type,
    opts,
    outcome

castVars == <<keys, named, bracketed, type, opts, outcome>>

Waiting == [is |-> "waiting", value |-> Undefined]
Idle == [is |-> "idle", value |-> Undefined]
AnyType == [base |-> "json", array |-> FALSE]
AnyOpts == CHOOSE o \in OptSets : TRUE

CastInit == /\ keys = <<>> /\ named = Undefined /\ bracketed = Undefined
            /\ type = AnyType /\ opts = AnyOpts /\ outcome = Idle

\* An array holds no arrays but empty ones.
ItemValues == [kind : ValueKinds, n : Int, len : Nat, pad : {0, 2}, forms : SUBSET Forms,
               items : {NoItems}]
Values == [kind : ValueKinds, n : Int, len : Nat, pad : {0, 2}, forms : SUBSET Forms,
           items : Seq(ItemValues)]

\* Digits read as an integer, and only an array has items.  The bounds of an
\* option are numbers, and what is found on the way may be anything.
Readable(v) == v.kind = "text" /\ "digits" \in v.forms => v.n % 2 = 0
ASSUME SentAssumption ==
    /\ Sent \subseteq Values
    /\ \A v \in Sent : /\ Readable(v) /\ \A i \in DOMAIN v.items : Readable(v.items[i])
                       /\ v.kind # "array" => v.items = NoItems
CastOptions == [allowNull : BOOLEAN, minimum : Int, maximum : Int, minLength : Nat,
                maxLength : Nat, enum : BOOLEAN, match : BOOLEAN]
ASSUME OptionsGiven == OptSets # {} /\ OptSets \subseteq CastOptions
ASSUME PathsAssumption == Paths \subseteq Seq({"object", "undefined", "null", "array", "scalar"})
ASSUME RegexesAssumption == Regexes \subseteq {"regex"}

CastTypeOK ==
    /\ keys \in Seq({"object", "undefined", "null", "array", "scalar"})
    /\ named \in Values /\ bracketed \in Values
    /\ type \in Types /\ opts \in OptSets
    /\ outcome.is \in {"idle", "waiting", "accepted", "refused", "threw"}
    /\ outcome.value \in Values

CastParam ==
    /\ outcome = Idle
    /\ keys' \in Paths /\ named' \in Sent /\ type' \in Types /\ opts' \in OptSets
    /\ \/ bracketed' = Undefined
       \/ bracketed' \in Sent /\ named' = Undefined /\ type'.array
    /\ outcome' = Waiting

\* An absent object on the way counts as an absent value; anything else that
\* is no object is an invalid path, a refusal.
Descend ==
    /\ outcome = Waiting /\ keys # <<>>
    /\ outcome' = CASE Head(keys) = "object" -> Waiting
                    [] Head(keys) = "undefined" -> AcceptIf(opts.allowNull, Undefined)
                    [] OTHER -> Refuse
    /\ keys' = IF Head(keys) = "object" THEN Tail(keys) ELSE keys
    /\ UNCHANGED <<named, bracketed, type, opts>>

CastLast ==
    /\ outcome = Waiting /\ keys = <<>>
    /\ outcome' = Cast(Lookup(named, bracketed, type), type, opts)
    /\ UNCHANGED <<keys, named, bracketed, type, opts>>

CastNext == CastParam \/ Descend \/ CastLast
CastSpec == CastInit /\ [][CastNext]_castVars

(***************************************************************************)
(* Properties                                                              *)
(***************************************************************************)

\* What a present value means as a type: a number exactly, without a float in
\* between, and as any other type what a cast makes of the value on its own;
\* nothing if it has no such meaning or the options do not allow it.
Meaning(v, base, o) ==
    CASE base = "integer" ->
            {Num(n) : n \in {k \in -14..14 : IsDigits(v) /\ k = v.n /\ WithinRange(k, o)}}
      [] base = "bigint" ->
            {w \in {v, Text(0, {"digits"}, v.n)} :
                w.kind = "text" /\ IsDigits(v) /\ WithinRange(v.n, o)}
      [] base = "number" ->
            {Num(n) : n \in {k \in {Rounded(v.n)} :
                                /\ v.kind = "num" \/ (v.kind = "text" /\ "decimal" \in v.forms)
                                /\ Finite(k) /\ WithinRange(k, o)}}
      [] OTHER -> LET alone == CastPresent(v, base, o)
                  IN {w \in {alone.value} : alone.is = "accepted"}

\* Is y, of a cast to base with the options o, what a present x stands for?
Stands(x, y, base, o) == y \in Meaning(Trim(x), base, o)

NullType(t) == t.base = "null" /\ ~t.array

\* Is the result of a cast the one that value stands for?
Sound(result, value, t, o) ==
    LET v == Trim(value)
        got == result.value
        sent == IF t.array /\ v.kind = "array" THEN v.items ELSE <<v>>
        present == Present(sent)
    IN /\ result.is = "accepted" => (Absent(got) <=> Absent(v))
       /\ result.is = "accepted" /\ Absent(v) => o.allowNull \/ NullType(t)
       /\ result.is = "accepted" /\ ~Absent(v) /\ ~t.array => Stands(v, got, t.base, o)
       /\ result.is = "accepted" /\ ~Absent(v) /\ t.array =>
             IF t.base = "null" THEN \A i \in DOMAIN sent : Absent(sent[i])
             ELSE /\ Len(got.items) = Len(present)
                  /\ \A i \in DOMAIN present : Stands(present[i], got.items[i], t.base, o)
       /\ result.is \in {"refused", "threw"} =>
             \/ Absent(v) /\ ~o.allowNull /\ ~NullType(t)
             \/ \E i \in DOMAIN present : Meaning(Trim(present[i]), t.base, o) = {}

\* "a long digit string (e.g. a 40-digit number) would otherwise be silently
\* rounded", "bigint casts are checked without precision loss": as integer or
\* bigint a value is accepted exactly when it stands for a number of the type
\* within the bounds, and then as that very number.  An absent value is accepted
\* exactly when the type or the options allow null, and as nothing but an absent
\* one.  An array is accepted exactly when each of its items that is not null
\* would be on its own, and as those items in their order; null[] takes nothing
\* but nulls.  A path that ends before its last key, at a null, an array or a
\* value without keys, lets nothing through; at an undefined it takes that for the
\* absent value, but that the type null, which allows null by itself, is refused
\* there unless the options allow it too.
CastSound ==
    /\ keys = <<>> => Sound(outcome, Lookup(named, bracketed, type), type, opts)
    /\ keys # <<>> =>
         /\ outcome.is = "accepted" => Head(keys) = "undefined" /\ opts.allowNull
         /\ Head(keys) = "undefined" =>
              IF NullType(type) THEN outcome.is \in {"refused", "threw"} => ~opts.allowNull
              ELSE Sound(outcome, Undefined, type, opts)
=============================================================================
