--------------------------- MODULE Startup_proofs ---------------------------
(***************************************************************************)
(* How an application starts: the init() calls over the process-wide       *)
(* caches (AppInit), the OpenAPI document whose components an init() caches *)
(* (OpenapiDocument), and the boot() calls that mount the middleware stack *)
(* (ServerBoot).  They share no state; each has an inductive invariant and *)
(* theorems of its own.                                                    *)
(***************************************************************************)
EXTENDS AppInit, ServerBoot, OpenapiDocument, Walks, SequenceTheorems, TLAPS

(***************************************************************************)
(* init(): for any number of calls, controllers and openapiNames           *)
(***************************************************************************)

Past == {"loaded", "routing", "documenting", "resolved"}

\* Once a load has started, either the flag is still up or every controller is
\* decorated; only a load that is under way can lower it.
GuardInv ==
    /\ loaded => decorating \/ decorated = Controllers
    /\ cached # NoInit => loaded
    /\ \A i \in Inits : progress[i] \in Past \cup {"importing"} => loaded
    /\ unguarded = {}

CompleteInv ==
    /\ \A i \in Inits : progress[i] \in {"routing", "documenting", "resolved"} => cached # NoInit
    /\ \A i \in Inits : progress[i] = "documenting" => routes[i]
    /\ \A i \in Inits : progress[i] = "resolved" /\ ~bypass[i] => routes[i] /\ docs = Names

CachesIInv == CachesTypeOK /\ GuardInv /\ CompleteInv

\* The initial state of the process satisfies the invariant.
LEMMA InitCaches == CachesInit => CachesIInv
  BY InitsAssumption DEF CachesInit, CachesIInv, CachesTypeOK, GuardInv, CompleteInv, Progress, Past

\* Each step of an init(), and each request, has the types it should.
LEMMA StepTypeOK == CachesTypeOK /\ [CachesNext]_cacheVars => CachesTypeOK'
<1> SUFFICES ASSUME CachesTypeOK, [CachesNext]_cacheVars PROVE CachesTypeOK'
  OBVIOUS
<1> USE DEF CachesTypeOK, Progress, Goto, globals, cachedDocs, history
<1>1. ASSUME NEW i \in Inits, BeginInit(i) PROVE CachesTypeOK'
  BY <1>1 DEF BeginInit
<1>2. ASSUME NEW i \in Inits, LoadControllers(i) PROVE CachesTypeOK'
  BY <1>2 DEF LoadControllers
<1>3. ASSUME NEW i \in Inits, ImportsResolve(i) PROVE CachesTypeOK'
  BY <1>3 DEF ImportsResolve
<1>4. ASSUME NEW i \in Inits, ImportsReject(i) PROVE CachesTypeOK'
  BY <1>4 DEF ImportsReject
<1>5. ASSUME NEW i \in Inits, Reject(i) PROVE CachesTypeOK'
  BY <1>5 DEF Reject
<1>6. ASSUME NEW i \in Inits, CacheApp(i) PROVE CachesTypeOK'
  BY <1>6 DEF CacheApp
<1>7. ASSUME NEW i \in Inits, BuildRoutesCache(i) PROVE CachesTypeOK'
  BY <1>7 DEF BuildRoutesCache
<1>8. ASSUME NEW i \in Inits, BuildOpenapiCache(i) PROVE CachesTypeOK'
  BY <1>8 DEF BuildOpenapiCache
<1>9. ASSUME NEW c \in Controllers, Serve(c) PROVE CachesTypeOK'
  BY <1>9 DEF Serve
<1>10. CASE UNCHANGED cacheVars
  BY <1>10 DEF cacheVars
<1> QED
  BY <1>1, <1>2, <1>3, <1>4, <1>5, <1>6, <1>7, <1>8, <1>9, <1>10 DEF CachesNext, InitStep

\* The guard part is kept by every step: lowering the flag and completing the
\* decoration are one step, and a request that is served meets one or the other.
LEMMA StepGuard == CachesIInv /\ [CachesNext]_cacheVars => GuardInv'
<1> SUFFICES ASSUME CachesIInv, [CachesNext]_cacheVars PROVE GuardInv'
  OBVIOUS
<1> USE InitsAssumption DEF CachesIInv, CachesTypeOK, GuardInv, Past, Goto, globals, cachedDocs, history
<1>1. ASSUME NEW i \in Inits, BeginInit(i) PROVE GuardInv'
  BY <1>1 DEF BeginInit
<1>2. ASSUME NEW i \in Inits, LoadControllers(i) PROVE GuardInv'
  BY <1>2 DEF LoadControllers
<1>3. ASSUME NEW i \in Inits, ImportsResolve(i) PROVE GuardInv'
  BY <1>3 DEF ImportsResolve
<1>4. ASSUME NEW i \in Inits, ImportsReject(i) PROVE GuardInv'
  BY <1>4 DEF ImportsReject
<1>5. ASSUME NEW i \in Inits, Reject(i) PROVE GuardInv'
  BY <1>5 DEF Reject
<1>6. ASSUME NEW i \in Inits, CacheApp(i) PROVE GuardInv'
  BY <1>6 DEF CacheApp
<1>7. ASSUME NEW i \in Inits, BuildRoutesCache(i) PROVE GuardInv'
  BY <1>7 DEF BuildRoutesCache
<1>8. ASSUME NEW i \in Inits, BuildOpenapiCache(i) PROVE GuardInv'
  BY <1>8 DEF BuildOpenapiCache
<1>9. ASSUME NEW c \in Controllers, Serve(c) PROVE GuardInv'
  <2>1. decorating \/ decorated = Controllers
    BY <1>9 DEF Serve
  <2>2. c \in decorated'
    BY <1>9, <2>1 DEF Serve
  <2> QED
    BY <1>9, <2>1, <2>2 DEF Serve
<1>10. CASE UNCHANGED cacheVars
  BY <1>10 DEF cacheVars
<1> QED
  BY <1>1, <1>2, <1>3, <1>4, <1>5, <1>6, <1>7, <1>8, <1>9, <1>10 DEF CachesNext, InitStep

\* The completeness part is kept by every step: documents are only added, and
\* a call resolves only when none is missing.
LEMMA StepComplete == CachesIInv /\ [CachesNext]_cacheVars => CompleteInv'
<1> SUFFICES ASSUME CachesIInv, [CachesNext]_cacheVars PROVE CompleteInv'
  OBVIOUS
<1> USE InitsAssumption DEF CachesIInv, CachesTypeOK, CompleteInv, Goto, globals, cachedDocs, history
<1>1. ASSUME NEW i \in Inits, BeginInit(i) PROVE CompleteInv'
  BY <1>1 DEF BeginInit
<1>2. ASSUME NEW i \in Inits, LoadControllers(i) PROVE CompleteInv'
  BY <1>2 DEF LoadControllers
<1>3. ASSUME NEW i \in Inits, ImportsResolve(i) PROVE CompleteInv'
  BY <1>3 DEF ImportsResolve
<1>4. ASSUME NEW i \in Inits, ImportsReject(i) PROVE CompleteInv'
  BY <1>4 DEF ImportsReject
<1>5. ASSUME NEW i \in Inits, Reject(i) PROVE CompleteInv'
  BY <1>5 DEF Reject
<1>6. ASSUME NEW i \in Inits, CacheApp(i) PROVE CompleteInv'
  BY <1>6 DEF CacheApp
<1>7. ASSUME NEW i \in Inits, BuildRoutesCache(i) PROVE CompleteInv'
  BY <1>7 DEF BuildRoutesCache
<1>8. ASSUME NEW i \in Inits, BuildOpenapiCache(i) PROVE CompleteInv'
  BY <1>8 DEF BuildOpenapiCache
<1>9. ASSUME NEW c \in Controllers, Serve(c) PROVE CompleteInv'
  BY <1>9 DEF Serve
<1>10. CASE UNCHANGED cacheVars
  BY <1>10 DEF cacheVars
<1> QED
  BY <1>1, <1>2, <1>3, <1>4, <1>5, <1>6, <1>7, <1>8, <1>9, <1>10 DEF CachesNext, InitStep

\* The invariant holds in every reachable state.
THEOREM CachesInvariant == CachesSpec => []CachesIInv
<1>1. CachesIInv /\ [CachesNext]_cacheVars => CachesIInv'
  BY StepTypeOK, StepGuard, StepComplete DEF CachesIInv
<1> QED
  BY InitCaches, <1>1, PTL DEF CachesSpec

\* Before actions -- authentication among them -- are in place for every
\* request the process serves, however its init() calls failed or overlapped.
THEOREM RequestsAlwaysGuarded == CachesSpec => []NoUnguardedRequest
<1>1. CachesIInv => NoUnguardedRequest
  BY DEF CachesIInv, GuardInv, NoUnguardedRequest
<1> QED
  BY CachesInvariant, <1>1, PTL

\* An init() that resolves leaves a cached app, its routes and its documents.
THEOREM ResolvedInitAlwaysComplete == CachesSpec => []ResolvedInitIsComplete
<1>1. CachesIInv => ResolvedInitIsComplete
  BY DEF CachesIInv, CompleteInv, ResolvedInitIsComplete
<1> QED
  BY CachesInvariant, <1>1, PTL

(***************************************************************************)
(* boot(): for any number of calls, hooks and layers                       *)
(***************************************************************************)

(***************************************************************************)
(* The inductive invariant                                                 *)
(***************************************************************************)

\* Is the layer somewhere in the stack?
Has(layer) == \E j \in DOMAIN stack : stack[j].layer = layer

Entries == [layer : Layers, by : Boots]

\* A plugin is one of the calls.
Typed == BootTypeOK /\ plugins <= calls /\ bootAt \in [Boots -> [stage : Stages, i : Nat]]

\* Every hook is a call of its own, made already.
Registered ==
    /\ \A e \in Events : /\ Len(hooks[e]) <= calls
                         /\ \A k \in DOMAIN hooks[e] : hooks[e][k] \in 1..calls
    /\ \A e, f \in Events : \A k \in DOMAIN hooks[e], l \in DOMAIN hooks[f] :
          hooks[e][k] = hooks[f][l] => e = f /\ k = l

\* Nothing boots before the app is cached, and from then on the hooks stay.
Frozen ==
    phase # "cached" => stack = <<>> /\ \A b \in Boots : bootAt[b].stage = "idle"

\* What a boot() has mounted, by the stage it has come to; what others have
\* mounted since does not remove it.
PastBefore == {"app", "after-middleware", "routes", "after-routes"}
PastAfter == {"routes", "after-routes"}
AllMounted(e) == \A k \in DOMAIN hooks[e] : Has(App(hooks[e][k]))
HasMounted(b) ==
    /\ Underway(b) => stack # <<>>
    /\ bootAt[b].stage \in Events => /\ bootAt[b].i \in 1..(Len(hooks[bootAt[b].stage]) + 1)
                                     /\ \A k \in 1..(bootAt[b].i - 1) :
                                           Has(App(hooks[bootAt[b].stage][k]))
    /\ bootAt[b].stage \in PastBefore => Has(Own("json")) /\ AllMounted("before-middleware")
    /\ bootAt[b].stage \in PastAfter => AllMounted("after-middleware")
AllHaveMounted == \A b \in Boots : HasMounted(b)

BoundaryFirst == stack # <<>> => stack[1].layer = Own("boundary")

\* The layers that the app's routes are to run behind.
Guards == {Own("json")} \cup {App(c) : c \in ToSet(hooks["before-middleware"])}
                        \cup {App(c) : c \in ToSet(hooks["after-middleware"])}
RoutersGuarded ==
    \A i \in DOMAIN stack : stack[i].layer = Own("router") =>
        \A l \in Guards : \E j \in 1..(i - 1) : stack[j].layer = l

\* Is the layer one that a boot() at this stage has still to mount?
Coming(stage, e) ==
    \/ stage \in {"before-middleware", "app"} /\ e # "before-middleware"
    \/ stage \in {"after-middleware", "routes"} /\ e = "after-routes"
Ahead(b, layer) ==
    LET s == bootAt[b].stage IN
    \/ layer \in {Own("etag"), Own("cors"), Own("json")} /\ s = "before-middleware"
    \/ layer = Own("router") /\ s # "after-routes"
    \/ layer = Own("notFound")
    \/ \E e \in Events : \E k \in DOMAIN hooks[e] :
          layer = App(hooks[e][k]) /\ (Coming(s, e) \/ (s = e /\ k >= bootAt[b].i))

NoDuplicates == \A i, j \in DOMAIN stack : stack[i].layer = stack[j].layer => i = j

\* As long as no boot() failed or overlapped another, at most one is underway,
\* and what it has still to mount is not there; before it nothing is.
Alone ==
    /\ \A b, o \in Boots : Underway(b) /\ Underway(o) => b = o
    /\ booted => \A b \in Boots : ~Underway(b)
    /\ ~booted /\ (\A b \in Boots : ~Underway(b)) => stack = <<>>
    /\ \A b \in Boots : Underway(b) => \A j \in DOMAIN stack : ~Ahead(b, stack[j].layer)
    /\ NoDuplicates
Tidy == ~untidy => Alone

BootIInv == Typed /\ Registered /\ Frozen /\ AllHaveMounted /\ BoundaryFirst /\ RoutersGuarded /\ Tidy
(***************************************************************************)
(* What mounting adds to the stack                                         *)
(***************************************************************************)

\* The stack grows by these layers, in this order.
Grows(layers) ==
    /\ stack' \in Seq(Entries)
    /\ Len(stack') = Len(stack) + Len(layers)
    /\ \A j \in 1..Len(stack) : stack'[j] = stack[j]
    /\ \A k \in 1..Len(layers) : stack'[Len(stack) + k].layer = layers[k]

LEMMA Growth ==
  ASSUME stack \in Seq(Entries), NEW b \in Boots, NEW layers \in Seq(Layers), Mounting(b, layers)
  PROVE  Grows(layers)
<1> DEFINE added == [k \in DOMAIN layers |-> [layer |-> layers[k], by |-> b]]
<1>1. added \in Seq(Entries) /\ Len(added) = Len(layers)
      /\ \A k \in 1..Len(layers) : added[k].layer = layers[k]
  <2>1. \A k \in 1..Len(layers) : layers[k] \in Layers
    OBVIOUS
  <2>2. DOMAIN layers = 1..Len(layers) /\ Len(layers) \in Nat
    OBVIOUS
  <2>3. added \in [1..Len(layers) -> Entries]
    BY <2>1, <2>2 DEF Entries
  <2>4. \A k \in 1..Len(layers) : added[k].layer = layers[k]
    BY <2>2
  <2>5. added \in Seq(Entries) /\ Len(added) = Len(layers)
    <3>1. added \in Seq(Entries)
      BY <2>2, <2>3, SeqDef
    <3>2. DOMAIN added = 1..Len(layers)
      BY <2>2
    <3>3. DOMAIN added = 1..Len(added) /\ Len(added) \in Nat
      BY <3>1, LenProperties
    <3> QED
      BY <2>2, <3>1, <3>2, <3>3
  <2> QED
    BY <2>4, <2>5
<1>2. stack' = stack \o added
  BY DEF Mounting
<1> HIDE DEF added
<1>3. /\ stack \o added \in Seq(Entries)
      /\ Len(stack \o added) = Len(stack) + Len(added)
      /\ \A j \in 1..(Len(stack) + Len(added)) : (stack \o added)[j] =
            IF j <= Len(stack) THEN stack[j] ELSE added[j - Len(stack)]
  <2>1. added \in Seq(Entries)
    BY <1>1
  <2> QED
    BY <2>1, ConcatProperties
<1>4. Len(stack) \in Nat /\ Len(added) \in Nat
  BY <1>1
<1> QED
  BY <1>1, <1>2, <1>3, <1>4 DEF Grows

LEMMA NoGrowth ==
  ASSUME stack \in Seq(Entries), UNCHANGED stack
  PROVE  Grows(<<>>)
BY DEF Grows

\* What is in a stack that has grown.
LEMMA GrownPositions ==
  ASSUME stack \in Seq(Entries), NEW layers \in Seq(Layers), Grows(layers)
  PROVE  /\ \A j \in DOMAIN stack : j \in DOMAIN stack' /\ stack'[j] = stack[j]
         /\ \A k \in DOMAIN layers : /\ Len(stack) + k \in DOMAIN stack'
                                     /\ stack'[Len(stack) + k].layer = layers[k]
         /\ \A j \in DOMAIN stack' : j \in DOMAIN stack \/ \E k \in DOMAIN layers : j = Len(stack) + k
<1>1. DOMAIN stack = 1..Len(stack) /\ DOMAIN layers = 1..Len(layers)
      /\ Len(stack) \in Nat /\ Len(layers) \in Nat
  OBVIOUS
<1>2. DOMAIN stack' = 1..(Len(stack) + Len(layers))
  BY DEF Grows
<1>3. \A j \in DOMAIN stack' : j \in DOMAIN stack \/ \E k \in DOMAIN layers : j = Len(stack) + k
  <2> SUFFICES ASSUME NEW j \in DOMAIN stack', j \notin DOMAIN stack
               PROVE  \E k \in DOMAIN layers : j = Len(stack) + k
    OBVIOUS
  <2>1. j - Len(stack) \in DOMAIN layers /\ j = Len(stack) + (j - Len(stack))
    BY <1>1, <1>2
  <2> QED
    BY <2>1
<1> QED
  BY <1>1, <1>2, <1>3 DEF Grows

LEMMA HasMore ==
  ASSUME stack \in Seq(Entries), NEW layers \in Seq(Layers), Grows(layers)
  PROVE  /\ \A l : Has(l) => Has(l)'
         /\ \A k \in DOMAIN layers : Has(layers[k])'
         /\ stack # <<>> => stack' # <<>>
<1>1. \A l : Has(l) => Has(l)'
  BY GrownPositions DEF Has
<1>2. \A k \in DOMAIN layers : Has(layers[k])'
  BY GrownPositions DEF Has
<1>3. stack # <<>> => stack' # <<>>
  BY DEF Grows
<1> QED
  BY <1>1, <1>2, <1>3

\* An error boundary on top stays there.
LEMMA BoundaryStays ==
  ASSUME stack \in Seq(Entries), NEW layers \in Seq(Layers), Grows(layers), BoundaryFirst,
         stack = <<>> => layers = <<>> \/ layers[1] = Own("boundary")
  PROVE  BoundaryFirst'
<1> SUFFICES ASSUME stack' # <<>> PROVE stack'[1].layer = Own("boundary")
  BY DEF BoundaryFirst
<1>1. CASE stack # <<>>
  <2>1. 1 \in 1..Len(stack)
    BY <1>1
  <2> QED
    BY <2>1, <1>1 DEF Grows, BoundaryFirst
<1>2. CASE stack = <<>>
  <2>1. Len(stack) = 0 /\ Len(layers) # 0
    BY <1>2 DEF Grows
  <2>2. layers # <<>> /\ 1 \in 1..Len(layers)
    BY <2>1
  <2>3. stack'[Len(stack) + 1].layer = layers[1]
    BY <2>2 DEF Grows
  <2> QED
    BY <1>2, <2>1, <2>2, <2>3
<1> QED
  BY <1>1, <1>2

\* Layers that are not there yet, and differ, keep a stack without duplicates.
LEMMA StillDistinct ==
  ASSUME stack \in Seq(Entries), NEW layers \in Seq(Layers), Grows(layers), NoDuplicates,
         \A k \in DOMAIN layers : ~Has(layers[k]),
         \A k, l \in DOMAIN layers : layers[k] = layers[l] => k = l
  PROVE  NoDuplicates'
<1> SUFFICES ASSUME NEW i \in DOMAIN stack', NEW j \in DOMAIN stack', stack'[i].layer = stack'[j].layer
             PROVE  i = j
  BY DEF NoDuplicates
<1>1. CASE i \in DOMAIN stack /\ j \in DOMAIN stack
  BY <1>1, GrownPositions DEF NoDuplicates
<1>2. CASE i \in DOMAIN stack /\ j \notin DOMAIN stack
  BY <1>2, GrownPositions DEF Has
<1>3. CASE i \notin DOMAIN stack /\ j \in DOMAIN stack
  BY <1>3, GrownPositions DEF Has
<1>4. CASE i \notin DOMAIN stack /\ j \notin DOMAIN stack
  BY <1>4, GrownPositions
<1> QED
  BY <1>1, <1>2, <1>3, <1>4

\* A router is guarded still when others are mounted below it, and a new one is
\* when everything it is to run behind is there.
LEMMA StillGuarded ==
  ASSUME stack \in Seq(Entries), NEW layers \in Seq(Layers), Grows(layers), RoutersGuarded,
         UNCHANGED hooks,
         \/ \A k \in DOMAIN layers : layers[k] # Own("router")
         \/ \A l \in Guards : Has(l)
  PROVE  RoutersGuarded'
<1> SUFFICES ASSUME NEW i \in DOMAIN stack', stack'[i].layer = Own("router"), NEW l \in Guards
             PROVE  \E j \in 1..(i - 1) : stack'[j].layer = l
  <2>1. Guards' = Guards
    BY DEF Guards
  <2> QED
    BY <2>1 DEF RoutersGuarded
<1>1. DOMAIN stack = 1..Len(stack) /\ Len(stack) \in Nat
  OBVIOUS
<1>2. CASE i \in DOMAIN stack
  <2>1. stack[i].layer = Own("router")
    BY <1>2, GrownPositions
  <2>2. PICK j \in 1..(i - 1) : stack[j].layer = l
    BY <1>2, <2>1 DEF RoutersGuarded
  <2>3. j \in DOMAIN stack
    BY <1>1, <1>2
  <2> QED
    BY <2>2, <2>3, GrownPositions
<1>3. CASE i \notin DOMAIN stack
  <2>1. PICK k \in DOMAIN layers : i = Len(stack) + k
    BY <1>3, GrownPositions
  <2>2. layers[k] = Own("router")
    BY <2>1, GrownPositions
  <2>3. PICK j \in DOMAIN stack : stack[j].layer = l
    BY <2>2 DEF Has
  <2>4. j \in 1..(i - 1)
    BY <1>1, <2>1
  <2> QED
    BY <2>3, <2>4, GrownPositions
<1> QED
  BY <1>2, <1>3

\* A boot() that does not move keeps what it relies on.
LEMMA OthersProgress ==
  ASSUME stack \in Seq(Entries), NEW layers \in Seq(Layers), Grows(layers), UNCHANGED hooks,
         NEW b \in Boots, HasMounted(b), bootAt'[b] = bootAt[b]
  PROVE  HasMounted(b)'
BY HasMore DEF HasMounted, Underway, AllMounted
(***************************************************************************)
(* Configuration                                                           *)
(***************************************************************************)

LEMMA InitBoot == BootInit => BootIInv
<1> SUFFICES ASSUME BootInit PROVE BootIInv
  OBVIOUS
<1>1. bootAt \in [Boots -> [stage : Stages, i : Nat]]
      /\ \A b \in Boots : bootAt[b] = At("idle")
  BY DEF BootInit, At, Stages
<1>2. \A b \in Boots : bootAt[b].stage = "idle" /\ bootAt[b].i = 1
  BY <1>1 DEF At
<1>3. BootTypeOK
  <2>1. hooks \in [Events -> Seq(1..MaxCalls)]
    BY DEF BootInit
  <2>2. \A b \in Boots : bootAt[b].stage \in Stages /\ bootAt[b].i \in 1..(MaxCalls + 1)
    BY <1>2, CallsAssumption DEF Stages
  <2>3. stack \in Seq([layer : Layers, by : Boots])
    BY DEF BootInit
  <2>4. cors \in BOOLEAN /\ development \in BOOLEAN /\ booted \in BOOLEAN
        /\ inflected \in BOOLEAN /\ untidy \in BOOLEAN
    BY Zenon DEF BootInit
  <2>5. plugins \in 0..MaxCalls /\ calls \in 0..MaxCalls
    BY CallsAssumption DEF BootInit
  <2>6. /\ phase \in Configuring \cup {"cached", "rejected"}
        /\ declared \in SettingValues /\ dream \in SettingValues
        /\ before \in SettingValues \cup {NoValue}
    BY DEF BootInit, Configuring
  <2> QED
    BY <2>1, <2>2, <2>3, <2>4, <2>5, <2>6, Zenon DEF BootTypeOK
<1>4. Registered
  BY DEF BootInit, Registered
<1>5. stack = <<>> /\ DOMAIN stack = {}
  BY DEF BootInit
<1>6. \A b \in Boots : ~Underway(b)
  BY <1>2 DEF Underway
<1>7. AllHaveMounted
  BY <1>2, <1>6 DEF AllHaveMounted, HasMounted, Events, PastBefore, PastAfter
<1>8. Frozen /\ BoundaryFirst /\ RoutersGuarded
  BY <1>2, <1>5 DEF Frozen, BoundaryFirst, RoutersGuarded
<1>9. Tidy
  BY <1>5, <1>6 DEF Tidy, Alone, NoDuplicates
<1>10. plugins <= calls
  BY DEF BootInit
<1> QED
  BY <1>1, <1>3, <1>4, <1>7, <1>8, <1>9, <1>10 DEF BootIInv, Typed

\* While the app is being configured nothing is mounted and nothing boots.
LEMMA Unbooted ==
  ASSUME BootIInv, phase # "cached", UNCHANGED serverVars
  PROVE  AllHaveMounted' /\ Frozen' /\ BoundaryFirst' /\ RoutersGuarded' /\ Tidy'
<1>1. stack = <<>> /\ \A b \in Boots : bootAt[b].stage = "idle"
  BY DEF BootIInv, Frozen
<1>2. stack' = <<>> /\ DOMAIN stack' = {} /\ \A b \in Boots : bootAt'[b].stage = "idle"
  BY <1>1 DEF serverVars
<1>3. \A b \in Boots : ~Underway(b)'
  BY <1>2 DEF Underway
<1>4. AllHaveMounted'
  BY <1>2, <1>3 DEF AllHaveMounted, HasMounted, Events, PastBefore, PastAfter
<1>5. Frozen' /\ BoundaryFirst' /\ RoutersGuarded'
  BY <1>2 DEF Frozen, BoundaryFirst, RoutersGuarded
<1>6. Tidy'
  BY <1>2, <1>3 DEF Tidy, Alone, NoDuplicates
<1> QED
  BY <1>4, <1>5, <1>6

\* The state of the server is of its type as long as it does not change.
LEMMA ServerStays ==
  ASSUME Typed, UNCHANGED serverVars,
         /\ phase' \in Configuring \cup {"cached", "rejected"}
         /\ declared' \in SettingValues /\ dream' \in SettingValues
         /\ before' \in SettingValues \cup {NoValue}
         /\ hooks' \in [Events -> Seq(1..MaxCalls)]
         /\ plugins' \in 0..MaxCalls /\ calls' \in 0..MaxCalls /\ plugins' <= calls'
         /\ cors' \in BOOLEAN /\ development' \in BOOLEAN
  PROVE  Typed'
<1>1. /\ stack' \in Seq([layer : Layers, by : Boots])
      /\ booted' \in BOOLEAN /\ inflected' \in BOOLEAN /\ untidy' \in BOOLEAN
  BY DEF Typed, BootTypeOK, serverVars
<1>2. /\ \A b \in Boots : bootAt'[b].stage \in Stages /\ bootAt'[b].i \in 1..(MaxCalls + 1)
      /\ bootAt' \in [Boots -> [stage : Stages, i : Nat]]
  BY DEF Typed, BootTypeOK, serverVars
<1> QED
  BY <1>1, <1>2 DEF Typed, BootTypeOK

LEMMA RegisteredStays ==
  ASSUME BootIInv, UNCHANGED hooks, calls' \in Nat, calls' >= calls
  PROVE  Registered'
<1>1. calls \in Nat /\ hooks \in [Events -> Seq(1..MaxCalls)]
  BY CallsAssumption DEF BootIInv, Typed, BootTypeOK
<1>2. ASSUME NEW e \in Events
      PROVE  Len(hooks[e]) <= calls' /\ \A k \in DOMAIN hooks[e] : hooks[e][k] \in 1..calls'
  <2>1. Len(hooks[e]) \in Nat /\ DOMAIN hooks[e] = 1..Len(hooks[e]) /\ Len(hooks[e]) <= calls
    BY <1>1 DEF BootIInv, Registered
  <2>2. \A k \in DOMAIN hooks[e] : hooks[e][k] \in 1..calls
    BY DEF BootIInv, Registered
  <2>3. 1..calls \subseteq 1..calls'
    BY <1>1
  <2> QED
    BY <1>1, <2>1, <2>2, <2>3
<1> QED
  BY <1>2 DEF BootIInv, Registered

LEMMA ConfigureStep ==
  ASSUME BootIInv
  PROVE  /\ \A v \in SettingValues : SetImport(v) => BootIInv'
         /\ \A e \in Events : On(e) => BootIInv'
         /\ Plugin => BootIInv'
         /\ Proceed => BootIInv'
<1>0. /\ calls \in 0..MaxCalls /\ plugins \in 0..MaxCalls /\ MaxCalls \in Nat /\ plugins <= calls
      /\ hooks \in [Events -> Seq(1..MaxCalls)]
  BY CallsAssumption DEF BootIInv, Typed, BootTypeOK
<1>a. /\ phase \in Configuring \cup {"cached", "rejected"}
      /\ declared \in SettingValues /\ dream \in SettingValues
      /\ before \in SettingValues \cup {NoValue}
      /\ cors \in BOOLEAN /\ development \in BOOLEAN /\ Typed
  BY DEF BootIInv, Typed, BootTypeOK
<1>b. \A p \in Configuring : p # "cached"
  BY DEF Configuring
<1>1. ASSUME NEW v \in SettingValues, SetImport(v) PROVE BootIInv'
  <2>1. UNCHANGED serverVars /\ phase # "cached"
    BY <1>1, <1>b DEF SetImport, MakeCall
  <2>2. calls' = calls + 1 /\ calls' \in 0..MaxCalls
    BY <1>1, <1>0 DEF SetImport, MakeCall
  <2>3. Typed'
    <3>1. phase' \in Configuring \cup {"cached", "rejected"}
      BY <1>1, <1>a DEF SetImport, MakeCall
    <3>2. dream' \in SettingValues /\ before' \in SettingValues \cup {NoValue}
      BY <1>1, <1>a DEF SetImport, MakeCall
    <3>3. /\ declared' \in SettingValues /\ cors' \in BOOLEAN /\ development' \in BOOLEAN
          /\ hooks' = hooks /\ plugins' = plugins
      BY <1>1, <1>a DEF SetImport, MakeCall
    <3> QED
      BY <1>0, <1>a, <2>1, <2>2, <3>1, <3>2, <3>3, ServerStays
  <2>4. Registered'
    BY <1>0, <1>1, <2>2, RegisteredStays DEF SetImport
  <2> QED
    BY <2>1, <2>3, <2>4, Unbooted DEF BootIInv
<1>2. ASSUME NEW e \in Events, On(e) PROVE BootIInv'
  <2>1. UNCHANGED serverVars /\ phase # "cached"
    BY <1>2, <1>b DEF On, MakeCall
  <2>2. calls' = calls + 1 /\ calls' \in 1..MaxCalls
    BY <1>2, <1>0 DEF On, MakeCall
  <2>3. hooks' = [hooks EXCEPT ![e] = Append(hooks[e], calls')]
    BY <1>2 DEF On
  <2>4. /\ Append(hooks[e], calls') \in Seq(1..MaxCalls)
        /\ Len(Append(hooks[e], calls')) = Len(hooks[e]) + 1
        /\ \A k \in 1..Len(hooks[e]) : Append(hooks[e], calls')[k] = hooks[e][k]
        /\ Append(hooks[e], calls')[Len(hooks[e]) + 1] = calls'
    BY <1>0, <2>2
  <2>5. Typed'
    <3>1. hooks' \in [Events -> Seq(1..MaxCalls)]
      BY <1>0, <2>3, <2>4
    <3>2. /\ declared' \in SettingValues /\ cors' \in BOOLEAN /\ development' \in BOOLEAN
          /\ dream' \in SettingValues /\ before' \in SettingValues \cup {NoValue}
          /\ phase' = phase /\ plugins' = plugins
      BY <1>2, <1>a DEF On, MakeCall
    <3> QED
      BY <1>0, <1>a, <2>1, <2>2, <3>1, <3>2, ServerStays
  <2>6. Registered'
    <3>1. ASSUME NEW f \in Events
          PROVE  /\ Len(hooks'[f]) <= calls'
                 /\ \A k \in DOMAIN hooks'[f] :
                       \/ k \in DOMAIN hooks[f] /\ hooks'[f][k] = hooks[f][k] /\ hooks[f][k] \in 1..calls
                       \/ f = e /\ k = Len(hooks[e]) + 1 /\ hooks'[f][k] = calls'
      <4>1. /\ Len(hooks[f]) <= calls /\ Len(hooks[f]) \in Nat /\ DOMAIN hooks[f] = 1..Len(hooks[f])
            /\ \A k \in DOMAIN hooks[f] : hooks[f][k] \in 1..calls
        BY <1>0 DEF BootIInv, Registered
      <4>2. CASE f = e
        <5>1. hooks'[f] = Append(hooks[e], calls')
          BY <1>0, <2>3, <4>2
        <5>2. DOMAIN hooks'[f] = 1..(Len(hooks[e]) + 1)
          BY <5>1, <2>4
        <5>3. \A k \in DOMAIN hooks'[f] : k \in 1..Len(hooks[e]) \/ k = Len(hooks[e]) + 1
          BY <5>2, <4>1, <4>2
        <5> QED
          BY <1>0, <2>2, <2>4, <4>1, <4>2, <5>1, <5>3
      <4>3. CASE f # e
        <5>1. hooks'[f] = hooks[f]
          BY <1>0, <2>3, <4>3
        <5> QED
          BY <1>0, <2>2, <4>1, <5>1
      <4> QED
        BY <4>2, <4>3
    <3>2. \A f \in Events : \A k \in DOMAIN hooks'[f] : hooks'[f][k] \in 1..calls'
      <4>1. \A n \in 1..calls : n \in 1..calls'
        BY <1>0, <2>2
      <4>2. calls' \in 1..calls'
        BY <2>2
      <4> QED
        BY <3>1, <4>1, <4>2
    <3>3. ASSUME NEW f \in Events, NEW g \in Events,
                 NEW k \in DOMAIN hooks'[f], NEW l \in DOMAIN hooks'[g], hooks'[f][k] = hooks'[g][l]
          PROVE  f = g /\ k = l
      <4>1. \A n \in 1..calls : n # calls'
        BY <1>0, <2>2
      <4>2. CASE hooks'[f][k] = calls'
        BY <3>1, <3>3, <4>1, <4>2
      <4>3. CASE hooks'[f][k] # calls'
        BY <3>1, <3>3, <4>3, SMTT(60) DEF BootIInv, Registered
      <4> QED
        BY <4>2, <4>3
    <3> QED
      BY <3>1, <3>2, <3>3 DEF Registered
  <2> QED
    BY <2>1, <2>5, <2>6, Unbooted DEF BootIInv
<1>3. ASSUME Plugin PROVE BootIInv'
  <2>1. UNCHANGED serverVars /\ phase # "cached"
    BY <1>3, <1>b DEF Plugin, MakeCall
  <2>2. calls' = calls + 1 /\ calls' \in 0..MaxCalls /\ plugins' \in 0..MaxCalls /\ plugins' <= calls'
    BY <1>3, <1>0 DEF Plugin, MakeCall
  <2>3. hooks' = hooks
    BY <1>3 DEF Plugin
  <2>4. /\ declared' \in SettingValues /\ cors' \in BOOLEAN /\ development' \in BOOLEAN
        /\ dream' \in SettingValues /\ before' \in SettingValues \cup {NoValue}
        /\ phase' = phase
    BY <1>3, <1>a DEF Plugin, MakeCall
  <2>5. Typed'
    BY <1>0, <1>a, <2>1, <2>2, <2>3, <2>4, ServerStays
  <2>6. Registered'
    BY <1>0, <2>2, <2>3, RegisteredStays
  <2> QED
    BY <2>1, <2>5, <2>6, Unbooted DEF BootIInv
<1>4. ASSUME Proceed PROVE BootIInv'
  <2>1. UNCHANGED serverVars /\ phase # "cached"
    BY <1>4, <1>b DEF Proceed
  <2>2. calls' = calls /\ hooks' = hooks
    BY <1>4 DEF Proceed
  <2>3. plugins' \in 0..MaxCalls /\ plugins' <= calls'
    BY <1>4, <1>0 DEF Proceed
  <2>4. phase' \in Configuring \cup {"cached", "rejected"}
    BY <1>4 DEF Proceed, Configuring
  <2>5. /\ declared' \in SettingValues /\ cors' \in BOOLEAN /\ development' \in BOOLEAN
        /\ dream' \in SettingValues /\ before' \in SettingValues \cup {NoValue}
    BY <1>4, <1>a DEF Proceed
  <2>6. Typed'
    BY <1>0, <1>a, <2>1, <2>2, <2>3, <2>4, <2>5, ServerStays
  <2>7. Registered'
    BY <1>0, <2>2, RegisteredStays
  <2> QED
    BY <2>1, <2>6, <2>7, Unbooted DEF BootIInv
<1> QED
  BY <1>1, <1>2, <1>3, <1>4
(***************************************************************************)
(* boot()                                                                  *)
(***************************************************************************)

\* The names of Psychic's own layers tell them apart, and from the app's; the
\* app's are told apart by their calls.
LEMMA LayerNames ==
  /\ \A m, n : Own(m) = Own(n) => m = n
  /\ \A c, d : App(c) = App(d) => c = d
  /\ \A n, c : n # "app" => Own(n) # App(c)
<1>1. ASSUME NEW m, NEW n, Own(m) = Own(n) PROVE m = n
  <2>1. Own(m).name = m /\ Own(n).name = n
    BY DEF Own
  <2> QED
    BY <1>1, <2>1
<1>2. ASSUME NEW c, NEW d, App(c) = App(d) PROVE c = d
  <2>1. App(c).call = c /\ App(d).call = d
    BY DEF App
  <2> QED
    BY <1>2, <2>1
<1>3. ASSUME NEW n, NEW c, n # "app" PROVE Own(n) # App(c)
  <2>1. Own(n).name = n /\ App(c).name = "app"
    BY DEF Own, App
  <2> QED
    BY <1>3, <2>1
<1> QED
  BY <1>1, <1>2, <1>3

LEMMA LayerTypes ==
  ASSUME BootIInv
  PROVE  /\ \A n \in {"boundary", "headers", "etag", "cors", "json", "router", "notFound"} : Own(n) \in Layers
         /\ \A e \in Events : \A k \in DOMAIN hooks[e] : App(hooks[e][k]) \in Layers
<1>1. \A e \in Events : \A k \in DOMAIN hooks[e] : hooks[e][k] \in 1..MaxCalls
  <2>1. hooks \in [Events -> Seq(1..MaxCalls)]
    BY DEF BootIInv, Typed, BootTypeOK
  <2>2. ASSUME NEW e \in Events, NEW k \in DOMAIN hooks[e] PROVE hooks[e][k] \in 1..MaxCalls
    <3>1. hooks[e] \in Seq(1..MaxCalls) /\ k \in 1..Len(hooks[e])
      BY <2>1
    <3> QED
      BY <3>1, ElementOfSeq
  <2> QED
    BY <2>2
<1>2. \A c \in 1..MaxCalls : App(c) \in Layers
  BY DEF Layers
<1>3. \A n \in {"boundary", "headers", "etag", "cors", "json", "router", "notFound"} : Own(n) \in Layers
  BY DEF Layers
<1> QED
  BY <1>1, <1>2, <1>3

LEMMA TypedStack == BootIInv => stack \in Seq(Entries)
BY DEF BootIInv, Typed, BootTypeOK, Entries

\* A step of one boot() keeps the invariant, if that boot() has what its stage
\* says it has, and the stack is tidy still.
LEMMA BootKeeps ==
  ASSUME BootIInv, phase = "cached", UNCHANGED confVars,
         NEW b \in Boots, NEW layers \in Seq(Layers), Grows(layers),
         \A o \in Boots : o # b => bootAt'[o] = bootAt[o],
         bootAt' \in [Boots -> [stage : Stages, i : 1..(MaxCalls + 1)]],
         booted' \in BOOLEAN, inflected' \in BOOLEAN, untidy' \in BOOLEAN,
         HasMounted(b)',
         stack = <<>> => layers = <<>> \/ layers[1] = Own("boundary"),
         \/ \A k \in DOMAIN layers : layers[k] # Own("router")
         \/ \A l \in Guards : Has(l),
         Tidy'
  PROVE  BootIInv'
<1>1. UNCHANGED <<hooks, calls, phase>> /\ stack \in Seq(Entries)
  BY TypedStack DEF confVars
<1>2. Typed'
  <2>1. stack' \in Seq([layer : Layers, by : Boots])
    BY DEF Grows, Entries
  <2>2. \A o \in Boots : bootAt'[o].stage \in Stages /\ bootAt'[o].i \in 1..(MaxCalls + 1)
    OBVIOUS
  <2>3. bootAt' \in [Boots -> [stage : Stages, i : Nat]]
    <3>1. 1..(MaxCalls + 1) \subseteq Nat
      BY CallsAssumption
    <3> QED
      BY <3>1
  <2>4. plugins' <= calls'
    BY DEF BootIInv, Typed, confVars
  <2>5. /\ phase' \in Configuring \cup {"cached", "rejected"}
        /\ declared' \in SettingValues /\ dream' \in SettingValues
        /\ before' \in SettingValues \cup {NoValue}
        /\ hooks' \in [Events -> Seq(1..MaxCalls)]
        /\ plugins' \in 0..MaxCalls /\ calls' \in 0..MaxCalls
        /\ cors' \in BOOLEAN /\ development' \in BOOLEAN
    BY Zenon DEF BootIInv, Typed, BootTypeOK, confVars
  <2>6. BootTypeOK'
    BY <2>1, <2>2, <2>5, Zenon DEF BootTypeOK
  <2> QED
    BY <2>3, <2>4, <2>6 DEF Typed
<1>3. Registered'
  BY <1>1 DEF BootIInv, Registered
<1>4. Frozen'
  BY <1>1 DEF Frozen
<1>5. AllHaveMounted'
  <2>1. \A o \in Boots : o # b => HasMounted(o)'
    BY <1>1, OthersProgress DEF BootIInv, AllHaveMounted
  <2> QED
    BY <2>1 DEF AllHaveMounted
<1>6. BoundaryFirst'
  BY <1>1, BoundaryStays DEF BootIInv
<1>7. RoutersGuarded'
  BY <1>1, StillGuarded DEF BootIInv
<1> QED
  BY <1>2, <1>3, <1>4, <1>5, <1>6, <1>7 DEF BootIInv

LEMMA BootRests ==
  ASSUME BootIInv, phase = "cached", UNCHANGED <<confVars, stack>>,
         NEW b \in Boots,
         \A o \in Boots : o # b => bootAt'[o] = bootAt[o],
         bootAt' \in [Boots -> [stage : Stages, i : 1..(MaxCalls + 1)]],
         booted' \in BOOLEAN, inflected' \in BOOLEAN, untidy' \in BOOLEAN,
         HasMounted(b)',
         Tidy'
  PROVE  BootIInv'
<1> DEFINE none == <<>>
<1>1. none \in Seq(Layers) /\ Grows(none)
  BY TypedStack, NoGrowth
<1>2. \A k \in DOMAIN none : none[k] # Own("router")
  OBVIOUS
<1>3. none = <<>>
  OBVIOUS
<1>4. UNCHANGED confVars
  OBVIOUS
<1> HIDE DEF none
<1> QED
  BY <1>1, <1>2, <1>3, <1>4, BootKeeps

\* A boot() that goes on mounts what was still ahead of it, once.
LEMMA StillAlone ==
  ASSUME BootIInv, NEW b \in Boots, NEW layers \in Seq(Layers), Grows(layers),
         UNCHANGED <<booted, untidy>>,
         \A o \in Boots : o # b => bootAt'[o] = bootAt[o],
         Underway(b),
         \A k \in DOMAIN layers : Ahead(b, layers[k]) /\ ~Ahead(b, layers[k])',
         \A k, l \in DOMAIN layers : layers[k] = layers[l] => k = l,
         \A l : Ahead(b, l)' => Ahead(b, l)
  PROVE  Underway(b)' => Tidy'
<1> SUFFICES ASSUME Underway(b)', ~untidy PROVE Alone'
  BY DEF Tidy
<1>1. Alone /\ stack \in Seq(Entries)
  BY TypedStack DEF BootIInv, Tidy
<1>2. \A o \in Boots : Underway(o)' => Underway(o)
  BY DEF Underway
<1>3. \A o, p \in Boots : Underway(o)' /\ Underway(p)' => o = p
  BY <1>1, <1>2 DEF Alone
<1>4. ~booted'
  BY <1>1 DEF Alone
<1>5. \A o \in Boots : Underway(o)' => o = b
  BY <1>3
<1>6. \A j \in DOMAIN stack : ~Ahead(b, stack[j].layer)
  BY <1>1 DEF Alone
<1>7. (\A j \in DOMAIN stack : ~Ahead(b, stack[j].layer))'
  <2>1. \A l : Ahead(b, l)' => \A k \in DOMAIN layers : l # layers[k]
    OBVIOUS
  <2>2. \A l : Ahead(b, l)' => \A j \in DOMAIN stack : stack[j].layer # l
    BY <1>6
  <2> QED
    BY <1>1, <2>1, <2>2, GrownPositions
<1>8. \A k \in DOMAIN layers : ~Has(layers[k])
  BY <1>6 DEF Has
<1>9. NoDuplicates'
  BY <1>1, <1>8, StillDistinct DEF Alone
<1> QED
  BY <1>3, <1>4, <1>5, <1>7, <1>9 DEF Alone
\* The steps of boot() that go on share what follows from the invariant.
LEMMA Booting ==
  ASSUME BootIInv, NEW b \in Boots, bootAt[b].stage # "idle"
  PROVE  /\ phase = "cached"
         /\ HasMounted(b)
         /\ stack \in Seq(Entries)
         /\ bootAt \in [Boots -> [stage : Stages, i : 1..(MaxCalls + 1)]]
         /\ booted \in BOOLEAN /\ inflected \in BOOLEAN /\ untidy \in BOOLEAN
         /\ hooks \in [Events -> Seq(1..MaxCalls)]
<1>1. phase = "cached" /\ HasMounted(b)
  BY DEF BootIInv, Frozen, AllHaveMounted
<1>2. bootAt \in [Boots -> [stage : Stages, i : 1..(MaxCalls + 1)]]
  BY DEF BootIInv, Typed, BootTypeOK
<1>3. booted \in BOOLEAN /\ inflected \in BOOLEAN /\ untidy \in BOOLEAN
      /\ hooks \in [Events -> Seq(1..MaxCalls)]
  BY Zenon DEF BootIInv, Typed, BootTypeOK
<1> QED
  BY <1>1, <1>2, <1>3, TypedStack

\* A failed boot() leaves what it mounted, and the stack is not tidy any more.
LEMMA FailStep ==
  ASSUME BootIInv, NEW b \in Boots, Underway(b), Fail(b)
  PROVE  BootIInv'
<1>1. bootAt[b].stage # "idle"
  BY DEF Underway
<1>2. phase = "cached" /\ UNCHANGED stack
  BY <1>1, Booting DEF Fail
<1>3. bootAt' = [bootAt EXCEPT ![b] = [stage |-> "failed", i |-> 1]]
  BY DEF Fail, GoTo, At
<1>4. bootAt' \in [Boots -> [stage : Stages, i : 1..(MaxCalls + 1)]]
      /\ bootAt'[b].stage = "failed" /\ \A o \in Boots : o # b => bootAt'[o] = bootAt[o]
  BY <1>1, <1>3, Booting, CallsAssumption DEF Stages
<1>5. HasMounted(b)'
  BY <1>4 DEF HasMounted, Underway, Events, PastBefore, PastAfter
<1>6. Tidy' /\ untidy' \in BOOLEAN
  BY DEF Fail, Tidy
<1>7. booted' \in BOOLEAN /\ inflected' \in BOOLEAN
  BY <1>1, Booting, Zenon DEF Fail
<1>8. UNCHANGED confVars
  BY DEF Fail
<1> QED
  BY <1>2, <1>4, <1>5, <1>6, <1>7, <1>8, BootRests

LEMMA StartStep ==
  ASSUME BootIInv, NEW b \in Boots, Start(b)
  PROVE  BootIInv'
<1>1. /\ phase = "cached" /\ bootAt[b].stage = "idle" /\ UNCHANGED confVars
      /\ UNCHANGED <<booted, inflected>>
  BY DEF Start
<1>2. stack \in Seq(Entries) /\ bootAt \in [Boots -> [stage : Stages, i : 1..(MaxCalls + 1)]]
  BY TypedStack DEF BootIInv, Typed, BootTypeOK
<1>3. booted' \in BOOLEAN /\ inflected' \in BOOLEAN /\ untidy \in BOOLEAN
  BY <1>1, Zenon DEF BootIInv, Typed, BootTypeOK
<1>4. CASE booted
  <2>1. UNCHANGED <<stack, untidy>> /\ bootAt' = [bootAt EXCEPT ![b] = [stage |-> "done", i |-> 1]]
    BY <1>4 DEF Start, GoTo, At
  <2>2. bootAt' \in [Boots -> [stage : Stages, i : 1..(MaxCalls + 1)]]
        /\ bootAt'[b].stage = "done" /\ \A o \in Boots : o # b => bootAt'[o] = bootAt[o]
    BY <1>2, <2>1, CallsAssumption DEF Stages
  <2>3. UNCHANGED <<confVars, stack>>
    BY <1>1, <2>1
  <2>4. HasMounted(b)'
    BY <2>2 DEF HasMounted, Underway, Events, PastBefore, PastAfter
  <2>5. Tidy'
    <3> SUFFICES ASSUME ~untidy PROVE Alone'
      BY <2>1 DEF Tidy
    <3>1. \A o \in Boots : ~Underway(o)
      BY <1>4 DEF BootIInv, Tidy, Alone
    <3>2. \A o \in Boots : ~Underway(o)'
      BY <2>2, <3>1 DEF Underway
    <3>3. NoDuplicates'
      BY <2>1 DEF BootIInv, Tidy, Alone, NoDuplicates
    <3> QED
      BY <1>1, <1>4, <3>2, <3>3 DEF Alone
  <2>6. untidy' \in BOOLEAN
    BY <1>3, <2>1, Zenon
  <2> QED
    BY <1>1, <1>3, <2>2, <2>3, <2>4, <2>5, <2>6, BootRests
<1>5. CASE ~booted
  <2> DEFINE layers == <<Own("boundary"), Own("headers")>>
  <2>1. /\ Mounting(b, layers)
        /\ bootAt' = [bootAt EXCEPT ![b] = [stage |-> "before-middleware", i |-> 1]]
        /\ untidy' = (untidy \/ \E o \in Boots : Underway(o))
    BY <1>5 DEF Start, GoTo, At
  <2>2. /\ bootAt' \in [Boots -> [stage : Stages, i : 1..(MaxCalls + 1)]]
        /\ bootAt'[b].stage = "before-middleware" /\ bootAt'[b].i = 1
        /\ \A o \in Boots : o # b => bootAt'[o] = bootAt[o]
    BY <1>2, <2>1, CallsAssumption DEF Stages, Events
  <2>3. /\ layers \in Seq(Layers) /\ DOMAIN layers = {1, 2}
        /\ layers[1] = Own("boundary") /\ layers[2] = Own("headers")
    BY LayerTypes
  <2> HIDE DEF layers
  <2>4. Grows(layers)
    BY <1>2, <2>1, <2>3, Growth
  <2>5. hooks' = hooks /\ hooks \in [Events -> Seq(1..MaxCalls)]
    BY <1>1 DEF confVars, BootIInv, Typed, BootTypeOK
  <2>6. HasMounted(b)'
    <3>1. stack' # <<>>
      <4>1. 1 \in DOMAIN layers
        BY <2>3
      <4>2. Len(stack) + 1 \in DOMAIN stack'
        BY <1>2, <2>3, <2>4, <4>1, GrownPositions
      <4> QED
        BY <4>2
    <3>2. Len(hooks'["before-middleware"]) \in Nat
      BY <2>5 DEF Events
    <3> QED
      BY <2>2, <3>1, <3>2 DEF HasMounted, PastBefore, PastAfter
  <2>7. \A k \in DOMAIN layers : layers[k] # Own("router")
    BY <2>3, LayerNames
  <2>8. Tidy'
    <3> SUFFICES ASSUME ~untidy' PROVE Alone'
      BY DEF Tidy
    <3>1. ~untidy /\ \A o \in Boots : ~Underway(o)
      BY <2>1
    <3>2. stack = <<>>
      BY <1>5, <3>1 DEF BootIInv, Tidy, Alone
    <3>3. \A o \in Boots : Underway(o)' => o = b
      BY <2>2, <3>1 DEF Underway
    <3>4. \A j \in DOMAIN stack' : \E k \in DOMAIN layers : stack'[j].layer = layers[k]
      BY <1>2, <2>3, <2>4, <3>2, GrownPositions
    <3>5. \A k \in DOMAIN layers : ~Ahead(b, layers[k])'
      BY <2>2, <2>3, LayerNames DEF Ahead
    <3>6. \A j \in DOMAIN stack' : ~Has(layers[1]) /\ ~Has(layers[2])
      BY <3>2 DEF Has
    <3>7. \A k, l \in DOMAIN layers : layers[k] = layers[l] => k = l
      BY <2>3, LayerNames
    <3>8. \A k \in DOMAIN layers : ~Has(layers[k])
      BY <3>2 DEF Has
    <3>9. NoDuplicates
      BY <3>1 DEF BootIInv, Tidy, Alone
    <3>10. NoDuplicates'
      BY <1>2, <2>3, <2>4, <3>7, <3>8, <3>9, StillDistinct
    <3>11. (\A j \in DOMAIN stack : ~Ahead(b, stack[j].layer))'
      BY <3>4, <3>5
    <3>12. ~booted' /\ Underway(b)'
      BY <1>1, <1>5, <2>2 DEF Underway
    <3> QED
      BY <3>3, <3>10, <3>11, <3>12 DEF Alone
  <2>9. untidy' \in BOOLEAN
    BY <2>1, Zenon
  <2> QED
    BY <1>1, <1>3, <2>2, <2>3, <2>4, <2>6, <2>7, <2>8, <2>9, BootKeeps
<1> QED
  BY <1>4, <1>5
\* Where a boot() stands is a stage and a position in the hooks of an event.
LEMMA Moves ==
  ASSUME NEW b \in Boots, bootAt \in [Boots -> [stage : Stages, i : 1..(MaxCalls + 1)]],
         NEW s \in Stages, GoTo(b, s)
  PROVE  /\ bootAt' \in [Boots -> [stage : Stages, i : 1..(MaxCalls + 1)]]
         /\ bootAt'[b].stage = s /\ bootAt'[b].i = 1
         /\ \A o \in Boots : o # b => bootAt'[o] = bootAt[o]
<1>1. bootAt' = [bootAt EXCEPT ![b] = [stage |-> s, i |-> 1]]
  BY DEF GoTo, At
<1>2. 1 \in 1..(MaxCalls + 1)
  BY CallsAssumption
<1> QED
  BY <1>1, <1>2

\* A hook whose turn has not passed is still to be mounted.
LEMMA AheadOfHook ==
  ASSUME NEW b \in Boots, NEW e \in Events, NEW k \in DOMAIN hooks[e],
         e = bootAt[b].stage, k >= bootAt[b].i
  PROVE  Ahead(b, App(hooks[e][k]))
<1> DEFINE l == App(hooks[e][k])
<1>1. \E f \in Events : \E m \in DOMAIN hooks[f] : l = App(hooks[f][m]) /\ bootAt[b].stage = f /\ m >= bootAt[b].i
  OBVIOUS
<1> HIDE DEF l
<1> QED
  BY <1>1 DEF Ahead, l

(* No two registrations, under one event or under two, are of one hook.       *)
LEMMA OneRegistration ==
  ASSUME Registered, NEW e \in Events, NEW f \in Events,
         NEW k \in DOMAIN hooks[e], NEW m \in DOMAIN hooks[f],
         hooks[e][k] = hooks[f][m]
  PROVE  e = f /\ k = m
BY SMTT(60) DEF Registered

LEMMA HookMounts ==
  ASSUME BootIInv, NEW b \in Boots, NEW s, s = bootAt[b].stage, s \in Events,
         bootAt[b].i <= Len(hooks[s]),
         bootAt' = [bootAt EXCEPT ![b].i = @ + 1],
         Mounting(b, <<App(hooks[s][bootAt[b].i])>>),
         UNCHANGED <<confVars, booted, inflected, untidy>>
  PROVE  BootIInv'
<1> DEFINE i == bootAt[b].i
<1> PICK layers : layers = <<App(hooks[s][i])>>
  OBVIOUS
<1>1. bootAt[b].stage # "idle" /\ Underway(b)
  BY DEF Events, Underway
<1>2. /\ hooks[s] \in Seq(1..MaxCalls) /\ DOMAIN hooks[s] = 1..Len(hooks[s])
      /\ Len(hooks[s]) \in Nat /\ Len(hooks[s]) <= calls /\ calls \in 0..MaxCalls
  BY <1>1, Booting DEF BootIInv, Registered, Typed, BootTypeOK
<1>3. i \in 1..(MaxCalls + 1) /\ i \in DOMAIN hooks[s] /\ i + 1 \in 1..(MaxCalls + 1)
  BY <1>1, <1>2, Booting, CallsAssumption, SMTT(60)
<1>4. /\ bootAt' \in [Boots -> [stage : Stages, i : 1..(MaxCalls + 1)]]
      /\ bootAt'[b].stage = s /\ bootAt'[b].i = i + 1
      /\ \A o \in Boots : o # b => bootAt'[o] = bootAt[o]
  BY <1>1, <1>3, Booting
<1>5. layers \in Seq(Layers) /\ DOMAIN layers = {1} /\ layers[1] = App(hooks[s][i])
  BY <1>3, LayerTypes
<1>6. Mounting(b, layers)
  OBVIOUS
<1>7. Grows(layers)
  BY <1>1, <1>5, <1>6, Booting, Growth
<1>8. UNCHANGED hooks
  BY DEF confVars
<1>9. HasMounted(b)'
  <2>1. Underway(b)' => stack' # <<>>
    BY <1>1, <1>5, <1>7, Booting, HasMore DEF HasMounted
  <2>2. bootAt'[b].i \in 1..(Len(hooks'[s]) + 1)
    BY <1>2, <1>3, <1>4, <1>8
  <2>3. \A k \in 1..(bootAt'[b].i - 1) : Has(App(hooks[s][k]))'
    <3> SUFFICES ASSUME NEW k \in 1..(bootAt'[b].i - 1) PROVE Has(App(hooks[s][k]))'
      OBVIOUS
    <3>1. k \in 1..(i - 1) \/ k = i
      BY <1>3, <1>4
    <3>2. CASE k \in 1..(i - 1)
      <4>1. Has(App(hooks[s][k]))
        BY <1>1, <3>2, Booting DEF HasMounted
      <4> QED
        BY <1>1, <1>5, <1>7, <1>8, <4>1, Booting, HasMore
    <3>3. CASE k = i
      BY <1>1, <1>5, <1>7, <1>8, <3>3, Booting, HasMore
    <3> QED
      BY <3>1, <3>2, <3>3
  <2>4. bootAt'[b].stage \in PastBefore => Has(Own("json"))' /\ AllMounted("before-middleware")'
    BY <1>1, <1>4, <1>5, <1>7, <1>8, Booting, HasMore DEF HasMounted, AllMounted
  <2>5. bootAt'[b].stage \in PastAfter => AllMounted("after-middleware")'
    BY <1>1, <1>4, <1>5, <1>7, <1>8, Booting, HasMore DEF HasMounted, AllMounted
  <2> QED
    BY <1>4, <1>8, <2>1, <2>2, <2>3, <2>4, <2>5 DEF HasMounted
<1>10. Tidy'
  <2>1. Ahead(b, layers[1])
    BY <1>3, <1>5, AheadOfHook
  <2>2. ~Ahead(b, layers[1])'
    <3>1. \A n \in {"etag", "cors", "json", "router", "notFound"} : layers[1] # Own(n)
      BY <1>5, LayerNames
    <3>2. ASSUME NEW e \in Events, NEW k \in DOMAIN hooks[e], layers[1] = App(hooks[e][k])
          PROVE  ~Coming(s, e) /\ ~(s = e /\ k >= i + 1)
      <4>1. hooks[e][k] = hooks[s][i]
        BY <1>5, <3>2, LayerNames
      <4>b. i \in DOMAIN hooks[s]
        BY <1>3
      <4>2. e = s /\ k = i
        BY <4>1, <4>b, OneRegistration DEF BootIInv
      <4>3. ~Coming(s, s)
        BY DEF Coming, Events
      <4>4. ~(i >= i + 1)
        BY <1>3
      <4> QED
        BY <4>2, <4>3, <4>4
    <3>3. ASSUME Ahead(b, layers[1])'
          PROVE  \/ \E n \in {"etag", "cors", "json", "router", "notFound"} : layers[1] = Own(n)
                 \/ \E e \in Events : \E k \in DOMAIN hooks[e] :
                       layers[1] = App(hooks[e][k]) /\ (Coming(s, e) \/ (s = e /\ k >= i + 1))
      <4>1. bootAt'[b].stage = s /\ bootAt'[b].i = i + 1 /\ UNCHANGED hooks
        BY <1>4, <1>8, SMTT(60)
      <4>2. \/ \E n \in {"etag", "cors", "json", "router", "notFound"} : layers[1] = Own(n)
            \/ \E e \in Events : \E k \in DOMAIN hooks'[e] :
                  /\ layers[1] = App(hooks'[e][k])
                  /\ \/ Coming(bootAt'[b].stage, e)
                     \/ bootAt'[b].stage = e /\ k >= bootAt'[b].i
        BY <3>3, ZenonT(60) DEF Ahead
      <4> QED
        BY <4>1, <4>2, ZenonT(60)
    <3>4. ~\E n \in {"etag", "cors", "json", "router", "notFound"} : layers[1] = Own(n)
      BY <3>1
    <3>5. ~\E e \in Events : \E k \in DOMAIN hooks[e] :
             layers[1] = App(hooks[e][k]) /\ (Coming(s, e) \/ (s = e /\ k >= i + 1))
      BY <3>2
    <3> QED
      BY <3>3, <3>4, <3>5, Zenon
  <2>3. \A l : Ahead(b, l)' => Ahead(b, l)
    <3>1. \A e \in Events : \A k \in DOMAIN hooks[e] : k >= i + 1 => k >= i
      <4>1. \A e \in Events : DOMAIN hooks[e] \subseteq Nat
        BY <1>1, Booting
      <4> QED
        BY <1>3, <4>1
    <3> QED
      BY <1>4, <1>8, <3>1 DEF Ahead
  <2>4. Underway(b)'
    BY <1>1, <1>4 DEF Underway
  <2> QED
    BY <1>1, <1>4, <1>5, <1>7, <2>1, <2>2, <2>3, <2>4, StillAlone
<1>11. booted' \in BOOLEAN /\ inflected' \in BOOLEAN /\ untidy' \in BOOLEAN
  BY <1>1, Booting, Zenon
<1>12. stack # <<>>
  BY <1>1, Booting DEF HasMounted
<1>13. \A k \in DOMAIN layers : layers[k] # Own("router")
  BY <1>5, LayerNames
<1> QED
  BY <1>1, <1>4, <1>5, <1>7, <1>9, <1>10, <1>11, <1>12, <1>13, Booting, BootKeeps

LEMMA HookStep ==
  ASSUME BootIInv, NEW b \in Boots, Hook(b)
  PROVE  BootIInv'
<1>1. CASE Fail(b)
  BY <1>1, FailStep DEF Hook, Events, Underway
<1>2. CASE ~Fail(b)
  <2> DEFINE s == bootAt[b].stage
  <2>1. /\ s \in Events /\ bootAt[b].i <= Len(hooks[s])
        /\ bootAt' = [bootAt EXCEPT ![b].i = @ + 1]
        /\ Mounting(b, <<App(hooks[s][bootAt[b].i])>>)
        /\ UNCHANGED <<confVars, booted, inflected, untidy>>
    BY <1>2 DEF Hook
  <2> QED
    BY <2>1, HookMounts
<1> QED
  BY <1>1, <1>2
LEMMA Joined ==
  ASSUME NEW S, NEW a \in S, NEW b \in S, NEW c \in S
  PROVE  /\ <<a>> \o <<b>> \o <<c>> = <<a, b, c>>
         /\ <<a>> \o <<>> \o <<c>> = <<a, c>>
<1>1. /\ <<a>> \in Seq(S) /\ <<b>> \in Seq(S) /\ <<c>> \in Seq(S)
      /\ <<a, b>> \in Seq(S) /\ <<a, c>> \in Seq(S) /\ <<a, b, c>> \in Seq(S)
  OBVIOUS
<1>2. ASSUME NEW x \in S, NEW y \in S PROVE <<x>> \o <<y>> = <<x, y>>
  <2>1. /\ <<x>> \in Seq(S) /\ <<y>> \in Seq(S) /\ <<x, y>> \in Seq(S)
        /\ Len(<<x>>) = 1 /\ Len(<<y>>) = 1 /\ Len(<<x, y>>) = 2
    OBVIOUS
  <2>2. <<x>> \o <<y>> \in Seq(S) /\ Len(<<x>> \o <<y>>) = 2
        /\ \A i \in 1..2 : (<<x>> \o <<y>>)[i] = IF i <= 1 THEN <<x>>[i] ELSE <<y>>[i - 1]
    BY <2>1, ConcatProperties
  <2>3. \A i \in 1..2 : (<<x>> \o <<y>>)[i] = <<x, y>>[i]
    BY <2>2
  <2> QED
    BY <2>1, <2>2, <2>3, SeqEqual
<1>3. <<a, b>> \o <<c>> = <<a, b, c>>
  <2>1. Len(<<a, b>>) = 2 /\ Len(<<c>>) = 1 /\ Len(<<a, b, c>>) = 3
    OBVIOUS
  <2>2. <<a, b>> \o <<c>> \in Seq(S) /\ Len(<<a, b>> \o <<c>>) = 3
        /\ \A i \in 1..3 : (<<a, b>> \o <<c>>)[i] = IF i <= 2 THEN <<a, b>>[i] ELSE <<c>>[i - 2]
    BY <1>1, <2>1, ConcatProperties
  <2>3. \A i \in 1..3 : (<<a, b>> \o <<c>>)[i] = <<a, b, c>>[i]
    BY <2>2
  <2> QED
    BY <1>1, <2>1, <2>2, <2>3, SeqEqual
<1>4. <<a>> \o <<>> = <<a>>
  BY <1>1, ConcatEmptySeq
<1> QED
  BY <1>2, <1>3, <1>4

LEMMA DefaultMiddlewareStep ==
  ASSUME BootIInv, NEW b \in Boots, DefaultMiddleware(b)
  PROVE  BootIInv'
<1> DEFINE Target == IF inflected THEN "after-middleware" ELSE "app"
<1> PICK s : s = Target
  OBVIOUS
<1>1. /\ bootAt[b].stage = "before-middleware"
      /\ bootAt[b].i = Len(hooks["before-middleware"]) + 1
      /\ GoTo(b, s) /\ s \in {"after-middleware", "app"} /\ s \in Stages
      /\ UNCHANGED <<confVars, booted, inflected, untidy>>
  BY DEF DefaultMiddleware, HooksDone, Stages, Events
<1>2. bootAt[b].stage # "idle" /\ Underway(b)
  BY <1>1 DEF Underway
<1>3. /\ bootAt' \in [Boots -> [stage : Stages, i : 1..(MaxCalls + 1)]]
      /\ bootAt'[b].stage = s /\ bootAt'[b].i = 1
      /\ \A o \in Boots : o # b => bootAt'[o] = bootAt[o]
  BY <1>1, <1>2, Booting, Moves
<1>4. PICK layers \in {<<Own("etag"), Own("cors"), Own("json")>>, <<Own("etag"), Own("json")>>} :
         Mounting(b, layers)
  <2>1. Mounting(b, <<Own("etag")>> \o (IF cors THEN <<Own("cors")>> ELSE <<>>) \o <<Own("json")>>)
    BY DEF DefaultMiddleware
  <2>2. CASE cors
    <3>1. <<Own("etag")>> \o (IF cors THEN <<Own("cors")>> ELSE <<>>) \o <<Own("json")>>
             = <<Own("etag"), Own("cors"), Own("json")>>
      BY <2>2, LayerTypes, Joined
    <3> QED
      BY <2>1, <3>1
  <2>3. CASE ~cors
    <3>1. <<Own("etag")>> \o (IF cors THEN <<Own("cors")>> ELSE <<>>) \o <<Own("json")>>
             = <<Own("etag"), Own("json")>>
      BY <2>3, LayerTypes, Joined
    <3> QED
      BY <2>1, <3>1
  <2> QED
    BY <2>2, <2>3
<1>5. /\ layers \in Seq(Layers)
      /\ \A k \in DOMAIN layers : layers[k] \in {Own("etag"), Own("cors"), Own("json")}
      /\ \A k, l \in DOMAIN layers : layers[k] = layers[l] => k = l
      /\ \E k \in DOMAIN layers : layers[k] = Own("json")
  <2>1. Own("etag") # Own("cors") /\ Own("etag") # Own("json") /\ Own("cors") # Own("json")
    BY LayerNames
  <2>2. Own("etag") \in Layers /\ Own("cors") \in Layers /\ Own("json") \in Layers
    BY LayerTypes
  <2>3. CASE layers = <<Own("etag"), Own("cors"), Own("json")>>
    <3>1. DOMAIN layers = {1, 2, 3}
      BY <2>3
    <3>2. layers[1] = Own("etag") /\ layers[2] = Own("cors") /\ layers[3] = Own("json")
      BY <2>3
    <3>3. layers \in Seq(Layers)
      BY <2>2, <2>3
    <3> QED
      BY <2>1, <3>1, <3>2, <3>3
  <2>4. CASE layers = <<Own("etag"), Own("json")>>
    <3>1. DOMAIN layers = {1, 2}
      BY <2>4
    <3>2. layers[1] = Own("etag") /\ layers[2] = Own("json")
      BY <2>4
    <3>3. layers \in Seq(Layers)
      BY <2>2, <2>4
    <3> QED
      BY <2>1, <3>1, <3>2, <3>3
  <2> QED
    BY <2>3, <2>4
<1>6. Grows(layers) /\ UNCHANGED hooks
  BY <1>1, <1>2, <1>4, <1>5, Booting, Growth DEF confVars
<1>7. HasMounted(b)'
  <2>1. stack' # <<>>
    BY <1>2, <1>5, <1>6, Booting, HasMore DEF HasMounted
  <2>2. Len(hooks["after-middleware"]) \in Nat /\ Len(hooks["before-middleware"]) \in Nat
        /\ DOMAIN hooks["before-middleware"] = 1..Len(hooks["before-middleware"])
    BY <1>2, Booting DEF Events
  <2>3. Has(Own("json"))'
    BY <1>2, <1>5, <1>6, Booting, HasMore
  <2>4. \A k \in DOMAIN hooks["before-middleware"] : Has(App(hooks["before-middleware"][k]))
    BY <1>1, <1>2, <2>2, Booting, SMTT(60) DEF HasMounted, Events
  <2>5. AllMounted("before-middleware")'
    BY <1>2, <1>5, <1>6, <2>4, Booting, HasMore DEF AllMounted
  <2> QED
    BY <1>1, <1>3, <1>6, <2>1, <2>2, <2>3, <2>5 DEF HasMounted, Events, PastAfter
<1>8. Tidy'
  <2>1. \A k \in DOMAIN layers : Ahead(b, layers[k])
    BY <1>1, <1>5 DEF Ahead
  <2>2. \A k \in DOMAIN layers : ~Ahead(b, layers[k])'
    <3>1. \A k \in DOMAIN layers : /\ layers[k] # Own("router") /\ layers[k] # Own("notFound")
                                   /\ \A c : layers[k] # App(c)
      BY <1>5, LayerNames
    <3> QED
      BY <1>1, <1>3, <3>1 DEF Ahead
  <2>3. \A l : Ahead(b, l)' => Ahead(b, l)
    BY <1>1, <1>3, <1>6 DEF Ahead, Coming
  <2>4. Underway(b)'
    BY <1>1, <1>3 DEF Underway
  <2> QED
    BY <1>1, <1>2, <1>3, <1>5, <1>6, <2>1, <2>2, <2>3, <2>4, StillAlone
<1>9. booted' \in BOOLEAN /\ inflected' \in BOOLEAN /\ untidy' \in BOOLEAN
  BY <1>1, <1>2, Booting, Zenon
<1>10. stack # <<>> /\ \A k \in DOMAIN layers : layers[k] # Own("router")
  BY <1>2, <1>5, LayerNames, Booting DEF HasMounted
<1> QED
  BY <1>1, <1>2, <1>3, <1>5, <1>6, <1>7, <1>8, <1>9, <1>10, Booting, BootKeeps

\* The steps between which nothing is mounted.
LEMMA RestingStep ==
  ASSUME BootIInv, NEW b \in Boots, NEW s, NEW t,
         bootAt[b].stage = s, GoTo(b, t),
         \/ s = "app" /\ t = "after-middleware"
         \/ s = "after-middleware" /\ HooksDone(b, "after-middleware") /\ t = "routes",
         UNCHANGED <<confVars, stack, booted, untidy>>, inflected' \in BOOLEAN
  PROVE  BootIInv'
<1>1. bootAt[b].stage # "idle" /\ Underway(b) /\ t \in Stages
  BY DEF Underway, Stages, Events
<1>2. /\ bootAt' \in [Boots -> [stage : Stages, i : 1..(MaxCalls + 1)]]
      /\ bootAt'[b].stage = t /\ bootAt'[b].i = 1
      /\ \A o \in Boots : o # b => bootAt'[o] = bootAt[o]
  BY <1>1, Booting, Moves
<1>3. UNCHANGED hooks /\ \A e \in Events : Len(hooks[e]) \in Nat /\ DOMAIN hooks[e] = 1..Len(hooks[e])
  BY <1>1, Booting DEF confVars
<1>4. \A l : Has(l)' <=> Has(l)
  BY DEF Has
<1>5. HasMounted(b)'
  <2>1. Has(Own("json")) /\ AllMounted("before-middleware") /\ stack # <<>>
    BY <1>1, Booting DEF HasMounted, PastBefore
  <2>2. t = "routes" => AllMounted("after-middleware")
    <3> SUFFICES ASSUME t = "routes" PROVE AllMounted("after-middleware")
      OBVIOUS
    <3>1. /\ bootAt[b].stage = "after-middleware" /\ "after-middleware" \in Events
          /\ bootAt[b].i = Len(hooks["after-middleware"]) + 1
      BY DEF HooksDone, Events
    <3>2. \A k \in 1..(bootAt[b].i - 1) : Has(App(hooks["after-middleware"][k]))
      BY <1>1, <3>1, Booting DEF HasMounted
    <3>3. DOMAIN hooks["after-middleware"] = 1..(bootAt[b].i - 1)
      BY <1>3, <3>1
    <3> QED
      BY <3>2, <3>3 DEF AllMounted
  <2>3. Has(Own("json"))' /\ AllMounted("before-middleware")' /\ stack' # <<>>
    BY <1>3, <1>4, <2>1 DEF AllMounted
  <2>4. t = "routes" => AllMounted("after-middleware")'
    BY <1>3, <1>4, <2>2 DEF AllMounted
  <2>5. t \in Events => bootAt'[b].i \in 1..(Len(hooks'[t]) + 1)
    BY <1>2, <1>3
  <2>6. t = "after-middleware" \/ t = "routes"
    OBVIOUS
  <2> QED
    BY <1>2, <2>3, <2>4, <2>5, <2>6 DEF HasMounted, Events, PastAfter
<1>6. Tidy'
  <2> PICK layers : layers = <<>>
    OBVIOUS
  <2>1. layers \in Seq(Layers) /\ Grows(layers) /\ DOMAIN layers = {}
    BY <1>1, Booting, NoGrowth
  <2>2. \A l : Ahead(b, l)' => Ahead(b, l)
    <3>1. CASE s = "app" /\ t = "after-middleware"
      BY <1>2, <1>3, <3>1 DEF Ahead, Coming, Events
    <3>2. CASE s = "after-middleware" /\ t = "routes"
      BY <1>2, <1>3, <3>2 DEF Ahead, Coming, Events
    <3> QED
      BY <3>1, <3>2
  <2>3. Underway(b)'
    BY <1>2 DEF Underway
  <2> QED
    BY <1>1, <1>2, <2>1, <2>2, <2>3, StillAlone
<1>7. booted' \in BOOLEAN /\ untidy' \in BOOLEAN
  BY <1>1, Booting, Zenon
<1> QED
  BY <1>1, <1>2, <1>5, <1>6, <1>7, Booting, BootRests

LEMMA AppBootsStep ==
  ASSUME BootIInv, NEW b \in Boots, AppBoots(b)
  PROVE  BootIInv'
<1>1. CASE Fail(b)
  BY <1>1, FailStep DEF AppBoots, Underway
<1>2. CASE ~Fail(b)
  <2>1. /\ bootAt[b].stage = "app" /\ GoTo(b, "after-middleware") /\ inflected' = TRUE
        /\ UNCHANGED <<confVars, stack, booted, untidy>>
    BY <1>2 DEF AppBoots
  <2> QED
    BY <2>1, RestingStep
<1> QED
  BY <1>1, <1>2

LEMMA DeclareRoutesStep ==
  ASSUME BootIInv, NEW b \in Boots, DeclareRoutes(b)
  PROVE  BootIInv'
<1>1. /\ bootAt[b].stage = "after-middleware" /\ HooksDone(b, "after-middleware")
      /\ GoTo(b, "routes") /\ UNCHANGED <<confVars, stack, booted, untidy>>
  BY DEF DeclareRoutes, HooksDone
<1>2. inflected' \in BOOLEAN
  BY <1>1, Booting, Zenon DEF DeclareRoutes
<1> QED
  BY <1>1, <1>2, RestingStep

\* The router is mounted when everything it is to run behind is there.
LEMMA BuildRoutesStep ==
  ASSUME BootIInv, NEW b \in Boots, BuildRoutes(b)
  PROVE  BootIInv'
<1>1. CASE Fail(b)
  BY <1>1, FailStep DEF BuildRoutes, Underway
<1>2. CASE ~Fail(b)
  <2> PICK layers : layers = <<Own("router")>>
    OBVIOUS
  <2>1. /\ bootAt[b].stage = "routes" /\ GoTo(b, "after-routes") /\ Mounting(b, layers)
        /\ UNCHANGED <<confVars, booted, inflected, untidy>>
    BY <1>2 DEF BuildRoutes
  <2>2. bootAt[b].stage # "idle" /\ Underway(b) /\ "after-routes" \in Stages
    BY <2>1 DEF Underway, Stages, Events
  <2>3. /\ bootAt' \in [Boots -> [stage : Stages, i : 1..(MaxCalls + 1)]]
        /\ bootAt'[b].stage = "after-routes" /\ bootAt'[b].i = 1
        /\ \A o \in Boots : o # b => bootAt'[o] = bootAt[o]
    BY <2>1, <2>2, Booting, Moves
  <2>4. layers \in Seq(Layers) /\ DOMAIN layers = {1} /\ layers[1] = Own("router")
    BY LayerTypes
  <2>5. Grows(layers) /\ UNCHANGED hooks
    BY <2>1, <2>2, <2>4, Booting, Growth DEF confVars
  <2>6. Has(Own("json")) /\ AllMounted("before-middleware") /\ AllMounted("after-middleware")
        /\ stack # <<>>
    BY <2>1, <2>2, Booting DEF HasMounted, PastBefore, PastAfter
  <2>7. \A l \in Guards : Has(l)
    BY <2>6 DEF Guards, ToSet, AllMounted
  <2>8. HasMounted(b)'
    <3>1. Len(hooks["after-routes"]) \in Nat
      BY <2>2, Booting DEF Events
    <3>2. Has(Own("json"))' /\ stack' # <<>>
      BY <2>2, <2>4, <2>5, <2>6, Booting, HasMore
    <3>3. AllMounted("before-middleware")' /\ AllMounted("after-middleware")'
      BY <2>2, <2>4, <2>5, <2>6, Booting, HasMore DEF AllMounted
    <3> QED
      BY <2>3, <2>5, <3>1, <3>2, <3>3 DEF HasMounted, Events
  <2>9. Tidy'
    <3>1. \A k \in DOMAIN layers : Ahead(b, layers[k])
      BY <2>1, <2>4 DEF Ahead
    <3>2. \A k \in DOMAIN layers : ~Ahead(b, layers[k])'
      <4>1. layers[1] # Own("notFound") /\ \A c : layers[1] # App(c)
        BY <2>4, LayerNames
      <4> QED
        BY <2>3, <2>4, <4>1 DEF Ahead
    <3>3. \A l : Ahead(b, l)' => Ahead(b, l)
      BY <2>1, <2>3, <2>5 DEF Ahead, Coming
    <3>4. Underway(b)'
      BY <2>3 DEF Underway
    <3> QED
      BY <2>1, <2>2, <2>3, <2>4, <2>5, <3>1, <3>2, <3>3, <3>4, StillAlone
  <2>10. booted' \in BOOLEAN /\ inflected' \in BOOLEAN /\ untidy' \in BOOLEAN
    BY <2>1, <2>2, Booting, Zenon
  <2> QED
    BY <2>1, <2>2, <2>3, <2>4, <2>5, <2>6, <2>7, <2>8, <2>9, <2>10, Booting, BootKeeps
<1> QED
  BY <1>1, <1>2

LEMMA FinishBootStep ==
  ASSUME BootIInv, NEW b \in Boots, FinishBoot(b)
  PROVE  BootIInv'
<1>1. /\ bootAt[b].stage = "after-routes" /\ GoTo(b, "done") /\ booted' = TRUE
      /\ UNCHANGED <<confVars, inflected, untidy>>
  BY DEF FinishBoot, HooksDone
<1>2. bootAt[b].stage # "idle" /\ Underway(b) /\ "done" \in Stages
  BY <1>1 DEF Underway, Stages, Events
<1>3. /\ bootAt' \in [Boots -> [stage : Stages, i : 1..(MaxCalls + 1)]]
      /\ bootAt'[b].stage = "done" /\ bootAt'[b].i = 1
      /\ \A o \in Boots : o # b => bootAt'[o] = bootAt[o]
  BY <1>1, <1>2, Booting, Moves
<1>4. PICK layers \in {<<Own("notFound")>>, <<>>} : Mounting(b, layers)
  <2>1. CASE development
    BY <2>1 DEF FinishBoot
  <2>2. CASE ~development
    BY <2>2 DEF FinishBoot
  <2> QED
    BY <2>1, <2>2
<1>5. /\ layers \in Seq(Layers) /\ DOMAIN layers \subseteq {1}
      /\ \A k \in DOMAIN layers : layers[k] = Own("notFound")
  <2>1. CASE layers = <<Own("notFound")>>
    <3>1. DOMAIN layers = {1} /\ layers[1] = Own("notFound")
      BY <2>1
    <3> QED
      BY <2>1, <3>1, LayerTypes
  <2>2. CASE layers = <<>>
    BY <2>2
  <2> QED
    BY <2>1, <2>2
<1>6. Grows(layers) /\ UNCHANGED hooks
  BY <1>1, <1>2, <1>4, <1>5, Booting, Growth DEF confVars
<1>7. HasMounted(b)'
  BY <1>3 DEF HasMounted, Underway, Events, PastBefore, PastAfter
<1>8. Tidy'
  <2> SUFFICES ASSUME ~untidy PROVE Alone'
    BY <1>1 DEF Tidy
  <2>1. Alone
    BY DEF BootIInv, Tidy
  <2>2. \A o \in Boots : ~Underway(o)'
    BY <1>2, <1>3, <2>1 DEF Alone, Underway
  <2>3. \A k \in DOMAIN layers : ~Has(layers[k])
    BY <1>2, <1>5, <2>1 DEF Alone, Ahead, Has
  <2>4. \A k, l \in DOMAIN layers : layers[k] = layers[l] => k = l
    BY <1>5
  <2>5. NoDuplicates'
    BY <1>2, <1>5, <1>6, <2>1, <2>3, <2>4, Booting, StillDistinct DEF Alone
  <2> QED
    BY <1>1, <2>2, <2>5 DEF Alone
<1>9. booted' \in BOOLEAN /\ inflected' \in BOOLEAN /\ untidy' \in BOOLEAN
  BY <1>1, <1>2, Booting, Zenon
<1>10. stack # <<>> /\ \A k \in DOMAIN layers : layers[k] # Own("router")
  BY <1>2, <1>5, LayerNames, Booting DEF HasMounted
<1> QED
  BY <1>1, <1>2, <1>3, <1>5, <1>6, <1>7, <1>8, <1>9, <1>10, Booting, BootKeeps

(***************************************************************************)
(* The theorems                                                            *)
(***************************************************************************)

LEMMA BootStutter ==
  ASSUME BootIInv, UNCHANGED bootVars
  PROVE  BootIInv'
<1>1. UNCHANGED confVars /\ UNCHANGED <<stack, booted, inflected, bootAt, untidy>>
  BY DEF bootVars, serverVars
<1>2. /\ Typed' /\ Registered' /\ Frozen' /\ BoundaryFirst' /\ RoutersGuarded'
  <2>1. Typed'
    BY <1>1, Zenon DEF BootIInv, Typed, BootTypeOK, confVars
  <2>2. Registered' /\ Frozen' /\ BoundaryFirst'
    BY <1>1 DEF BootIInv, Registered, Frozen, BoundaryFirst, confVars
  <2>3. RoutersGuarded'
    BY <1>1 DEF BootIInv, RoutersGuarded, Guards, confVars
  <2> QED
    BY <2>1, <2>2, <2>3
<1>3. AllHaveMounted'
  BY <1>1 DEF BootIInv, AllHaveMounted, HasMounted, Underway, AllMounted, Has, confVars
<1>4. Tidy'
  BY <1>1 DEF BootIInv, Tidy, Alone, Underway, Ahead, NoDuplicates, confVars
<1> QED
  BY <1>2, <1>3, <1>4 DEF BootIInv

\* In every reachable state of a server that boots, every boot() has mounted
\* what its stage stands for, and no other boot() takes it away.
THEOREM BootInvariant == BootSpec => []BootIInv
<1>1. BootIInv /\ [BootNext]_bootVars => BootIInv'
  <2> SUFFICES ASSUME BootIInv, [BootNext]_bootVars PROVE BootIInv'
    OBVIOUS
  <2>1. ASSUME NEW v \in SettingValues, SetImport(v) PROVE BootIInv'
    BY <2>1, ConfigureStep
  <2>2. ASSUME NEW e \in Events, On(e) PROVE BootIInv'
    BY <2>2, ConfigureStep
  <2>3. CASE Plugin
    BY <2>3, ConfigureStep
  <2>4. CASE Proceed
    BY <2>4, ConfigureStep
  <2>5. ASSUME NEW b \in Boots, Start(b) PROVE BootIInv'
    BY <2>5, StartStep
  <2>6. ASSUME NEW b \in Boots, Hook(b) PROVE BootIInv'
    BY <2>6, HookStep
  <2>7. ASSUME NEW b \in Boots, DefaultMiddleware(b) PROVE BootIInv'
    BY <2>7, DefaultMiddlewareStep
  <2>8. ASSUME NEW b \in Boots, AppBoots(b) PROVE BootIInv'
    BY <2>8, AppBootsStep
  <2>9. ASSUME NEW b \in Boots, DeclareRoutes(b) PROVE BootIInv'
    BY <2>9, DeclareRoutesStep
  <2>10. ASSUME NEW b \in Boots, BuildRoutes(b) PROVE BootIInv'
    BY <2>10, BuildRoutesStep
  <2>11. ASSUME NEW b \in Boots, FinishBoot(b) PROVE BootIInv'
    BY <2>11, FinishBootStep
  <2>12. CASE UNCHANGED bootVars
    BY <2>12, BootStutter
  <2> QED
    BY <2>1, <2>2, <2>3, <2>4, <2>5, <2>6, <2>7, <2>8, <2>9, <2>10, <2>11, <2>12 DEF BootNext
<1> QED
  BY <1>1, InitBoot, PTL DEF BootSpec

\* Whatever boots overlap, fail or are repeated, for any number of boots and
\* hooks: what is mounted runs inside an error boundary, no router is reached
\* around the body parser or a middleware of the application, and a tidy stack
\* has nothing twice.
THEOREM AlwaysMountedInOrder == BootSpec => []MountedInOrder
<1>1. BootIInv => MountedInOrder
  <2> SUFFICES ASSUME BootIInv PROVE MountedInOrder
    OBVIOUS
  <2>1. \A i \in DOMAIN stack : \E j \in 1..i : stack[j].layer = Own("boundary")
    <3> SUFFICES ASSUME NEW i \in DOMAIN stack PROVE \E j \in 1..i : stack[j].layer = Own("boundary")
      OBVIOUS
    <3>1. i \in 1..Len(stack) /\ stack # <<>>
      BY TypedStack
    <3>2. 1 \in 1..i
      BY <3>1
    <3> QED
      BY <3>1, <3>2 DEF BootIInv, BoundaryFirst
  <2>2. ~untidy => NoDuplicates
    BY DEF BootIInv, Tidy, Alone
  <2>3. RoutersGuarded
    BY DEF BootIInv
  <2> QED
    BY <2>1, <2>2, <2>3 DEF MountedInOrder, NoDuplicates, RoutersGuarded, Guards
<1> QED
  BY <1>1, BootInvariant, PTL

(***************************************************************************)
(* The OpenAPI document: for any app whose serializers render those of the *)
(* app, however they refer to one another.  Walks of what serializers      *)
(* spread come first, then one renderer, the stack of the renderers'       *)
(* calls, their steps, and the document.                                   *)
(***************************************************************************)

(***************************************************************************)
(* What serializers spread                                                 *)
(***************************************************************************)

\* Whatever a serializer flattens is one of the app's.
LEMMA FlattenedTypes ==
  ASSUME NEW g, Renderable(g), NEW s \in DOMAIN g
  PROVE  Flattened(g, s) \subseteq DOMAIN g
<1> SUFFICES ASSUME NEW i \in DOMAIN g[s], NEW t \in ToSet(g[s][i].to) PROVE t \in DOMAIN g
  BY DEF Flattened
<1>1. g[s][i].to \in Seq(DOMAIN g)
  BY DEF Renderable
<1>2. PICK j \in DOMAIN g[s][i].to : t = g[s][i].to[j]
  BY DEF ToSet
<1> QED
  BY <1>1, <1>2, ElementOfSeq

\* What a serializer spreads holds it, and whatever one of them flattens.
LEMMA SpreadClosed ==
  ASSUME NEW g, Renderable(g), NEW s \in DOMAIN g
  PROVE  /\ Spread(g, s) \subseteq DOMAIN g /\ s \in Spread(g, s)
         /\ \A u \in Spread(g, s) : Flattened(g, u) \subseteq Spread(g, s)
<1>1. Spread(g, s) \subseteq DOMAIN g /\ s \in Spread(g, s)
  BY DEF Spread
<1>2. ASSUME NEW u \in Spread(g, s), NEW t \in Flattened(g, u) PROVE t \in Spread(g, s)
  <2>1. t \in DOMAIN g
    BY <1>1, FlattenedTypes
  <2>2. ASSUME NEW S \in SUBSET DOMAIN g, s \in S, \A v \in S : Flattened(g, v) \subseteq S
        PROVE  t \in S
    <3>1. u \in S
      BY <2>2 DEF Spread
    <3> QED
      BY <2>2, <3>1
  <2> QED
    BY <2>1, <2>2 DEF Spread
<1> QED
  BY <1>1, <1>2

\* It is the least such set.
LEMMA SpreadLeast ==
  ASSUME NEW g, NEW s, NEW S \in SUBSET DOMAIN g,
         s \in S, \A u \in S : Flattened(g, u) \subseteq S
  PROVE  Spread(g, s) \subseteq S
BY DEF Spread

\* Those that another one spreads spread nothing that it does not.
LEMMA SpreadWithin ==
  ASSUME NEW g, Renderable(g), NEW s \in DOMAIN g, NEW t \in Spread(g, s)
  PROVE  Spread(g, t) \subseteq Spread(g, s)
<1>1. /\ Spread(g, s) \in SUBSET DOMAIN g
      /\ \A u \in Spread(g, s) : Flattened(g, u) \subseteq Spread(g, s)
  BY SpreadClosed
<1> HIDE DEF Spread
<1> QED
  BY <1>1, SpreadLeast

\* A serializer spreads itself and what the ones that it flattens spread.
LEMMA SpreadSteps ==
  ASSUME NEW g, Renderable(g), NEW s \in DOMAIN g, NEW t \in Spread(g, s), t # s
  PROVE  \E u \in Flattened(g, s) : t \in Spread(g, u)
<1> DEFINE S == {s} \cup UNION {Spread(g, u) : u \in Flattened(g, s)}
<1>1. Flattened(g, s) \subseteq DOMAIN g
  BY FlattenedTypes
<1>2. S \in SUBSET DOMAIN g
  BY <1>1, SpreadClosed
<1>3. ASSUME NEW u \in S PROVE Flattened(g, u) \subseteq S
  <2>1. CASE u = s
    BY <1>1, <2>1, SpreadClosed
  <2>2. CASE u # s
    <3>1. PICK v \in Flattened(g, s) : u \in Spread(g, v)
      BY <2>2
    <3>2. Flattened(g, u) \subseteq Spread(g, v)
      BY <1>1, <3>1, SpreadClosed
    <3> QED
      BY <3>2
  <2> QED
    BY <2>1, <2>2
<1>4. s \in S
  OBVIOUS
<1>5. Spread(g, s) \subseteq S
  <2> HIDE DEF S
  <2> QED
    BY <1>2, <1>3, <1>4, SpreadLeast
<1> QED
  BY <1>5

\* The keys of a serializer are those at its attributes.
LEMMA KeysByAttribute ==
  ASSUME NEW g, Renderable(g), NEW s \in DOMAIN g
  PROVE  \A k : k \in KeysOf(g, s) <=> \E i \in DOMAIN g[s] : k \in KeysAt(g, s, i)
<1>1. ASSUME NEW k \in KeysOf(g, s) PROVE \E i \in DOMAIN g[s] : k \in KeysAt(g, s, i)
  <2>1. PICK t \in Spread(g, s) : \E i \in DOMAIN g[t] : k \in g[t][i].keys
    BY <1>1 DEF KeysOf
  <2>2. CASE t = s
    BY <2>1, <2>2 DEF KeysAt
  <2>3. CASE t # s
    <3>1. PICK u \in Flattened(g, s) : t \in Spread(g, u)
      BY <2>3, SpreadSteps
    <3>2. PICK i \in DOMAIN g[s] : g[s][i].flatten /\ u \in ToSet(g[s][i].to)
      BY <3>1 DEF Flattened
    <3>3. k \in KeysOf(g, u)
      BY <2>1, <3>1 DEF KeysOf
    <3> QED
      BY <3>2, <3>3 DEF KeysAt
  <2> QED
    BY <2>2, <2>3
<1>2. ASSUME NEW k, NEW i \in DOMAIN g[s], k \in KeysAt(g, s, i) PROVE k \in KeysOf(g, s)
  <2>1. CASE k \in g[s][i].keys
    BY <2>1, SpreadClosed DEF KeysOf
  <2>2. CASE k \notin g[s][i].keys
    <3>1. g[s][i].flatten
      BY <1>2, <2>2 DEF KeysAt
    <3>2. PICK u \in ToSet(g[s][i].to) : k \in KeysOf(g, u)
      BY <1>2, <2>2, <3>1 DEF KeysAt
    <3>3. u \in Flattened(g, s)
      BY <3>1, <3>2 DEF Flattened
    <3>4. u \in Spread(g, s)
      BY <3>3, SpreadClosed
    <3>5. Spread(g, u) \subseteq Spread(g, s)
      BY <3>4, SpreadWithin
    <3> QED
      BY <3>2, <3>5 DEF KeysOf
  <2> QED
    BY <2>1, <2>2
<1> QED
  BY <1>1, <1>2

\* The attribute i is the last of s to render the key k.
WinsAt(g, s, i, k) ==
    k \in KeysAt(g, s, i) /\ \A j \in DOMAIN g[s] : j > i => k \notin KeysAt(g, s, j)

\* Some attribute is the last to render a key, and no other one is.
LEMMA SomeWins ==
  ASSUME NEW g, Renderable(g), NEW s \in DOMAIN g, NEW i \in DOMAIN g[s], NEW k,
         k \in KeysAt(g, s, i)
  PROVE  \E j \in DOMAIN g[s] : j >= i /\ WinsAt(g, s, j, k)
<1> DEFINE n == Len(g[s])
           T == {m \in Nat : m <= n /\ k \in KeysAt(g, s, n - m)  /\ n - m \in 1..n}
<1>1. n \in Nat /\ DOMAIN g[s] = 1..n
  <2>1. g[s] \in Seq(ToSet(g[s]))
    BY DEF Renderable
  <2> QED
    BY <2>1, LenProperties
<1> HIDE DEF n
<1>2. n - i \in T
  <2>1. n - (n - i) = i /\ n - i \in Nat /\ n - i <= n
    BY <1>1
  <2> QED
    BY <1>1, <2>1
<1>3. PICK m \in T : \A x \in T : m <= x
  <2>1. T \in SUBSET Nat /\ T # {}
    BY <1>2
  <2> QED
    BY <2>1, SmallestOf
<1>4. n - m \in DOMAIN g[s] /\ n - m >= i /\ k \in KeysAt(g, s, n - m)
  BY <1>1, <1>2, <1>3
<1>5. ASSUME NEW j \in DOMAIN g[s], j > n - m PROVE k \notin KeysAt(g, s, j)
  <2>1. n - (n - j) = j /\ n - j \in Nat /\ n - j <= n /\ n - j < m
    BY <1>1, <1>3, <1>5
  <2>2. n - j \notin T
    BY <1>1, <1>3, <2>1
  <2> QED
    BY <1>1, <2>1, <2>2
<1> HIDE DEF T
<1> QED
  BY <1>4, <1>5 DEF WinsAt

\* It is the attribute that CHOOSE finds.
LEMMA OneWins ==
  ASSUME NEW g, Renderable(g), NEW s \in DOMAIN g, NEW i \in DOMAIN g[s], NEW k,
         WinsAt(g, s, i, k)
  PROVE  LastAt(g, s, k) = i
<1>1. g[s] \in Seq(ToSet(g[s]))
  BY DEF Renderable
<1>2. DOMAIN g[s] \subseteq Nat
  BY <1>1, LenProperties
<1>3. \A j \in DOMAIN g[s] : WinsAt(g, s, j, k) => j = i
  BY <1>2 DEF WinsAt
<1>4. LastAt(g, s, k) = CHOOSE j \in DOMAIN g[s] : WinsAt(g, s, j, k)
  BY DEF LastAt, WinsAt
<1> QED
  BY <1>3, <1>4

(***************************************************************************)
(* One renderer                                                            *)
(***************************************************************************)

Fields == {"of", "forKeys", "entry", "already", "walking", "next", "called", "spread", "left",
           "properties", "siblings", "referenced", "claimed", "byFlattened"}

FrameTyped(g, c) ==
    /\ DOMAIN c = Fields
    /\ c.of \in DOMAIN g /\ c.forKeys \in BOOLEAN
    /\ c.next \in 1..(Len(g[c.of]) + 1) /\ c.called \in Nat /\ c.left \in 0..Len(g[c.of])
    /\ c.next <= Len(g[c.of]) => c.left = Len(g[c.of])
    /\ c.already \subseteq DOMAIN g /\ c.walking \subseteq DOMAIN g
    /\ c.referenced \subseteq DOMAIN g

\* Its keys are rendered from declarations of what it spreads, and the refs of
\* its siblings are of what it renders, all of which it refers to.
DeclaredIn(g, s, p) == p[1] \in Spread(g, s) /\ p[2] \in DOMAIN g[p[1]]
AllDeclared(g, s, f) == \A k \in DOMAIN f : DeclaredIn(g, s, f[k])
SiblingTyped(g, s, i, b) ==
    /\ DOMAIN b = {"properties", "ref"}
    /\ AllDeclared(g, s, b.properties)
    /\ b.ref \in {"none"} \cup ToSet(g[s][i].to)
FrameRefers(g, c) ==
    /\ AllDeclared(g, c.of, c.spread) /\ AllDeclared(g, c.of, c.properties)
    /\ DOMAIN c.siblings = {i \in DOMAIN g[c.of] : i < c.next /\ g[c.of][i].flatten}
    /\ \A i \in DOMAIN c.siblings : SiblingTyped(g, c.of, i, c.siblings[i])
    /\ \A i \in DOMAIN g[c.of] : i < c.next => ToSet(g[c.of][i].to) \subseteq c.referenced

\* What of its keys the attributes after `left` have claimed; and what the
\* attributes before `next` have left, once these have had their turn.
ClaimsRight(g, c) ==
    /\ \A k : k \in c.claimed <=>
          \E j \in DOMAIN g[c.of] : j > c.left /\ k \in KeysAt(g, c.of, j)
    /\ \A k : k \in c.byFlattened <=>
          \E j \in DOMAIN g[c.of] : j > c.left /\ g[c.of][j].flatten /\ WinsAt(g, c.of, j, k)
SiblingRight(g, c, i) ==
    LET b == c.siblings[i] IN
    /\ \A k : k \in DOMAIN b.properties <=>
          k \in KeysAt(g, c.of, i) /\ (i > c.left => WinsAt(g, c.of, i, k))
    /\ b.ref # "none" =>
          /\ KeysOf(g, b.ref) = KeysAt(g, c.of, i)
          /\ i > c.left => \A k \in KeysAt(g, c.of, i) : WinsAt(g, c.of, i, k)
OwnAt(g, c, i, k) ==
    i < c.next /\ ~g[c.of][i].flatten /\ k \in g[c.of][i].keys
LostTo(g, c, j, k) == g[c.of][j].flatten /\ WinsAt(g, c.of, j, k)
PropertiesRight(g, c) ==
    /\ \A k : k \in DOMAIN c.properties <=>
          /\ \E i \in DOMAIN g[c.of] : OwnAt(g, c, i, k)
          /\ \A i, j \in DOMAIN g[c.of] :
               i > c.left /\ j > i /\ OwnAt(g, c, i, k) => ~LostTo(g, c, j, k)
    /\ \A k \in DOMAIN c.properties : \E i \in DOMAIN g[c.of] :
          /\ c.properties[k][2] = i /\ OwnAt(g, c, i, k)
          /\ \A j \in DOMAIN g[c.of] : j > i => ~OwnAt(g, c, j, k)
FrameKeys(g, c) ==
    /\ \A u \in c.walking : c.of \in Spread(g, u)
    /\ ClaimsRight(g, c)
    /\ \A i \in DOMAIN c.siblings : SiblingRight(g, c, i)
    /\ PropertiesRight(g, c)

\* The first d calls for the attribute at hand have returned.
SpreadAfter(g, c, d) ==
    c.next <= Len(g[c.of]) =>
       LET made == CallsOf(g[c.of][c.next]) IN
       \A k : k \in DOMAIN c.spread <=>
          \E j \in 1..d : made[j].forKeys /\ k \in KeysOf(g, made[j].of)

\* Attributes are numbered.
LEMMA AttributesNumbered ==
  ASSUME NEW g, Renderable(g), NEW s \in DOMAIN g
  PROVE  Len(g[s]) \in Nat /\ DOMAIN g[s] = 1..Len(g[s]) /\ DOMAIN g[s] \subseteq Nat
<1>1. g[s] \in Seq(ToSet(g[s]))
  BY DEF Renderable
<1> QED
  BY <1>1, LenProperties

\* An attribute calls renderers of its serializers, for keys only if it is
\* flattened, and then for all of them.
LEMMA CallTypes ==
  ASSUME NEW D, NEW a, a.to \in Seq(D), a.flatten \in BOOLEAN
  PROVE  /\ CallsOf(a) \in Seq([of : ToSet(a.to), forKeys : BOOLEAN])
         /\ \A j \in 1..Len(CallsOf(a)) : CallsOf(a)[j].forKeys => a.flatten
         /\ a.flatten => \A t \in ToSet(a.to) :
               \E j \in 1..Len(CallsOf(a)) : CallsOf(a)[j] = [of |-> t, forKeys |-> TRUE]
<1> DEFINE C == [of : ToSet(a.to), forKeys : BOOLEAN]
           To(forKeys) == [j \in DOMAIN a.to |-> [of |-> a.to[j], forKeys |-> forKeys]]
           spread == IF a.flatten THEN To(TRUE) ELSE <<>>
<1>2. DOMAIN a.to = 1..Len(a.to) /\ Len(a.to) \in Nat
  BY LenProperties
<1>3. ASSUME NEW forKeys \in BOOLEAN
      PROVE  To(forKeys) \in Seq(C) /\ Len(To(forKeys)) = Len(a.to)
  BY <1>2, IsASeq DEF ToSet
<1>4. spread \in Seq(C) /\ To(FALSE) \in Seq(C)
  BY <1>3, EmptySeq
<1>5. CallsOf(a) = IF a.kind = "custom" THEN spread \o To(FALSE) ELSE To(FALSE) \o spread
  BY DEF CallsOf
<1>6. \A j \in 1..Len(spread) : spread[j].forKeys /\ a.flatten
  BY <1>2, <1>3
<1>7. \A j \in 1..Len(To(FALSE)) : ~To(FALSE)[j].forKeys
  BY <1>2, <1>3
<1>8. ASSUME a.flatten, NEW t \in ToSet(a.to)
      PROVE  \E j \in 1..Len(spread) : spread[j] = [of |-> t, forKeys |-> TRUE]
  BY <1>2, <1>3, <1>8 DEF ToSet
<1> DEFINE rest == To(FALSE)
<1>9. rest \in Seq(C) /\ spread \in Seq(C) /\ \A j \in 1..Len(rest) : ~rest[j].forKeys
  BY <1>4, <1>7
<1> HIDE DEF C, spread, rest
<1>10. ASSUME NEW p \in Seq(C), NEW q \in Seq(C), CallsOf(a) = p \o q,
              \/ p = spread /\ q = rest
              \/ p = rest /\ q = spread
       PROVE  /\ CallsOf(a) \in Seq(C)
              /\ \A j \in 1..Len(CallsOf(a)) : CallsOf(a)[j].forKeys => a.flatten
              /\ a.flatten => \A t \in ToSet(a.to) :
                    \E j \in 1..Len(CallsOf(a)) : CallsOf(a)[j] = [of |-> t, forKeys |-> TRUE]
  <2> DEFINE made == CallsOf(a)
  <2>1. /\ made \in Seq(C) /\ Len(made) = Len(p) + Len(q) /\ Len(p) \in Nat /\ Len(q) \in Nat
        /\ \A j \in 1..Len(p) : made[j] = p[j]
        /\ \A j \in 1..Len(q) : made[Len(p) + j] = q[j]
    BY <1>10, ConcatProperties, LenProperties
  <2>2. \A j \in 1..Len(made) : j \in 1..Len(p) \/ \E m \in 1..Len(q) : j = Len(p) + m
    <3> SUFFICES ASSUME NEW j \in 1..Len(made), j \notin 1..Len(p)
                 PROVE  \E m \in 1..Len(q) : j = Len(p) + m
      OBVIOUS
    <3>1. j - Len(p) \in 1..Len(q) /\ j = Len(p) + (j - Len(p))
      BY <2>1
    <3> QED
      BY <3>1
  <2> HIDE DEF made
  <2>3. ASSUME NEW j \in 1..Len(made), made[j].forKeys PROVE a.flatten
    <3>1. CASE j \in 1..Len(p)
      <4>1. p[j].forKeys
        BY <2>1, <2>3, <3>1
      <4> QED
        BY <1>6, <1>9, <1>10, <3>1, <4>1
    <3>2. ASSUME NEW m \in 1..Len(q), j = Len(p) + m PROVE a.flatten
      <4>1. q[m].forKeys
        BY <2>1, <2>3, <3>2
      <4> QED
        BY <1>6, <1>9, <1>10, <4>1
    <3> QED
      BY <2>2, <3>1, <3>2
  <2>4. ASSUME a.flatten, NEW t \in ToSet(a.to)
        PROVE  \E j \in 1..Len(made) : made[j] = [of |-> t, forKeys |-> TRUE]
    <3>1. PICK m \in 1..Len(spread) : spread[m] = [of |-> t, forKeys |-> TRUE]
      BY <1>8, <2>4
    <3>2. CASE p = spread
      <4>1. m \in 1..Len(made) /\ made[m] = p[m]
        BY <2>1, <3>1, <3>2
      <4> QED
        BY <3>1, <3>2, <4>1
    <3>3. CASE q = spread
      <4>1. Len(p) + m \in 1..Len(made) /\ made[Len(p) + m] = q[m]
        BY <2>1, <3>1, <3>3
      <4> QED
        BY <3>1, <3>3, <4>1
    <3> QED
      BY <1>10, <3>2, <3>3
  <2> QED
    BY <2>1, <2>3, <2>4 DEF made
<1>11. CASE a.kind = "custom"
  <2>1. CallsOf(a) = spread \o rest
    BY <1>5, <1>11 DEF spread, rest
  <2> QED
    BY <1>9, <1>10, <2>1 DEF C
<1>12. CASE a.kind # "custom"
  <2>1. CallsOf(a) = rest \o spread
    BY <1>5, <1>12 DEF spread, rest
  <2> QED
    BY <1>9, <1>10, <2>1 DEF C
<1> QED
  BY <1>11, <1>12

\* A renderer that is entered has rendered nothing.
Fresh(g, d) ==
    /\ DOMAIN d = Fields /\ d.of \in DOMAIN g /\ d.forKeys \in BOOLEAN
    /\ d.already \subseteq DOMAIN g /\ d.walking \subseteq DOMAIN g
    /\ d.next = 1 /\ d.called = 0 /\ d.spread = << >> /\ d.left = Len(g[d.of])
    /\ d.properties = << >> /\ d.siblings = << >> /\ d.referenced = {}
    /\ d.claimed = {} /\ d.byFlattened = {}

\* A renderer that has rendered nothing yet is right.
LEMMA FreshRight ==
  ASSUME NEW g, Renderable(g), NEW d, Fresh(g, d)
  PROVE  /\ FrameTyped(g, d) /\ FrameRefers(g, d) /\ SpreadAfter(g, d, d.called)
         /\ (\A u \in d.walking : d.of \in Spread(g, u)) => FrameKeys(g, d)
<1> DEFINE n == Len(g[d.of])
<1>1. n \in Nat /\ DOMAIN g[d.of] = 1..n
  BY AttributesNumbered DEF Fresh
<1>2. DOMAIN << >> = {}
  OBVIOUS
<1>3. FrameTyped(g, d)
  BY <1>1 DEF FrameTyped, Fresh
<1>4. FrameRefers(g, d)
  <2>1. DOMAIN d.siblings = {i \in DOMAIN g[d.of] : i < d.next /\ g[d.of][i].flatten}
    BY <1>1, <1>2 DEF Fresh
  <2> QED
    BY <1>1, <1>2, <2>1 DEF FrameRefers, AllDeclared, Fresh
<1>5. SpreadAfter(g, d, d.called)
  BY <1>2 DEF SpreadAfter, Fresh
<1>6. ASSUME \A u \in d.walking : d.of \in Spread(g, u) PROVE FrameKeys(g, d)
  <2>1. ClaimsRight(g, d)
    BY <1>1 DEF ClaimsRight, Fresh
  <2>2. PropertiesRight(g, d)
    BY <1>1, <1>2 DEF PropertiesRight, OwnAt, Fresh
  <2> QED
    BY <1>2, <1>6, <2>1, <2>2 DEF FrameKeys, Fresh
<1> QED
  BY <1>3, <1>4, <1>5, <1>6

\* The entries of one function over another's.
LEMMA OverEntries ==
  ASSUME NEW f, NEW h
  PROVE  /\ DOMAIN Over(f, h) = DOMAIN f \cup DOMAIN h
         /\ \A k \in DOMAIN f : Over(f, h)[k] = f[k]
         /\ \A k \in DOMAIN h : k \notin DOMAIN f => Over(f, h)[k] = h[k]
BY DEF Over

\* A sibling is rendered from what the calls returned.
LEMMA SiblingMade ==
  ASSUME NEW g, Renderable(g), NEW c, FrameTyped(g, c), FrameRefers(g, c),
         c.next <= Len(g[c.of]), g[c.of][c.next].flatten
  PROVE  LET b == Sibling(g[c.of][c.next], c) IN
         /\ SiblingTyped(g, c.of, c.next, b)
         /\ SpreadAfter(g, c, Len(CallsOf(g[c.of][c.next]))) =>
              /\ DOMAIN b.properties = KeysAt(g, c.of, c.next)
              /\ b.ref # "none" => KeysOf(g, b.ref) = KeysAt(g, c.of, c.next)
<1> DEFINE a == g[c.of][c.next]
           b == Sibling(a, c)
<1>1. c.of \in DOMAIN g /\ c.next \in 1..Len(g[c.of])
  BY DEF FrameTyped
<1>2. c.next \in DOMAIN g[c.of] /\ c.of \in Spread(g, c.of)
  BY <1>1, AttributesNumbered, SpreadClosed
<1>3. a.to \in Seq(DOMAIN g) /\ a.flatten \in BOOLEAN
  BY <1>1, <1>2 DEF Renderable
<1>4. /\ DOMAIN b = {"properties", "ref"} /\ b.properties = Over(Here(a, c), c.spread)
      /\ b.ref = IF Len(a.to) = 1 /\ a.keys = {} /\ ~a.optional THEN a.to[1] ELSE "none"
  BY DEF Sibling
<1>5. DOMAIN Here(a, c) = a.keys /\ \A k \in a.keys : Here(a, c)[k] = <<c.of, c.next>>
  BY DEF Here
<1> HIDE DEF a, b
<1>6. ASSUME b.ref # "none" PROVE ToSet(a.to) = {b.ref}
  <2>1. Len(a.to) = 1 /\ b.ref = a.to[1]
    BY <1>4, <1>6
  <2>2. DOMAIN a.to = 1..1
    BY <1>3, <2>1, LenProperties
  <2> QED
    BY <2>1, <2>2 DEF ToSet
<1>7. AllDeclared(g, c.of, b.properties)
  <2>1. AllDeclared(g, c.of, c.spread)
    BY DEF FrameRefers
  <2>2. DeclaredIn(g, c.of, <<c.of, c.next>>)
    BY <1>2 DEF DeclaredIn
  <2> SUFFICES ASSUME NEW k \in DOMAIN b.properties PROVE DeclaredIn(g, c.of, b.properties[k])
    BY DEF AllDeclared
  <2> DEFINE f == Here(a, c)
             h == c.spread
  <2> HIDE DEF f, h
  <2>3. /\ DOMAIN Over(f, h) = DOMAIN f \cup DOMAIN h
        /\ k \in DOMAIN f => Over(f, h)[k] = f[k]
        /\ k \in DOMAIN h /\ k \notin DOMAIN f => Over(f, h)[k] = h[k]
    BY DEF Over
  <2>4. /\ k \in a.keys => b.properties[k] = <<c.of, c.next>>
        /\ k \notin a.keys => k \in DOMAIN h /\ b.properties[k] = h[k]
    BY <1>4, <1>5, <2>3 DEF f, h
  <2>5. k \in DOMAIN h => DeclaredIn(g, c.of, h[k])
    BY <2>1 DEF AllDeclared, h
  <2> QED
    BY <2>2, <2>4, <2>5, Zenon DEF AllDeclared
<1>8. SiblingTyped(g, c.of, c.next, b)
  <2>1. b.ref \in {"none"} \cup ToSet(a.to)
    BY <1>6
  <2> QED
    BY <1>4, <1>7, <2>1 DEF SiblingTyped, a
<1>9. ASSUME SpreadAfter(g, c, Len(CallsOf(a)))
      PROVE  /\ DOMAIN b.properties = KeysAt(g, c.of, c.next)
             /\ b.ref # "none" => KeysOf(g, b.ref) = KeysAt(g, c.of, c.next)
  <2> DEFINE made == CallsOf(a)
  <2>1. \A k : k \in DOMAIN c.spread <=>
          \E j \in 1..Len(made) : made[j].forKeys /\ k \in KeysOf(g, made[j].of)
    BY <1>9 DEF SpreadAfter, a
  <2>2. /\ made \in Seq([of : ToSet(a.to), forKeys : BOOLEAN])
        /\ \A t \in ToSet(a.to) :
             \E j \in 1..Len(made) : made[j] = [of |-> t, forKeys |-> TRUE]
    <3>1. a.flatten
      BY DEF a
    <3> QED
      BY <1>3, <3>1, CallTypes
  <2>3. \A j \in 1..Len(made) : made[j].of \in ToSet(a.to)
    <3> SUFFICES ASSUME NEW j \in 1..Len(made) PROVE made[j].of \in ToSet(a.to)
      OBVIOUS
    <3>1. made[j] \in [of : ToSet(a.to), forKeys : BOOLEAN]
      BY <2>2, ElementOfSeq
    <3> QED
      BY <3>1
  <2> HIDE DEF made
  <2>4. \A k : k \in DOMAIN c.spread <=> \E t \in ToSet(a.to) : k \in KeysOf(g, t)
    <3>1. ASSUME NEW k, NEW t \in ToSet(a.to), k \in KeysOf(g, t) PROVE k \in DOMAIN c.spread
      <4>1. PICK j \in 1..Len(made) : made[j] = [of |-> t, forKeys |-> TRUE]
        BY <2>2
      <4>2. made[j].forKeys /\ made[j].of = t
        BY <4>1
      <4> QED
        BY <2>1, <3>1, <4>2
    <3> QED
      BY <2>1, <2>3, <3>1
  <2>5. KeysAt(g, c.of, c.next) = a.keys \cup DOMAIN c.spread
    BY <2>4 DEF KeysAt, a
  <2>6. DOMAIN b.properties = KeysAt(g, c.of, c.next)
    <3>1. DOMAIN Over(Here(a, c), c.spread) = DOMAIN Here(a, c) \cup DOMAIN c.spread
      BY OverEntries
    <3> QED
      BY <1>4, <1>5, <2>5, <3>1
  <2>7. ASSUME b.ref # "none" PROVE KeysOf(g, b.ref) = KeysAt(g, c.of, c.next)
    <3>1. a.keys = {}
      BY <1>4, <2>7
    <3> QED
      BY <1>6, <2>4, <2>5, <2>7, <3>1
  <2> QED
    BY <2>6, <2>7
<1> QED
  BY <1>8, <1>9 DEF a, b

\* An attribute is rendered right: what the renderer holds stays as it should be,
\* and has the keys of the attribute if the calls have returned theirs.
LEMMA RenderedRight ==
  ASSUME NEW g, Renderable(g), NEW c, FrameTyped(g, c), FrameRefers(g, c),
         c.next <= Len(g[c.of]), NEW d, d = AttributeRendered(g[c.of][c.next], c)
  PROVE  /\ FrameTyped(g, d) /\ FrameRefers(g, d) /\ SpreadAfter(g, d, d.called)
         /\ d.of = c.of /\ d.forKeys = c.forKeys /\ d.already = c.already
         /\ c.referenced \subseteq d.referenced
         /\ FrameKeys(g, c) /\ SpreadAfter(g, c, Len(CallsOf(g[c.of][c.next]))) =>
              FrameKeys(g, d)
<1> DEFINE s == c.of
           i == c.next
           n == Len(g[s])
           a == g[s][i]
<1>1. /\ n \in Nat /\ DOMAIN g[s] = 1..n /\ s \in DOMAIN g /\ i \in 1..n /\ c.left = n
      /\ DOMAIN c = Fields
  BY AttributesNumbered DEF FrameTyped
<1>2. a.to \in Seq(DOMAIN g) /\ a.flatten \in BOOLEAN
  BY <1>1 DEF Renderable
<1>3. /\ DOMAIN d = Fields /\ d.of = s /\ d.forKeys = c.forKeys
      /\ d.already = c.already /\ d.walking = c.walking /\ d.left = c.left
      /\ d.claimed = c.claimed /\ d.byFlattened = c.byFlattened
      /\ d.next = i + 1 /\ d.called = 0 /\ d.spread = << >>
      /\ d.referenced = c.referenced \cup ToSet(a.to)
      /\ a.flatten => /\ d.siblings = Over([x \in {i} |-> Sibling(a, c)], c.siblings)
                      /\ d.properties = c.properties
      /\ ~a.flatten => /\ d.properties = Over(Here(a, c), c.properties)
                       /\ d.siblings = c.siblings
  <2>1. d = AttributeRendered(a, c)
    OBVIOUS
  <2> HIDE DEF a
  <2>2. a.flatten \in BOOLEAN
    BY <1>2
  <2>3. PICK done : done = [c EXCEPT !.next = @ + 1, !.called = 0, !.spread = << >>,
                                     !.referenced = @ \cup ToSet(a.to)]
    OBVIOUS
  <2>4. /\ a.flatten =>
             d = [done EXCEPT !.siblings = Over([x \in {c.next} |-> Sibling(a, c)], @)]
        /\ ~a.flatten => d = [done EXCEPT !.properties = Over(Here(a, c), @)]
    BY <2>1, <2>3 DEF AttributeRendered
  <2>5. /\ DOMAIN done = Fields /\ done.of = s /\ done.forKeys = c.forKeys
        /\ done.already = c.already /\ done.walking = c.walking /\ done.left = c.left
        /\ done.claimed = c.claimed /\ done.byFlattened = c.byFlattened
        /\ done.next = i + 1 /\ done.called = 0 /\ done.spread = << >>
        /\ done.referenced = c.referenced \cup ToSet(a.to)
        /\ done.siblings = c.siblings /\ done.properties = c.properties
    BY <1>1, <2>3 DEF Fields
  <2>6. CASE a.flatten
    <3>1. PICK h : h = Over([x \in {i} |-> Sibling(a, c)], c.siblings)
      OBVIOUS
    <3>2. d = [done EXCEPT !.siblings = h]
      BY <2>4, <2>5, <2>6, <3>1
    <3> QED
      BY <2>5, <2>6, <3>1, <3>2 DEF Fields
  <2>7. CASE ~a.flatten
    <3>1. PICK h : h = Over(Here(a, c), c.properties)
      OBVIOUS
    <3>2. d = [done EXCEPT !.properties = h]
      BY <2>4, <2>5, <2>7, <3>1
    <3> QED
      BY <2>5, <2>7, <3>1, <3>2 DEF Fields
  <2> QED
    BY <2>2, <2>6, <2>7
<1>4. ToSet(a.to) \subseteq DOMAIN g
  BY <1>2, ElementOfSeq, LenProperties DEF ToSet
<1>5. /\ a.flatten => SiblingTyped(g, s, i, Sibling(a, c))
      /\ a.flatten /\ SpreadAfter(g, c, Len(CallsOf(a))) =>
           /\ DOMAIN Sibling(a, c).properties = KeysAt(g, s, i)
           /\ Sibling(a, c).ref # "none" => KeysOf(g, Sibling(a, c).ref) = KeysAt(g, s, i)
  BY <1>1, SiblingMade
<1>6. DOMAIN << >> = {}
  OBVIOUS
<1>7. DOMAIN c.siblings = {x \in 1..n : x < i /\ g[s][x].flatten}
  BY <1>1 DEF FrameRefers
<1>8. DOMAIN Here(a, c) = a.keys /\ \A k \in a.keys : Here(a, c)[k] = <<s, i>>
  BY DEF Here
<1> HIDE DEF s, i, a, n
<1>9. /\ DOMAIN d.siblings = {x \in 1..n : x < i + 1 /\ g[s][x].flatten}
      /\ a.flatten => d.siblings[i] = Sibling(a, c)
      /\ \A x \in DOMAIN c.siblings : d.siblings[x] = c.siblings[x]
  <2>1. CASE a.flatten
    <3> DEFINE b == Sibling(a, c)
               h == c.siblings
    <3> HIDE DEF b, h
    <3>1. /\ DOMAIN Over([x \in {i} |-> b], h) = {i} \cup DOMAIN h
          /\ Over([x \in {i} |-> b], h)[i] = b
          /\ \A x \in DOMAIN h : x # i => Over([y \in {i} |-> b], h)[x] = h[x]
      BY DEF Over
    <3>2. d.siblings = Over([x \in {i} |-> b], h)
      BY <1>3, <2>1 DEF b, h
    <3>3. \A x \in 1..n : x < i + 1 <=> x < i \/ x = i
      BY <1>1
    <3>4. g[s][i].flatten
      BY <2>1 DEF a
    <3>5. DOMAIN d.siblings = {x \in 1..n : x < i + 1 /\ g[s][x].flatten}
      BY <1>1, <1>7, <3>1, <3>2, <3>3, <3>4 DEF h
    <3>6. \A x \in DOMAIN h : x # i
      BY <1>1, <1>7 DEF h
    <3> QED
      BY <3>1, <3>2, <3>5, <3>6 DEF b, h
  <2>2. CASE ~a.flatten
    <3>1. \A x \in 1..n : x < i + 1 <=> x < i \/ x = i
      BY <1>1
    <3>2. ~g[s][i].flatten
      BY <2>2 DEF a
    <3>3. {x \in 1..n : x < i + 1 /\ g[s][x].flatten} = {x \in 1..n : x < i /\ g[s][x].flatten}
      BY <3>1, <3>2
    <3>4. d.siblings = c.siblings
      BY <1>3, <2>2
    <3> QED
      BY <1>7, <2>2, <3>3, <3>4
  <2> QED
    BY <2>1, <2>2
<1>10. /\ DOMAIN d.properties = IF a.flatten THEN DOMAIN c.properties
                                ELSE a.keys \cup DOMAIN c.properties
       /\ \A k \in DOMAIN c.properties :
            k \notin a.keys \/ a.flatten => d.properties[k] = c.properties[k]
       /\ ~a.flatten => \A k \in a.keys : d.properties[k] = <<s, i>>
  <2>1. CASE a.flatten
    BY <1>3, <2>1
  <2>2. CASE ~a.flatten
    <3> DEFINE f == Here(a, c)
               h == c.properties
    <3> HIDE DEF f, h
    <3>1. /\ DOMAIN Over(f, h) = DOMAIN f \cup DOMAIN h
          /\ \A k \in DOMAIN f : Over(f, h)[k] = f[k]
          /\ \A k \in DOMAIN h : k \notin DOMAIN f => Over(f, h)[k] = h[k]
      BY DEF Over
    <3>2. d.properties = Over(f, h)
      BY <1>3, <2>2 DEF f, h
    <3>3. DOMAIN f = a.keys /\ \A k \in a.keys : f[k] = <<s, i>>
      BY <1>8 DEF f
    <3> QED
      BY <2>2, <3>1, <3>2, <3>3 DEF h
  <2> QED
    BY <1>2, <2>1, <2>2
<1>11. /\ n \in Nat /\ DOMAIN g[s] = 1..n /\ i \in 1..n /\ c.left = n
       /\ d.of = s /\ d.left = n /\ d.next = i + 1 /\ d.called = 0 /\ DOMAIN d.spread = {}
       /\ g[d.of] = g[s]
  BY <1>1, <1>3, <1>6
<1>12. FrameTyped(g, d)
  BY <1>1, <1>3, <1>4 DEF FrameTyped, s, i, n
<1>13. FrameRefers(g, d)
  <2>1. AllDeclared(g, s, d.properties)
    <3>1. DeclaredIn(g, s, <<s, i>>)
      BY <1>1, SpreadClosed DEF DeclaredIn
    <3>2. \A k \in DOMAIN c.properties : DeclaredIn(g, s, c.properties[k])
      BY DEF FrameRefers, AllDeclared, s
    <3> SUFFICES ASSUME NEW k \in DOMAIN d.properties PROVE DeclaredIn(g, s, d.properties[k])
      BY DEF AllDeclared
    <3>3. CASE k \in a.keys /\ ~a.flatten
      BY <1>10, <3>1, <3>3
    <3>4. CASE k \notin a.keys \/ a.flatten
      BY <1>10, <3>2, <3>4
    <3> QED
      BY <1>2, <3>3, <3>4
  <2>2. ASSUME NEW x \in DOMAIN d.siblings PROVE SiblingTyped(g, s, x, d.siblings[x])
    <3>1. CASE x = i
      <4>1. a.flatten
        BY <1>9, <3>1, <2>2 DEF a
      <4> QED
        BY <1>5, <1>9, <3>1, <4>1
    <3>2. CASE x # i
      <4>1. x \in DOMAIN c.siblings
        BY <1>1, <1>7, <1>9, <3>2, <2>2
      <4>2. SiblingTyped(g, s, x, c.siblings[x])
        BY <4>1 DEF FrameRefers, s
      <4> QED
        BY <1>9, <4>1, <4>2
    <3> QED
      BY <3>1, <3>2
  <2>3. ASSUME NEW x \in 1..n, x < i + 1 PROVE ToSet(g[s][x].to) \subseteq d.referenced
    <3>1. CASE x = i
      BY <1>3, <3>1 DEF a
    <3>2. CASE x # i
      <4>1. x < i
        BY <1>1, <2>3, <3>2
      <4>2. ToSet(g[s][x].to) \subseteq c.referenced
        BY <1>1, <4>1 DEF FrameRefers, s, i
      <4> QED
        BY <1>3, <4>2
    <3> QED
      BY <3>1, <3>2
  <2>4. AllDeclared(g, s, d.spread)
    BY <1>3, <1>6 DEF AllDeclared
  <2>5. DOMAIN d.siblings = {x \in DOMAIN g[d.of] : x < d.next /\ g[d.of][x].flatten}
    BY <1>9, <1>11
  <2>6. \A x \in DOMAIN g[d.of] : x < d.next => ToSet(g[d.of][x].to) \subseteq d.referenced
    BY <1>11, <2>3
  <2> QED
    BY <1>11, <2>1, <2>2, <2>4, <2>5, <2>6 DEF FrameRefers
<1>14. SpreadAfter(g, d, d.called)
  <2>1. 1..0 = {} /\ d.called = 0 /\ DOMAIN d.spread = {}
    BY <1>11
  <2> QED
    BY <2>1 DEF SpreadAfter
<1>15. ASSUME FrameKeys(g, c), SpreadAfter(g, c, Len(CallsOf(a))) PROVE FrameKeys(g, d)
  <2>1. /\ \A u \in c.walking : s \in Spread(g, u)
        /\ ClaimsRight(g, c) /\ PropertiesRight(g, c)
        /\ \A x \in DOMAIN c.siblings : SiblingRight(g, c, x)
    BY <1>15 DEF FrameKeys, s
  <2>2. ClaimsRight(g, d)
    BY <1>3, <2>1 DEF ClaimsRight, s
  <2>3. ASSUME NEW x \in DOMAIN d.siblings PROVE SiblingRight(g, d, x)
    <3>1. CASE x = i
      <4>1. a.flatten
        BY <1>9, <2>3, <3>1 DEF a
      <4>2. ~(i > d.left)
        BY <1>11
      <4>3. d.siblings[x] = Sibling(a, c)
        BY <1>9, <3>1, <4>1
      <4> QED
        BY <1>3, <1>5, <1>15, <3>1, <4>1, <4>2, <4>3 DEF SiblingRight
    <3>2. CASE x # i
      <4>1. x \in DOMAIN c.siblings
        BY <1>1, <1>7, <1>9, <2>3, <3>2
      <4>2. SiblingRight(g, c, x) /\ d.siblings[x] = c.siblings[x]
        BY <1>9, <2>1, <4>1
      <4> QED
        BY <1>3, <4>2 DEF SiblingRight, s
    <3> QED
      BY <3>1, <3>2
  <2>4. PropertiesRight(g, d)
    <3>1. \A k : \A x \in 1..n :
            OwnAt(g, d, x, k) <=> OwnAt(g, c, x, k) \/ (x = i /\ ~a.flatten /\ k \in a.keys)
      <4> SUFFICES ASSUME NEW k, NEW x \in 1..n
                   PROVE  OwnAt(g, d, x, k) <=>
                            OwnAt(g, c, x, k) \/ (x = i /\ ~a.flatten /\ k \in a.keys)
        OBVIOUS
      <4>1. x < i + 1 <=> x < i \/ x = i
        BY <1>11
      <4>2. d.of = s /\ d.next = i + 1 /\ c.of = s /\ c.next = i /\ g[s][i] = a
        BY <1>11 DEF s, i, a
      <4>3. ~(i < i)
        BY <1>11
      <4> QED
        BY <4>1, <4>2, <4>3 DEF OwnAt
    <3>2. \A x \in 1..n : ~(x > c.left) /\ ~(x > d.left)
      BY <1>11
    <3>3. /\ \A k : k \in DOMAIN c.properties <=> \E x \in 1..n : OwnAt(g, c, x, k)
          /\ \A k \in DOMAIN c.properties : \E x \in 1..n :
                /\ c.properties[k][2] = x /\ OwnAt(g, c, x, k)
                /\ \A j \in 1..n : j > x => ~OwnAt(g, c, j, k)
      <4>1. DOMAIN g[c.of] = 1..n
        BY <1>1 DEF s
      <4>2. PropertiesRight(g, c)
        BY <2>1
      <4> QED
        BY <3>2, <4>1, <4>2 DEF PropertiesRight
    <3>4. \A k : \A x \in 1..n : OwnAt(g, c, x, k) => x < i
      BY DEF OwnAt, i
    <3>5. \A k : k \in DOMAIN d.properties <=> \E x \in 1..n : OwnAt(g, d, x, k)
      BY <1>1, <1>2, <1>10, <3>1, <3>3
    <3>6. ASSUME NEW k \in DOMAIN d.properties
          PROVE  \E x \in 1..n : /\ d.properties[k][2] = x /\ OwnAt(g, d, x, k)
                                 /\ \A j \in 1..n : j > x => ~OwnAt(g, d, j, k)
      <4>1. CASE k \in a.keys /\ ~a.flatten
        <5>1. d.properties[k][2] = i /\ OwnAt(g, d, i, k)
          <6>1. d.properties[k] = <<s, i>>
            BY <1>10, <4>1
          <6>2. OwnAt(g, d, i, k)
            BY <1>11, <3>1, <4>1
          <6>3. <<s, i>>[2] = i
            OBVIOUS
          <6> QED
            BY <6>1, <6>2, <6>3
        <5>2. \A j \in 1..n : j > i => ~OwnAt(g, d, j, k)
          BY <1>1, <3>1, <3>4
        <5> QED
          BY <1>1, <5>1, <5>2
      <4>2. CASE k \notin a.keys \/ a.flatten
        <5>1. k \in DOMAIN c.properties /\ d.properties[k] = c.properties[k]
          BY <1>2, <1>10, <3>6, <4>2
        <5>2. \A x \in 1..n : OwnAt(g, d, x, k) <=> OwnAt(g, c, x, k)
          BY <1>2, <3>1, <4>2
        <5> QED
          BY <3>3, <5>1, <5>2
      <4> QED
        BY <1>2, <4>1, <4>2
    <3>7. DOMAIN g[d.of] = 1..n
      BY <1>1, <1>3
    <3> QED
      BY <3>2, <3>5, <3>6, <3>7 DEF PropertiesRight
  <2> QED
    BY <1>3, <2>1, <2>2, <2>3, <2>4 DEF FrameKeys
<1> QED
  BY <1>3, <1>12, <1>13, <1>14, <1>15 DEF s, i, a

\* A claim leaves every branch what it should have.
LEMMA ClaimsStayRight ==
  ASSUME NEW g, Renderable(g), NEW c, FrameTyped(g, c), FrameRefers(g, c),
         c.next > Len(g[c.of]), c.left > 0, NEW d, d = Claim(g[c.of][c.left], c)
  PROVE  /\ FrameTyped(g, d) /\ FrameRefers(g, d) /\ SpreadAfter(g, d, d.called)
         /\ d.of = c.of /\ d.forKeys = c.forKeys /\ d.already = c.already
         /\ c.referenced \subseteq d.referenced
         /\ FrameKeys(g, c) => FrameKeys(g, d)
<1> DEFINE s == c.of
           m == c.left
           n == Len(g[s])
           a == g[s][m]
           keys == DOMAIN c.siblings[m].properties
           b == c.siblings[m]
           left == [properties |-> Drop(b.properties, c.claimed),
                    ref |-> IF keys \cap c.claimed = {} THEN b.ref ELSE "none"]
<1>1. /\ n \in Nat /\ DOMAIN g[s] = 1..n /\ s \in DOMAIN g /\ m \in 1..n /\ c.next = n + 1
      /\ DOMAIN c = Fields
  BY AttributesNumbered DEF FrameTyped
<1>2. a.flatten \in BOOLEAN
  BY <1>1 DEF Renderable
<1>3. /\ DOMAIN c.siblings = {x \in 1..n : g[s][x].flatten}
      /\ \A x \in DOMAIN c.siblings : SiblingTyped(g, s, x, c.siblings[x])
  BY <1>1 DEF FrameRefers
<1>4. d = Claim(a, c)
  OBVIOUS
<1>5. /\ DOMAIN d = Fields /\ d.of = s /\ d.forKeys = c.forKeys
      /\ d.already = c.already /\ d.walking = c.walking /\ d.next = c.next
      /\ d.called = c.called /\ d.spread = c.spread /\ d.referenced = c.referenced
      /\ d.left = m - 1
  <2> HIDE DEF a, n
  <2>1. CASE a.flatten
    BY <1>1, <1>4, <2>1 DEF Claim, Fields
  <2>2. CASE ~a.flatten
    BY <1>1, <1>4, <2>2 DEF Claim, Fields
  <2> QED
    BY <1>2, <2>1, <2>2
<1>6. ASSUME a.flatten
      PROVE  /\ d.properties = c.properties
             /\ d.claimed = c.claimed \cup keys
             /\ d.byFlattened = c.byFlattened \cup (keys \ c.claimed)
             /\ d.siblings = [c.siblings EXCEPT ![m] = left]
  <2> HIDE DEF a, n
  <2>1. d = [c EXCEPT !.siblings[m] = left, !.left = @ - 1, !.claimed = @ \cup keys,
                      !.byFlattened = @ \cup (keys \ c.claimed)]
    BY <1>4, <1>6 DEF Claim
  <2>2. {"siblings", "left", "claimed", "byFlattened", "properties"} \subseteq DOMAIN c
    BY <1>1 DEF Fields
  <2> HIDE DEF left, keys, m
  <2> QED
    BY <2>1, <2>2
<1>7. ASSUME ~a.flatten
      PROVE  /\ d.properties = Drop(c.properties, a.keys \cap c.byFlattened)
             /\ d.claimed = c.claimed \cup a.keys
             /\ d.byFlattened = c.byFlattened
             /\ d.siblings = c.siblings
  <2> HIDE DEF a, n
  <2> QED
    BY <1>1, <1>4, <1>7 DEF Claim, Fields
<1>8. a.flatten => m \in DOMAIN c.siblings
  BY <1>1, <1>3
<1>9. /\ DOMAIN d.siblings = DOMAIN c.siblings
      /\ a.flatten => d.siblings[m] = left
      /\ \A x \in DOMAIN c.siblings : x # m => d.siblings[x] = c.siblings[x]
  <2> HIDE DEF a, left
  <2> QED
    BY <1>2, <1>6, <1>7, <1>8
<1>10. /\ a.flatten => /\ DOMAIN left = {"properties", "ref"}
                       /\ DOMAIN left.properties = keys \ c.claimed
                       /\ \A k \in DOMAIN left.properties : left.properties[k] = b.properties[k]
                       /\ left.ref = IF keys \cap c.claimed = {} THEN b.ref ELSE "none"
       /\ ~a.flatten => DOMAIN d.properties = DOMAIN c.properties \ (a.keys \cap c.byFlattened)
       /\ \A k \in DOMAIN d.properties :
            k \in DOMAIN c.properties /\ d.properties[k] = c.properties[k]
  <2> HIDE DEF a
  <2>1. CASE a.flatten
    BY <1>6, <2>1 DEF Drop
  <2>2. CASE ~a.flatten
    BY <1>7, <2>2 DEF Drop
  <2> QED
    BY <1>2, <2>1, <2>2
<1> HIDE DEF left, keys, b
<1>11. FrameTyped(g, d)
  BY <1>1, <1>5 DEF FrameTyped
<1>12. FrameRefers(g, d)
  <2>1. AllDeclared(g, s, d.properties)
    BY <1>10 DEF FrameRefers, AllDeclared
  <2>2. ASSUME NEW x \in DOMAIN d.siblings PROVE SiblingTyped(g, s, x, d.siblings[x])
    <3>1. CASE x = m /\ a.flatten
      <4>1. SiblingTyped(g, s, m, b)
        BY <1>3, <1>8, <3>1 DEF b
      <4>2. AllDeclared(g, s, left.properties)
        BY <1>10, <3>1, <4>1 DEF SiblingTyped, AllDeclared, keys, b
      <4>3. left.ref \in {"none"} \cup ToSet(g[s][m].to)
        BY <1>10, <3>1, <4>1 DEF SiblingTyped
      <4> QED
        BY <1>9, <1>10, <3>1, <4>2, <4>3 DEF SiblingTyped
    <3>2. CASE x # m
      BY <1>3, <1>9, <3>2
    <3> QED
      BY <1>3, <1>9, <3>1, <3>2
  <2>3. AllDeclared(g, s, d.spread)
    BY <1>5 DEF FrameRefers
  <2>4. \A x \in DOMAIN g[s] : x < d.next => ToSet(g[s][x].to) \subseteq d.referenced
    BY <1>5 DEF FrameRefers
  <2>5. DOMAIN d.siblings = {x \in DOMAIN g[s] : x < d.next /\ g[s][x].flatten}
    BY <1>5, <1>9 DEF FrameRefers
  <2> QED
    BY <1>5, <2>1, <2>2, <2>3, <2>4, <2>5 DEF FrameRefers
<1>13. SpreadAfter(g, d, d.called)
  BY <1>1, <1>5 DEF SpreadAfter
<1> HIDE DEF a, n, s, m
<1>14. ASSUME FrameKeys(g, c) PROVE FrameKeys(g, d)
  <2>1. /\ \A u \in c.walking : s \in Spread(g, u)
        /\ ClaimsRight(g, c) /\ PropertiesRight(g, c)
        /\ \A x \in DOMAIN c.siblings : SiblingRight(g, c, x)
    BY <1>14 DEF FrameKeys, s
  <2>2. /\ \A k : k \in c.claimed <=> \E j \in 1..n : j > m /\ k \in KeysAt(g, s, j)
        /\ \A k : k \in c.byFlattened <=> \E j \in 1..n : j > m /\ LostTo(g, c, j, k)
    BY <1>1, <2>1 DEF ClaimsRight, LostTo, s, m
  <2>3. \A j \in 1..n : j > m - 1 <=> j = m \/ j > m
    BY <1>1
  <2>4. \A j \in 1..n : \A k : LostTo(g, c, j, k) <=> LostTo(g, d, j, k)
    BY <1>5 DEF LostTo, s
  <2>5. \A k : WinsAt(g, s, m, k) <=> k \in KeysAt(g, s, m) /\ k \notin c.claimed
    BY <1>1, <2>2 DEF WinsAt
  <2>6. /\ a.flatten => KeysAt(g, s, m) = keys
        /\ ~a.flatten => KeysAt(g, s, m) = a.keys
        /\ \A k : LostTo(g, c, m, k) <=> a.flatten /\ WinsAt(g, s, m, k)
    <3>1. a.flatten => SiblingRight(g, c, m)
      BY <1>8, <2>1
    <3>2. ~(m > c.left)
      BY <1>1 DEF m
    <3>3. a.flatten => KeysAt(g, s, m) = keys
      BY <3>1, <3>2 DEF SiblingRight, keys, s
    <3>4. ~a.flatten => KeysAt(g, s, m) = a.keys
      BY DEF KeysAt, a
    <3> QED
      BY <3>3, <3>4 DEF LostTo, a, s
  <2>7. ClaimsRight(g, d)
    <3>1. \A k : k \in d.claimed <=> \E j \in 1..n : j > m - 1 /\ k \in KeysAt(g, s, j)
      <4>1. d.claimed = c.claimed \cup KeysAt(g, s, m)
        BY <1>2, <1>6, <1>7, <2>6
      <4> QED
        BY <1>1, <2>2, <2>3, <4>1
    <3>2. \A k : k \in d.byFlattened <=> \E j \in 1..n : j > m - 1 /\ LostTo(g, c, j, k)
      <4>1. \A k : k \in d.byFlattened <=> k \in c.byFlattened \/ LostTo(g, c, m, k)
        BY <1>2, <1>6, <1>7, <2>5, <2>6
      <4> QED
        BY <1>1, <2>2, <2>3, <4>1
    <3> QED
      BY <1>1, <1>5, <3>1, <3>2 DEF ClaimsRight, LostTo, s
  <2>8. ASSUME NEW x \in DOMAIN d.siblings PROVE SiblingRight(g, d, x)
    <3>1. CASE x = m /\ a.flatten
      <4>1. SiblingRight(g, c, m) /\ ~(m > c.left)
        BY <1>1, <1>8, <2>1, <3>1 DEF m
      <4>2. /\ \A k : k \in DOMAIN left.properties <=> WinsAt(g, s, m, k)
            /\ left.ref # "none" =>
                 /\ KeysOf(g, left.ref) = KeysAt(g, s, m)
                 /\ \A k \in KeysAt(g, s, m) : WinsAt(g, s, m, k)
        <5>1. \A k : k \in DOMAIN left.properties <=> WinsAt(g, s, m, k)
          BY <1>10, <2>5, <2>6, <3>1
        <5>2. ASSUME left.ref # "none"
              PROVE  /\ KeysOf(g, left.ref) = KeysAt(g, s, m)
                     /\ \A k \in KeysAt(g, s, m) : WinsAt(g, s, m, k)
          <6>1. keys \cap c.claimed = {} /\ left.ref = b.ref
            BY <1>10, <3>1, <5>2
          <6>2. KeysOf(g, b.ref) = KeysAt(g, s, m)
            BY <4>1, <5>2, <6>1 DEF SiblingRight, b, s
          <6> QED
            BY <2>5, <2>6, <3>1, <6>1, <6>2
        <5> QED
          BY <5>1, <5>2
      <4>3. d.siblings[x] = left /\ x > d.left
        <5>1. d.siblings[m] = left
          BY <1>9, <3>1
        <5>2. d.left = m - 1 /\ m \in Nat
          BY <1>1, <1>5
        <5> QED
          BY <3>1, <5>1, <5>2
      <4>4. \A k : WinsAt(g, s, m, k) => k \in KeysAt(g, s, m)
        BY DEF WinsAt
      <4> QED
        BY <1>5, <3>1, <4>2, <4>3, <4>4 DEF SiblingRight
    <3>2. CASE x # m
      <4>1. SiblingRight(g, c, x) /\ d.siblings[x] = c.siblings[x]
        BY <1>9, <2>1, <2>8, <3>2
      <4>2. x > d.left <=> x > c.left
        BY <1>1, <1>3, <1>5, <1>9, <2>3, <2>8, <3>2 DEF m
      <4> QED
        BY <1>5, <4>1, <4>2 DEF SiblingRight, s
    <3> QED
      BY <1>3, <1>9, <2>8, <3>1, <3>2 DEF a
  <2>9. PropertiesRight(g, d)
    <3>1. \A j \in 1..n : \A k : OwnAt(g, d, j, k) <=> OwnAt(g, c, j, k)
      BY <1>5 DEF OwnAt, s
    <3>2. \A k : OwnAt(g, c, m, k) <=> ~a.flatten /\ k \in a.keys
      BY <1>1 DEF OwnAt, a, s
    <3>3. /\ \A k : k \in DOMAIN c.properties <=>
                /\ \E x \in 1..n : OwnAt(g, c, x, k)
                /\ \A x, j \in 1..n : x > m /\ j > x /\ OwnAt(g, c, x, k) => ~LostTo(g, c, j, k)
          /\ \A k \in DOMAIN c.properties : \E x \in 1..n :
                /\ c.properties[k][2] = x /\ OwnAt(g, c, x, k)
                /\ \A j \in 1..n : j > x => ~OwnAt(g, c, j, k)
      <4>1. DOMAIN g[c.of] = 1..n
        BY <1>1 DEF s
      <4>2. PropertiesRight(g, c)
        BY <2>1
      <4> QED
        BY <4>1, <4>2 DEF PropertiesRight, m
    <3>4. \A k : k \in DOMAIN d.properties <=>
             k \in DOMAIN c.properties /\ ~(OwnAt(g, c, m, k) /\ k \in c.byFlattened)
      <4>1. CASE a.flatten
        BY <1>6, <3>2, <4>1
      <4>2. CASE ~a.flatten
        BY <1>10, <3>2, <4>2
      <4> QED
        BY <1>2, <4>1, <4>2
    <3>5. \A k : k \in DOMAIN d.properties <=>
              /\ \E x \in 1..n : OwnAt(g, d, x, k)
              /\ \A x, j \in 1..n :
                   x > m - 1 /\ j > x /\ OwnAt(g, d, x, k) => ~LostTo(g, d, j, k)
      <4> SUFFICES ASSUME NEW k
                   PROVE  k \in DOMAIN d.properties <=>
                            /\ \E x \in 1..n : OwnAt(g, c, x, k)
                            /\ \A x, j \in 1..n :
                                 x > m - 1 /\ j > x /\ OwnAt(g, c, x, k) => ~LostTo(g, c, j, k)
        BY <2>4, <3>1
      <4>1. k \in c.byFlattened <=> \E j \in 1..n : j > m /\ LostTo(g, c, j, k)
        BY <2>2
      <4>2. m \in 1..n
        BY <1>1
      <4> QED
        BY <2>3, <3>3, <3>4, <4>1, <4>2
    <3>6. \A k \in DOMAIN d.properties : \E x \in 1..n :
              /\ d.properties[k][2] = x /\ OwnAt(g, d, x, k)
              /\ \A j \in 1..n : j > x => ~OwnAt(g, d, j, k)
      <4> SUFFICES ASSUME NEW k \in DOMAIN d.properties
                   PROVE  \E x \in 1..n : /\ d.properties[k][2] = x /\ OwnAt(g, d, x, k)
                                          /\ \A j \in 1..n : j > x => ~OwnAt(g, d, j, k)
        OBVIOUS
      <4>1. k \in DOMAIN c.properties /\ d.properties[k] = c.properties[k]
        BY <1>10
      <4>2. PICK x \in 1..n : /\ c.properties[k][2] = x /\ OwnAt(g, c, x, k)
                              /\ \A j \in 1..n : j > x => ~OwnAt(g, c, j, k)
        BY <3>3, <4>1
      <4> QED
        BY <3>1, <4>1, <4>2
    <3>7. DOMAIN g[d.of] = 1..n
      BY <1>1, <1>5
    <3> QED
      BY <1>5, <3>5, <3>6, <3>7 DEF PropertiesRight
  <2> QED
    BY <1>5, <2>1, <2>7, <2>8, <2>9 DEF FrameKeys
<1> QED
  BY <1>5, <1>11, <1>12, <1>13, <1>14 DEF s

\* A set of numbers up to n has a greatest.
LEMMA GreatestOf ==
  ASSUME NEW n \in Nat, NEW T \in SUBSET (1..n), T # {}
  PROVE  \E m \in T : \A k \in T : k <= m
<1> DEFINE U == {n - x : x \in T}
<1>1. U \in SUBSET Nat /\ U # {}
  <2>1. \A x \in T : n - x \in Nat
    OBVIOUS
  <2>2. U \subseteq Nat
    BY <2>1
  <2> QED
    BY <2>2
<1>2. PICK u \in U : \A v \in U : u <= v
  <2> HIDE DEF U
  <2> QED
    BY <1>1, SmallestOf
<1>3. PICK m \in T : u = n - m
  OBVIOUS
<1>4. \A k \in T : n - m <= n - k
  BY <1>2, <1>3
<1> QED
  BY <1>4

(***************************************************************************)
(* What is rendered of a serializer                                        *)
(***************************************************************************)

SchemaRefers(g, s, schema) ==
    /\ AllDeclared(g, s, schema.properties)
    /\ DOMAIN schema.siblings \subseteq DOMAIN g[s]
    /\ \A i \in DOMAIN schema.siblings : SiblingTyped(g, s, i, schema.siblings[i])

\* Its branches that have a key.
OwnBranch(schema, k) ==
    IF k \in DOMAIN schema.properties THEN {schema.properties[k][2]} ELSE {}
SpreadBranches(g, schema, k) ==
    {i \in DOMAIN schema.siblings : k \in (IF schema.siblings[i].ref = "none"
                                           THEN DOMAIN schema.siblings[i].properties
                                           ELSE KeysOf(g, schema.siblings[i].ref))}
SchemaKeys(g, s, schema) ==
    \A k \in KeysOf(g, s) :
       /\ OwnBranch(schema, k) \cup SpreadBranches(g, schema, k) = {LastAt(g, s, k)}
       /\ OwnBranch(schema, k) \cap SpreadBranches(g, schema, k) = {}

\* A renderer that has made its claims has each key in the branch of the last
\* attribute that renders it.
LEMMA BranchesOf ==
  ASSUME NEW g, Renderable(g), NEW c, FrameTyped(g, c), FrameRefers(g, c), FrameKeys(g, c),
         c.next > Len(g[c.of]), c.left = 0
  PROVE  /\ \A k : \A i \in DOMAIN c.siblings :
              k \in DOMAIN c.siblings[i].properties <=> WinsAt(g, c.of, i, k)
         /\ \A i \in DOMAIN c.siblings : c.siblings[i].ref # "none" =>
              \A k : k \in KeysOf(g, c.siblings[i].ref) <=> WinsAt(g, c.of, i, k)
         /\ \A k : k \in DOMAIN c.properties <=>
              \E i \in DOMAIN g[c.of] : ~g[c.of][i].flatten /\ WinsAt(g, c.of, i, k)
         /\ \A k \in DOMAIN c.properties : \A i \in DOMAIN g[c.of] :
              ~g[c.of][i].flatten /\ WinsAt(g, c.of, i, k) => c.properties[k][2] = i
<1> DEFINE s == c.of
           n == Len(g[s])
<1>1. n \in Nat /\ DOMAIN g[s] = 1..n /\ s \in DOMAIN g /\ c.next = n + 1
  BY AttributesNumbered DEF FrameTyped
<1>2. \A i \in DOMAIN c.siblings : i \in 1..n /\ g[s][i].flatten /\ i > c.left
  BY <1>1 DEF FrameRefers
<1>3. \A i \in DOMAIN c.siblings : SiblingRight(g, c, i)
  BY DEF FrameKeys
<1>4. \A k : \A i \in 1..n : OwnAt(g, c, i, k) <=> ~g[s][i].flatten /\ k \in KeysAt(g, s, i)
  BY <1>1 DEF OwnAt, KeysAt
<1>5. ASSUME NEW k, NEW i \in DOMAIN c.siblings
      PROVE  /\ k \in DOMAIN c.siblings[i].properties <=> WinsAt(g, s, i, k)
             /\ c.siblings[i].ref # "none" =>
                  (k \in KeysOf(g, c.siblings[i].ref) <=> WinsAt(g, s, i, k))
  BY <1>2, <1>3 DEF SiblingRight, WinsAt
<1> HIDE DEF s, n
<1>6. /\ \A k : k \in DOMAIN c.properties <=>
            /\ \E x \in 1..n : OwnAt(g, c, x, k)
            /\ \A x, j \in 1..n : x > 0 /\ j > x /\ OwnAt(g, c, x, k) => ~LostTo(g, c, j, k)
      /\ \A k \in DOMAIN c.properties : \E x \in 1..n :
            /\ c.properties[k][2] = x /\ OwnAt(g, c, x, k)
            /\ \A j \in 1..n : j > x => ~OwnAt(g, c, j, k)
  <2>1. DOMAIN g[c.of] = 1..n
    BY <1>1 DEF s
  <2>2. PropertiesRight(g, c)
    BY DEF FrameKeys
  <2> QED
    BY <2>1, <2>2 DEF PropertiesRight
<1>7. ASSUME NEW k, NEW i \in 1..n, WinsAt(g, s, i, k), ~g[s][i].flatten
      PROVE  k \in DOMAIN c.properties /\ c.properties[k][2] = i
  <2>1. OwnAt(g, c, i, k) /\ \A j \in 1..n : j > i => ~OwnAt(g, c, j, k)
    BY <1>1, <1>4, <1>7 DEF WinsAt
  <2>2. \A j \in 1..n : WinsAt(g, s, j, k) => j = i
    BY <1>1, <1>7 DEF WinsAt
  <2>3. \A j \in 1..n : ~LostTo(g, c, j, k)
    BY <1>7, <2>2 DEF LostTo, s
  <2>4. k \in DOMAIN c.properties
    BY <1>6, <2>1, <2>3
  <2>5. PICK x \in 1..n : /\ c.properties[k][2] = x /\ OwnAt(g, c, x, k)
                          /\ \A j \in 1..n : j > x => ~OwnAt(g, c, j, k)
    BY <1>6, <2>4
  <2>6. ~(i > x) /\ ~(x > i)
    BY <2>1, <2>5
  <2>7. x = i
    BY <1>1, <2>6
  <2> QED
    BY <2>4, <2>5, <2>7
<1>8. ASSUME NEW k \in DOMAIN c.properties
      PROVE  \E i \in 1..n : ~g[s][i].flatten /\ WinsAt(g, s, i, k)
  <2>1. PICK x \in 1..n : OwnAt(g, c, x, k)
    BY <1>6
  <2>2. k \in KeysAt(g, s, x) /\ ~g[s][x].flatten
    BY <1>4, <2>1
  <2>3. PICK i \in 1..n : i >= x /\ WinsAt(g, s, i, k)
    BY <1>1, <2>2, SomeWins
  <2>4. CASE g[s][i].flatten
    <3>1. LostTo(g, c, i, k)
      BY <2>3, <2>4 DEF LostTo, s
    <3>2. i # x
      BY <2>2, <2>4
    <3>3. i > x /\ x > 0
      BY <2>3, <3>2
    <3> QED
      BY <1>6, <2>1, <3>1, <3>3
  <2> QED
    BY <2>3, <2>4
<1> QED
  BY <1>1, <1>5, <1>7, <1>8 DEF s

\* What is rendered refers to what the serializer spreads, and has each key once.
LEMMA SchemaRight ==
  ASSUME NEW g, Renderable(g), NEW c, FrameTyped(g, c), FrameRefers(g, c),
         c.next > Len(g[c.of]), c.left = 0
  PROVE  /\ SchemaRefers(g, c.of, Rendered(c))
         /\ FrameKeys(g, c) => SchemaKeys(g, c.of, Rendered(c))
<1> DEFINE s == c.of
           r == Rendered(c)
<1>1. r.properties = c.properties /\ r.siblings = c.siblings
  BY DEF Rendered
<1> HIDE DEF r
<1>2. SchemaRefers(g, s, r)
  BY <1>1 DEF FrameRefers, SchemaRefers
<1>3. ASSUME FrameKeys(g, c), NEW k \in KeysOf(g, s)
      PROVE  /\ OwnBranch(r, k) \cup SpreadBranches(g, r, k) = {LastAt(g, s, k)}
             /\ OwnBranch(r, k) \cap SpreadBranches(g, r, k) = {}
  <2>1. s \in DOMAIN g
    BY DEF FrameTyped
  <2>2. PICK i \in DOMAIN g[s] : WinsAt(g, s, i, k)
    <3>1. PICK j \in DOMAIN g[s] : k \in KeysAt(g, s, j)
      BY <1>3, <2>1, KeysByAttribute
    <3> QED
      BY <2>1, <3>1, SomeWins
  <2>3. LastAt(g, s, k) = i
    BY <2>1, <2>2, OneWins
  <2>4. \A j \in DOMAIN g[s] : WinsAt(g, s, j, k) => j = i
    <3>1. DOMAIN g[s] \subseteq Nat
      BY <2>1, AttributesNumbered
    <3> QED
      BY <2>2, <3>1 DEF WinsAt
  <2>5. DOMAIN c.siblings = {j \in DOMAIN g[s] : g[s][j].flatten}
    <3>1. /\ DOMAIN g[s] = 1..Len(g[s]) /\ Len(g[s]) \in Nat /\ c.next = Len(g[s]) + 1
      BY <2>1, AttributesNumbered DEF FrameTyped
    <3> QED
      BY <3>1 DEF FrameRefers
  <2>6. \A j \in DOMAIN c.siblings :
           k \in (IF c.siblings[j].ref = "none" THEN DOMAIN c.siblings[j].properties
                  ELSE KeysOf(g, c.siblings[j].ref)) <=> WinsAt(g, s, j, k)
    BY <1>3, BranchesOf
  <2>7. SpreadBranches(g, r, k) = {j \in DOMAIN c.siblings : WinsAt(g, s, j, k)}
    BY <1>1, <2>6 DEF SpreadBranches
  <2>8. CASE g[s][i].flatten
    <3>1. SpreadBranches(g, r, k) = {i}
      BY <2>2, <2>4, <2>5, <2>7, <2>8
    <3>2. k \notin DOMAIN c.properties
      BY <1>3, <2>4, <2>8, BranchesOf
    <3> QED
      BY <1>1, <2>3, <3>1, <3>2 DEF OwnBranch
  <2>9. CASE ~g[s][i].flatten
    <3>1. SpreadBranches(g, r, k) = {}
      BY <2>4, <2>5, <2>7, <2>9
    <3>2. k \in DOMAIN c.properties /\ c.properties[k][2] = i
      BY <1>3, <2>2, <2>9, BranchesOf
    <3> QED
      BY <1>1, <2>3, <3>1, <3>2 DEF OwnBranch
  <2> QED
    BY <2>8, <2>9
<1> QED
  BY <1>2, <1>3 DEF SchemaKeys, r

\* The keys that are returned to a caller are the serializer's, of declarations
\* that it spreads.
LEMMA KeySchemasRight ==
  ASSUME NEW g, Renderable(g), NEW c, FrameTyped(g, c), FrameRefers(g, c),
         c.next > Len(g[c.of]), c.left = 0
  PROVE  /\ AllDeclared(g, c.of, KeySchemas(c))
         /\ FrameKeys(g, c) => DOMAIN KeySchemas(c) = KeysOf(g, c.of)
<1> DEFINE s == c.of
           With(k) == {i \in DOMAIN c.siblings : k \in DOMAIN c.siblings[i].properties}
           max(k) == CHOOSE i \in With(k) : \A j \in With(k) : j <= i
           all == DOMAIN c.properties \cup
                  UNION {DOMAIN c.siblings[i].properties : i \in DOMAIN c.siblings}
<1>1. s \in DOMAIN g
  BY DEF FrameTyped
<1>2. DOMAIN g[s] = 1..Len(g[s]) /\ Len(g[s]) \in Nat /\ DOMAIN c.siblings \subseteq 1..Len(g[s])
  BY <1>1, AttributesNumbered DEF FrameRefers
<1>3. KeySchemas(c) = [k \in all |-> IF With(k) = {} THEN c.properties[k]
                                     ELSE c.siblings[max(k)].properties[k]]
  BY DEF KeySchemas
<1>4. ASSUME NEW k, With(k) # {} PROVE max(k) \in With(k)
  <2> DEFINE W == With(k)
  <2>1. W \in SUBSET (1..Len(g[s])) /\ W # {}
    BY <1>2, <1>4
  <2> HIDE DEF W
  <2>2. \E m \in W : \A j \in W : j <= m
    BY <1>2, <2>1, GreatestOf
  <2>3. (CHOOSE i \in W : \A j \in W : j <= i) \in W
    BY <2>2
  <2> QED
    BY <2>3 DEF W
<1>5. ASSUME NEW k \in all
      PROVE  DeclaredIn(g, s, IF With(k) = {} THEN c.properties[k]
                              ELSE c.siblings[max(k)].properties[k])
  <2>1. CASE With(k) = {}
    <3>1. k \in DOMAIN c.properties
      BY <2>1
    <3> QED
      BY <2>1, <3>1 DEF FrameRefers, AllDeclared
  <2>2. CASE With(k) # {}
    <3> DEFINE i == max(k)
    <3>1. i \in DOMAIN c.siblings /\ k \in DOMAIN c.siblings[i].properties
      BY <1>4, <2>2
    <3> HIDE DEF i
    <3>2. SiblingTyped(g, s, i, c.siblings[i])
      BY <3>1 DEF FrameRefers
    <3>3. DeclaredIn(g, s, c.siblings[i].properties[k])
      BY <3>1, <3>2 DEF SiblingTyped, AllDeclared
    <3> QED
      BY <2>2, <3>3 DEF i
  <2> QED
    BY <2>1, <2>2
<1> HIDE DEF With, max, all
<1>6. AllDeclared(g, s, KeySchemas(c))
  BY <1>3, <1>5 DEF AllDeclared
<1>7. ASSUME FrameKeys(g, c) PROVE DOMAIN KeySchemas(c) = KeysOf(g, s)
  <2>1. \A k : k \in all <=>
          \/ k \in DOMAIN c.properties
          \/ \E i \in DOMAIN c.siblings : k \in DOMAIN c.siblings[i].properties
    BY DEF all
  <2>2. DOMAIN c.siblings = {j \in DOMAIN g[s] : g[s][j].flatten}
    <3>1. c.next = Len(g[s]) + 1
      BY <1>2 DEF FrameTyped
    <3> QED
      BY <1>2, <3>1 DEF FrameRefers
  <2>3. ASSUME NEW k PROVE k \in all <=> \E i \in DOMAIN g[s] : WinsAt(g, s, i, k)
    <3>1. k \in DOMAIN c.properties <=>
            \E i \in DOMAIN g[s] : ~g[s][i].flatten /\ WinsAt(g, s, i, k)
      BY <1>7, BranchesOf
    <3>2. \A i \in DOMAIN c.siblings : k \in DOMAIN c.siblings[i].properties <=> WinsAt(g, s, i, k)
      BY <1>7, BranchesOf
    <3> QED
      BY <2>1, <2>2, <3>1, <3>2
  <2>4. ASSUME NEW k PROVE k \in KeysOf(g, s) <=> \E i \in DOMAIN g[s] : WinsAt(g, s, i, k)
    <3>1. k \in KeysOf(g, s) <=> \E i \in DOMAIN g[s] : k \in KeysAt(g, s, i)
      BY <1>1, KeysByAttribute
    <3>2. \A i \in DOMAIN g[s] : k \in KeysAt(g, s, i) => \E j \in DOMAIN g[s] : WinsAt(g, s, j, k)
      BY <1>1, SomeWins
    <3> QED
      BY <3>1, <3>2 DEF WinsAt
  <2>5. DOMAIN KeySchemas(c) = all
    BY <1>3
  <2> QED
    BY <2>3, <2>4, <2>5
<1> QED
  BY <1>6, <1>7

(***************************************************************************)
(* The stack of calls                                                      *)
(***************************************************************************)

\* The caller waits for a call that it made.
Waits(g, c, d) ==
    LET made == CallsOf(g[c.of][c.next]) IN
    /\ c.next <= Len(g[c.of]) /\ c.called \in 1..Len(made)
    /\ made[c.called].of = d.of /\ made[c.called].forKeys = d.forKeys

StackTyped(g, st) ==
    /\ st \in Seq(ToSet(st))
    /\ \A p \in 1..Len(st) : FrameTyped(g, st[p]) /\ FrameRefers(g, st[p])
    /\ \A p \in 1..(Len(st) - 1) : Waits(g, st[p], st[p + 1])
    /\ st # <<>> => ~st[1].forKeys

\* Callers have what their calls before the last returned, the top all of it.
CallersRight(g, st, n) ==
    \A p \in 1..n : FrameKeys(g, st[p]) /\ SpreadAfter(g, st[p], st[p].called - 1)
StackKeys(g, st) ==
    /\ CallersRight(g, st, Len(st) - 1)
    /\ st # <<>> => LET c == st[Len(st)] IN FrameKeys(g, c) /\ SpreadAfter(g, c, c.called)

\* Serializers that are marked are still being rendered, or all that they render
\* is known or referred to by the renderers on the stack.
AllTo(g, s) == UNION {ToSet(g[s][i].to) : i \in DOMAIN g[s]}
ForDocument(st, p) == \A q \in 1..p : ~st[q].forKeys
Accounted(g, st, p, K, s) ==
    \A t \in AllTo(g, s) : t \in K \/ \E q \in 1..p : t \in st[q].referenced
MarkRight(g, st, p, K) ==
    ForDocument(st, p) =>
       \A s \in st[p].already : (\E q \in 1..p : st[q].of = s) \/ Accounted(g, st, p, K, s)
MarksRight(g, st, K) == \A p \in 1..Len(st) : MarkRight(g, st, p, K)

\* The stack t has c on the n - 1 lowest frames of st.
Restacked(st, t, n, c) ==
    /\ t \in Seq(ToSet(t)) /\ Len(t) = n /\ t[n] = c
    /\ \A p \in 1..(n - 1) : t[p] = st[p]

\* It is built from what the stack has below and c.
LEMMA Restacks ==
  ASSUME NEW S, NEW st \in Seq(S), NEW m \in 0..Len(st), NEW c
  PROVE  Restacked(st, SubSeq(st, 1, m) \o <<c>>, m + 1, c)
<1> DEFINE T == S \cup {c}
           low == SubSeq(st, 1, m)
           t == low \o <<c>>
<1>1. Len(st) \in Nat /\ m \in Nat
  BY LenProperties
<1>2. \A i \in 1..m : st[i] \in T
  BY <1>1, ElementOfSeq
<1>3. low \in Seq(T) /\ Len(low) = m /\ \A i \in 1..m : low[i] = st[i]
  BY <1>1, <1>2, SubSeqProperties
<1>4. <<c>> \in Seq(T) /\ Len(<<c>>) = 1 /\ <<c>>[1] = c
  OBVIOUS
<1> HIDE DEF low, T
<1>5. /\ t \in Seq(T) /\ Len(t) = m + 1
      /\ \A i \in 1..(m + 1) : t[i] = IF i <= m THEN low[i] ELSE <<c>>[i - m]
  BY <1>3, <1>4, ConcatProperties
<1>6. t[m + 1] = c /\ \A i \in 1..m : t[i] = st[i]
  BY <1>1, <1>3, <1>4, <1>5
<1> HIDE DEF t
<1>7. t \in Seq(ToSet(t))
  <2>1. t \in [1..Len(t) -> T] /\ Len(t) \in Nat
    BY <1>1, <1>5, LenProperties
  <2>2. \A i \in 1..Len(t) : t[i] \in ToSet(t)
    BY <2>1 DEF ToSet
  <2>3. t = [i \in 1..Len(t) |-> t[i]]
    BY <2>1
  <2>4. [i \in 1..Len(t) |-> t[i]] \in Seq(ToSet(t))
    BY <2>1, <2>2
  <2> QED
    BY <2>3, <2>4
<1>8. (m + 1) - 1 = m
  BY <1>1
<1>9. Restacked(st, t, m + 1, c)
  BY <1>5, <1>6, <1>7, <1>8 DEF Restacked
<1> QED
  BY <1>9 DEF t, low

\* What remains true of the frames below.
LEMMA RestackTyped ==
  ASSUME NEW g, NEW st, StackTyped(g, st), NEW n \in Nat \ {0}, n - 1 <= Len(st),
         NEW c, NEW t, Restacked(st, t, n, c), FrameTyped(g, c), FrameRefers(g, c),
         n = 1 => ~c.forKeys, n > 1 => Waits(g, st[n - 1], c)
  PROVE  StackTyped(g, t)
<1>1. st \in Seq(ToSet(st)) /\ Len(st) \in Nat
  BY LenProperties DEF StackTyped
<1>2. t \in Seq(ToSet(t)) /\ Len(t) = n /\ t[n] = c /\ \A p \in 1..(n - 1) : t[p] = st[p]
  BY DEF Restacked
<1>3. ASSUME NEW p \in 1..n PROVE FrameTyped(g, t[p]) /\ FrameRefers(g, t[p])
  <2>1. CASE p = n
    BY <1>2, <2>1
  <2>2. CASE p # n
    <3>1. p \in 1..Len(st) /\ t[p] = st[p]
      BY <1>1, <1>2, <2>2
    <3> QED
      BY <3>1 DEF StackTyped
  <2> QED
    BY <2>1, <2>2
<1>4. ASSUME NEW p \in 1..(n - 1) PROVE Waits(g, t[p], t[p + 1])
  <2>1. CASE p + 1 = n
    <3>1. p = n - 1 /\ n > 1
      BY <2>1
    <3> QED
      BY <1>2, <2>1, <3>1
  <2>2. CASE p + 1 # n
    <3>1. p + 1 \in 1..(n - 1) /\ p \in 1..(Len(st) - 1)
      BY <1>1, <2>2
    <3>2. t[p] = st[p] /\ t[p + 1] = st[p + 1]
      BY <1>2, <3>1
    <3> QED
      BY <3>1, <3>2 DEF StackTyped
  <2> QED
    BY <2>1, <2>2
<1>5. ~t[1].forKeys
  <2>1. CASE n = 1
    BY <1>2, <2>1
  <2>2. CASE n # 1
    <3>1. 1 \in 1..(n - 1) /\ Len(st) >= 1
      BY <1>1, <2>2
    <3>2. st # <<>>
      BY <3>1
    <3> QED
      BY <1>2, <3>1, <3>2 DEF StackTyped
  <2> QED
    BY <2>1, <2>2
<1> QED
  BY <1>2, <1>3, <1>4, <1>5 DEF StackTyped

\* The keys below stay right, and so are those on top.
LEMMA RestackKeys ==
  ASSUME NEW g, NEW st, NEW n \in Nat \ {0}, CallersRight(g, st, n - 1),
         NEW c, NEW t, Restacked(st, t, n, c), FrameKeys(g, c), SpreadAfter(g, c, c.called)
  PROVE  StackKeys(g, t)
BY DEF StackKeys, CallersRight, Restacked

\* Marks below stay right if what the renderers refer to remains.
LEMMA RestackMarks ==
  ASSUME NEW g, NEW st, NEW K, MarksRight(g, st, K), NEW n \in Nat \ {0}, n - 1 <= Len(st),
         Len(st) \in Nat,
         NEW c, NEW t, Restacked(st, t, n, c), MarkRight(g, t, n, K)
  PROVE  MarksRight(g, t, K)
<1>1. Len(t) = n /\ \A p \in 1..(n - 1) : t[p] = st[p]
  BY DEF Restacked
<1> SUFFICES ASSUME NEW p \in 1..n, p # n PROVE MarkRight(g, t, p, K)
  BY <1>1 DEF MarksRight
<1>2. p \in 1..Len(st) /\ \A q \in 1..p : t[q] = st[q]
  BY <1>1
<1>3. MarkRight(g, st, p, K)
  BY <1>2 DEF MarksRight
<1>4. t[p] = st[p]
  BY <1>2
<1>5. ForDocument(t, p) => ForDocument(st, p)
  BY <1>2 DEF ForDocument
<1>6. \A s : Accounted(g, st, p, K, s) => Accounted(g, t, p, K, s)
  BY <1>2 DEF Accounted
<1> QED
  BY <1>2, <1>3, <1>4, <1>5, <1>6 DEF MarkRight

\* What a renderer never changes of itself while it is at the top of the stack.
Becomes(c, d) ==
    /\ d.of = c.of /\ d.forKeys = c.forKeys /\ d.already = c.already
    /\ c.referenced \subseteq d.referenced

\* The top of the stack gives way to what it has become.
LEMMA ReplaceTop ==
  ASSUME NEW g, NEW st, StackTyped(g, st), st # <<>>,
         NEW d, NEW t, Restacked(st, t, Len(st), d), FrameTyped(g, d), FrameRefers(g, d),
         Becomes(st[Len(st)], d)
  PROVE  /\ StackTyped(g, t)
         /\ StackKeys(g, st) /\ FrameKeys(g, d) /\ SpreadAfter(g, d, d.called) => StackKeys(g, t)
         /\ \A K : MarksRight(g, st, K) => MarksRight(g, t, K)
<1> DEFINE n == Len(st)
           c == st[n]
<1>1. n \in Nat \ {0} /\ n \in 1..n
  BY EmptySeq, LenProperties DEF StackTyped
<1>2. n = 1 => ~d.forKeys
  BY <1>1 DEF StackTyped, Becomes
<1>3. n > 1 => Waits(g, st[n - 1], d)
  <2> SUFFICES ASSUME n > 1 PROVE Waits(g, st[n - 1], d)
    OBVIOUS
  <2>1. Waits(g, st[n - 1], st[(n - 1) + 1])
    BY <1>1 DEF StackTyped
  <2>2. (n - 1) + 1 = n
    BY <1>1
  <2>3. Waits(g, st[n - 1], c)
    BY <2>1, <2>2
  <2> QED
    BY <2>3 DEF Waits, Becomes
<1>4. StackTyped(g, t)
  <2>1. n - 1 <= Len(st)
    BY <1>1
  <2> HIDE DEF n
  <2>2. Restacked(st, t, n, d)
    BY DEF n
  <2> QED
    BY <1>1, <1>2, <1>3, <2>1, <2>2, RestackTyped
<1>5. ASSUME StackKeys(g, st), FrameKeys(g, d), SpreadAfter(g, d, d.called) PROVE StackKeys(g, t)
  <2>1. CallersRight(g, st, n - 1)
    BY <1>5 DEF StackKeys
  <2> QED
    BY <1>1, <1>5, <2>1, RestackKeys
<1>6. ASSUME NEW K, MarksRight(g, st, K) PROVE MarksRight(g, t, K)
  <2>1. MarkRight(g, st, n, K)
    BY <1>1, <1>6 DEF MarksRight
  <2>2. t[n] = d /\ \A p \in 1..(n - 1) : t[p] = st[p]
    BY DEF Restacked
  <2>3. ASSUME NEW q \in 1..n
        PROVE  /\ t[q].of = st[q].of /\ t[q].forKeys = st[q].forKeys
               /\ st[q].referenced \subseteq t[q].referenced
    <3>1. CASE q = n
      BY <2>2, <3>1 DEF Becomes
    <3>2. CASE q # n
      <4>1. q \in 1..(n - 1)
        BY <1>1, <3>2
      <4> QED
        BY <2>2, <4>1
    <3> QED
      BY <3>1, <3>2
  <2>4. \A s : Accounted(g, st, n, K, s) => Accounted(g, t, n, K, s)
    BY <2>3 DEF Accounted
  <2>5. ForDocument(t, n) => ForDocument(st, n)
    BY <2>3 DEF ForDocument
  <2>6. t[n].of = st[n].of /\ t[n].already = st[n].already
    BY <2>2 DEF Becomes
  <2> HIDE DEF n
  <2>7. MarkRight(g, t, n, K)
    BY <2>1, <2>3, <2>4, <2>5, <2>6 DEF MarkRight
  <2> QED
    BY <1>1, <1>6, <2>7, RestackMarks DEF n
<1> QED
  BY <1>4, <1>5, <1>6

\* A renderer that has made one more call.
LEMMA PassedRight ==
  ASSUME NEW g, NEW c, FrameTyped(g, c), FrameRefers(g, c), NEW d, d = [c EXCEPT !.called = @ + 1]
  PROVE  /\ FrameTyped(g, d) /\ FrameRefers(g, d) /\ d.called = c.called + 1
         /\ d.of = c.of /\ d.forKeys = c.forKeys /\ d.already = c.already /\ d.next = c.next
         /\ d.spread = c.spread /\ d.referenced = c.referenced
         /\ FrameKeys(g, c) => FrameKeys(g, d)
<1>1. DOMAIN c = Fields
  BY DEF FrameTyped
<1>2. /\ DOMAIN d = Fields /\ d.called = c.called + 1
      /\ d.of = c.of /\ d.forKeys = c.forKeys /\ d.already = c.already /\ d.next = c.next
      /\ d.spread = c.spread /\ d.referenced = c.referenced /\ d.walking = c.walking
      /\ d.left = c.left /\ d.properties = c.properties /\ d.siblings = c.siblings
      /\ d.claimed = c.claimed /\ d.byFlattened = c.byFlattened
  BY <1>1 DEF Fields
<1>3. FrameTyped(g, d)
  BY <1>2 DEF FrameTyped
<1>4. FrameRefers(g, d)
  BY <1>2 DEF FrameRefers
<1>5. ASSUME FrameKeys(g, c) PROVE FrameKeys(g, d)
  <2>1. ClaimsRight(g, d)
    BY <1>2, <1>5 DEF FrameKeys, ClaimsRight
  <2>2. \A i \in DOMAIN d.siblings : SiblingRight(g, d, i)
    BY <1>2, <1>5 DEF FrameKeys, SiblingRight
  <2>3. PropertiesRight(g, d)
    <3>1. \A i : \A k : OwnAt(g, d, i, k) = OwnAt(g, c, i, k)
      BY <1>2 DEF OwnAt
    <3>2. \A j : \A k : LostTo(g, d, j, k) = LostTo(g, c, j, k)
      BY <1>2 DEF LostTo
    <3>3. PropertiesRight(g, c)
      BY <1>5 DEF FrameKeys
    <3> HIDE DEF OwnAt, LostTo
    <3> QED
      BY <1>2, <3>1, <3>2, <3>3 DEF PropertiesRight
  <2> QED
    BY <1>2, <1>5, <2>1, <2>2, <2>3 DEF FrameKeys
<1> QED
  BY <1>2, <1>3, <1>4, <1>5

\* The call d is the next that c makes.
NextCall(g, c, d) ==
    LET made == CallsOf(g[c.of][c.next]) IN
    /\ c.next <= Len(g[c.of]) /\ Len(made) \in Nat /\ c.called < Len(made)
    /\ d.of = made[c.called + 1].of /\ d.forKeys = made[c.called + 1].forKeys
    /\ ~d.forKeys => d.already = c.already \cup {d.of}

\* A renderer is entered from the top of the stack.
LEMMA PushRight ==
  ASSUME NEW g, NEW st, StackTyped(g, st), st # <<>>,
         NEW d, NextCall(g, st[Len(st)], d), FrameTyped(g, d), FrameRefers(g, d),
         NEW e, e = [st[Len(st)] EXCEPT !.called = @ + 1],
         NEW u, Restacked(st, u, Len(st), e), NEW t, Restacked(u, t, Len(st) + 1, d)
  PROVE  /\ StackTyped(g, t)
         /\ StackKeys(g, st) /\ FrameKeys(g, d) /\ SpreadAfter(g, d, d.called) => StackKeys(g, t)
         /\ \A K : MarksRight(g, st, K) => MarksRight(g, t, K)
<1> DEFINE n == Len(st)
           c == st[n]
<1>1. n \in Nat \ {0} /\ n \in 1..n
  BY EmptySeq, LenProperties DEF StackTyped
<1>2. FrameTyped(g, c) /\ FrameRefers(g, c)
  BY <1>1 DEF StackTyped
<1>3. c.called \in Nat
  BY <1>2 DEF FrameTyped
<1>4. /\ FrameTyped(g, e) /\ FrameRefers(g, e) /\ e.called = c.called + 1
      /\ e.of = c.of /\ e.forKeys = c.forKeys /\ e.already = c.already /\ e.next = c.next
      /\ e.spread = c.spread /\ e.referenced = c.referenced
      /\ FrameKeys(g, c) => FrameKeys(g, e)
  <2> HIDE DEF c
  <2>1. e = [c EXCEPT !.called = @ + 1]
    BY DEF c
  <2> QED
    BY <1>2, <2>1, PassedRight
<1>5. Restacked(st, u, n, e)
  OBVIOUS
<1>6. StackTyped(g, u) /\ \A K : MarksRight(g, st, K) => MarksRight(g, u, K)
  <2>1. Becomes(st[Len(st)], e)
    BY <1>4 DEF Becomes
  <2> QED
    BY <1>1, <1>4, <2>1, ReplaceTop
<1>7. u[n] = e /\ Len(u) = n /\ \A p \in 1..(n - 1) : u[p] = st[p]
  BY DEF Restacked
<1>8. Waits(g, e, d)
  <2>1. NextCall(g, c, d)
    OBVIOUS
  <2> HIDE DEF c
  <2> DEFINE made == CallsOf(g[c.of][c.next])
  <2>2. /\ c.next <= Len(g[c.of]) /\ Len(made) \in Nat /\ c.called < Len(made)
        /\ d.of = made[c.called + 1].of /\ d.forKeys = made[c.called + 1].forKeys
    BY <2>1 DEF NextCall
  <2>3. e.next <= Len(g[e.of]) /\ CallsOf(g[e.of][e.next]) = made
    BY <1>4, <2>2
  <2> HIDE DEF made
  <2>4. c.called + 1 \in 1..Len(made)
    BY <1>3, <2>2
  <2>5. e.called = c.called + 1
    BY <1>4
  <2> QED
    BY <2>2, <2>3, <2>4, <2>5 DEF Waits
<1>9. StackTyped(g, t)
  <2>1. n + 1 \in Nat \ {0} /\ (n + 1) - 1 = n /\ n + 1 > 1
    BY <1>1
  <2>2. Waits(g, u[(n + 1) - 1], d)
    BY <1>7, <1>8, <2>1
  <2>3. (n + 1) - 1 <= Len(u) /\ n + 1 # 1
    BY <1>1, <1>7
  <2> DEFINE m == n + 1
  <2>4. Restacked(u, t, m, d)
    OBVIOUS
  <2> HIDE DEF m
  <2>5. m \in Nat \ {0} /\ m - 1 <= Len(u) /\ m # 1 /\ Waits(g, u[m - 1], d)
    BY <2>1, <2>2, <2>3 DEF m
  <2> QED
    BY <1>6, <2>4, <2>5, RestackTyped
<1>10. ASSUME StackKeys(g, st), FrameKeys(g, d), SpreadAfter(g, d, d.called) PROVE StackKeys(g, t)
  <2>1. CallersRight(g, st, n - 1) /\ FrameKeys(g, c) /\ SpreadAfter(g, c, c.called)
    BY <1>10 DEF StackKeys
  <2>2. SpreadAfter(g, e, e.called - 1)
    <3>1. e.called - 1 = c.called
      BY <1>3, <1>4
    <3> QED
      <4> HIDE DEF c
      <4> QED
        BY <1>4, <2>1, <3>1 DEF SpreadAfter
  <2>3. ASSUME NEW p \in 1..n PROVE FrameKeys(g, u[p]) /\ SpreadAfter(g, u[p], u[p].called - 1)
    <3>1. CASE p = n
      BY <1>4, <1>7, <2>1, <2>2, <3>1
    <3>2. CASE p # n
      <4>1. p \in 1..(n - 1)
        BY <1>1, <3>2
      <4> QED
        BY <1>7, <2>1, <4>1 DEF CallersRight
    <3> QED
      BY <3>1, <3>2
  <2>4. CallersRight(g, u, (n + 1) - 1)
    <3>1. (n + 1) - 1 = n
      BY <1>1
    <3> QED
      BY <2>3, <3>1 DEF CallersRight
  <2>5. n + 1 \in Nat \ {0}
    BY <1>1
  <2> QED
    BY <1>10, <2>4, <2>5, RestackKeys
<1>11. ASSUME NEW K, MarksRight(g, st, K) PROVE MarksRight(g, t, K)
  <2>1. MarksRight(g, u, K)
    BY <1>6, <1>11
  <2>2. MarkRight(g, u, n, K)
    BY <1>1, <1>7, <2>1 DEF MarksRight
  <2>3. t[n + 1] = d /\ \A p \in 1..n : t[p] = u[p]
    BY <1>1 DEF Restacked
  <2>4. MarkRight(g, t, n + 1, K)
    <3> SUFFICES ASSUME ForDocument(t, n + 1)
                 PROVE  \A s \in t[n + 1].already :
                           (\E q \in 1..(n + 1) : t[q].of = s) \/ Accounted(g, t, n + 1, K, s)
      BY DEF MarkRight
    <3>1. n + 1 \in 1..(n + 1) /\ \A q \in 1..n : q \in 1..(n + 1)
      BY <1>1
    <3>2. ~d.forKeys
      BY <2>3, <3>1 DEF ForDocument
    <3>3. ForDocument(u, n)
      BY <2>3, <3>1 DEF ForDocument
    <3>4. \A s \in e.already : (\E q \in 1..n : u[q].of = s) \/ Accounted(g, u, n, K, s)
      BY <1>7, <2>2, <3>3 DEF MarkRight
    <3>5. \A s : Accounted(g, u, n, K, s) => Accounted(g, t, n + 1, K, s)
      BY <2>3, <3>1 DEF Accounted
    <3>6. d.already = e.already \cup {d.of}
      BY <1>4, <3>2 DEF NextCall
    <3>7. ASSUME NEW s \in d.already
          PROVE  (\E q \in 1..(n + 1) : t[q].of = s) \/ Accounted(g, t, n + 1, K, s)
      <4>1. CASE s = d.of
        BY <2>3, <3>1, <4>1
      <4>2. CASE s \in e.already
        BY <2>3, <3>1, <3>4, <3>5, <4>2
      <4> QED
        BY <3>6, <4>1, <4>2
    <3> QED
      BY <2>3, <3>7
  <2>5. n + 1 \in Nat \ {0} /\ (n + 1) - 1 <= Len(u) /\ Len(u) \in Nat
    BY <1>1, <1>7
  <2> QED
    BY <2>1, <2>4, <2>5, RestackMarks
<1> QED
  BY <1>9, <1>10, <1>11

\* The keys of a frame are in these fields.
LEMMA KeysKept ==
  ASSUME NEW g, NEW c, FrameKeys(g, c), NEW d,
         d.of = c.of, d.walking = c.walking, d.left = c.left, d.next = c.next,
         d.properties = c.properties, d.siblings = c.siblings,
         d.claimed = c.claimed, d.byFlattened = c.byFlattened
  PROVE  FrameKeys(g, d)
<1>1. ClaimsRight(g, d)
  BY DEF FrameKeys, ClaimsRight
<1>2. \A i \in DOMAIN d.siblings : SiblingRight(g, d, i)
  BY DEF FrameKeys, SiblingRight
<1>3. PropertiesRight(g, d)
  <2>1. \A i : \A k : OwnAt(g, d, i, k) = OwnAt(g, c, i, k)
    BY DEF OwnAt
  <2>2. \A j : \A k : LostTo(g, d, j, k) = LostTo(g, c, j, k)
    BY DEF LostTo
  <2>3. PropertiesRight(g, c)
    BY DEF FrameKeys
  <2> HIDE DEF OwnAt, LostTo
  <2> QED
    BY <2>1, <2>2, <2>3 DEF PropertiesRight
<1> QED
  BY <1>1, <1>2, <1>3 DEF FrameKeys

\* What a caller becomes when a call has returned.
Returned(c, r) ==
    IF r.forKeys THEN [c EXCEPT !.spread = Over(@, KeySchemas(r))]
    ELSE [c EXCEPT !.already = r.already, !.referenced = @ \cup r.referenced]

\* A caller takes what a call returned: keys, if it is for keys.
LEMMA ReturnedRight ==
  ASSUME NEW g, Renderable(g), NEW c, FrameTyped(g, c), FrameRefers(g, c),
         NEW r, FrameTyped(g, r), FrameRefers(g, r), Waits(g, c, r),
         r.next > Len(g[r.of]), r.left = 0,
         NEW d, d = Returned(c, r)
  PROVE  /\ FrameTyped(g, d) /\ FrameRefers(g, d)
         /\ d.of = c.of /\ d.forKeys = c.forKeys /\ d.next = c.next /\ d.called = c.called
         /\ r.forKeys => d.already = c.already /\ d.referenced = c.referenced
         /\ ~r.forKeys => d.already = r.already /\ d.referenced = c.referenced \cup r.referenced
         /\ FrameKeys(g, c) /\ SpreadAfter(g, c, c.called - 1) /\ FrameKeys(g, r) =>
              FrameKeys(g, d) /\ SpreadAfter(g, d, d.called)
<1> DEFINE a == g[c.of][c.next]
           made == CallsOf(a)
<1>1. c.of \in DOMAIN g /\ c.next \in 1..Len(g[c.of]) /\ DOMAIN c = Fields /\ r.forKeys \in BOOLEAN
  BY DEF FrameTyped, Waits
<1>2. c.next \in DOMAIN g[c.of]
  BY <1>1, AttributesNumbered
<1>3. a.to \in Seq(DOMAIN g) /\ a.flatten \in BOOLEAN
  BY <1>1, <1>2 DEF Renderable
<1>4. /\ c.called \in 1..Len(made) /\ made[c.called].of = r.of
      /\ made[c.called].forKeys = r.forKeys
  BY DEF Waits
<1>5. /\ made \in Seq([of : ToSet(a.to), forKeys : BOOLEAN])
      /\ \A j \in 1..Len(made) : made[j].forKeys => a.flatten
  <2> HIDE DEF a
  <2> QED
    BY <1>3, CallTypes
<1>6. r.forKeys => r.of \in Flattened(g, c.of)
  <2>1. made[c.called] \in [of : ToSet(a.to), forKeys : BOOLEAN]
    BY <1>4, <1>5, ElementOfSeq
  <2>2. r.of \in ToSet(a.to) /\ (r.forKeys => a.flatten)
    BY <1>4, <1>5, <2>1
  <2> QED
    BY <1>2, <2>2 DEF Flattened
<1>7. /\ DOMAIN d = Fields
      /\ d.of = c.of /\ d.forKeys = c.forKeys /\ d.next = c.next /\ d.called = c.called
      /\ d.walking = c.walking /\ d.left = c.left /\ d.properties = c.properties
      /\ d.siblings = c.siblings /\ d.claimed = c.claimed /\ d.byFlattened = c.byFlattened
      /\ r.forKeys => /\ d.already = c.already /\ d.referenced = c.referenced
                      /\ d.spread = Over(c.spread, KeySchemas(r))
      /\ ~r.forKeys => /\ d.already = r.already /\ d.referenced = c.referenced \cup r.referenced
                       /\ d.spread = c.spread
  <2>1. CASE r.forKeys
    BY <1>1, <2>1 DEF Returned, Fields
  <2>2. CASE ~r.forKeys
    BY <1>1, <2>2 DEF Returned, Fields
  <2> QED
    BY <1>1, <2>1, <2>2
<1>8. /\ AllDeclared(g, r.of, KeySchemas(r))
      /\ FrameKeys(g, r) => DOMAIN KeySchemas(r) = KeysOf(g, r.of)
  BY KeySchemasRight
<1> HIDE DEF made, a
<1>9. FrameTyped(g, d)
  <2>1. d.already \subseteq DOMAIN g /\ d.referenced \subseteq DOMAIN g
    BY <1>1, <1>7 DEF FrameTyped
  <2> QED
    BY <1>7, <2>1 DEF FrameTyped
<1>10. DOMAIN Over(c.spread, KeySchemas(r)) = DOMAIN c.spread \cup DOMAIN KeySchemas(r)
  BY OverEntries
<1>11. AllDeclared(g, c.of, d.spread)
  <2>1. AllDeclared(g, c.of, c.spread)
    BY DEF FrameRefers
  <2>2. CASE r.forKeys
    <3>1. Spread(g, r.of) \subseteq Spread(g, c.of)
      <4>1. r.of \in Spread(g, c.of)
        BY <1>1, <1>6, <2>2, SpreadClosed
      <4> QED
        BY <1>1, <4>1, SpreadWithin
    <3> DEFINE f == c.spread
               h == KeySchemas(r)
    <3> HIDE DEF f, h
    <3>2. \A k \in DOMAIN h : DeclaredIn(g, c.of, h[k])
      BY <1>8, <3>1 DEF AllDeclared, DeclaredIn, h
    <3>3. \A k \in DOMAIN f : DeclaredIn(g, c.of, f[k])
      BY <2>1 DEF AllDeclared, f
    <3>4. \A k \in DOMAIN Over(f, h) : \/ k \in DOMAIN f /\ Over(f, h)[k] = f[k]
                                       \/ k \in DOMAIN h /\ Over(f, h)[k] = h[k]
      BY DEF Over
    <3>5. \A k \in DOMAIN Over(f, h) : DeclaredIn(g, c.of, Over(f, h)[k])
      BY <3>2, <3>3, <3>4
    <3>6. d.spread = Over(f, h)
      BY <1>7, <2>2 DEF f, h
    <3> QED
      BY <3>5, <3>6 DEF AllDeclared
  <2>3. CASE ~r.forKeys
    BY <1>7, <2>1, <2>3
  <2> QED
    BY <1>1, <2>2, <2>3
<1>12. FrameRefers(g, d)
  <2>1. \A i \in DOMAIN g[c.of] : i < c.next => ToSet(g[c.of][i].to) \subseteq d.referenced
    BY <1>1, <1>7 DEF FrameRefers
  <2> QED
    BY <1>7, <1>11, <2>1 DEF FrameRefers
<1>13. ASSUME FrameKeys(g, c), SpreadAfter(g, c, c.called - 1), FrameKeys(g, r)
       PROVE  FrameKeys(g, d) /\ SpreadAfter(g, d, d.called)
  <2>1. FrameKeys(g, d)
    BY <1>7, <1>13, KeysKept
  <2>2. \A k : k \in DOMAIN c.spread <=>
           \E j \in 1..(c.called - 1) : made[j].forKeys /\ k \in KeysOf(g, made[j].of)
    BY <1>1, <1>13 DEF SpreadAfter, made, a
  <2>3. \A j : j \in 1..c.called <=> j \in 1..(c.called - 1) \/ j = c.called
    BY <1>4
  <2>4. \A k : k \in DOMAIN d.spread <=>
           \E j \in 1..c.called : made[j].forKeys /\ k \in KeysOf(g, made[j].of)
    <3>1. \A k : k \in DOMAIN d.spread <=>
            k \in DOMAIN c.spread \/ (r.forKeys /\ k \in KeysOf(g, r.of))
      BY <1>1, <1>7, <1>8, <1>10, <1>13
    <3> QED
      BY <1>4, <2>2, <2>3, <3>1
  <2>5. SpreadAfter(g, d, d.called)
    BY <1>7, <2>4 DEF SpreadAfter, made, a
  <2> QED
    BY <2>1, <2>5
<1> QED
  BY <1>7, <1>9, <1>12, <1>13

\* A renderer returns to its caller.
LEMMA PopRight ==
  ASSUME NEW g, Renderable(g), NEW st, StackTyped(g, st), Len(st) > 1,
         st[Len(st)].next > Len(g[st[Len(st)].of]), st[Len(st)].left = 0,
         NEW d, d = Returned(st[Len(st) - 1], st[Len(st)]),
         NEW t, Restacked(st, t, Len(st) - 1, d)
  PROVE  /\ StackTyped(g, t)
         /\ StackKeys(g, st) => StackKeys(g, t)
         /\ \A K : MarksRight(g, st, K) => MarksRight(g, t, K)
<1> DEFINE n == Len(st)
           m == n - 1
           c == st[m]
           r == st[n]
<1>1. n \in Nat /\ m \in Nat \ {0} /\ m \in 1..n /\ n \in 1..n /\ m + 1 = n /\ m <= n - 1
  <2>1. n \in Nat
    BY LenProperties DEF StackTyped
  <2> QED
    BY <2>1
<1>2. /\ FrameTyped(g, c) /\ FrameRefers(g, c) /\ FrameTyped(g, r) /\ FrameRefers(g, r)
      /\ Waits(g, c, r)
  <2>1. Waits(g, st[m], st[m + 1])
    BY <1>1 DEF StackTyped
  <2> QED
    BY <1>1, <2>1 DEF StackTyped
<1>3. /\ r.next > Len(g[r.of]) /\ r.left = 0 /\ d = Returned(c, r) /\ Restacked(st, t, m, d)
  OBVIOUS
<1> HIDE DEF c, r
<1>4. /\ FrameTyped(g, d) /\ FrameRefers(g, d)
      /\ d.of = c.of /\ d.forKeys = c.forKeys /\ d.next = c.next /\ d.called = c.called
      /\ r.forKeys => d.already = c.already /\ d.referenced = c.referenced
      /\ ~r.forKeys => d.already = r.already /\ d.referenced = c.referenced \cup r.referenced
      /\ FrameKeys(g, c) /\ SpreadAfter(g, c, c.called - 1) /\ FrameKeys(g, r) =>
           FrameKeys(g, d) /\ SpreadAfter(g, d, d.called)
  BY <1>2, <1>3, ReturnedRight
<1>5. StackTyped(g, t)
  <2>1. ASSUME m = 1 PROVE ~d.forKeys
    <3>1. ~st[1].forKeys
      <4>1. st # <<>>
        BY <1>1
      <4> QED
        BY <4>1 DEF StackTyped
    <3>2. c = st[1]
      BY <2>1 DEF c
    <3> HIDE DEF m
    <3> QED
      BY <1>4, <3>1, <3>2
  <2>2. ASSUME m > 1 PROVE Waits(g, st[m - 1], d)
    <3>1. m - 1 \in 1..(n - 1) /\ (m - 1) + 1 = m
      BY <1>1, <2>2
    <3>2. Waits(g, st[m - 1], c)
      BY <3>1 DEF StackTyped, c
    <3> QED
      BY <1>4, <3>2 DEF Waits
  <2>3. m - 1 <= Len(st)
    BY <1>1
  <2> HIDE DEF m
  <2> QED
    BY <1>1, <1>3, <1>4, <2>1, <2>2, <2>3, RestackTyped
<1>6. ASSUME StackKeys(g, st) PROVE StackKeys(g, t)
  <2>1. CallersRight(g, st, m) /\ FrameKeys(g, r)
    BY <1>1, <1>6 DEF StackKeys, r
  <2>2. FrameKeys(g, c) /\ SpreadAfter(g, c, c.called - 1)
    <3>1. m \in 1..m
      BY <1>1
    <3> HIDE DEF m
    <3> QED
      BY <2>1, <3>1 DEF CallersRight, c
  <2>3. CallersRight(g, st, m - 1)
    <3>1. \A p \in 1..(m - 1) : p \in 1..m
      BY <1>1
    <3> HIDE DEF m
    <3> QED
      BY <2>1, <3>1 DEF CallersRight
  <2> HIDE DEF m
  <2> QED
    BY <1>1, <1>3, <1>4, <2>1, <2>2, <2>3, RestackKeys
<1>7. ASSUME NEW K, MarksRight(g, st, K) PROVE MarksRight(g, t, K)
  <2>1. t[m] = d /\ \A p \in 1..(m - 1) : t[p] = st[p]
    BY <1>3 DEF Restacked
  <2>2. MarkRight(g, st, m, K) /\ MarkRight(g, st, n, K)
    BY <1>1, <1>7 DEF MarksRight
  <2> HIDE DEF m, n
  <2>3. ASSUME NEW q \in 1..m
        PROVE  /\ t[q].of = st[q].of /\ t[q].forKeys = st[q].forKeys
               /\ st[q].referenced \subseteq t[q].referenced
    <3>1. CASE q = m
      <4>1. r.forKeys \in BOOLEAN
        BY <1>2 DEF FrameTyped
      <4> QED
        BY <1>4, <2>1, <3>1, <4>1 DEF c
    <3>2. CASE q # m
      <4>1. q \in 1..(m - 1)
        BY <1>1, <3>2
      <4> QED
        BY <2>1, <4>1
    <3> QED
      BY <3>1, <3>2
  <2>4. MarkRight(g, t, m, K)
    <3> SUFFICES ASSUME ForDocument(t, m)
                 PROVE  \A s \in t[m].already :
                           (\E q \in 1..m : t[q].of = s) \/ Accounted(g, t, m, K, s)
      BY DEF MarkRight
    <3>1. ForDocument(st, m)
      BY <2>3 DEF ForDocument
    <3>2. \A s \in c.already : (\E q \in 1..m : st[q].of = s) \/ Accounted(g, st, m, K, s)
      BY <2>2, <3>1 DEF MarkRight, c
    <3>3. CASE r.forKeys
      <4>1. t[m].of = c.of /\ t[m].already = c.already
        BY <1>4, <2>1, <3>3
      <4>2. \A s : Accounted(g, st, m, K, s) => Accounted(g, t, m, K, s)
        BY <2>3 DEF Accounted
      <4> QED
        BY <2>3, <3>2, <4>1, <4>2
    <3>4. CASE ~r.forKeys
      <4>1. \A q \in 1..n : q \in 1..m \/ q = n
        BY <1>1
      <4>2. ForDocument(st, n)
        BY <3>1, <3>4, <4>1 DEF ForDocument, r
      <4>3. \A s \in r.already : (\E q \in 1..n : st[q].of = s) \/ Accounted(g, st, n, K, s)
        BY <2>2, <4>2 DEF MarkRight, r
      <4>4. t[m].of = c.of /\ t[m].already = r.already /\ r.referenced \subseteq t[m].referenced
        BY <1>4, <2>1, <3>4
      <4>5. m \in 1..m
        BY <1>1
      <4>6. \A s : Accounted(g, st, n, K, s) => Accounted(g, t, m, K, s)
        BY <2>3, <4>1, <4>4, <4>5 DEF Accounted, r
      <4>7. Accounted(g, t, m, K, r.of)
        <5>1. AllTo(g, r.of) \subseteq r.referenced
          <6>1. r.of \in DOMAIN g /\ r.next \in 1..(Len(g[r.of]) + 1)
            BY <1>2 DEF FrameTyped
          <6>2. DOMAIN g[r.of] = 1..Len(g[r.of]) /\ Len(g[r.of]) \in Nat
            BY <6>1, AttributesNumbered
          <6>3. \A i \in DOMAIN g[r.of] : i < r.next
            BY <1>3, <6>1, <6>2
          <6> QED
            BY <1>2, <6>3 DEF FrameRefers, AllTo
        <5> QED
          BY <4>4, <4>5, <5>1 DEF Accounted
      <4>8. ASSUME NEW s \in r.already
            PROVE  (\E q \in 1..m : t[q].of = s) \/ Accounted(g, t, m, K, s)
        <5>1. CASE \E q \in 1..n : st[q].of = s
          BY <2>3, <4>1, <4>7, <5>1 DEF r
        <5> QED
          BY <4>3, <4>6, <5>1
      <4> QED
        BY <4>4, <4>8
    <3>5. r.forKeys \in BOOLEAN
      BY <1>2 DEF FrameTyped
    <3> QED
      BY <3>3, <3>4, <3>5
  <2>5. m - 1 <= Len(st) /\ Len(st) \in Nat
    BY <1>1 DEF n
  <2> QED
    BY <1>1, <1>3, <1>7, <2>4, <2>5, RestackMarks
<1> QED
  BY <1>5, <1>6, <1>7

(***************************************************************************)
(* The steps of the renderers                                              *)
(***************************************************************************)

\* A step of the renderers keeps what is known of the stack.
StackStep ==
    /\ StackTyped(app.attributes, renderers')
    /\ ~FlattensItself(app.attributes) /\ StackKeys(app.attributes, renderers) =>
         StackKeys(app.attributes, renderers')
    /\ \A K : MarksRight(app.attributes, renderers, K) => MarksRight(app.attributes, renderers', K)

\* The top of the stack, and the stacks made from it.
LEMMA TopFacts ==
  ASSUME NEW g, StackTyped(g, renderers), renderers # <<>>
  PROVE  /\ Len(renderers) \in Nat \ {0} /\ Top = renderers[Len(renderers)]
         /\ FrameTyped(g, Top) /\ FrameRefers(g, Top)
         /\ \A c : Restacked(renderers, SetTop(c), Len(renderers), c)
<1>1. renderers \in Seq(ToSet(renderers)) /\ Len(renderers) \in Nat \ {0}
  BY EmptySeq, LenProperties DEF StackTyped
<1>2. Top = renderers[Len(renderers)]
  BY DEF Top, Last
<1>3. FrameTyped(g, Top) /\ FrameRefers(g, Top)
  <2>1. Len(renderers) \in 1..Len(renderers)
    BY <1>1
  <2> QED
    BY <1>2, <2>1 DEF StackTyped
<1>4. ASSUME NEW c PROVE Restacked(renderers, SetTop(c), Len(renderers), c)
  <2>1. Len(renderers) - 1 \in 0..Len(renderers) /\ (Len(renderers) - 1) + 1 = Len(renderers)
    BY <1>1
  <2>2. Restacked(renderers, SubSeq(renderers, 1, Len(renderers) - 1) \o <<c>>,
                  (Len(renderers) - 1) + 1, c)
    BY <1>1, <2>1, Restacks
  <2> QED
    BY <2>1, <2>2 DEF SetTop, Front
<1> QED
  BY <1>1, <1>2, <1>3, <1>4

\* A call for the keys of a flattened attribute is for what it spreads.
CallsTyped(g, c, made) ==
    /\ Len(made) \in Nat
    /\ \A j \in 1..Len(made) :
          /\ made[j].of \in DOMAIN g /\ made[j].forKeys \in BOOLEAN
          /\ made[j].forKeys => made[j].of \in Flattened(g, c.of)

\* The calls of the attribute at hand are.
LEMMA CallSpreads ==
  ASSUME NEW g, Renderable(g), NEW c, FrameTyped(g, c), c.next <= Len(g[c.of]),
         NEW made, made = CallsOf(g[c.of][c.next])
  PROVE  CallsTyped(g, c, made)
<1> DEFINE a == g[c.of][c.next]
           C == [of : ToSet(a.to), forKeys : BOOLEAN]
<1>1. c.of \in DOMAIN g /\ c.next \in 1..Len(g[c.of])
  BY DEF FrameTyped
<1>2. c.next \in DOMAIN g[c.of]
  BY <1>1, AttributesNumbered
<1>3. a.to \in Seq(DOMAIN g) /\ a.flatten \in BOOLEAN
  BY <1>1, <1>2 DEF Renderable
<1>4. made \in Seq(C) /\ \A i \in 1..Len(made) : made[i].forKeys => a.flatten
  <2>1. made = CallsOf(a)
    OBVIOUS
  <2> HIDE DEF a
  <2> QED
    BY <1>3, <2>1, CallTypes
<1>5. Len(made) \in Nat /\ \A j \in 1..Len(made) : made[j] \in C
  <2> HIDE DEF C
  <2> QED
    BY <1>4, ElementOfSeq, LenProperties
<1>6. ToSet(a.to) \subseteq DOMAIN g
  <2> HIDE DEF a
  <2> QED
    BY <1>3, LenProperties DEF ToSet
<1>7. ASSUME NEW j \in 1..Len(made)
      PROVE  /\ made[j].of \in DOMAIN g /\ made[j].forKeys \in BOOLEAN
             /\ made[j].forKeys => made[j].of \in Flattened(g, c.of)
  <2>1. made[j].of \in ToSet(a.to) /\ made[j].forKeys \in BOOLEAN
    BY <1>5
  <2>2. made[j].forKeys => made[j].of \in Flattened(g, c.of)
    BY <1>2, <1>4, <2>1 DEF Flattened
  <2> HIDE DEF a
  <2> QED
    BY <1>6, <2>1, <2>2
<1> QED
  BY <1>5, <1>7 DEF CallsTyped

\* Unless serializers flatten themselves, no call for keys is left out.
LEMMA NoKeysLeftOut ==
  ASSUME NEW g, Renderable(g), ~FlattensItself(g), NEW c, FrameTyped(g, c), FrameKeys(g, c),
         NEW s \in Flattened(g, c.of)
  PROVE  s \notin c.walking
<1>1. c.of \in DOMAIN g /\ \A u \in c.walking : c.of \in Spread(g, u)
  BY DEF FrameTyped, FrameKeys
<1>2. c.of \notin Spread(g, s)
  BY <1>1 DEF FlattensItself
<1> QED
  BY <1>1, <1>2

\* A call that is left out for its marks would have returned no key.
LEMMA SkippedRight ==
  ASSUME NEW g, Renderable(g), ~FlattensItself(g), NEW c, FrameTyped(g, c), FrameKeys(g, c),
         SpreadAfter(g, c, c.called), c.next <= Len(g[c.of]),
         NEW made, made = CallsOf(g[c.of][c.next]), c.called < Len(made),
         made[c.called + 1].forKeys => made[c.called + 1].of \in c.walking,
         NEW e, e = [c EXCEPT !.called = @ + 1], FrameRefers(g, c)
  PROVE  FrameKeys(g, e) /\ SpreadAfter(g, e, e.called)
<1>1. /\ e.called = c.called + 1 /\ e.of = c.of /\ e.next = c.next /\ e.spread = c.spread
      /\ FrameKeys(g, e)
  BY PassedRight
<1>2. /\ Len(made) \in Nat
      /\ \A j \in 1..Len(made) : made[j].forKeys => made[j].of \in Flattened(g, c.of)
  BY CallSpreads DEF CallsTyped
<1>3. c.called \in Nat /\ c.called + 1 \in 1..Len(made)
  BY <1>2 DEF FrameTyped
<1>4. ~made[c.called + 1].forKeys
  BY <1>2, <1>3, NoKeysLeftOut
<1>5. \A j : j \in 1..(c.called + 1) <=> j \in 1..c.called \/ j = c.called + 1
  BY <1>3
<1>6. \A k : k \in DOMAIN c.spread <=>
         \E j \in 1..c.called : made[j].forKeys /\ k \in KeysOf(g, made[j].of)
  BY DEF SpreadAfter
<1>7. \A k : k \in DOMAIN e.spread <=>
         \E j \in 1..e.called : made[j].forKeys /\ k \in KeysOf(g, made[j].of)
  BY <1>1, <1>4, <1>5, <1>6
<1>8. made = CallsOf(g[e.of][e.next])
  BY <1>1
<1> QED
  BY <1>1, <1>7, <1>8 DEF SpreadAfter

\* A renderer that is entered for keys is spread by all that is being walked.
LEMMA EnteredFor ==
  ASSUME NEW g, Renderable(g), NEW c, FrameTyped(g, c), NEW d, Fresh(g, d),
         d.forKeys => d.of \in Flattened(g, c.of),
         d.walking = (IF d.forKeys THEN c.walking ELSE {}) \cup {d.of}
  PROVE  /\ FrameTyped(g, d) /\ FrameRefers(g, d) /\ SpreadAfter(g, d, d.called)
         /\ FrameKeys(g, c) => FrameKeys(g, d)
<1>1. d.of \in DOMAIN g
  BY DEF Fresh
<1>2. ASSUME FrameKeys(g, c), NEW u \in d.walking PROVE d.of \in Spread(g, u)
  <2>1. CASE u = d.of
    BY <1>1, <2>1, SpreadClosed
  <2>2. CASE u # d.of
    <3>1. u \in c.walking /\ d.of \in Flattened(g, c.of)
      BY <1>2, <2>2
    <3>2. c.of \in Spread(g, u) /\ u \in DOMAIN g
      BY <1>2, <3>1 DEF FrameKeys, FrameTyped
    <3> QED
      BY <3>1, <3>2, SpreadClosed
  <2> QED
    BY <2>1, <2>2
<1> QED
  BY <1>2, FreshRight

\* A call enters a renderer, unless the serializer is extracted or being walked.
LEMMA EnterStep ==
  ASSUME Renderable(app.attributes), StackTyped(app.attributes, renderers), EnterRenderer
  PROVE  StackStep
<1> DEFINE c == Top
           n == Len(renderers)
<1> PICK g : g = app.attributes
  OBVIOUS
<1>1. renderers # <<>> /\ c.next <= Len(g[c.of])
  BY DEF EnterRenderer, AtAttribute, Attributes
<1>2. /\ n \in Nat \ {0} /\ c = renderers[n]
      /\ FrameTyped(g, c) /\ FrameRefers(g, c)
      /\ \A e : Restacked(renderers, SetTop(e), n, e)
  BY <1>1, TopFacts
<1> HIDE DEF c, n
<1>3. PICK made : made = CallsOf(g[c.of][c.next])
  OBVIOUS
<1>4. PICK e : e = [c EXCEPT !.called = @ + 1]
  OBVIOUS
<1> DEFINE call == made[c.called + 1]
           known == call.of \in (IF call.forKeys THEN c.walking ELSE c.already)
           d == Entered(call.of, call.forKeys, c.already, IF call.forKeys THEN c.walking ELSE {})
<1>5. /\ c.called < Len(made)
      /\ renderers' = IF known THEN SetTop(e) ELSE SetTop(e) \o <<d>>
  BY <1>3, <1>4 DEF EnterRenderer, Attributes, c
<1>6. /\ Len(made) \in Nat
      /\ \A j \in 1..Len(made) :
            /\ made[j].of \in DOMAIN g /\ made[j].forKeys \in BOOLEAN
            /\ made[j].forKeys => made[j].of \in Flattened(g, c.of)
  <2>1. Renderable(g) /\ FrameTyped(g, c) /\ c.next <= Len(g[c.of])
    BY <1>1, <1>2
  <2>2. made = CallsOf(g[c.of][c.next])
    BY <1>3
  <2> HIDE DEF call, known, d
  <2>3. CallsTyped(g, c, made)
    BY <2>1, <2>2, CallSpreads
  <2> QED
    BY <2>3 DEF CallsTyped
<1>7. c.called \in Nat /\ c.called + 1 \in 1..Len(made)
  BY <1>2, <1>5, <1>6 DEF FrameTyped
<1>8. /\ call.of \in DOMAIN g /\ call.forKeys \in BOOLEAN
      /\ call.forKeys => call.of \in Flattened(g, c.of)
  BY <1>6, <1>7
<1>9. Restacked(renderers, SetTop(e), n, e)
  BY <1>2
<1>10. /\ FrameTyped(g, e) /\ FrameRefers(g, e) /\ Becomes(c, e)
  BY <1>2, <1>4, PassedRight DEF Becomes
<1>11. StackKeys(g, renderers) => FrameKeys(g, c) /\ SpreadAfter(g, c, c.called)
  BY <1>1, <1>2 DEF StackKeys, n
<1> HIDE DEF d
<1>12. CASE known
  <2>1. renderers' = SetTop(e)
    BY <1>5, <1>12
  <2>2. ASSUME ~FlattensItself(g), FrameKeys(g, c), SpreadAfter(g, c, c.called)
        PROVE  FrameKeys(g, e) /\ SpreadAfter(g, e, e.called)
    <3>1. made[c.called + 1].forKeys => made[c.called + 1].of \in c.walking
      BY <1>12
    <3> HIDE DEF call, known
    <3> QED
      BY <1>1, <1>2, <1>3, <1>4, <1>5, <2>2, <3>1, SkippedRight
  <2>3. /\ StackTyped(g, renderers')
        /\ StackKeys(g, renderers) /\ FrameKeys(g, e) /\ SpreadAfter(g, e, e.called) =>
             StackKeys(g, renderers')
        /\ \A K : MarksRight(g, renderers, K) => MarksRight(g, renderers', K)
    BY <1>1, <1>2, <1>9, <1>10, <2>1, ReplaceTop DEF n
  <2> QED
    BY <1>11, <2>2, <2>3 DEF StackStep
<1>13. CASE ~known
  <2>1. renderers' = SetTop(e) \o <<d>>
    BY <1>5, <1>13
  <2>2. /\ Fresh(g, d) /\ d.of = call.of /\ d.forKeys = call.forKeys
        /\ d.walking = (IF d.forKeys THEN c.walking ELSE {}) \cup {d.of}
        /\ ~d.forKeys => d.already = c.already \cup {d.of}
    <3>1. c.already \subseteq DOMAIN g /\ c.walking \subseteq DOMAIN g
      BY <1>2 DEF FrameTyped
    <3> HIDE DEF call, known
    <3> QED
      BY <1>8, <3>1 DEF d, Entered, Fresh, Fields, Attributes
  <2>3. /\ FrameTyped(g, d) /\ FrameRefers(g, d) /\ SpreadAfter(g, d, d.called)
        /\ FrameKeys(g, c) => FrameKeys(g, d)
    <3>1. Renderable(g) /\ FrameTyped(g, c) /\ (d.forKeys => d.of \in Flattened(g, c.of))
      BY <1>2, <1>8, <2>2
    <3> HIDE DEF call, known
    <3> QED
      BY <2>2, <3>1, EnteredFor
  <2>4. NextCall(g, c, d)
    BY <1>1, <1>3, <1>5, <1>6, <2>2 DEF NextCall
  <2>5. PICK u : u = SetTop(e)
    OBVIOUS
  <2>6. Restacked(u, renderers', n + 1, d)
    <3>1. u \in Seq(ToSet(u)) /\ Len(u) = n
      BY <1>9, <2>5 DEF Restacked
    <3>2. SubSeq(u, 1, n) = u
      BY <3>1, SubSeqFull
    <3>3. n \in 0..Len(u)
      BY <1>2, <3>1
    <3>4. Restacked(u, SubSeq(u, 1, n) \o <<d>>, n + 1, d)
      BY <3>1, <3>3, Restacks
    <3> QED
      BY <2>1, <2>5, <3>2, <3>4
  <2>7. Restacked(renderers, u, n, e)
    BY <1>9, <2>5
  <2>8. /\ StackTyped(g, renderers')
        /\ StackKeys(g, renderers) /\ FrameKeys(g, d) /\ SpreadAfter(g, d, d.called) =>
             StackKeys(g, renderers')
        /\ \A K : MarksRight(g, renderers, K) => MarksRight(g, renderers', K)
    BY <1>1, <1>2, <1>4, <2>3, <2>4, <2>6, <2>7, PushRight DEF n
  <2> QED
    BY <1>11, <2>3, <2>8 DEF StackStep
<1> QED
  BY <1>12, <1>13

\* The top has become d.
LEMMA TopStep ==
  ASSUME NEW g, g = app.attributes, StackTyped(g, renderers), renderers # <<>>,
         NEW d, renderers' = SetTop(d), FrameTyped(g, d), FrameRefers(g, d), Becomes(Top, d),
         FrameKeys(g, Top) /\ SpreadAfter(g, Top, Top.called) =>
            FrameKeys(g, d) /\ SpreadAfter(g, d, d.called)
  PROVE  StackStep
<1> DEFINE n == Len(renderers)
<1>1. /\ n \in Nat \ {0} /\ Top = renderers[n]
      /\ Restacked(renderers, renderers', n, d)
  BY TopFacts
<1>2. StackKeys(g, renderers) => FrameKeys(g, d) /\ SpreadAfter(g, d, d.called)
  BY <1>1 DEF StackKeys
<1>3. Becomes(renderers[n], d)
  BY <1>1
<1>4. /\ StackTyped(g, renderers')
      /\ StackKeys(g, renderers) /\ FrameKeys(g, d) /\ SpreadAfter(g, d, d.called) =>
           StackKeys(g, renderers')
      /\ \A K : MarksRight(g, renderers, K) => MarksRight(g, renderers', K)
  BY <1>1, <1>3, ReplaceTop
<1> QED
  BY <1>2, <1>4 DEF StackStep

\* The attribute at hand is rendered.
LEMMA RenderStep ==
  ASSUME Renderable(app.attributes), StackTyped(app.attributes, renderers), RenderAttribute
  PROVE  StackStep
<1> DEFINE c == Top
<1> PICK g : g = app.attributes
  OBVIOUS
<1>1. renderers # <<>> /\ c.next <= Len(g[c.of])
  BY DEF RenderAttribute, AtAttribute, Attributes
<1>2. FrameTyped(g, c) /\ FrameRefers(g, c)
  BY <1>1, TopFacts
<1>3. PICK d : d = AttributeRendered(g[c.of][c.next], c)
  OBVIOUS
<1>4. renderers' = SetTop(d) /\ c.called = Len(CallsOf(g[c.of][c.next]))
  BY <1>3 DEF RenderAttribute, Attributes
<1> HIDE DEF c
<1>5. /\ FrameTyped(g, d) /\ FrameRefers(g, d) /\ SpreadAfter(g, d, d.called)
      /\ d.of = c.of /\ d.forKeys = c.forKeys /\ d.already = c.already
      /\ c.referenced \subseteq d.referenced
      /\ FrameKeys(g, c) /\ SpreadAfter(g, c, Len(CallsOf(g[c.of][c.next]))) => FrameKeys(g, d)
  BY <1>1, <1>2, <1>3, RenderedRight
<1>6. Becomes(c, d) /\ (FrameKeys(g, c) /\ SpreadAfter(g, c, c.called) => FrameKeys(g, d))
  BY <1>4, <1>5 DEF Becomes
<1> QED
  BY <1>1, <1>4, <1>5, <1>6, TopStep DEF c

\* The last attribute left claims its keys.
LEMMA ClaimStep ==
  ASSUME Renderable(app.attributes), StackTyped(app.attributes, renderers), ClaimAttribute
  PROVE  StackStep
<1> DEFINE c == Top
<1> PICK g : g = app.attributes
  OBVIOUS
<1>1. renderers # <<>> /\ ~(c.next <= Len(g[c.of])) /\ c.left > 0
  BY DEF ClaimAttribute, AtAttribute, Attributes
<1>2. FrameTyped(g, c) /\ FrameRefers(g, c)
  BY <1>1, TopFacts
<1>3. PICK d : d = Claim(g[c.of][c.left], c)
  OBVIOUS
<1>4. renderers' = SetTop(d)
  BY <1>3 DEF ClaimAttribute, Attributes
<1> HIDE DEF c
<1>5. c.next > Len(g[c.of])
  <2>1. c.of \in DOMAIN g /\ c.next \in 1..(Len(g[c.of]) + 1)
    BY <1>2 DEF FrameTyped
  <2> QED
    BY <1>1, <2>1, AttributesNumbered
<1>6. /\ FrameTyped(g, d) /\ FrameRefers(g, d) /\ SpreadAfter(g, d, d.called)
      /\ d.of = c.of /\ d.forKeys = c.forKeys /\ d.already = c.already
      /\ c.referenced \subseteq d.referenced
      /\ FrameKeys(g, c) => FrameKeys(g, d)
  BY <1>1, <1>2, <1>3, <1>5, ClaimsStayRight
<1>7. Becomes(c, d)
  BY <1>6 DEF Becomes
<1> QED
  BY <1>1, <1>4, <1>6, <1>7, TopStep DEF c

\* A renderer returns its keys, or its marks and what it refers to.
LEMMA LeaveStep ==
  ASSUME Renderable(app.attributes), StackTyped(app.attributes, renderers), LeaveRenderer
  PROVE  StackStep
<1> DEFINE n == Len(renderers)
           r == renderers[n]
           c == renderers[n - 1]
<1> PICK g : g = app.attributes
  OBVIOUS
<1>1. renderers # <<>> /\ n > 1 /\ Top = r /\ FrameTyped(g, r) /\ n \in Nat
  BY TopFacts DEF LeaveRenderer, AllRendered
<1>2. ~(r.next <= Len(g[r.of])) /\ r.left = 0
  BY <1>1 DEF LeaveRenderer, AllRendered, AtAttribute, Attributes
<1>3. PICK d : d = Returned(c, r)
  OBVIOUS
<1>4. renderers' = SubSeq(renderers, 1, n - 2) \o <<d>>
  BY <1>1, <1>3 DEF LeaveRenderer, Returned
<1>5. Restacked(renderers, renderers', n - 1, d)
  <2>1. renderers \in Seq(ToSet(renderers))
    BY DEF StackTyped
  <2>2. n - 2 \in 0..Len(renderers) /\ (n - 2) + 1 = n - 1
    BY <1>1
  <2>3. Restacked(renderers, SubSeq(renderers, 1, n - 2) \o <<d>>, (n - 2) + 1, d)
    <3> HIDE DEF n
    <3> QED
      BY <2>1, <2>2, Restacks
  <2> QED
    BY <1>4, <2>2, <2>3
<1>6. r.next > Len(g[r.of])
  <2> HIDE DEF r
  <2>1. r.of \in DOMAIN g /\ r.next \in 1..(Len(g[r.of]) + 1)
    BY <1>1 DEF FrameTyped
  <2> QED
    BY <1>2, <2>1, AttributesNumbered
<1>7. /\ StackTyped(g, renderers')
      /\ StackKeys(g, renderers) => StackKeys(g, renderers')
      /\ \A K : MarksRight(g, renderers, K) => MarksRight(g, renderers', K)
  BY <1>1, <1>2, <1>3, <1>5, <1>6, PopRight
<1> QED
  BY <1>7 DEF StackStep

(***************************************************************************)
(* The document                                                            *)
(***************************************************************************)

\* While schemas are rendered, what they still have to follow.
Pending == IF docPhase = "schemas" THEN collected \cup toRender ELSE {}
Known == DOMAIN schemas \cup Pending
PathPending == IF docPhase = "path" THEN collected \cup app.endpoints[endpoint].success ELSE {}

DocTypes ==
    /\ Renderable(app.attributes)
    /\ app.endpoints \in Seq([routed : BOOLEAN, success : SUBSET Serializers,
                              responses : SUBSET Serializers])
    /\ docPhase \in DocPhases /\ endpoint \in 1..(Len(app.endpoints) + 1)
    /\ docPhase \in {"path", "schemas"} => endpoint <= Len(app.endpoints)
    /\ docPhase \notin {"path", "schemas"} => renderers = <<>> /\ toRender = {} /\ collected = {}
    /\ docPhase = "idle" =>
         endpoint = 1 /\ extracted = {} /\ DOMAIN schemas = {} /\ pathRefs = {}
    /\ toRender \subseteq Serializers /\ collected \subseteq Serializers
    /\ extracted \subseteq Serializers /\ DOMAIN schemas \subseteq Serializers
    /\ pathRefs \subseteq Serializers

\* The renderers, and what they have rendered.
Rendering ==
    /\ StackTyped(app.attributes, renderers)
    /\ \A s \in DOMAIN schemas : SchemaRefers(app.attributes, s, schemas[s])
KeysRight ==
    ~FlattensItself(app.attributes) =>
       /\ StackKeys(app.attributes, renderers)
       /\ \A s \in DOMAIN schemas : SchemaKeys(app.attributes, s, schemas[s])

\* All that a rendered, or marked, serializer renders has a schema, or will.
RefsKnown ==
    /\ \A s \in extracted \cup DOMAIN schemas : AllTo(app.attributes, s) \subseteq Known
    /\ pathRefs \subseteq Known \cup PathPending
    /\ docPhase = "schemas" => MarksRight(app.attributes, renderers, Known)

DocIInv == DocTypes /\ Rendering /\ KeysRight /\ RefsKnown

\* An empty stack is right.
LEMMA EmptyStack ==
  ASSUME NEW g
  PROVE  StackTyped(g, <<>>) /\ StackKeys(g, <<>>) /\ \A K : MarksRight(g, <<>>, K)
<1>1. Len(<<>>) = 0 /\ <<>> \in Seq(ToSet(<<>>)) /\ 1..0 = {} /\ 1..(0 - 1) = {}
  OBVIOUS
<1> QED
  BY <1>1 DEF StackTyped, StackKeys, CallersRight, MarksRight

\* Before an app is declared there is nothing to render.
LEMMA InitDocument == DocInit => DocIInv
<1> SUFFICES ASSUME DocInit PROVE DocIInv
  OBVIOUS
<1>1. /\ app.attributes = << >> /\ app.endpoints = <<>> /\ docPhase = "idle" /\ endpoint = 1
      /\ toRender = {} /\ collected = {} /\ renderers = <<>>
      /\ extracted = {} /\ schemas = << >> /\ pathRefs = {}
  BY DEF DocInit
<1>2. DOMAIN << >> = {} /\ Len(<<>>) = 0
  OBVIOUS
<1>3. Renderable(app.attributes)
  BY <1>1, <1>2 DEF Renderable
<1>4. app.endpoints \in Seq([routed : BOOLEAN, success : SUBSET Serializers,
                            responses : SUBSET Serializers])
  BY <1>1
<1>5. DocTypes
  BY <1>1, <1>2, <1>3, <1>4 DEF DocTypes, DocPhases, Serializers
<1>6. Rendering /\ KeysRight
  BY <1>1, <1>2, EmptyStack DEF Rendering, KeysRight
<1>7. RefsKnown
  BY <1>1, <1>2 DEF RefsKnown
<1> QED
  BY <1>5, <1>6, <1>7 DEF DocIInv

\* A step of the renderers.
LEMMA RendererStep ==
  ASSUME DocIInv, StackStep, renderers # <<>>,
         UNCHANGED <<app, docPhase, endpoint, toRender, collected, extracted, schemas, pathRefs>>
  PROVE  DocIInv'
<1>1. DocTypes'
  BY DEF DocIInv, DocTypes, Serializers
<1>2. Rendering' /\ KeysRight'
  BY DEF DocIInv, Rendering, KeysRight, StackStep
<1>3. Known' = Known /\ PathPending' = PathPending
  BY DEF Known, Pending, PathPending
<1>4. RefsKnown'
  BY <1>3 DEF DocIInv, RefsKnown, StackStep
<1> QED
  BY <1>1, <1>2, <1>4 DEF DocIInv

\* An app is declared.
LEMMA DeclareStep ==
  ASSUME DocIInv, docPhase = "idle", NEW a \in Apps, Declare(a)
  PROVE  DocIInv'
<1>1. /\ app' = a /\ docPhase' = "endpoint" /\ endpoint' = 1 /\ toRender' = {} /\ collected' = {}
      /\ renderers' = <<>> /\ extracted' = {} /\ DOMAIN schemas' = {} /\ pathRefs' = {}
  BY DEF Declare, DocIInv, DocTypes
<1>2. /\ Renderable(a.attributes)
      /\ a.endpoints \in Seq([routed : BOOLEAN, success : SUBSET DOMAIN a.attributes,
                              responses : SUBSET DOMAIN a.attributes])
  BY AppsAssumption
<1>3. Len(a.endpoints) \in Nat
  BY <1>2, LenProperties
<1>4. DocTypes'
  BY <1>1, <1>2, <1>3 DEF DocTypes, DocPhases, Serializers
<1>5. Rendering' /\ KeysRight'
  BY <1>1, EmptyStack DEF Rendering, KeysRight
<1>6. RefsKnown'
  BY <1>1 DEF RefsKnown
<1> QED
  BY <1>4, <1>5, <1>6 DEF DocIInv

\* An endpoint refers to its serializers, which are pending until toSchemaObject.
LEMMA PathStep ==
  ASSUME DocIInv, ToPathObject
  PROVE  DocIInv'
<1>1. /\ UNCHANGED <<app, renderers, extracted, schemas>> /\ docPhase = "endpoint"
      /\ endpoint <= Len(app.endpoints) /\ renderers = <<>> /\ toRender = {} /\ collected = {}
  BY DEF ToPathObject, DocIInv, DocTypes
<1>2. PICK e : e = app.endpoints[endpoint]
  OBVIOUS
<1>3. Len(app.endpoints) \in Nat /\ endpoint \in 1..Len(app.endpoints)
  BY <1>1, LenProperties DEF DocIInv, DocTypes
<1>4. e \in [routed : BOOLEAN, success : SUBSET Serializers, responses : SUBSET Serializers]
  BY <1>2, <1>3, ElementOfSeq DEF DocIInv, DocTypes
<1>5. Rendering' /\ KeysRight'
  BY <1>1 DEF DocIInv, Rendering, KeysRight
<1>6. Known = DOMAIN schemas /\ PathPending = {}
  BY <1>1 DEF Known, Pending, PathPending
<1>7. CASE e.routed
  <2>1. /\ docPhase' = "path" /\ toRender' = e.success /\ collected' = e.responses
        /\ pathRefs' = pathRefs \cup e.success \cup e.responses /\ endpoint' = endpoint
    BY <1>2, <1>7 DEF ToPathObject
  <2>2. DocTypes'
    BY <1>1, <1>3, <1>4, <2>1 DEF DocIInv, DocTypes, DocPhases, Serializers
  <2>3. Known' = DOMAIN schemas /\ PathPending' = e.responses \cup e.success
    BY <1>1, <1>2, <2>1 DEF Known, Pending, PathPending
  <2>4. RefsKnown'
    BY <1>1, <1>6, <2>1, <2>3 DEF DocIInv, RefsKnown
  <2> QED
    BY <1>5, <2>2, <2>4 DEF DocIInv
<1>8. CASE ~e.routed
  <2>1. /\ docPhase' \in {"endpoint", "failed"} /\ endpoint' = endpoint + 1
        /\ UNCHANGED <<toRender, collected, pathRefs>>
    BY <1>2, <1>8 DEF ToPathObject
  <2>2. DocTypes'
    BY <1>1, <1>3, <2>1 DEF DocIInv, DocTypes, DocPhases, Serializers
  <2>3. Known' = DOMAIN schemas /\ PathPending' = {}
    BY <1>1, <2>1 DEF Known, Pending, PathPending
  <2>4. RefsKnown'
    BY <1>1, <1>6, <2>1, <2>3 DEF DocIInv, RefsKnown
  <2> QED
    BY <1>5, <2>2, <2>4 DEF DocIInv
<1> QED
  BY <1>4, <1>7, <1>8

\* A renderer that _toObject calls starts from the marks of those before it.
LEMMA RenderSchemaStep ==
  ASSUME DocIInv, RenderSchema
  PROVE  DocIInv'
<1>1. /\ UNCHANGED <<app, docPhase, endpoint, toRender, collected, extracted, schemas, pathRefs>>
      /\ renderers = <<>>
  BY DEF RenderSchema
<1> PICK g : g = app.attributes
  OBVIOUS
<1>2. PICK s \in toRender :
         renderers' = <<Entered(s, FALSE, IF docPhase = "path" THEN {} ELSE extracted, {})>>
  BY DEF RenderSchema
<1> DEFINE already == IF docPhase = "path" THEN {} ELSE extracted
           d == Entered(s, FALSE, already, {})
<1>3. /\ Renderable(g) /\ s \in DOMAIN g
      /\ already \subseteq DOMAIN g /\ already \subseteq extracted
      /\ docPhase \in {"path", "schemas"}
  BY DEF DocIInv, DocTypes, Serializers
<1> HIDE DEF already
<1>4. /\ Fresh(g, d) /\ d.of = s /\ d.forKeys = FALSE /\ d.walking = {s}
      /\ d.already = already \cup {s}
  BY <1>3 DEF Fresh, Entered, Fields, Attributes
<1>5. renderers' = <<d>>
  BY <1>2 DEF already
<1> HIDE DEF d
<1>6. FrameTyped(g, d) /\ FrameRefers(g, d) /\ SpreadAfter(g, d, d.called) /\ FrameKeys(g, d)
  BY <1>3, <1>4, FreshRight, SpreadClosed
<1>7. PICK t : t = <<d>>
  OBVIOUS
<1>8. t \in Seq(ToSet(t)) /\ Len(t) = 1 /\ t[1] = d /\ t # <<>> /\ 1..(1 - 1) = {}
  BY <1>7 DEF ToSet
<1>9. StackTyped(g, t)
  BY <1>4, <1>6, <1>8 DEF StackTyped
<1>10. StackKeys(g, t)
  BY <1>6, <1>8 DEF StackKeys, CallersRight
<1>11. ASSUME docPhase = "schemas" PROVE MarksRight(g, t, Known)
  <2>1. \A x \in extracted : AllTo(g, x) \subseteq Known
    BY DEF DocIInv, RefsKnown
  <2>2. \A x \in already : Accounted(g, t, 1, Known, x)
    BY <1>3, <2>1 DEF Accounted
  <2> QED
    BY <1>4, <1>8, <2>2 DEF MarksRight, MarkRight
<1>12. DocTypes'
  BY <1>1, <1>3 DEF DocIInv, DocTypes, Serializers
<1>13. Rendering' /\ KeysRight'
  BY <1>1, <1>5, <1>7, <1>9, <1>10 DEF DocIInv, Rendering, KeysRight
<1>14. Known' = Known /\ PathPending' = PathPending
  BY <1>1 DEF Known, Pending, PathPending
<1>15. RefsKnown'
  BY <1>1, <1>5, <1>7, <1>11, <1>14 DEF DocIInv, RefsKnown
<1> QED
  BY <1>12, <1>13, <1>15 DEF DocIInv

\* A schema is added: all that its serializer renders, and what the marks hid, is
\* collected.
LEMMA RenderEndsStep ==
  ASSUME DocIInv, RenderEnds
  PROVE  DocIInv'
<1> DEFINE c == Top
<1> PICK g : g = app.attributes
  OBVIOUS
<1>1. /\ renderers # <<>> /\ ~(c.next <= Len(g[c.of])) /\ c.left = 0 /\ Len(renderers) = 1
      /\ renderers' = <<>>
      /\ toRender' = toRender \ {c.of} /\ collected' = collected \cup c.referenced
      /\ UNCHANGED <<app, docPhase, endpoint, pathRefs>>
  BY DEF RenderEnds, AllRendered, AtAttribute, Attributes
<1>2. IF docPhase = "path" THEN UNCHANGED <<extracted, schemas>>
      ELSE extracted' = c.already /\ schemas' = Over([s \in {c.of} |-> Rendered(c)], schemas)
  BY DEF RenderEnds
<1>3. Renderable(g) /\ StackTyped(g, renderers) /\ docPhase \in {"path", "schemas"}
  BY <1>1 DEF DocIInv, DocTypes, Rendering
<1>4. c = renderers[1] /\ FrameTyped(g, c) /\ FrameRefers(g, c) /\ ~c.forKeys
  <2>1. ~renderers[1].forKeys
    BY <1>1, <1>3 DEF StackTyped
  <2> QED
    BY <1>1, <1>3, <2>1, TopFacts
<1>5. ~FlattensItself(g) => FrameKeys(g, c)
  BY <1>1, <1>4 DEF DocIInv, KeysRight, StackKeys
<1> HIDE DEF c
<1>6. /\ c.of \in DOMAIN g /\ c.next \in 1..(Len(g[c.of]) + 1)
      /\ c.already \subseteq DOMAIN g /\ c.referenced \subseteq DOMAIN g
  BY <1>4 DEF FrameTyped
<1>7. c.next > Len(g[c.of]) /\ \A i \in DOMAIN g[c.of] : i < c.next
  BY <1>1, <1>3, <1>6, AttributesNumbered
<1>8. AllTo(g, c.of) \subseteq c.referenced
  BY <1>4, <1>7 DEF FrameRefers, AllTo
<1>9. /\ SchemaRefers(g, c.of, Rendered(c))
      /\ FrameKeys(g, c) => SchemaKeys(g, c.of, Rendered(c))
  BY <1>1, <1>3, <1>4, <1>7, SchemaRight
<1>10. CASE docPhase = "path"
  <2>1. UNCHANGED <<extracted, schemas>>
    BY <1>2, <1>10
  <2>2. DocTypes'
    BY <1>1, <1>6, <2>1 DEF DocIInv, DocTypes, Serializers
  <2>3. Rendering' /\ KeysRight'
    BY <1>1, <2>1, EmptyStack DEF DocIInv, Rendering, KeysRight
  <2>4. Known' = Known /\ PathPending \subseteq PathPending'
    BY <1>1, <1>10, <2>1 DEF Known, Pending, PathPending
  <2>5. RefsKnown'
    BY <1>1, <1>10, <2>1, <2>4 DEF DocIInv, RefsKnown
  <2> QED
    BY <2>2, <2>3, <2>5 DEF DocIInv
<1>11. CASE docPhase = "schemas"
  <2>1. extracted' = c.already /\ schemas' = Over([s \in {c.of} |-> Rendered(c)], schemas)
    BY <1>2, <1>11
  <2>2. /\ DOMAIN schemas' = {c.of} \cup DOMAIN schemas /\ schemas'[c.of] = Rendered(c)
        /\ \A s \in DOMAIN schemas : s # c.of => schemas'[s] = schemas[s]
    <3> PICK r : r = Rendered(c)
      OBVIOUS
    <3>1. schemas' = Over([s \in {c.of} |-> r], schemas)
      BY <2>1
    <3> QED
      BY <3>1 DEF Over
  <2>3. DocTypes'
    BY <1>1, <1>6, <1>11, <2>1, <2>2 DEF DocIInv, DocTypes, Serializers
  <2>4. \A s \in DOMAIN schemas' : SchemaRefers(g, s, schemas'[s])
    BY <1>9, <2>2 DEF DocIInv, Rendering
  <2>5. ~FlattensItself(g) => \A s \in DOMAIN schemas' : SchemaKeys(g, s, schemas'[s])
    BY <1>5, <1>9, <2>2 DEF DocIInv, KeysRight
  <2>6. Rendering' /\ KeysRight'
    BY <1>1, <2>4, <2>5, EmptyStack DEF Rendering, KeysRight
  <2>7. Known \cup c.referenced \subseteq Known'
    BY <1>1, <1>11, <2>2 DEF Known, Pending
  <2>8. PathPending = {} /\ PathPending' = {}
    BY <1>1, <1>11 DEF PathPending
  <2>9. ASSUME NEW s \in c.already PROVE AllTo(g, s) \subseteq Known'
    <3>1. MarkRight(g, renderers, 1, Known)
      BY <1>1, <1>11 DEF DocIInv, RefsKnown, MarksRight
    <3>2. (\E q \in 1..1 : renderers[q].of = s) \/ Accounted(g, renderers, 1, Known, s)
      BY <1>4, <3>1 DEF MarkRight, ForDocument
    <3>3. CASE s = c.of
      BY <1>8, <2>7, <3>3
    <3>4. CASE Accounted(g, renderers, 1, Known, s)
      BY <1>4, <2>7, <3>4 DEF Accounted
    <3> QED
      BY <1>4, <3>2, <3>3, <3>4
  <2>10. \A s \in DOMAIN schemas : AllTo(g, s) \subseteq Known'
    BY <2>7 DEF DocIInv, RefsKnown
  <2>11. AllTo(g, c.of) \subseteq Known'
    BY <1>8, <2>7
  <2>12. MarksRight(g, renderers', Known')
    BY <1>1, EmptyStack
  <2>13. pathRefs' \subseteq Known'
    BY <1>1, <2>7, <2>8 DEF DocIInv, RefsKnown
  <2>14. RefsKnown'
    BY <1>1, <2>1, <2>2, <2>9, <2>10, <2>11, <2>12, <2>13 DEF RefsKnown
  <2> QED
    BY <2>3, <2>6, <2>14 DEF DocIInv
<1> QED
  BY <1>3, <1>10, <1>11

\* toSchemaObject renders what is collected, or has nothing new to render.
LEMMA SchemaObjectStep ==
  ASSUME DocIInv, ToSchemaObject
  PROVE  DocIInv'
<1> DEFINE new == Unrendered(collected \cup
                      IF docPhase = "path" THEN app.endpoints[endpoint].success ELSE {})
<1>1. /\ UNCHANGED <<app, renderers, extracted, schemas, pathRefs>> /\ collected' = {}
      /\ renderers = <<>> /\ toRender = {} /\ docPhase \in {"path", "schemas"}
      /\ new = {} => docPhase' = "endpoint" /\ endpoint' = endpoint + 1 /\ toRender' = toRender
      /\ new # {} => docPhase' = "schemas" /\ toRender' = new /\ endpoint' = endpoint
  BY DEF ToSchemaObject
<1>2. Len(app.endpoints) \in Nat /\ endpoint \in 1..Len(app.endpoints)
  BY <1>1, LenProperties DEF DocIInv, DocTypes
<1>3. new \subseteq Serializers
  <2>1. app.endpoints[endpoint] \in [routed : BOOLEAN, success : SUBSET Serializers,
                                     responses : SUBSET Serializers]
    BY <1>2, ElementOfSeq DEF DocIInv, DocTypes
  <2> QED
    BY <2>1 DEF Unrendered, DocIInv, DocTypes
<1>4. Known \cup PathPending \subseteq DOMAIN schemas \cup new
  BY <1>1 DEF Known, Pending, PathPending, Unrendered
<1> HIDE DEF new
<1>5. DocTypes'
  <2>1. CASE new = {}
    BY <1>1, <1>2, <2>1 DEF DocIInv, DocTypes, DocPhases, Serializers
  <2>2. CASE new # {}
    BY <1>1, <1>2, <1>3, <2>2 DEF DocIInv, DocTypes, DocPhases, Serializers
  <2> QED
    BY <2>1, <2>2
<1>6. Rendering' /\ KeysRight'
  BY <1>1 DEF DocIInv, Rendering, KeysRight
<1>7. DOMAIN schemas \cup new \subseteq Known'
  BY <1>1 DEF Known, Pending
<1>8. MarksRight(app.attributes, renderers, Known')
  BY <1>1, EmptyStack
<1>9. RefsKnown'
  BY <1>1, <1>4, <1>7, <1>8 DEF DocIInv, RefsKnown
<1> QED
  BY <1>5, <1>6, <1>9 DEF DocIInv

\* Every step of the document keeps the invariant.
LEMMA NextDocument == DocIInv /\ [DocNext]_docVars => DocIInv'
<1> SUFFICES ASSUME DocIInv, [DocNext]_docVars PROVE DocIInv'
  OBVIOUS
<1>1. Renderable(app.attributes) /\ StackTyped(app.attributes, renderers)
  BY DEF DocIInv, DocTypes, Rendering
<1>2. CASE \E a \in Apps : docPhase = "idle" /\ Declare(a)
  BY <1>2, DeclareStep
<1>3. CASE ToPathObject
  BY <1>3, PathStep
<1>4. CASE RenderSchema
  BY <1>4, RenderSchemaStep
<1>5. CASE EnterRenderer
  <2>1. StackStep
    BY <1>1, <1>5, EnterStep
  <2> QED
    BY <1>5, <2>1, RendererStep DEF EnterRenderer, AtAttribute
<1>6. CASE RenderAttribute
  <2>1. StackStep
    BY <1>1, <1>6, RenderStep
  <2> QED
    BY <1>6, <2>1, RendererStep DEF RenderAttribute, AtAttribute
<1>7. CASE ClaimAttribute
  <2>1. StackStep
    BY <1>1, <1>7, ClaimStep
  <2> QED
    BY <1>7, <2>1, RendererStep DEF ClaimAttribute
<1>8. CASE LeaveRenderer
  <2>1. StackStep
    BY <1>1, <1>8, LeaveStep
  <2> QED
    BY <1>8, <2>1, RendererStep DEF LeaveRenderer, AllRendered
<1>9. CASE RenderEnds
  BY <1>9, RenderEndsStep
<1>10. CASE ToSchemaObject
  BY <1>10, SchemaObjectStep
<1>11. CASE UNCHANGED docVars
  BY <1>11 DEF docVars, DocIInv, DocTypes, Rendering, KeysRight, RefsKnown, Known, Pending,
     PathPending, Serializers
<1> QED
  BY <1>2, <1>3, <1>4, <1>5, <1>6, <1>7, <1>8, <1>9, <1>10, <1>11 DEF DocNext

\* The invariant of the document.
THEOREM DocumentInvariant == DocSpec => []DocIInv
BY InitDocument, NextDocument, PTL DEF DocSpec

\* Type correctness.
LEMMA DocumentTyped == DocIInv => DocTypeOK
<1> SUFFICES ASSUME DocIInv PROVE DocTypeOK
  OBVIOUS
<1>1. ASSUME NEW c \in ToSet(renderers)
      PROVE  c.next \in 1..(Len(app.attributes[c.of]) + 1)
  <2>1. PICK p \in DOMAIN renderers : renderers[p] = c
    BY DEF ToSet
  <2>2. renderers \in Seq(ToSet(renderers))
    BY DEF DocIInv, Rendering, StackTyped
  <2>3. p \in 1..Len(renderers)
    BY <2>1, <2>2, LenProperties
  <2> QED
    BY <2>1, <2>3 DEF DocIInv, Rendering, StackTyped, FrameTyped
<1> QED
  BY <1>1 DEF DocIInv, DocTypes, DocTypeOK

\* Every variable has its type, whatever serializers declare.
THEOREM DocumentAlwaysTyped == DocSpec => []DocTypeOK
BY DocumentInvariant, DocumentTyped, PTL

\* Between endpoints no serializer is pending, so the serializers with a schema
\* are closed under all that they render, and what a schema refers to is theirs.
LEMMA SoundBetween == DocIInv => ComponentsSound
<1> SUFFICES ASSUME DocIInv, docPhase = "endpoint" PROVE ComponentsSound
  BY DEF ComponentsSound
<1> PICK g : g = app.attributes
  OBVIOUS
<1>1. /\ Renderable(g) /\ DOMAIN schemas \subseteq DOMAIN g
      /\ pathRefs \subseteq DOMAIN schemas
      /\ \A s \in DOMAIN schemas : AllTo(g, s) \subseteq DOMAIN schemas
  BY DEF DocIInv, DocTypes, RefsKnown, Known, Pending, PathPending, Serializers
<1>2. \A s \in DOMAIN schemas : Flattened(g, s) \subseteq DOMAIN schemas
  BY <1>1 DEF Flattened, AllTo
<1>3. ASSUME NEW s \in DOMAIN schemas PROVE Refs(schemas[s]) \subseteq DOMAIN schemas
  <2>1. SchemaRefers(g, s, schemas[s])
    BY DEF DocIInv, Rendering
  <2>2. Spread(g, s) \subseteq DOMAIN schemas
    <3> HIDE DEF Spread
    <3> QED
      BY <1>1, <1>2, SpreadLeast
  <2> DEFINE Of(properties) ==
               UNION {ToSet(Attributes(properties[k][1])[properties[k][2]].to) :
                         k \in DOMAIN properties}
  <2>3. ASSUME NEW f, AllDeclared(g, s, f) PROVE Of(f) \subseteq DOMAIN schemas
    <3> SUFFICES ASSUME NEW k \in DOMAIN f
                 PROVE  ToSet(Attributes(f[k][1])[f[k][2]].to) \subseteq DOMAIN schemas
      OBVIOUS
    <3>1. f[k][1] \in DOMAIN schemas /\ f[k][2] \in DOMAIN g[f[k][1]]
      BY <2>2, <2>3 DEF AllDeclared, DeclaredIn
    <3>2. ToSet(g[f[k][1]][f[k][2]].to) \subseteq AllTo(g, f[k][1])
      BY <3>1 DEF AllTo
    <3> QED
      BY <1>1, <3>1, <3>2 DEF Attributes
  <2>4. Of(schemas[s].properties) \subseteq DOMAIN schemas
    BY <2>1, <2>3 DEF SchemaRefers
  <2>5. ASSUME NEW i \in DOMAIN schemas[s].siblings
        PROVE  (IF schemas[s].siblings[i].ref = "none" THEN Of(schemas[s].siblings[i].properties)
                ELSE {schemas[s].siblings[i].ref}) \subseteq DOMAIN schemas
    <3>1. SiblingTyped(g, s, i, schemas[s].siblings[i]) /\ i \in DOMAIN g[s]
      BY <2>1 DEF SchemaRefers
    <3>2. Of(schemas[s].siblings[i].properties) \subseteq DOMAIN schemas
      BY <2>3, <3>1 DEF SiblingTyped
    <3>3. ToSet(g[s][i].to) \subseteq DOMAIN schemas
      BY <1>1, <3>1 DEF AllTo
    <3> HIDE DEF Of
    <3> QED
      BY <3>1, <3>2, <3>3 DEF SiblingTyped
  <2>6. Refs(schemas[s]) = Of(schemas[s].properties) \cup
          UNION {IF b.ref = "none" THEN Of(b.properties) ELSE {b.ref} :
                    b \in {schemas[s].siblings[i] : i \in DOMAIN schemas[s].siblings}}
    BY DEF Refs
  <2> HIDE DEF Of
  <2> QED
    BY <2>4, <2>5, <2>6
<1>4. pathRefs \cup UNION {Refs(schemas[s]) : s \in DOMAIN schemas} \subseteq DOMAIN schemas
  <2> HIDE DEF Refs
  <2> QED
    BY <1>1, <1>3
<1>5. ASSUME ~FlattensItself(g), NEW s \in DOMAIN schemas
      PROVE  SchemaKeys(g, s, schemas[s])
  BY <1>5 DEF DocIInv, KeysRight
<1> QED
  BY <1>4, <1>5 DEF ComponentsSound, SchemaKeys, OwnBranch, SpreadBranches

\* Between endpoints every $ref resolves, and each component has every key once,
\* where its last declaration is.
THEOREM ComponentsAlwaysSound == DocSpec => []ComponentsSound
BY DocumentInvariant, SoundBetween, PTL
=============================================================================
