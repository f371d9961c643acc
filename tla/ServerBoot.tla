----------------------------- MODULE ServerBoot -----------------------------
(***************************************************************************)
(* What conf/app.ts, the initializers and the plugins of an application    *)
(* configure (PsychicApp#set, #on, #use and #plugin in                     *)
(* src/src/psychic-app/index.ts), and PsychicServer.boot()                 *)
(* (src/src/server/index.ts), which mounts the middleware stack from it.   *)
(* Of the settings that set() stores, the model follows the import         *)
(* settings, which set() forwards to Dream and may reject.                 *)
(*                                                                         *)
(* boot() is called by start() and by serveForRequestSpecs(); it awaits    *)
(* between its steps, so calls may overlap, and one that failed may be     *)
(* repeated.                                                               *)
(***************************************************************************)
EXTENDS Naturals, Sequences, SequencesExt

CONSTANTS Boots,      \* calls of boot()
          MaxCalls,   \* bound on the calls of set, on, use and plugin
          SettingValues,  \* values of an import setting
          Default,    \* Dream's own
          NoValue

ASSUME CallsAssumption == MaxCalls \in Nat

VARIABLES
    phase,       \* progress of PsychicApp.init()
    declared,    \* the import setting as conf/dream.ts left it
    dream,       \* the import setting of the Dream app now
    before,      \* _dreamGeneratorImportValuesBeforeForward
    hooks,       \* specialHooks: the middleware each one mounts, in order
    plugins,     \* plugins that have not run yet
    calls,       \* calls made so far
    cors, development, \* is cors configured? is the environment development?
    stack,       \* koaApp.middleware: what is mounted, and by which boot()
    booted,      \* PsychicServer.booted
    inflected,   \* PsychicApp.booted
    bootAt,      \* progress of each boot()
    untidy       \* history: did a boot() fail, or two overlap?

confVars == <<phase, declared, dream, before, hooks, plugins, calls, cors, development>>
serverVars == <<stack, booted, inflected, bootAt, untidy>>
bootVars == <<confVars, serverVars>>

Events == {"before-middleware", "after-middleware", "after-routes"}
Configuring == {"conf", "initializers", "plugins"}

\* Layers of the middleware stack: Psychic's own, and the application's, by the
\* call that registered it.
Own(name) == [name |-> name, call |-> 0]
App(call) == [name |-> "app", call |-> call]
Layers == {Own(n) : n \in {"boundary", "headers", "etag", "cors", "json", "router", "notFound"}}
          \cup {App(c) : c \in 1..MaxCalls}

\* Progress of a boot(): idle, running the hooks of an event from the i-th on,
\* waiting for the application's boot or its routes, and the two ends.
Stages == Events \cup {"idle", "app", "routes", "done", "failed"}

BootTypeOK ==
    /\ phase \in Configuring \cup {"cached", "rejected"}
    /\ declared \in SettingValues /\ dream \in SettingValues
    /\ before \in SettingValues \cup {NoValue}
    /\ hooks \in [Events -> Seq(1..MaxCalls)]
    /\ plugins \in 0..MaxCalls /\ calls \in 0..MaxCalls
    /\ cors \in BOOLEAN /\ development \in BOOLEAN
    /\ stack \in Seq([layer : Layers, by : Boots])
    /\ booted \in BOOLEAN /\ inflected \in BOOLEAN /\ untidy \in BOOLEAN
    /\ \A b \in Boots : bootAt[b].stage \in Stages /\ bootAt[b].i \in 1..(MaxCalls + 1)

At(stage) == [stage |-> stage, i |-> 1]

BootInit ==
    /\ phase = "conf"
    /\ declared \in SettingValues /\ dream = declared
    /\ before = NoValue
    /\ hooks = [e \in Events |-> <<>>]
    /\ plugins = 0 /\ calls = 0
    /\ cors \in BOOLEAN /\ development \in BOOLEAN
    /\ stack = <<>> /\ booted = FALSE /\ inflected = FALSE /\ untidy = FALSE
    /\ bootAt = [b \in Boots |-> At("idle")]

(***************************************************************************)
(* Configuration                                                           *)
(***************************************************************************)
MakeCall ==
    /\ phase \in Configuring
    /\ calls < MaxCalls
    /\ calls' = calls + 1
    /\ UNCHANGED <<serverVars, declared, cors, development>>

\* psy.set('importExtension', v): the value Dream had before the first such
\* call is remembered, and a conflict with it throws, which rejects init().
SetImport(v) ==
    /\ MakeCall
    /\ before' = IF before = NoValue THEN dream ELSE before
    /\ IF before' # Default /\ before' # v
       THEN phase' = "rejected" /\ UNCHANGED dream
       ELSE dream' = v /\ UNCHANGED phase
    /\ UNCHANGED <<hooks, plugins>>

\* psy.on('server:init:<e>', ...), or psy.use(e, handler); psy.use(handler)
\* stands for after-middleware.
On(e) ==
    /\ MakeCall
    /\ hooks' = [hooks EXCEPT ![e] = Append(@, calls')]
    /\ UNCHANGED <<phase, dream, before, plugins>>

Plugin ==
    /\ MakeCall
    /\ plugins' = plugins + 1
    /\ UNCHANGED <<phase, dream, before, hooks>>

\* init() goes on: the conf callback, then the initializers, then the plugins
\* in turn, those included that a plugin adds; then the app is cached.
Proceed ==
    /\ phase \in Configuring
    /\ phase' = CASE phase = "conf" -> "initializers"
                  [] phase = "initializers" -> "plugins"
                  [] phase = "plugins" -> IF plugins = 0 THEN "cached" ELSE "plugins"
    /\ plugins' = IF phase = "plugins" /\ plugins > 0 THEN plugins - 1 ELSE plugins
    /\ UNCHANGED <<serverVars, declared, dream, before, hooks, calls, cors, development>>

(***************************************************************************)
(* boot()                                                                  *)
(***************************************************************************)
Mounting(b, layers) == stack' = stack \o [k \in DOMAIN layers |-> [layer |-> layers[k], by |-> b]]
GoTo(b, stage) == bootAt' = [bootAt EXCEPT ![b] = At(stage)]
Underway(b) == bootAt[b].stage \notin {"idle", "done", "failed"}

\* Nothing to do if booted; else the error boundary and the headers, at once.
Start(b) ==
    /\ phase = "cached" /\ bootAt[b].stage = "idle"
    /\ IF booted THEN GoTo(b, "done") /\ UNCHANGED <<stack, untidy>>
       ELSE /\ Mounting(b, <<Own("boundary"), Own("headers")>>)
            /\ GoTo(b, "before-middleware")
            /\ untidy' = (untidy \/ \E o \in Boots : Underway(o))
    /\ UNCHANGED <<confVars, booted, inflected>>

\* A rejected boot() leaves what it mounted.
Fail(b) ==
    /\ GoTo(b, "failed")
    /\ untidy' = TRUE
    /\ UNCHANGED <<confVars, stack, booted, inflected>>

\* Mutant: a hook that throws is passed over.
HookPassedOver(b) ==
    LET s == bootAt[b].stage IN
    /\ s \in Events /\ bootAt[b].i <= Len(hooks[s])
    /\ bootAt' = [bootAt EXCEPT ![b].i = @ + 1]
    /\ Mounting(b, <<App(hooks[s][bootAt[b].i])>>) \/ UNCHANGED stack
    /\ UNCHANGED <<confVars, booted, inflected, untidy>>

\* The next hook of the event mounts its middleware, or throws.
Hook(b) ==
    LET s == bootAt[b].stage IN
    /\ s \in Events /\ bootAt[b].i <= Len(hooks[s])
    /\ \/ /\ bootAt' = [bootAt EXCEPT ![b].i = @ + 1]
          /\ Mounting(b, <<App(hooks[s][bootAt[b].i])>>)
          /\ UNCHANGED <<confVars, booted, inflected, untidy>>
       \/ Fail(b)

HooksDone(b, e) == bootAt[b].stage = e /\ bootAt[b].i = Len(hooks[e]) + 1

\* ETag, CORS if configured, and the body parser; then the application boots.
DefaultMiddleware(b) ==
    /\ HooksDone(b, "before-middleware")
    /\ Mounting(b, <<Own("etag")>> \o (IF cors THEN <<Own("cors")>> ELSE <<>>) \o <<Own("json")>>)
    /\ GoTo(b, IF inflected THEN "after-middleware" ELSE "app")
    /\ UNCHANGED <<confVars, booted, inflected, untidy>>

\* PsychicApp.boot() runs the application's inflections, which may throw; once
\* they have succeeded it returns at once.
AppBoots(b) ==
    /\ bootAt[b].stage = "app"
    /\ \/ /\ GoTo(b, "after-middleware") /\ inflected' = TRUE
          /\ UNCHANGED <<confVars, stack, booted, untidy>>
       \/ Fail(b)

\* The routes are declared, by a callback of the application.
DeclareRoutes(b) ==
    /\ HooksDone(b, "after-middleware")
    /\ GoTo(b, "routes")
    /\ UNCHANGED <<confVars, stack, booted, inflected, untidy>>

\* buildRoutes(): the callback ends and the router is mounted, or it throws.
BuildRoutes(b) ==
    /\ bootAt[b].stage = "routes"
    /\ \/ /\ Mounting(b, <<Own("router")>>)
          /\ GoTo(b, "after-routes")
          /\ UNCHANGED <<confVars, booted, inflected, untidy>>
       \/ Fail(b)

\* In development unmatched requests are logged; only now is the flag raised.
FinishBoot(b) ==
    /\ HooksDone(b, "after-routes")
    /\ Mounting(b, IF development THEN <<Own("notFound")>> ELSE <<>>)
    /\ booted' = TRUE
    /\ GoTo(b, "done")
    /\ UNCHANGED <<confVars, inflected, untidy>>

BootNext ==
    \/ \E v \in SettingValues : SetImport(v)
    \/ \E e \in Events : On(e)
    \/ Plugin \/ Proceed
    \/ \E b \in Boots : \/ Start(b) \/ Hook(b) \/ DefaultMiddleware(b) \/ AppBoots(b)
                        \/ DeclareRoutes(b) \/ BuildRoutes(b) \/ FinishBoot(b)

BootSpec == BootInit /\ [][BootNext]_bootVars

(***************************************************************************)
(* Properties                                                              *)
(***************************************************************************)

\* Whatever boots overlap, fail or are repeated: everything mounted runs inside
\* an error boundary; no router is mounted that a request could reach without
\* having passed the body parser and every middleware the application wants
\* before its routes; and if no boot overlapped another or failed, nothing is
\* mounted twice, however many there were.
MountedInOrder ==
    /\ \A i \in DOMAIN stack : \E j \in 1..i : stack[j].layer = Own("boundary")
    /\ \A i \in DOMAIN stack : stack[i].layer = Own("router") =>
          \A l \in {Own("json")}
                  \cup {App(c) : c \in ToSet(hooks["before-middleware"])}
                  \cup {App(c) : c \in ToSet(hooks["after-middleware"])} :
             \E j \in 1..(i - 1) : stack[j].layer = l
    /\ ~untidy => \A i, j \in DOMAIN stack : stack[i].layer = stack[j].layer => i = j
=============================================================================
