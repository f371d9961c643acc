------------------------------- MODULE AppInit -------------------------------
(***************************************************************************)
(* PsychicApp.init() and the process-wide state it fills                   *)
(* (src/src/psychic-app/index.ts, cache.ts, openapi-cache.ts,              *)
(* helpers/import/importControllers.ts), with the decorators that only     *)
(* take effect while controllers are instantiated at boot                  *)
(* (src/src/controller/decorators.ts) and the requests that rely on them.  *)
(*                                                                         *)
(* A process may call init() more than once: a test suite calls it before  *)
(* every test, and goes on after one that rejects.  Nothing keeps two      *)
(* calls from overlapping at an await.                                     *)
(***************************************************************************)
EXTENDS FiniteSets

CONSTANTS Inits,        \* calls of PsychicApp.init()
          Controllers,  \* controllers under the path the app loads
          Names,        \* the openapiNames the app configures
          NoInit        \* no app is cached

ASSUME InitsAssumption == NoInit \notin Inits

VARIABLES
    progress,    \* how far each call has come
    bypass,      \* its bypassDreamIntegrityChecks option
    routes,      \* has its app object a _routesCache?
    loaded,      \* is _controllers set?
    registry,    \* the controllers in it
    decorating,  \* PsychicController.globallyInitializingDecorators
    decorated,   \* controllers whose decorators took effect
    cached,      \* the init whose app is cached
    docs,        \* openapiNames whose document is cached
    covers,      \* controllers a cached document was built from
    served,      \* history: controllers that served a request
    unguarded,   \* history: those of them that served one undecorated
    interrupted  \* history: did a load reject, or another one start meanwhile?

globals == <<loaded, registry, decorating, decorated>>
cachedDocs == <<cached, docs, covers>>
history == <<served, unguarded, interrupted>>
cacheVars == <<progress, bypass, routes, globals, cachedDocs, history>>

Progress == {"off", "configuring", "importing", "loaded", "routing", "documenting",
        "resolved", "rejected"}

CachesTypeOK ==
    /\ progress \in [Inits -> Progress]
    /\ bypass \in [Inits -> BOOLEAN]
    /\ routes \in [Inits -> BOOLEAN]
    /\ loaded \in BOOLEAN
    /\ registry \in SUBSET Controllers
    /\ decorating \in BOOLEAN
    /\ decorated \in SUBSET Controllers
    /\ cached \in Inits \cup {NoInit}
    /\ docs \in SUBSET Names
    /\ covers \in [Names -> SUBSET Controllers]
    /\ served \in SUBSET Controllers
    /\ unguarded \in SUBSET Controllers
    /\ interrupted \in BOOLEAN

CachesInit ==
    /\ progress = [i \in Inits |-> "off"]
    /\ bypass = [i \in Inits |-> FALSE]
    /\ routes = [i \in Inits |-> FALSE]
    /\ loaded = FALSE /\ registry = {}
    /\ decorating = FALSE /\ decorated = {}
    /\ cached = NoInit
    /\ docs = {} /\ covers = [n \in Names |-> {}]
    /\ served = {} /\ unguarded = {} /\ interrupted = FALSE

Goto(i, from, to) == progress[i] = from /\ progress' = [progress EXCEPT ![i] = to]

(***************************************************************************)
(* init()                                                                  *)
(***************************************************************************)

\* DreamApp.init calls back, and the app's conf callback starts.
BeginInit(i) ==
    /\ Goto(i, "off", "configuring")
    /\ \E b \in BOOLEAN : bypass' = [bypass EXCEPT ![i] = b]
    /\ UNCHANGED <<routes, globals, cachedDocs, history>>

\* psy.load('controllers', ...): only the first call imports anything, and the
\* map exists, empty, while it does.
LoadControllers(i) ==
    /\ IF loaded
       THEN /\ Goto(i, "configuring", "loaded")
            /\ interrupted' = (interrupted \/ \E j \in Inits : progress[j] = "importing")
            /\ UNCHANGED globals
       ELSE /\ Goto(i, "configuring", "importing")
            /\ loaded' = TRUE /\ registry' = {} /\ decorating' = TRUE
            /\ UNCHANGED <<decorated, interrupted>>
    /\ UNCHANGED <<bypass, routes, cachedDocs, served, unguarded>>

\* The imports resolve: the map is filled, and every controller instantiated
\* for the sake of its decorators; a constructor that throws ends that.
ImportsResolve(i) ==
    /\ registry' = Controllers
    /\ \/ /\ Goto(i, "importing", "loaded")
          /\ decorated' = Controllers /\ decorating' = FALSE
          /\ UNCHANGED interrupted
       \/ /\ Goto(i, "importing", "rejected")
          /\ \E done \in SUBSET Controllers :
                done # Controllers /\ decorated' = decorated \cup done
          /\ interrupted' = TRUE
          /\ UNCHANGED decorating
    /\ UNCHANGED <<bypass, routes, loaded, cachedDocs, served, unguarded>>

\* Mutant: try ... finally around the imports lowers the flag.
ImportsRejectLowersFlag(i) ==
    /\ Goto(i, "importing", "rejected")
    /\ decorating' = FALSE
    /\ interrupted' = TRUE
    /\ UNCHANGED <<bypass, routes, loaded, registry, decorated, cachedDocs, served, unguarded>>

\* One of the imports rejects.
ImportsReject(i) ==
    /\ Goto(i, "importing", "rejected")
    /\ interrupted' = TRUE
    /\ UNCHANGED <<bypass, routes, globals, cachedDocs, served, unguarded>>

\* The conf callback throws or never loads controllers; a setting is missing,
\* a key invalid in production; inflections, an initializer or a plugin throws.
Reject(i) ==
    /\ Goto(i, "configuring", "rejected") \/ Goto(i, "loaded", "rejected")
    /\ UNCHANGED <<bypass, routes, globals, cachedDocs, history>>

\* All of those settle: the app is cached, then its routes callback starts.
CacheApp(i) ==
    /\ Goto(i, "loaded", IF bypass[i] THEN "resolved" ELSE "routing")
    /\ cached' = i
    /\ UNCHANGED <<bypass, routes, globals, docs, covers, history>>

BuildRoutesCache(i) ==
    /\ \/ Goto(i, "routing", "documenting") /\ routes' = [routes EXCEPT ![i] = TRUE]
       \/ Goto(i, "routing", "rejected") /\ UNCHANGED routes
    /\ UNCHANGED <<bypass, globals, cachedDocs, history>>

\* Mutant: the loop ends at the first name that is already cached.
BuildOpenapiCacheOnce(i) ==
    /\ Goto(i, "documenting", "resolved")
    /\ IF docs # {} THEN UNCHANGED <<docs, covers>>
       ELSE \E n \in Names :
              /\ docs' = {n}
              /\ covers' = [covers EXCEPT ![n] = registry \cap decorated]
    /\ UNCHANGED <<bypass, routes, globals, cached, history>>

\* Each name not cached yet gets a document built from the controllers in the
\* map whose @OpenAPI decorators took effect; a document that cannot be built
\* ends the loop.
BuildOpenapiCache(i) ==
    /\ \E built \in SUBSET (Names \ docs) :
         /\ docs' = docs \cup built
         /\ covers' = [n \in Names |-> IF n \in built THEN registry \cap decorated ELSE covers[n]]
         /\ IF docs' = Names
            THEN Goto(i, "documenting", "resolved")
            ELSE Goto(i, "documenting", "rejected")
    /\ UNCHANGED <<bypass, routes, globals, cached, history>>

(***************************************************************************)
(* Requests                                                                *)
(***************************************************************************)

\* A server of the cached app answers a request with controller c: the
\* instance it makes runs c's decorator initializers, which do nothing unless
\* the flag is up, and then c's before actions, which are what those left.
Serve(c) ==
    /\ cached # NoInit
    /\ decorated' = IF decorating THEN decorated \cup {c} ELSE decorated
    /\ served' = served \cup {c}
    /\ unguarded' = IF c \in decorated' THEN unguarded ELSE unguarded \cup {c}
    /\ UNCHANGED <<progress, bypass, routes, loaded, registry, decorating, cachedDocs, interrupted>>

InitStep(i) == \/ BeginInit(i) \/ LoadControllers(i) \/ ImportsResolve(i) \/ ImportsReject(i)
               \/ Reject(i) \/ CacheApp(i) \/ BuildRoutesCache(i) \/ BuildOpenapiCache(i)

CachesNext == (\E i \in Inits : InitStep(i)) \/ (\E c \in Controllers : Serve(c))

CachesSpec == CachesInit /\ [][CachesNext]_cacheVars

(***************************************************************************)
(* Properties                                                              *)
(***************************************************************************)

\* No controller serves a request before its @BeforeAction hooks are in place,
\* although they only take effect while a flag is up: not while another
\* init() is importing, and not after a load that rejected half-way and left
\* an empty map that the next init() takes for loaded.
NoUnguardedRequest == unguarded = {}

\* An init() that resolves with integrity checks leaves routes and a cached
\* document for every openapiName, whatever other calls left before it.
ResolvedInitIsComplete ==
    \A i \in Inits : progress[i] = "resolved" =>
        /\ cached # NoInit
        /\ ~bypass[i] => routes[i] /\ docs = Names
=============================================================================
