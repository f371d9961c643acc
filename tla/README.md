# A specification of Psychic

TLA+ modules, TLC configurations and TLAPS proofs for `@rvoh/psychic`, the web
framework in this repository (the framework itself is `src/src/`; its tests in
`src/spec/`, the application in `src/test-app/` and the docs were read with it).
The modules model the code that keeps state across requests, calls, timers,
processes and commands, and the pure algorithms that are easy to get wrong.

## 1. Inventory

| Component | State it keeps | Operations | What must hold |
|---|---|---|---|
| Server lifecycle (`server/index.ts`, `server/helpers/startPsychicServer.ts`) | `httpServer`, signal listeners, timers of each `stop()`, open sockets, the database connections it closes | `start`, signal handlers, `stop`, `shutdownAndExit` | the database outlives the connections; requests get their grace period; a signalled process ends in time; exit code 0 means a complete shutdown |
| Server boot (`server/index.ts`, `psychic-app/index.ts`) | the configured hooks, `booted`, the Koa middleware stack | `set`, `on`, `use`, `plugin`, `boot` | everything behind the boundary, routers behind the body parser and the hooks; nothing mounted twice |
| Request pipeline (`errorBoundaryMiddleware.ts`, `PsychicRouter.handle`, `PsychicController.runAction`) | `ctx.status/body/respond/headerSent`, `_responseSent`, `paramsValidated`, the WeakSets that mark errors | middleware, dispatch, before actions, action, catch, hooks, boundary, Koa | one answer; every server error escalated once; no crash of Koa's handler; no action on invalid params |
| Router DSL (`router/`) | `currentNamespaces` of every router in scope, the route list | `namespace`, `scope`, `resource(s)`, `collection`, `get` ... | a path is what its nesting means; specific routes first |
| Controller hooks (`controller/decorators.ts`, `hooks.ts`) | each class's `controllerHooks` | `@BeforeAction`, instantiation, `runBeforeActions` | hooks exactly as declared; a guard cannot be lost |
| Application init and caches (`psychic-app/`) | module-level caches of controllers, services, app, OpenAPI documents; `globallyInitializingDecorators` | `PsychicApp.init`, `load`, importers | what an `init()` that resolves promises; no unguarded request |
| Dev servers (`devtools/`) | process table by key | `launchDevServer`, `stopDevServer(s)` | no orphans, launches settle |
| Sync watcher (`watcher/`) | debounce timer, `syncing` | `watch` | one sync at a time, no loop, no lost edit |
| CLI and sync pipeline (`cli/`, `bin/`) | generated files, files being confirmed | `sync`, `post-sync`, confirmed write sets | files no older than their sources; nothing overwritten unasked |
| Controller hierarchy commands | none | `inspect:` and `check:controller-hierarchy` | what is printed is what is judged |
| OpenAPI diff (`bin/helpers/OpenApiSpecDiff.ts`) | temporary files, a result per document | `diff:openapi` | an inconclusive comparison never passes the gate |
| Session, cookies, encryption (`session/`, `encrypt/`) | none in memory; the browser's cookies | get, set, clear | a cookie survives key rotation and is never wiped by a reader |
| OpenAPI payload validation | compiled validators, stringifiers | validate request and response | a cached validator is the one for the payload |
| Params casting (`server/params.ts`) | none | casts, `paramsFor`, `extractParams` | values of the declared type or an error |
| OpenAPI rendering (`openapi-renderer/`) | decorators' declarations, memoized parameters | documents, request bodies, responses, paths | every reference resolved; what is documented is what is answered |
| Generators (`generate/`) | controllers, specs and the routes file | `g:resource`, `g:controller` | only the new resource changes; its routes work; its specs pass |
| I18n (`i18n/`) | none | `provide`, `localeDifferences` | what is not reported translates |
| Error classes, environment and helpers | none | lookups | -- |

Interactions. `PsychicApp.init` fills the caches that everything else reads; it
instantiates every controller once so that its decorators take effect
(*AppInit* says when that has happened, *ControllerHooks* what it leaves).
`PsychicServer.boot` mounts the boundary outermost, the application's
middleware inside it and the router innermost (*ServerBoot*); one request passes
through all of them (*RequestPipeline*). `start` and `stop` surround the serving
of requests with sockets, hooks, timers and signals (*ServerLifecycle*). The
same decorators feed the hooks, the documents, the validators and `respond()`,
each along its own way (*EndpointResponses*, *PathItems*, *RequestBodies*,
*OpenapiDocument*, *PayloadValidation*). `psy watch` runs `psy sync` as a child
process (*SyncPipeline*).

The behaviours that are hard here: several `stop()` runs at once; timers racing
one another and the code they interrupt; application code (hooks, middleware,
actions) that throws anything at any place, hangs, or answers twice; an
`init()` or a `boot()` that fails half-way or overlaps another; state found
again by key after an await; events ignored while something runs; processes with
different keys behind one browser; caches whose key says less than what they
hold; commands run again after they failed, on files edited meanwhile; a
rendering that changes what the next one reads. PROJECT.json lists each of
them under `hazards`, at its line.

## 2. Modules

Each module begins with what it models and what it leaves out. Actions carry the
code's names; a comment precedes every action whose name does not say what it is.
Definitions whose comment begins "Mutant:" are deliberately wrong variants, used
to see that each property depends on the code it is about; no specification uses
them.

Serving:

* **ServerLifecycle**. A *run* is one invocation of `stop()`, by the program or
  by `shutdownAndExit()` for one signal; each has its own `pc`, hook counter and
  timers, and all share `server`, `conn`, `db` and `proc`. `Bind`, `StartHook`
  and `RegisterHandlers` are the steps of `start()`; `StopHook`, `CloseServer`,
  `ForceClose`, `Drained`, `ReleaseDb`, `DbReleased` those of `stop()`, one for
  each await, and `SkipServer` what it does while `start()` has not bound the server;
  `CallStop` may come at any moment of `start()`. One `GracePeriod` stands for the
  `gracefulShutdownTimeoutMillis` of each call. `ExitTimeout` is the loser's branch of the race in
  `stopWithTimeout()`. `Connect`, `Request`, `Respond`, `Disconnect` are the
  environment. Time is `Tick`; a due timer runs before time goes on.
* **ShutdownContract** is the abstract specification: a service that is down,
  serving, draining, released or gone, or was abandoned before it served and may then
  come up all the same, with a set of open connections, and a report. ServerLifecycle implements it (`MeetsContract`).
* **ServerBoot**: what an application configures, one call after another, and
  `boot()` with its awaits, so that boots overlap, fail and are repeated.
  `stack` is Koa's list of middleware, each entry with the boot that mounted it.
* **RequestPipeline** follows one request from the first middleware to Koa's
  own handler. An error is a record in `raised`, its identity is its position,
  and the code's WeakSets are flags of it; `Kinds` are the classes of thrown
  values the predicates under `helpers/error/` tell apart; `RenderKinds` those that the
  rendering of an error's data may throw, in the router and in the boundary, which is
  every kind that matters there. Controller calls may be made in any order by a before action or the action.
* **Session**: the browser's cookie, the requests in flight, and processes of
  several key versions, some misconfigured. `session` is a history variable: the
  cookie that logins and logouts alone would have left.
* **PayloadValidation**: the requests a process serves one after another, the
  documents their parts are validated against in turn, and the two process-wide
  caches. A schema is named by what it is rendered for, a payload is the set of
  schemas it violates.
* **ParamsCast** (casts, as functions of a value, a type and its options; dotted
  paths as steps) and **ParamsFor** (columns of a model taken one by one).

Declaring:

* **AppInit**: `init()` calls that overlap at awaits over module-level state,
  and requests served meanwhile. `decorated` are the controllers whose decorator
  initializers have run while the flag was up.
* **ControllerHooks**: the lists those initializers build, for any hierarchy and
  any order of instantiation.
* **RouterDsl**: the DSL's calls on any router in scope; every frame records the
  call itself, so that `RoutesMatchNesting` compares the code's bookkeeping
  with a definition made from the nesting alone.
* **EndpointResponses**: an action's answer by `respond()`, `send()` or a helper,
  beside what two documents say of it. **RequestBodies**: a declaration that
  renderings change, as a function from the paths within it. **PathItems**: routes,
  paths and their combined parameters. **OpenapiDocument**: the recursion of the
  renderers as a stack of their calls, with its marks; the last loop of a renderer,
  which lets attributes claim their keys from the last to the first, is an action a turn.

Developing:

* **DevServer**, **WriteSet**, **SpecDiff**, **Watcher**: child processes, timers,
  prompts, and the tables and files that outlive a step.
* **SyncPipeline** composes Watcher with the command it runs and with commands
  run by hand; a file is followed by the version of the sources it was made from.
* **ResourceGenerator**: runs of `g:resource` over a routes file edited by hand.
  **GeneratedControllers**: the controllers that these runs write; `ran` is the log of the
  runs, so that a controller is compared with what they were given. **GeneratedSpecs**: the generated examples run against the generated actions.
  **Resources** holds what they take from a request for a resource.
  **ControllerTree**, **LocaleDifferences**: two ways of looking at the same tree. The
  calls of `collectTreeLines` are a stack (`walk`), an action for each that begins
  (`CollectTreeLine`) and each that returns (`TreeReturn`).

`MCProcesses`, `MCApp`, `MCController` and `MCDevServer` instantiate the modules
that concern a process, an application, a request and the developer's tools.
Components that share no state are put side by side: the first step chooses a
part, and the others keep their initial state, so that a run costs the sum of its
parts rather than their product and no part hides behind another. The smaller
`MC` modules hold the values that a `.cfg` cannot write, for one module each.

## 3. Runs

| Run | Shows | Bounds |
|---|---|---|
| `processes` | *server*: DbOutlivesConnections, GraceRespected, DeadlineKept, SuccessIsComplete, SignalledProcessEnds, MeetsContract; *sync*: CompleteSyncIsCurrent, WatcherNeverLoops, HeardEditsReachFiles | 2 connections, 2 runs of stop(), 1 start hook, 2 shutdown hooks, deadline 2 ticks, grace 1; 2 edits, the watcher and 1 run by hand, 1 document |
| `app` | *caches*: NoUnguardedRequest, ResolvedInitIsComplete; *boot*: MountedInOrder; *routes*: RoutesMatchNesting; *payloads*: RequestVerdictsExact, SerializedByOwnSchema; *casts*: CastSound; *params*: AllOrNothing | 3 overlapping inits, 2 controllers, 2 documents; 2 boots, 2 configuring calls; depth 3, 3 nested calls and 1 http call; 1 action, 2 documents, 2 statuses; every value, type and option of a cast; 2 columns, up to 2 objects |
| `controller` | *pipeline*: EscalatedExactlyOnce, FailuresAnswered, ActionSeesValidParams; *hooks*: HooksAsDeclared; *session*: SessionSurvives, ServedAsWhoLoggedIn; *responses*: RespondsAsDocumented; *bodies*: ModelBodiesStable; *paths*: PathsAsDeclared | 1 before action, 2 hooks, 2 controller calls; every hierarchy of 3 classes; 2 users, 2 requests, 3 key versions; some 800 declarations; 2 documents |
| `dev_server` | *processes*: NoOrphans, LaunchSettles; *files*: WritesAsAgreed; *diffs*: GateIsConclusive; *documents*: ComponentsSound; *resources*: DeclaresOnlyItsResource, GeneratedRoutesServed; *specs*: GeneratedSpecsPass; *tree*: TreeShowsWhatIsChecked; *locales*: UnreportedPathsTranslate | 3 launches of one key, timeout of 2 polls; 2 files, 2 settings, 2 edits; 2 documents to diff; 3 endpoints over 3 serializers; 2 generator runs; 3 controllers in 4 directories; pairs of small locales |
| `pipeline_first_response`, `watcher_edits`, `payload_status`, `diff_head`, `params_fields`, `document_recursion`, `request_enums`, `override_serializer` | the findings of section 4, in this order | those of the passing run of the module |

Each passing run checks `TypesOK` as well, the conjunction of its modules' type
invariants.

Why the bounds are enough. Two runs of `stop()` and two connections give every
pairwise overlap, which is all the shared state distinguishes; a grace shorter
than the deadline, as in the code (10 s by default against 15 s), with one tick
between lets either timer be the one that fires. Two hooks let one succeed and the
next fail. In the pipeline one controller call may answer and a second throw or
answer again. Three `init()` calls let one overlap a failing one and a third come
after both; two boots overlap, or follow each other. Three launches let a key be
stopped, taken again and found by the first launch. Depth 3 is the least at which an
id makes room twice. Three key versions are a rotation and a process it left
behind. One action is enough in PayloadValidation because every cache key begins
with the action's name; two documents and two statuses are what the keys have to
tell apart beside it. Locales nested twice (`Depth = 2`) let a difference be at, above and beside
a path. Three serializers are the least with a cycle that does not go
through the one it began at. Two runs of a command are what "run it again"
needs. For the properties that section 5 lists as proved, no bound remains.

Fairness. `processes` assumes of the server that time passes and that due timers
run -- the event loop's promise -- and nothing of hooks, handlers, peers or the
database, which may hang for ever; of the watcher, that its timers fire, that
events are delivered and that the command it started goes on, while a run by hand
may hang. `dev_server` assumes that timers run and that a fetch settles (undici
bounds each). Everything else is safety, without fairness.

What the properties leave open. Some behaviours fail in ways that no doc of the
repository rules out; the properties exempt them by name, and the models do run
into them:

* `DbOutlivesConnections` and `MeetsContract` except a server that a `stop()` overtook
  (`overtaken`; `Abandon` and `ListenLate` of the contract): called while `start()` still
  waits for the server to listen, it finds no server, closes the database and resolves,
  and `start()` then serves without one. CHANGELOG.md:176 promises that a server is
  closed before the connections of the database are, but of a server that is up.
* `EscalatedExactlyOnce` excepts an error of the boundary's own rendering of a
  deliberate error's data (`where = "boundary"`): nothing escalates that one.
  `FailuresAnswered` excepts it too: what a serializer throws there, be it `null` or
  frozen, goes to Koa as it is, and where Koa crashes on it the request stays unanswered.
* `ResolvedInitIsComplete` promises routes and documents only of an `init()` with
  integrity checks (`bypass` is the option that turns them off), and does not say what
  the documents hold: those made after a controller's import failed may leave
  controllers out, because the next `init()` takes the unfinished map for the loaded
  one.
* `NoOrphans` excepts a key that was stopped while a launch under it was waiting
  (`crossed`): `stopDevServer` then may delete the entry of another launch's process.
* `ActionSeesValidParams` excepts an action whose before action caught the
  validation failure itself: `validateParams()` does not validate twice.
* `RespondsAsDocumented` excepts overrides that keep their ancestor's serializer
  (finding 8), the helpers that render builders only, and statuses that have no body.
* `PathsAsDeclared` asks a document to require a parameter only if no endpoint of the path
  declares one of that name as not required, in any document: the parameters of a
  placeholder are shared, so a document's default header changes them for the others.
* `GeneratedRoutesServed` excepts the actions of a controller that a later run overwrote
  without them (`Overwritten`): resources below a namespace and below a resource of its
  name share a controller, and so do two runs of one resource of which the second leaves
  its route to the developers. The generator asks nobody and reports nothing.
* `WritesAsAgreed` excepts a file that is touched between the comparison and the write.
* `CastSound` says what becomes of the type null on a dotted path that ends early: allowed
  by the type itself, it is refused there unless the options allow it.
* `ModelBodiesStable` excepts bodies with a model below the properties of an object
  (finding 7), and from its second half an enum in a field that the page param takes the
  place of: it is exported all the same.
* `ComponentsSound` asks for each key once only where no serializer flattens itself, be it
  through others: such a walk adds nothing when it meets the serializer again.
* `MountedInOrder` asks for no duplicates only while no boot failed or overlapped
  another: a repeated boot after a failed one mounts again.

## 4. Findings

Each is a run TLC must find violated.

1. *FirstResponseWins*: `created()` and the other helpers set the status before they
   look at `_responseSent`, so a second call changes the status of the answer
   the guard in `koaSendJson` preserves the body of.
2. *EditsSynced*: an edit during a sync or the second after it is ignored and never
   synced.
3. *ResponseVerdictsExact*: the key of a cached validator does not name the status,
   so the first status an action answers with decides how all its answers are
   validated. `SerializedByOwnSchema` shows that the stringifiers, whose key does
   name it, are not affected.
4. *HeadBranchDefaults*: with a remote whose HEAD is ambiguous the head branch is
   the empty string, and the documents are compared with git's index.
5. *EachFieldValidated*: a column whose database type has no cast is dropped by
   `paramsFor`, neither returned nor refused.
6. *RecursionEnds*: a serializer that flattens one which renders it is rendered
   inside itself without end.
7. *EnumsFileComplete*: rendering a document replaces nested `for:` sentinels in the
   decorator's own declaration, and the enums file made afterwards lacks their enums.
8. *OverridesRespondAsDocumented*: an override decorated without options answers with
   its ancestor's serializer and documents the default one.

Met on the way, and not stated as properties because nothing in the repository
promises otherwise, or because they concern wording:

* `cli/index.ts:637` says that sync:routes "runs automatically as part of
  `pnpm psy sync`"; neither `sync()` nor `postSync()` (`bin/index.ts:99`) calls it.
* The example `send({ status: 'teapot' })` (`controller/index.ts:1190`) throws: the
  map has `i_am_a_teapot`. The docs of `paramsFor` mention `opts.including`, which
  `Params.for` ignores.
* `respond()` never takes a success status from `defaults.responses`. A page given to
  an endpoint without `paginate` is sent unserialized. A 205 that is documented with
  a body is sent without one. Arrays of serializers are documented as `anyOf`, but
  each record is rendered by its own key.
* A `$serializer` in a request body leaves a dangling reference. Parameters of the
  same name are combined across the methods of a path, memoized path parameters pass
  from one document to another, and of several routes to an action only the first
  (or the PATCH one) is documented.
* The generated controller of a nested resource adds an unrestricted parent whose
  controller may not exist; a declaration inserted at the top of a block can shadow
  hand-written routes; the pattern `/^\/?admin/` also matches "administrators"; a
  custom action generated for admin renders the default serializer while its loader
  preloads for the admin one.
* Locales keyed by region are compared but `provide` never selects them.
* A controller whose line leaves the inspected directory and comes back is on no
  line of the printed tree, and roots are not warned of.

## 5. Proofs

Theorems hold for every value of the constants that satisfies the ASSUMEs below:
any number of connections, runs, hooks, requests, boots, calls, files, documents,
edits and columns, any timeouts and key versions. None of the properties is
inductive by itself; each proof module first states what else holds in every
reachable state, as a conjunction of named parts, proves that the initial states
have it and that each action keeps it -- one lemma per action or group of actions --
and concludes the property from it. Each of those invariants was checked by TLC on
the instances of section 3 before it was proved.

**Processes_proofs**, the server: `ServerTypeCorrect`, `DbOutlivesConnectionsAlways`,
`GraceAlwaysRespected`, `DeadlineAlwaysKept`, `SuccessAlwaysComplete` and
`ServerMeetsContract`. `DbOutlivesConnections` needs that a run past `Drained`
leaves no peer and that none can come back (`PeersGone` in `StartInv` and `DbInv`), and
that a run for a signal always finds a server, since handlers are registered behind the
binding of it (`RunInv`): only a run that the program started can pass one by.
`DeadlineKept` needs that the first signal's run is never over while the process is
up (`DeadlineInv`): a run ends only with its process. `GraceRespected` needs that no
run's force timer is ahead of the time since the server stopped listening
(`GraceInv`). The refinement theorem maps every step to a step or a stutter of the
contract under `ServerIInv`.

**RequestPipeline_proofs**: `TypeCorrect`, `AlwaysEscalatedExactlyOnce`,
`FailuresAlwaysAnswered`, `ActionAlwaysSeesValidParams`. At most one error is in
flight, and it is the last that was raised (`InFlightIsLast`); all others have been
escalated as often as they should be (`OthersSettled`), and while the application runs
on, all of them were replaced by what caught them (`NothingFailed`).
`KnownInFlight` says what may be in flight at each stage: what comes out of the router
is either an error no one has answered, or a hook's error with the router's mark --
which is why the boundary, by looking at the mark, escalates neither twice nor never,
and why Koa is handed an error it crashes on only by the boundary's own rendering. `ServerErrorAnswered`,
`DataIsDeliberate` and `FailedResponds` follow status, body and `ctx.respond` to the
end; `ParamsSeen` follows the validation.

**Controller_proofs**, the session: `SessionAlwaysSurvives`, `AlwaysServedAsWhoLoggedIn`. As long as
history and browser agree, every request carries the cookie of the session it was sent
in, and its answer is what its process made of that cookie: a process that cannot
open it sets none.

**Startup_proofs**: `RequestsAlwaysGuarded`, `ResolvedInitAlwaysComplete`,
`AlwaysMountedInOrder`. For `init()`: once a load has begun, either the flag is up or
every controller is decorated, which is why the flag that a failed import leaves set
does no harm to the hooks. For `boot()`: hooks are frozen once the app is cached
(`Frozen`) and every boot has mounted what its stage stands for, which other boots add
to but never remove (`AllHaveMounted`); so whichever boot mounts a router, the layers
it must stand behind are there (`RoutersGuarded`). Nothing is mounted twice because,
while no boot failed or overlapped another, at most one is underway and what it has
still to mount is not there (`Tidy`). The lemmas on a growing stack carry both.

**Startup_proofs**, the document: `DocumentAlwaysTyped`, `ComponentsAlwaysSound`, for any
serializers, however they refer to one another. A mark hides a serializer from the
renderers below, so it has to be accounted for: it is still being rendered, by a renderer
on the stack of calls, or all that it renders has a schema, awaits one or is referred to
by a renderer on the stack (`MarksRight`), whatever returns first (`PopRight`). When
nothing is pending the schemas are therefore closed under what serializers render, and
every `$ref` resolves. For the keys, each renderer on the stack holds, of every attribute
after `left`, exactly the keys that no later one renders, and of the others up to `next`
all of their keys (`FrameKeys`); what the calls of the attribute at hand have returned is
all that the serializers it flattens render, down to the ones they flatten
(`SpreadAfter`). That a walk which meets a serializer again may add nothing is where "unless
serializers flatten themselves" is needed: then no call is left out (`NoKeysLeftOut`).
`KeysByAttribute` is the one induction, along what a serializer spreads, which is defined
as the least set closed under flattening (`SpreadLeast`) so that no recursion is needed.
That the walk ends is not proved: it does not (finding 6).

**Payloads_proofs**, validation: `RequestVerdictsAlwaysExact`,
`AlwaysSerializedByOwnSchema`. The invariant says what a key leads to: a
validator's key to the schema of exactly the action, document and part of the
request it names, a stringifier's to that of its status as well; and that the
search for a stringifier has passed only documents without a schema for the
status (`StatusInv`). For a response's validator no such fact holds: finding 3.

**Payloads_proofs**, casts: `CastTypeCorrect`, `CastAlwaysSound`. A finished cast is the
cast of what was looked up (`CastIInv`), so the claim is one about `Cast`. That a
rounded number is never taken for another rests on `RoundedIntegers` and
`IntegerExact`: a float within the safe range is the integer that was read, for every
integer there is; bigints never become floats (`BigintExact`). For arrays,
`PresentPairs` and `PresentHas` say what dropping the nulls leaves: each item that
stays, cast, in its place, and every item that is not null. The cast of each item is
sound by `ScalarFair`, a case for each type. What a value stands for (`Meaning`) is
defined apart from the cast for numbers; for the other types it is what the cast makes of
the value alone, so that of these the theorem says what arrays, nulls, options and
dotted paths do with it. Writing this proof showed that the model's
`Spacing` had a CASE whose guards overlapped, which TLC read in order and TLA+ does
not: it is an IF now.

**Payloads_proofs**, params: `AlwaysAllOrNothing`. The elements before the cursor passed
whole (`Passed`), of the one at the cursor exactly the columns looked at are taken or
failed (`Partial`), those after it are untouched, and a call ends only at the end of an
element (`Ended`). `ColumnOutcome` shows that every cast ends in one of its three
ways, whatever the value: no value is both taken and refused, or neither.

**Processes_proofs**, the sync pipeline: `WatcherNeverLoopsAlways`, `CompleteSyncAlwaysCurrent`. Every
start is paid for by the event of an edit, and the flag is up until the events of the
command's own writes are heard (`LoopInv`, by cardinalities). For the files: no
command that runs while or after a complete sync ran alone holds anything older than
what that sync began from (`Fresh` in `CurrentInv`), so later failures and overlaps
cannot make a file older again; and the latest command makes its files from the
documents as they are (`ChainInv`).

**DeveloperTools_proofs**: `NeverOrphans`, `WritesAlwaysAsAgreed`,
`GateAlwaysConclusive`. A waiting launch's process is the one under its key unless the
key was stopped (`WaitInv`): no other launch of the key gets past its first check.
What a command read of a file nobody has edited since is what the disk holds until the
file's turn comes (`DiskAsRead`), and nothing is written before the question is
answered (`AskedFirst`). A document's result says how it differs unless the head
branch went unnamed (`ResultInv`), and the command ends well only after a summary that
gives way to no failure (`ExitInv`).

**DeveloperTools_proofs**, the locales: `UnreportedPathsAlwaysTranslate`. The keys of a
path lead from both locales to a node each (`NodesExist`), and as a string is found at
the end of the base's, there are objects with the next key all the way
(`ObjectsOnTheWay`). By induction along the path the two nodes are one of the compared
pairs (`NextAgrees`): what is not reported at the next key is there on both sides and
does not differ, so the strings at the end have the same placeholders (`Translates`).
LocaleDifferences compares the pairs of objects level by level, where the code goes
depth first: the same pairs, and the order of the lines is left out anyway.

**Controller_proofs**, the hooks: `HooksTypeCorrect`, `HooksAlwaysAsDeclared`. A class's
own list keeps, of all that its lineage declares, each method once, as first declared
(`Kept`), and running declarations again adds nothing (`RunKeeps`): so a class that
instantiates late, after its subclasses or in any other order, still has every hook and
none of another's (`OwnComplete`).

**Controller_proofs**, the answers: `AlwaysRespondsAsDocumented`. The invariant says that
the endpoint is that of the last call and the metadata's key the one the documents use,
unless an ancestor's was left (`ResponsesIInv`). `StatusOwn` shows that `respondStatus`
always finds a status of the decorator's own, so that respond() is never documented by
a document's defaults alone; `BodyKinds` tells what a document can show there, and
`SerializedMatches`, `BuildersMatch` and `PlainMatches` that each way of rendering gives
it, item by item.

**Controller_proofs**, the paths: `PathsAlwaysTyped`, `PathsAlwaysAsDeclared`. Documents hold
the memoized parameters of placeholders themselves, so a finished document changes while
another is rendered. `Keeps` says what combining may do to a parameter: describe one that
is not described, and make one not required only where an endpoint of the path says so. Each
layer that is combined keeps those before it (`IntoKeeps`, `CombinedKeeps`), a memoized
parameter is only combined on the path of its endpoint (`Links`), where the document being
rendered has it as it is now (`Fresh`), and so all that was shown is still shown
(`ShownForKeeps`, `RenderingGoesOn`). A document that ends has reached every endpoint it
shows, since the next one is always the least (`NextOf`). For this proof parameters became
functions from their names: their order on a path, which the code takes from the order of
declaration, says nothing.

**Controller_proofs**, the request bodies: `BodiesAlwaysTyped`, `ModelBodiesAlwaysStable`. A
body is a function from the paths within it to nodes, so that expanding it changes each node
by itself and needs no recursion: a model becomes an object with a path for each of its
columns. Expanding a body shows the enums that the collector is told (`ExpansionShows`), a
page hides what stood in its field and nothing else (`PagedShows`), and what is written back
are the expansions below an object's properties, of which a body whose models are in place
has none (`InPlaceIsLeft`). That is the invariant (`InPlaceKept`).

**DeveloperTools_proofs**, the generated specs: `GeneratedSpecsAlwaysPass`. The invariant is
that an example which was run passed exactly if `Expected` says so of what its action made of
the records created for it. The owner that the spec gives a record is the one the controller
looks for, wherever it looks for one (`SameOwner`); what the spec sends is accepted and
assigned (`SentAreAssigned`) and enough to create a record (`SupportedIsCreatable`);
whatever an example refers to is declared before it (`NamesDeclared`); and so each action
does what its examples expect (`OwnPasses`, `OtherPasses`).

**DeveloperTools_proofs**, the tree of controllers: `TreeAlwaysTyped`,
`TreeAlwaysShowsWhatIsChecked`, for any registry. A class that is printed or still to be
is a root, or has the class it extends printed above it (`Placed`); so no class is met
twice (`Once`: its children can only be met after it, `ParentShown`), and each one met
hangs from the tree (`Hanging`). Every root and every child of what is printed is met
(`Complete`). So when the walk is over, a class that hangs and is not printed would extend
another such, and that one another: but no class is above itself (`NoCircle`). What lies
above a class is defined as the least set closed under `extends` (`AboveLeast`), so
nothing here recurs.

**DeveloperTools_proofs**, the controllers of generated resources:
`GeneratedControllersAlwaysServe`. A path of directories lies in one area from its first
name on (`AreaOf`), so what a base controller or a resource's own extends is that of the
boilerplate or the base controller of the directory above (`ExtendsByLevel`), which the
same run has written or found (`WriteKeepsControllers`). What a resource was given is
found in the log of the runs, which keeps every run whatever later ones overwrite; its
actions are there as long as none after it wrote the same controller without one. The
runs of ResourceGenerator are steps of this specification, whatever comes of their
insertions. Writing this proof showed
that the model put a resource named `admin` itself into the admin area, where the code
looks for a directory of that name: `Area` asks for one now.

**RouterDsl_proofs**: `DslTypeCorrect`, `RoutesAlwaysMatchNesting`. Half of it is about
what a nesting means (`Prefix`): `NamespacedMeans`, `CollectionMeans` and `OwnPrefixMeans`
show that pushing, making room in and popping `currentNamespaces` is what one frame more
adds to the path, for a nesting of any depth. The other half is the invariant `Stacked`:
there are routers for every beginning of the open calls, each made of the one before by
its call, and a call that closes gives back exactly the routers it found
(`ClosedBack`), its `:postId` renamed back to `:id` included. The order of the routes
needs that an open call has registered nothing of its own yet (`OwnAreClosed`).

**Walks** holds what the proofs of router, hooks, locales and document rest on: a recursive
function is one of the functions that follow a walk of bounded rank, one exists
(`WalkExists`), and what holds at the roots and passes along the walk holds everywhere
(`WalkInduction`) -- induction stated with sets, since the library's induction theorems
take an operator as a parameter; and a set of naturals has a least (`SmallestOf`).

Assumptions. On constants that are bounds or timeouts: that they are naturals
(`LifecycleAssumption`, `PipelineAssumption`, `CallsAssumption`, `WatcherAssumption`,
`SessionAssumption`, `DevServerAssumption`, `BoundsAssumption`), with the order of the two timeouts left
open. On names: that the value for "none" is none of the named things
(`InitsAssumption`, `BaseAssumption`, `SessionAssumption`, `DiffAssumption`,
`SyncAssumption`). On data: documents and columns are finite sequences
(`PayloadAssumption`, `ColumnsAssumption`), what a request may carry is made of the
values of ParamsCast (`ElementsAssumption`), the errors thrown are of the kinds the
predicates tell apart (`KindsAssumption`), an application has finitely many controller
classes (`BaseAssumption`), each declaring a sequence of hooks
(`DeclarationsAssumption`), a value that reads as digits reads as an integer and only an
array has items, none of which is an array of some (`SentAssumption`), the bounds of a
cast are numbers and some options are to be had (`OptionsGiven`), the objects on a dotted
path are of the kinds told apart (`PathsAssumption`), a pattern is no name of a type
(`RegexesAssumption`), the objects of a locale nest to some finite depth and the base is one
of the locales (`ApplicationsAssumption`), a dotted path has a key (`DottedAssumption`), no
decorator declares content for a 204
and a serializer given as such is one (`DecoratorsAssumption`), an action calls helpers of
the controller (`HelpersAssumption`), `only` names resourceful methods, which the types of its
option demand (`OptionsAssumption`), `required` is given as a Boolean or not at all and the
routes and endpoints of an application are finite sequences (`EndpointsAssumption`),
no class extends itself, by way of others either (`TreeAssumption`), the ancestors of a
resource have names (`RequestsAssumption`),
serializers declare attributes in a sequence and render serializers of the app
(`AppsAssumption`), a declared request body is a tree that names the models within it and no columns
(`BodiesAssumption`),
no model has a name that stands for none or for somebody else (`ScaffoldsAssumption`), and a
write set has finitely many files and some setting (`SetAssumption`). TLC evaluates each of them on every run of a module
that extends theirs.

Left to TLC, and why:

* The liveness properties `SignalledProcessEnds`, `LaunchSettles` and
  `HeardEditsReachFiles`: fairness and ENABLED are out of the prover's reach.
* `DeclaresOnlyItsResource`, and of `GeneratedRoutesServed` what it says of the routes
  file (the rest of it is `GeneratedControllersServe`, proved): ResourceGenerator
  computes over the tree of a routes file with RECURSIVE operators, for which the prover
  has no SMT backend, and the claim is an induction over that tree.
* `TypesOK`, the types of several modules side by side: most of them are theorems about the
  modules, or conjuncts of their inductive invariants; those that no proof needs are only
  checked.

## 6. Plan

What is left worth proving: for the routes file of ResourceGenerator, what RequestBodies,
LocaleDifferences, ControllerTree and OpenapiDocument did: trees as functions from paths,
recursion by a depth that is a constant, or an action for each turn of a loop.

## 7. Not modelled

Required lists, nullability, casing and the types that renderers derive; virtual
attributes and the schemas of query parameters; what a schema accepts (ajv), casts to
OpenAPI shapes and `Params.restrict`; the text of generated controllers and specs, of
messages and of templates; the registration of CLI commands that call one function and
exit; the environment loader and the stateless helpers; cookie attributes and
lifetimes; Koa, Node, git, oasdiff and the Dream ORM beyond what the actions marked
external say; the WebSocket package, which is not in this repository.
