---------------------------- MODULE RequestPipeline ----------------------------
(***************************************************************************)
(* One request through psychic: the error boundary, the middleware inside  *)
(* it, the router's handle(), and the controller's runAction()             *)
(* (src/src/server/helpers/errorBoundaryMiddleware.ts,                     *)
(* src/src/router/index.ts, src/src/controller/index.ts).                  *)
(*                                                                         *)
(* An error is a record in "raised", where its identity is its position:   *)
(* the WeakSets the code keeps (errors re-thrown for a failing hook, the   *)
(* body parser's own errors) are flags of that record.  App code -- the    *)
(* middleware, the controller's before actions and action, the             *)
(* server:error hooks -- does any of the things the framework lets it do.  *)
(***************************************************************************)
EXTENDS Integers, Sequences

CONSTANTS MiddlewareKinds,  \* kinds of error middleware may throw
          ActionKinds,      \* kinds of error a controller may throw
          HookKinds,        \* kinds of error a server:error hook may throw
          RenderKinds,      \* kinds of error that rendering an error's data may throw
          NBefore,          \* before actions that fire for the action
          NHooks,           \* server:error hooks
          MaxCalls          \* bound: controller calls per request

ASSUME PipelineAssumption == NBefore \in Nat /\ NHooks \in Nat /\ MaxCalls \in Nat

(***************************************************************************)
(* Kinds of error, and what the code's predicates say of each.             *)
(***************************************************************************)
Kinds == {"http",          \* psychic HttpError, 4xx or 501-510, no data
          "httpData",      \* the same with data
          "httpBadData",   \* the same with data whose serializer throws
          "http500",       \* HttpStatusInternalServerError
          "koa4xx",        \* Koa's ctx.throw(4xx)
          "recordNotFound", "invalidParams",
          "foreign4xx",    \* another library's error carrying a 4xx status
          "parser4xx",     \* the body parser's own 4xx
          "decompression", \* the body parser's zlib failure, no status
          "null",          \* throw null, or a frozen error
          "plain"}

ASSUME KindsAssumption ==
    MiddlewareKinds \cup ActionKinds \cup HookKinds \cup RenderKinds \subseteq Kinds

\* errorIsRescuableHttpError
Rescuable(k) == k \in {"http", "httpData", "httpBadData"}
HasData(k) == k \in {"httpData", "httpBadData", "http500"}

\* errorIsDeliberateHttpError
Deliberate(k) == Rescuable(k) \/ k = "koa4xx"

\* statusFromError, with one status for each kind; 0 is null.
StatusOf(k) == CASE k \in {"http", "httpData", "httpBadData"} -> 422
                 [] k = "koa4xx" -> 401
                 [] k = "http500" -> 500
                 [] k = "foreign4xx" -> 404
                 [] k = "parser4xx" -> 413
                 [] OTHER -> 0

\* What handle() answers without involving server:error hooks; 0 is a server
\* error.
RouterStatus(k) == CASE Deliberate(k) -> StatusOf(k)
                     [] k = "recordNotFound" -> 404
                     [] k = "invalidParams" -> 400
                     [] OTHER -> 0

\* Koa's ctx.onerror assigns err.status and err.headerSent, which throws when
\* they are read-only, and does nothing at all for null.
CrashesKoa(k) == Rescuable(k) \/ k \in {"http500", "null"}

\* Mutant: only null is wrapped, not an error with a read-only status.
KoaCanHandleWrapsNull(k) == IF k = "null" THEN "plain" ELSE k

\* errorKoaCanHandle: the error itself, or a plain Error wrapping it.
KoaCanHandle(k) == IF CrashesKoa(k) THEN "plain" ELSE k

VARIABLES
    devOrTest,   \* EnvInternal.isDevelopmentOrTest
    invalid,     \* what fails OpenAPI validation: "none", "query" (and maybe more),
                 \* or "other": headers or body, with a valid query
    pc,          \* where control is
    at,          \* index of the before action or hook about to run
    calls,       \* controller calls made (bounded by MaxCalls)
    status,      \* ctx.status
    body,        \* ctx.body, by who wrote it
    headerSent,  \* ctx.headerSent
    respond,     \* ctx.respond
    sent,        \* controller's _responseSent
    validated,   \* controller's paramsValidated
    raised,      \* the errors raised so far
    err          \* position in raised of the error in flight, or 0

response == <<status, body, headerSent, respond>>
fixed == <<devOrTest, invalid>>
pipelineVars == <<fixed, pc, at, calls, response, sent, validated, raised, err>>

ErrorRecord == [kind : Kinds,
                where : {"middleware", "controller", "render", "boundary", "hook"},
                parser : BOOLEAN,     \* in bodyParserErrors
                rethrown : BOOLEAN,   \* in rethrownHookErrors
                late : BOOLEAN,       \* headers were out when the boundary got it
                replaced : BOOLEAN,   \* app code caught it
                escalated : 0..1]     \* times server:error hooks were called with it

Pcs == {"inbound", "dispatch", "before", "validate", "action", "caught", "routerHooks",
        "outbound", "unwind", "boundary", "boundaryHooks", "koa", "done"}

PipelineTypeOK ==
    /\ devOrTest \in BOOLEAN /\ invalid \in {"none", "query", "other"}
    /\ pc \in Pcs
    /\ at \in 1..(IF NBefore > NHooks THEN NBefore ELSE NHooks) + 1
    /\ calls \in 0..MaxCalls
    /\ status \in {200, 201, 204, 302, 400, 401, 404, 413, 422, 500}
    /\ body \in {"unset", "action", "data", "empty", "hook", "koa", "unanswered"}
    /\ headerSent \in BOOLEAN /\ respond \in BOOLEAN
    /\ sent \in BOOLEAN /\ validated \in BOOLEAN
    /\ raised \in Seq(ErrorRecord)
    /\ err \in 0..Len(raised)

PipelineInit ==
    /\ devOrTest \in BOOLEAN /\ invalid \in {"none", "query", "other"}
    /\ pc = "inbound" /\ at = 1 /\ calls = 0
    /\ status = 404 /\ body = "unset" /\ headerSent = FALSE /\ respond = TRUE
    /\ sent = FALSE /\ validated = FALSE
    /\ raised = <<>> /\ err = 0

(***************************************************************************)
(* Helpers                                                                 *)
(***************************************************************************)

\* Koa ignores writes to a response whose headers are out.
Write(s, b) ==
    /\ status' = IF headerSent THEN status ELSE s
    /\ body' = IF headerSent THEN body ELSE b

NewError(k, where) == [kind |-> k, where |-> where, parser |-> FALSE, rethrown |-> FALSE,
                       late |-> FALSE, replaced |-> FALSE, escalated |-> 0]

InFlight(e) == raised' = Append(raised, e) /\ err' = Len(raised) + 1
Raise(k, where) == InFlight(NewError(k, where))

(***************************************************************************)
(* Middleware between the boundary and the router                          *)
(***************************************************************************)

\* psy.use middleware, cors, etag: throw, take the response over
\* (ctx.respond = false), or send it outright before going on.
Middleware ==
    /\ pc = "inbound"
    /\ \/ \E k \in MiddlewareKinds : Raise(k, "middleware") /\ pc' = "boundary" /\ UNCHANGED response
       \/ /\ respond' = FALSE /\ headerSent' \in BOOLEAN
          /\ pc' = "dispatch"
          /\ UNCHANGED <<status, body, raised, err>>
       \/ pc' = "dispatch" /\ UNCHANGED <<response, raised, err>>
    /\ UNCHANGED <<fixed, at, calls, sent, validated>>

\* markBodyParserErrors: its own errors are marked, those of the app's own
\* detectJSON and onError callbacks are not.
BodyParser ==
    /\ pc = "inbound"
    /\ \/ \E k \in {"parser4xx", "decompression"} :
             InFlight([NewError(k, "middleware") EXCEPT !.parser = TRUE])
       \/ \E k \in {"foreign4xx", "plain"} : Raise(k, "middleware")
    /\ pc' = "boundary"
    /\ UNCHANGED <<fixed, at, calls, response, sent, validated>>

(***************************************************************************)
(* handle() and runAction()                                                *)
(***************************************************************************)

\* The controller is constructed outside handle()'s try; its constructor sets
\* ctx.status.  An unknown action is answered 404.
Dispatch ==
    /\ pc = "dispatch"
    /\ \/ /\ Write(200, body) /\ pc' = IF headerSent THEN "validate" ELSE "before"
          /\ UNCHANGED <<sent, raised, err>>
       \/ /\ Write(404, "empty") /\ sent' = TRUE
          /\ pc' = "outbound" /\ UNCHANGED <<raised, err>>
       \/ /\ Raise("plain", "middleware") /\ Write(200, body)
          /\ pc' = "unwind" /\ UNCHANGED sent
    /\ UNCHANGED <<fixed, at, calls, headerSent, respond, validated>>

\* Calls made by a before action or the action; both may be followed by more
\* code of the same method, which is why "sent" does not end it.
Call == /\ (pc = "action" \/ (pc = "before" /\ at <= NBefore))
        /\ calls < MaxCalls /\ calls' = calls + 1

\* this.noContent(), this.nonAuthoritativeInformation(): koaSendStatus.
SendStatus ==
    /\ Call
    /\ IF sent THEN UNCHANGED <<status, body, sent>> ELSE Write(204, "empty") /\ sent' = TRUE
    /\ UNCHANGED <<fixed, pc, at, headerSent, respond, validated, raised, err>>

\* this.ok() and this.created(): the status is set, then the body validated
\* against the OpenAPI response schema, then koaSendJson.
SendJson ==
    /\ Call
    /\ \E s \in {status, 201} :
         \/ /\ IF sent THEN Write(s, body) /\ UNCHANGED sent
                       ELSE Write(s, "action") /\ sent' = TRUE
            /\ UNCHANGED <<pc, raised, err>>
         \/ /\ Write(s, body) /\ UNCHANGED sent
            /\ Raise("plain", "controller") /\ pc' = "caught"
    /\ UNCHANGED <<fixed, at, headerSent, respond, validated>>

\* koaRedirect: refuses an unsafe target with a psychic 500.
Redirect ==
    /\ Call
    /\ \/ /\ IF sent THEN UNCHANGED <<status, body, sent>> ELSE Write(302, "action") /\ sent' = TRUE
          /\ UNCHANGED <<pc, raised, err>>
       \/ /\ ~sent /\ Raise("http500", "controller") /\ pc' = "caught"
          /\ UNCHANGED <<status, body, sent>>
    /\ UNCHANGED <<fixed, at, headerSent, respond, validated>>

\* ctx.respond = false, with or without writing to ctx.res.
OptOut ==
    /\ Call
    /\ respond' = FALSE /\ headerSent' \in {headerSent, TRUE}
    /\ UNCHANGED <<fixed, pc, at, status, body, sent, validated, raised, err>>

Throw ==
    /\ Call
    /\ \E k \in ActionKinds : Raise(k, "controller")
    /\ pc' = "caught"
    /\ UNCHANGED <<fixed, at, response, sent, validated>>

\* Mutant: runAction() relies on this.params to have validated the request.
ValidateParamsIfRead(next) ==
    /\ pc' = next
    /\ UNCHANGED <<validated, raised, err>>

\* validateParams() validates once, and marks the request validated before it
\* knows that it is valid.
ValidateParams(next) ==
    /\ validated' = TRUE
    /\ \/ /\ ~validated /\ invalid # "none"
          /\ Raise("invalidParams", "controller") /\ pc' = "caught"
       \/ /\ validated \/ invalid = "none"
          /\ pc' = next /\ UNCHANGED <<raised, err>>

\* this.params: validateParams(), then getCachedQuery(), which validates the
\* query each time until it is valid.  The reader may catch the failure.
ReadParams ==
    /\ Call
    /\ validated' = TRUE
    /\ LET fails == invalid = "query" \/ (~validated /\ invalid = "other")
       IN \/ /\ fails
             /\ Raise("invalidParams", "controller") /\ pc' = "caught"
          \/ /\ fails
             /\ raised' = Append(raised, [NewError("invalidParams", "controller") EXCEPT !.replaced = TRUE])
             /\ UNCHANGED <<pc, err>>
          \/ /\ ~fails
             /\ UNCHANGED <<pc, raised, err>>
    /\ UNCHANGED <<fixed, at, response, sent>>

\* One before action returns.
BeforeReturns ==
    /\ pc = "before" /\ at <= NBefore
    /\ at' = at + 1
    /\ IF sent \/ headerSent
       THEN pc' = "validate"
       ELSE pc' = pc
    /\ UNCHANGED <<fixed, calls, response, sent, validated, raised, err>>

BeforesDone ==
    /\ pc = "before" /\ at > NBefore
    /\ pc' = "validate"
    /\ UNCHANGED <<fixed, at, calls, response, sent, validated, raised, err>>

RunAction ==
    /\ pc = "validate"
    /\ IF sent \/ headerSent
       THEN pc' = "outbound" /\ UNCHANGED <<validated, raised, err>>
       ELSE ValidateParams("action")
    /\ UNCHANGED <<fixed, at, calls, response, sent>>

ActionReturns ==
    /\ pc = "action"
    /\ pc' = "outbound"
    /\ UNCHANGED <<fixed, at, calls, response, sent, validated, raised, err>>

(***************************************************************************)
(* handle()'s catch                                                        *)
(***************************************************************************)

Caught == raised[err]
Escalate == raised' = [raised EXCEPT ![err].escalated = @ + 1]

\* A deliberate http error, a missing record, or params that do not validate:
\* answered without hooks, unless the controller already answered.  Rendering
\* the error's data runs serializers, and what they throw leaves handle().
HandleKnownError ==
    /\ pc = "caught" /\ RouterStatus(Caught.kind) # 0
    /\ respond' = (~headerSent \/ respond)
    /\ IF Caught.kind = "httpBadData"
       THEN /\ \E k \in RenderKinds : Raise(k, "render")
            /\ pc' = "unwind"
            /\ UNCHANGED <<status, body, sent>>
       ELSE /\ IF sent THEN UNCHANGED <<status, body, sent>>
               ELSE /\ Write(RouterStatus(Caught.kind), IF HasData(Caught.kind) THEN "data" ELSE "empty")
                    /\ sent' = TRUE
            /\ pc' = "outbound" /\ err' = 0 /\ UNCHANGED raised
    /\ UNCHANGED <<fixed, at, calls, headerSent, validated>>

\* Anything else is a server error: logged, answered 500, handed to the hooks.
HandleServerError ==
    /\ pc = "caught" /\ RouterStatus(Caught.kind) = 0
    /\ respond' = (~headerSent \/ respond)
    /\ Write(500, "empty")
    /\ Escalate
    /\ pc' = "routerHooks" /\ at' = 1
    /\ UNCHANGED <<fixed, calls, headerSent, sent, validated, err>>

\* A hook does nothing or shapes the response.
HookReturns ==
    /\ pc \in {"routerHooks", "boundaryHooks"} /\ at <= NHooks
    /\ at' = at + 1
    /\ \/ UNCHANGED <<status, body>>
       \/ Write(422, "hook")
    /\ UNCHANGED <<fixed, pc, calls, headerSent, respond, sent, validated, raised, err>>

HooksDone ==
    /\ pc \in {"routerHooks", "boundaryHooks"} /\ at > NHooks
    /\ pc' = IF pc = "routerHooks" THEN "outbound" ELSE "done"
    /\ err' = 0
    /\ UNCHANGED <<fixed, at, calls, response, sent, validated, raised>>

\* A failing hook ends the hooks.  In development and test the router
\* re-throws its error, marked, and the boundary throws it at Koa; in
\* production both log it.
HookThrows ==
    /\ pc \in {"routerHooks", "boundaryHooks"} /\ at <= NHooks
    /\ IF devOrTest
       THEN /\ \E k \in HookKinds :
                 InFlight([NewError(KoaCanHandle(k), "hook") EXCEPT !.rethrown = (pc = "routerHooks")])
            /\ pc' = IF pc = "routerHooks" THEN "unwind" ELSE "koa"
       ELSE /\ pc' = IF pc = "routerHooks" THEN "outbound" ELSE "done"
            /\ err' = 0 /\ UNCHANGED raised
    /\ UNCHANGED <<fixed, at, calls, response, sent, validated>>

(***************************************************************************)
(* The way out                                                             *)
(***************************************************************************)

\* Middleware code after await next().
Outbound ==
    /\ pc = "outbound"
    /\ \/ pc' = "done" /\ UNCHANGED <<raised, err>>
       \/ \E k \in MiddlewareKinds : Raise(k, "middleware") /\ pc' = "boundary"
    /\ UNCHANGED <<fixed, at, calls, response, sent, validated>>

\* An error on its way to the boundary: middleware around the router lets it
\* pass, or catches it and throws one of its own.
Unwind ==
    /\ pc = "unwind"
    /\ pc' = "boundary"
    /\ \/ UNCHANGED <<raised, err>>
       \/ \E k \in MiddlewareKinds :
             /\ raised' = Append([raised EXCEPT ![err].replaced = TRUE], NewError(k, "middleware"))
             /\ err' = Len(raised) + 1
    /\ UNCHANGED <<fixed, at, calls, response, sent, validated>>

BoundaryStatus(e) ==
    IF StatusOf(e.kind) # 0 THEN StatusOf(e.kind)
    ELSE IF e.parser /\ e.kind = "decompression" THEN 400 ELSE 0

\* A deliberate http error, or a client error of the body parser itself.
AnsweredByBoundary(e) ==
    /\ BoundaryStatus(e) # 0
    /\ Deliberate(e.kind) \/ (BoundaryStatus(e) < 500 /\ e.parser)

PassToKoa ==
    /\ pc = "boundary" /\ (Caught.rethrown \/ headerSent)
    /\ raised' = IF Caught.rethrown THEN raised
                 ELSE [raised EXCEPT ![err].late = TRUE, ![err].kind = KoaCanHandle(@)]
    /\ pc' = "koa"
    /\ UNCHANGED <<fixed, at, calls, response, sent, validated, err>>

\* writeHandledErrorBody() may itself fail, outside any try: whatever the
\* serializers throw goes straight to Koa, errors it crashes on included.
BoundaryAnswers ==
    /\ pc = "boundary" /\ ~Caught.rethrown /\ ~headerSent /\ AnsweredByBoundary(Caught)
    /\ respond' = TRUE
    /\ IF Caught.kind = "httpBadData"
       THEN /\ Write(BoundaryStatus(Caught), body)
            /\ \E k \in RenderKinds : Raise(k, "boundary")
            /\ pc' = "koa"
       ELSE /\ Write(BoundaryStatus(Caught), IF HasData(Caught.kind) THEN "data" ELSE "empty")
            /\ pc' = "done" /\ err' = 0 /\ UNCHANGED raised
    /\ UNCHANGED <<fixed, at, calls, headerSent, sent, validated>>

\* Mutant: the boundary does not recognise the errors the router re-throws.
BoundaryEscalatesAll ==
    /\ pc = "boundary" /\ ~headerSent /\ ~AnsweredByBoundary(Caught)
    /\ respond' = TRUE
    /\ Write(500, "empty")
    /\ Escalate
    /\ pc' = "boundaryHooks" /\ at' = 1
    /\ UNCHANGED <<fixed, calls, headerSent, sent, validated, err>>

\* Mutant: the opt-out of Koa's response is not undone.
BoundaryEscalatesOptedOut ==
    /\ pc = "boundary" /\ ~Caught.rethrown /\ ~headerSent /\ ~AnsweredByBoundary(Caught)
    /\ Write(500, "empty")
    /\ Escalate
    /\ pc' = "boundaryHooks" /\ at' = 1
    /\ UNCHANGED <<fixed, calls, headerSent, respond, sent, validated, err>>

BoundaryEscalates ==
    /\ pc = "boundary" /\ ~Caught.rethrown /\ ~headerSent /\ ~AnsweredByBoundary(Caught)
    /\ respond' = TRUE
    /\ Write(500, "empty")
    /\ Escalate
    /\ pc' = "boundaryHooks" /\ at' = 1
    /\ UNCHANGED <<fixed, calls, headerSent, sent, validated, err>>

\* External: Koa's ctx.onerror.  An error it crashes on leaves the request
\* unanswered.
KoaAnswers ==
    /\ pc = "koa"
    /\ IF CrashesKoa(Caught.kind)
       THEN Write(status, "unanswered")
       ELSE Write(IF StatusOf(Caught.kind) = 0 THEN 500 ELSE StatusOf(Caught.kind), "koa")
    /\ pc' = "done" /\ err' = 0
    /\ UNCHANGED <<fixed, at, calls, headerSent, respond, sent, validated, raised>>

Finished == pc = "done" /\ UNCHANGED pipelineVars

ControllerCall == SendStatus \/ SendJson \/ Redirect \/ OptOut \/ Throw \/ ReadParams

PipelineNext == \/ Middleware \/ BodyParser \/ Dispatch
                \/ ControllerCall \/ BeforeReturns \/ BeforesDone \/ RunAction \/ ActionReturns
                \/ HandleKnownError \/ HandleServerError
                \/ HookReturns \/ HooksDone \/ HookThrows
                \/ Outbound \/ Unwind
                \/ PassToKoa \/ BoundaryAnswers \/ BoundaryEscalates \/ KoaAnswers
                \/ Finished

PipelineSpec == PipelineInit /\ [][PipelineNext]_pipelineVars

(***************************************************************************)
(* Properties                                                              *)
(***************************************************************************)

\* What the documentation of the boundary and of handle() calls a genuine
\* server error, by what was thrown and where.
ServerError(e) ==
    CASE e.where = "controller" ->
             ~Deliberate(e.kind) /\ e.kind \notin {"recordNotFound", "invalidParams"}
      [] e.where \in {"middleware", "render"} -> ~Deliberate(e.kind) /\ ~e.parser
      [] e.where \in {"boundary", "hook"} -> FALSE

\* Over the two places that answer errors, every server error is handed to the
\* server:error hooks exactly once -- a failing hook's own error never, even
\* though the router throws it on through the boundary -- and a deliberate
\* error never.  (Not an error app code caught, nor one the boundary only
\* got when headers were out, nor what the boundary's own rendering of the
\* data of a deliberate error throws, which goes straight to Koa.)
EscalatedExactlyOnce ==
    pc = "done" => \A i \in DOMAIN raised :
        LET e == raised[i]
        IN ~e.late /\ ~e.replaced => e.escalated = IF ServerError(e) THEN 1 ELSE 0

\* A server error answers 500 with an empty body, whatever the controller had
\* already answered and whatever status or data the error carries, unless a
\* hook shapes the response; an error's data is sent only if it is deliberate;
\* and a failed request that had opted out of Koa's response gets it back, if
\* nothing was sent before.  Every error that the router, the hooks, or the
\* middleware hands on reaches Koa's default error handler as one it can
\* answer.  (Not what the boundary's own rendering throws, which nothing makes
\* fit for Koa: there the request may stay unanswered.)
FailuresAnswered ==
    /\ pc = "koa" /\ CrashesKoa(Caught.kind) => Caught.where = "boundary"
    /\ pc = "done" /\ ~headerSent /\ raised # <<>> =>
        LET last == raised[Len(raised)]
        IN /\ last.escalated = 1 => body = "hook" \/ (status = 500 /\ body = "empty")
           /\ body = "data" => Deliberate(last.kind)
           /\ (\E i \in DOMAIN raised : ~raised[i].replaced) => respond

\* An action runs on a request that fails validation only when a before
\* action read the params and caught the failure itself.
ActionSeesValidParams ==
    pc = "action" /\ invalid # "none" =>
        \E i \in DOMAIN raised : raised[i].kind = "invalidParams" /\ raised[i].replaced

\* "Guard here to preserve Express-like semantics for user code that falls
\* through after sending a response": a controller call made after the
\* controller answered leaves the answer alone.
FirstResponseWins == [][sent /\ ControllerCall => UNCHANGED <<status, body>>]_pipelineVars
=============================================================================
