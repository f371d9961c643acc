-------------------------- MODULE EndpointResponses --------------------------
(***************************************************************************)
(* What an action answers with this.respond(data), this.send() or one of   *)
(* the helpers for a status, and what the OpenAPI documents say that it    *)
(* answers.  Both come from the @OpenAPI decorators of the action          *)
(* (controller/decorators.ts), along different ways: the documents from    *)
(* the endpoint renderer (openapi-renderer/endpoint.ts), respond()'s       *)
(* status from the same renderer, and the serializer from the controller's *)
(* own metadata (controller/index.ts).                                     *)
(*                                                                         *)
(* A serializer is named; what it renders, the schemas of hand-written     *)
(* responses, headers and descriptions are left out.  Whether the answer   *)
(* is sent at all is RequestPipeline's.                                    *)
(***************************************************************************)
EXTENDS Naturals, Sequences, SequencesExt, FiniteSets, Functions, TLC

CONSTANTS
    Calls,           \* @OpenAPI calls on an action
    InheritedCalls,  \* those of an action that a descendant overrides
    ShownIn,         \* the documents of the controller
    Defaults,        \* document -> the statuses of its defaults.responses
    Serializers,     \* model -> serializer key -> its serializer
    Data,            \* what the action may answer with
    Helpers,         \* the helpers that it may call to do so,
    Symbols          \* and the names of statuses that it may give to send()

VARIABLES
    decorators,    \* the calls that have run, the ancestor's first
    endpoint,      \* controller.openapi[action], if there is one
    serializerKey, \* controllerActionMetadata[action].serializerKey
    given, answer  \* what the action has called, with what, and what was sent

responseVars == <<decorators, endpoint, serializerKey, given, answer>>

NoKey == "none"
NoStatus == 0

\* The first argument of a call: nothing, a model or a serializer, or several.
NoSerializable == [is |-> "nothing", of |-> <<>>]
Model(m) == [is |-> "model", of |-> <<m>>]
Serializer(s) == [is |-> "serializer", of |-> <<s>>]
Models(ms) == [is |-> "models", of |-> ms]
SerializerList(ss) == [is |-> "serializers", of |-> ss]

\* The options.  responses: status -> whether it is declared with content, or
\* with a description only.
NoResponses == [s \in {} |-> TRUE]
Options(key, many, paginate, maybeNull, status, responses) ==
    [key |-> key, many |-> many, paginate |-> paginate, maybeNull |-> maybeNull,
     status |-> status, responses |-> responses]
NoOptions == Options(NoKey, FALSE, FALSE, FALSE, NoStatus, NoResponses)

\* A call: with a serializable and options, or with one of the two.
Decorator(serializable, options) ==
    [form |-> "both", serializable |-> serializable, options |-> options]
DecoratorOf(serializable) ==
    [form |-> "serializable", serializable |-> serializable, options |-> NoOptions]
DecoratorWith(options) ==
    [form |-> "options", serializable |-> NoSerializable, options |-> options]

\* The data of an answer: models are records, builders are serializers called
\* by the action; page: an object with an array of results.
NoData == [is |-> "nothing", of |-> <<>>, items |-> <<>>]
Null == [is |-> "null", of |-> <<>>, items |-> <<>>]
Plain == [is |-> "plain", of |-> <<>>, items |-> <<>>]
Record(m) == [is |-> "record", of |-> <<m>>, items |-> <<>>]
Builder(s) == [is |-> "builder", of |-> <<s>>, items |-> <<>>]
ListOf(items) == [is |-> "list", of |-> <<>>, items |-> items]
PageOf(items) == [is |-> "page", of |-> <<>>, items |-> items]

(***************************************************************************)
(* The decorators                                                          *)
(***************************************************************************)

ResponsesInit ==
    /\ decorators = <<>> /\ endpoint = <<>> /\ serializerKey = NoKey
    /\ given = <<>> /\ answer = <<>>

\* The renderer of the endpoint that a call makes.
EndpointOf(call) ==
    LET o == call.options
    IN [serializable |-> call.serializable, key |-> o.key, many |-> o.many,
        paginate |-> o.paginate, maybeNull |-> o.maybeNull, status |-> o.status,
        responses |-> o.responses]

\* A call has both arguments or one of them, a serializer argument is one
\* serializer, and no content is declared for a 204, which cannot carry any.
ASSUME DecoratorsAssumption ==
    \A c \in Calls \cup InheritedCalls :
        /\ \/ c.form = "both"
           \/ c.form = "serializable" /\ c.options = NoOptions
           \/ c.form = "options" /\ c.serializable = NoSerializable
        /\ c.serializable.is \in {"nothing", "model", "serializer", "models", "serializers"}
        /\ c.serializable.is = "serializer" => 1 \in DOMAIN c.serializable.of
        /\ c.options.status \in Nat /\ DOMAIN c.options.responses \subseteq Nat \ {NoStatus}
        /\ 204 \in DOMAIN c.options.responses => ~c.options.responses[204]

\* The initializer of OpenAPI(): an ancestor's runs first, and the metadata is
\* written only by a call with both arguments.
Decorate(call) ==
    /\ Len(decorators) < 2
    /\ decorators' = Append(decorators, call)
    /\ endpoint' = <<EndpointOf(call)>>
    /\ serializerKey' = IF call.form = "both" THEN call.options.key ELSE serializerKey
    /\ UNCHANGED <<given, answer>>

(***************************************************************************)
(* The documents                                                           *)
(***************************************************************************)

\* automaticSuccessStatus.
AutomaticSuccessStatus(e) ==
    IF DOMAIN e.responses \cap {200, 201, 204} # {} THEN NoStatus
    ELSE IF e.status # NoStatus THEN e.status
    ELSE IF e.serializable.is = "nothing" THEN 204 ELSE 200

\* Bodies of responses: none, one declared by hand, one that a document adds to
\* all its endpoints, and serializers with the shape around them.
NoContent == [is |-> "none"]
Declared == [is |-> "declared"]
Default == [is |-> "default"]
Serialized(shape, of) == [is |-> "serialized", shape |-> shape, of |-> of]

KeyOr(key) == IF key = NoKey THEN "default" ELSE key
\* getSerializerClass, for each of the endpoint's serializables.
SerializersOf(e) ==
    LET s == e.serializable IN
    IF s.is \in {"serializer", "serializers"} THEN ToSet(s.of)
    ELSE {Serializers[m][KeyOr(e.key)] : m \in ToSet(s.of)}

\* baseSchemaForSerializerObject.
ResponseShape(e) == IF e.paginate THEN "page"
            ELSE IF e.many THEN "list"
            ELSE IF e.maybeNull THEN "one or null" ELSE "one"

\* extractSerializerFromSerializableArgument, and the response made of it.
AutomaticBody(e) ==
    IF e.status = 204 \/ e.status \in DOMAIN e.responses \/ e.serializable.is = "nothing"
    THEN NoContent ELSE Serialized(ResponseShape(e), SerializersOf(e))

\* parseResponses: the automatic success response, the declared ones over it,
\* and the document's defaults for the statuses that are left.
Responses(e, doc) ==
    LET automatic == {AutomaticSuccessStatus(e)} \ {NoStatus}
        own == automatic \cup DOMAIN e.responses
    IN [s \in own \cup Defaults[doc] |->
          IF s \notin own THEN Default
          ELSE IF s \in DOMAIN e.responses /\ e.responses[s] THEN Declared
          ELSE IF s \in automatic THEN AutomaticBody(e) ELSE NoContent]

(***************************************************************************)
(* The answer                                                              *)
(***************************************************************************)

\* Mutant: the status option is sent, whatever the responses replace.
RespondStatusAsked(e) ==
    IF e.status # NoStatus THEN e.status
    ELSE IF e.serializable.is = "nothing" THEN 204 ELSE 200

\* respondStatus, over decoratorSuccessStatuses.
RespondStatus(e) ==
    LET statuses == ({AutomaticSuccessStatus(e)} \ {NoStatus})
                    \cup {s \in DOMAIN e.responses : s \in 200..299}
        preferred == IF e.status = NoStatus THEN 200 ELSE e.status
    IN IF preferred \in statuses THEN preferred
       ELSE CHOOSE s \in statuses : \A t \in statuses : s <= t

\* singleObjectJson: a builder renders itself; a model is rendered by the
\* serializer of the decorator, when it has that one and nothing else, or by
\* the metadata's key; anything else is sent as it is.
SingleObjectJson(item) ==
    CASE item.is = "builder" -> item.of[1]
      [] item.is = "record" ->
           IF endpoint # <<>> /\ endpoint[1].serializable.is = "serializer"
           THEN endpoint[1].serializable.of[1]
           ELSE Serializers[item.of[1]][KeyOr(serializerKey)]
      [] OTHER -> item.is

\* _json: item by item for an array, and for the results of a page where the
\* endpoint paginates.
Json(d) ==
    IF d.is = "list" \/ (d.is = "page" /\ endpoint # <<>> /\ endpoint[1].paginate)
    THEN [shape |-> d.is, of |-> {SingleObjectJson(d.items[i]) : i \in DOMAIN d.items}]
    ELSE [shape |-> "one", of |-> {SingleObjectJson(d)}]

Empty == [shape |-> "none", of |-> {}]
Threw == [status |-> 500, body |-> Empty]
\* Koa sends no body with these.
Bodyless == {204, 205, 304}
JsonAnswer(status, d) ==
    [status |-> status,
     body |-> IF status \in Bodyless THEN Empty ELSE Json(IF d.is = "nothing" THEN Plain ELSE d)]

\* respond(): data on a 204 throws; no data is an empty object on any other.
Respond(d) ==
    LET status == IF endpoint = <<>> THEN 200 ELSE RespondStatus(endpoint[1]) IN
    IF status = 204 /\ d.is # "nothing" THEN Threw ELSE JsonAnswer(status, d)

\* status-codes.ts, the names of the statuses.
SuccessAndRedirectCodes ==
    [continue |-> 100, switching_protocols |-> 101, processing |-> 102] @@
    [ok |-> 200, created |-> 201, accepted |-> 202, non_authoritative_information |-> 203,
     no_content |-> 204, reset_content |-> 205, partial_content |-> 206, multi_status |-> 207,
     already_reported |-> 208, im_used |-> 226] @@
    [multiple_choices |-> 300, moved_permanently |-> 301, found |-> 302, see_other |-> 303,
     not_modified |-> 304, use_proxy |-> 305, switch_proxy |-> 306, temporary_redirect |-> 307,
     permanent_redirect |-> 308]
ClientErrorCodes ==
    [bad_request |-> 400, unauthorized |-> 401, payment_required |-> 402, forbidden |-> 403,
     not_found |-> 404, method_not_allowed |-> 405, not_acceptable |-> 406,
     proxy_authentication_required |-> 407, request_timeout |-> 408, conflict |-> 409,
     gone |-> 410, length_required |-> 411, precondition_failed |-> 412,
     payload_too_large |-> 413, uri_too_long |-> 414, unsupported_media_type |-> 415,
     range_not_satisfiable |-> 416, expectation_failed |-> 417, i_am_a_teapot |-> 418,
     misdirected_request |-> 421, unprocessable_entity |-> 422, locked |-> 423,
     failed_dependency |-> 424, upgrade_required |-> 426, precondition_required |-> 428,
     too_many_requests |-> 429, request_header_fields_too_large |-> 431,
     unavailable_for_legal_reasons |-> 451]
ServerErrorCodes ==
    [internal_server_error |-> 500, not_implemented |-> 501, bad_gateway |-> 502,
     service_unavailable |-> 503, gateway_timeout |-> 504, http_version_not_supported |-> 505,
     variant_also_negotiates |-> 506, insufficient_storage |-> 507, loop_detected |-> 508,
     not_extended |-> 510, network_authentication_required |-> 511]
HttpStatusCodeMap == SuccessAndRedirectCodes @@ ClientErrorCodes @@ ServerErrorCodes
\* send(): a name that the map does not have is no status for Koa, which throws.
SendSymbol(symbol, d) ==
    IF symbol \in DOMAIN HttpStatusCodeMap THEN JsonAnswer(HttpStatusCodeMap[symbol], d) ELSE Threw

\* The helpers for a success that go through json().
JsonHelpers == [ok |-> 200, created |-> 201, accepted |-> 202, resetContent |-> 205,
                alreadyReported |-> 208]

\* noContent(); and nonAuthoritativeInformation(), which renders builders only.
BuildersOnly(d) ==
    LET Sent(item) == IF item.is = "builder" THEN item.of[1]
                      ELSE IF item.is = "record" THEN "unserialized" ELSE item.is
    IN IF d.is = "list" THEN [shape |-> "list", of |-> {Sent(d.items[i]) : i \in DOMAIN d.items}]
       ELSE [shape |-> "one", of |-> {Sent(d)}]
NonAuthoritativeInformation(d) ==
    [status |-> 203, body |-> IF d.is \in {"nothing", "null"} THEN Empty ELSE BuildersOnly(d)]
NoContentHelper == [status |-> 204, body |-> Empty]

RedirectHelpers == [redirect |-> 302, movedPermanently |-> 301, found |-> 302, seeOther |-> 303,
                    temporaryRedirect |-> 307, permanentRedirect |-> 308]
\* The body of a redirect is Koa's.
RedirectAnswer(status) == [status |-> status, body |-> [shape |-> "one", of |-> {"redirect"}]]

\* The helpers that throw an HttpError: the router sends its data, with builders
\* rendered, unless it is a 500.
ErrorHelpers == [badRequest |-> 400, unauthorized |-> 401, paymentRequired |-> 402,
    forbidden |-> 403, notFound |-> 404, methodNotAllowed |-> 405, notAcceptable |-> 406,
    proxyAuthenticationRequired |-> 407, conflict |-> 409, gone |-> 410,
    preconditionFailed |-> 412, contentTooLarge |-> 413, unsupportedMediaType |-> 415,
    expectationFailed |-> 417, imATeampot |-> 418, misdirectedRequest |-> 421,
    unprocessableContent |-> 422, locked |-> 423, failedDependency |-> 424,
    preconditionRequired |-> 428, tooManyRequests |-> 429,
    requestHeaderFieldsTooLarge |-> 431, unavailableForLegalReasons |-> 451]
ServerErrorHelpers == [internalServerError |-> 500, notImplemented |-> 501, badGateway |-> 502,
    serviceUnavailable |-> 503, gatewayTimeout |-> 504, insufficientStorage |-> 507,
    notExtended |-> 510]
HttpErrorAnswer(status, d) ==
    [status |-> status,
     body |-> IF status = 500 \/ d.is \in {"nothing", "null"} THEN Empty ELSE BuildersOnly(d)]

AnswerOf(helper, d) ==
    CASE helper = "respond" -> Respond(d)
      [] helper \in DOMAIN JsonHelpers -> JsonAnswer(JsonHelpers[helper], d)
      [] helper = "nonAuthoritativeInformation" -> NonAuthoritativeInformation(d)
      [] helper = "noContent" -> NoContentHelper
      [] helper \in DOMAIN RedirectHelpers ->
           RedirectAnswer(RedirectHelpers[helper])
      [] helper \in DOMAIN ErrorHelpers -> HttpErrorAnswer(ErrorHelpers[helper], d)
      [] helper \in DOMAIN ServerErrorHelpers -> HttpErrorAnswer(ServerErrorHelpers[helper], d)

ASSUME HelpersAssumption ==
    Helpers \subseteq {"respond", "nonAuthoritativeInformation", "noContent"}
                    \cup DOMAIN JsonHelpers \cup DOMAIN RedirectHelpers
                    \cup DOMAIN ErrorHelpers \cup DOMAIN ServerErrorHelpers

Answer(helper, d) ==
    /\ answer = <<>>
    /\ given' = <<helper, d>> /\ answer' = <<AnswerOf(helper, d)>>
    /\ UNCHANGED <<decorators, endpoint, serializerKey>>

AnswerSymbol(symbol, d) ==
    /\ answer = <<>>
    /\ given' = <<"send", d>> /\ answer' = <<SendSymbol(symbol, d)>>
    /\ UNCHANGED <<decorators, endpoint, serializerKey>>

ResponsesNext ==
    \/ /\ answer = <<>> /\ ToSet(decorators) \subseteq InheritedCalls
       /\ \E c \in Calls : Decorate(c)
    \/ \E helper \in Helpers, d \in Data : Answer(helper, d)
    \/ \E symbol \in Symbols, d \in Data : AnswerSymbol(symbol, d)

ResponsesSpec == ResponsesInit /\ [][ResponsesNext]_responseVars

(***************************************************************************)
(* Properties                                                              *)
(***************************************************************************)

ResponsesTypeOK ==
    /\ Len(decorators) <= 2 /\ Len(endpoint) <= 1
    /\ \A i \in DOMAIN decorators : decorators[i].form \in {"both", "serializable", "options"}
    /\ serializerKey \in {NoKey} \cup UNION {DOMAIN Serializers[m] : m \in DOMAIN Serializers}
    /\ Len(given) = 2 * Len(answer) /\ Len(answer) <= 1

\* Could the author of the action take d for what the decorator asks for?  A
\* list of serializers does not say which one is a model's: it wants builders.
ItemFits(e, item) ==
    \/ item.is = "builder" /\ e.serializable.is \in {"serializer", "serializers"}
                           /\ item.of[1] \in ToSet(e.serializable.of)
    \/ item.is = "record" /\ \/ e.serializable.is = "serializer"
                             \/ /\ e.serializable.is \in {"model", "models"}
                                /\ item.of[1] \in ToSet(e.serializable.of)
DataFits(e, d, body) ==
    CASE body.is = "none" -> d.is = "nothing"
      [] body.is = "declared" -> d.is = "plain"
      [] body.is = "serialized" ->
           CASE body.shape \in {"list", "page"} ->
                  d.is = body.shape /\ \A i \in DOMAIN d.items : ItemFits(e, d.items[i])
             [] OTHER -> ItemFits(e, d) \/ (d.is = "null" /\ body.shape = "one or null")

\* Does what was sent match the response that a document shows?
Matches(response, body) ==
    CASE body.is = "none" -> response.status = 204 => response.body = Empty
      [] body.is = "declared" -> response.body = [shape |-> "one", of |-> {"plain"}]
      [] body.is = "serialized" ->
           /\ response.body.shape = IF body.shape = "one or null" THEN "one" ELSE body.shape
           /\ response.body.of \subseteq
                body.of \cup IF body.shape = "one or null" THEN {"null"} ELSE {}
      [] body.is = "default" -> FALSE

\* The helpers that send records as they are, and those of a page, which only
\* json() looks into.
RendersBuildersOnly(helper) ==
    helper \in {"nonAuthoritativeInformation"} \cup DOMAIN ErrorHelpers \cup DOMAIN ServerErrorHelpers
OnlyBuilders(d) == d.is \in {"nothing", "plain", "builder"}
                   \/ (d.is = "list" /\ \A i \in DOMAIN d.items : d.items[i].is = "builder")

\* What respond() answers is in every document: under the status that was sent,
\* as the decorator's and not as one of the document's defaults, and with the
\* body shown there, if the action answers with what the decorator asks for.
\* What another helper answers is what the document shows for its status, if
\* the decorator has it, of data that the helper renders.
AsDocumented ==
    \A doc \in ShownIn :
        LET responses == Responses(endpoint[1], doc)
            status == IF given[1] = "respond" THEN RespondStatus(endpoint[1]) ELSE answer[1].status
            shown == status \in DOMAIN responses /\ responses[status] # Default
        IN /\ given[1] = "respond" => shown
           /\ /\ shown /\ DataFits(endpoint[1], given[2], responses[status])
              /\ RendersBuildersOnly(given[1]) => OnlyBuilders(given[2])
              /\ status \notin {205, 304, 500} \cup Range(RedirectHelpers)
              => answer[1].status = status /\ Matches(answer[1], responses[status])

\* An ancestor's decorator has left a key that the action's own, which has no
\* options, does not take back.
KeyLeft == /\ Len(decorators) = 2 /\ decorators[2].form = "serializable"
           /\ decorators[1].options.key # NoKey

\* "Sends the data, serialized, with the success status the endpoint's OpenAPI
\* document shows, so the response matches what the `@OpenAPI` decorator
\* documents": in every document, whatever the decorator's options replace,
\* unless an ancestor's serializer key is left behind.
RespondsAsDocumented == answer # <<>> /\ endpoint # <<>> /\ ~KeyLeft => AsDocumented

\* The same of an action that overrides one of an ancestor.
OverridesRespondAsDocumented == answer # <<>> /\ Len(decorators) = 2 => AsDocumented
=============================================================================
