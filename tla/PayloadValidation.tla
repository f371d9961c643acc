--------------------------- MODULE PayloadValidation ---------------------------
(***************************************************************************)
(* Validation of requests and responses against the OpenAPI documents of a *)
(* controller, and the process-wide caches of compiled validators and      *)
(* stringifiers (src/src/openapi-renderer/helpers/OpenapiPayloadValidator, *)
(* validator-cache, stringify-cache; src/src/controller/index.ts).         *)
(*                                                                         *)
(* A schema is named by what it is rendered for.  A payload is abstracted  *)
(* to the set of schemas it violates.  Everything between an action's own  *)
(* awaits is synchronous, and the caches only ever grow, so requests       *)
(* follow one another here.                                                *)
(***************************************************************************)
EXTENDS Naturals, Sequences

CONSTANTS Actions,    \* actions with an OpenAPI endpoint
          DocNames,   \* openapiNames of their controller, in order
          Statuses,   \* statuses they answer with
          Validates   \* document -> the payloads it validates; requestBody is
                      \* one of them only where the actions take a body

Docs == {DocNames[i] : i \in DOMAIN DocNames}
RequestTargets == {"headers", "query", "requestBody"}
Targets == RequestTargets \cup {"responseBody"}
NoStatus == 0

ASSUME PayloadAssumption == /\ DocNames \in Seq(Docs)
                            /\ Validates \in [Docs -> SUBSET Targets]
                            /\ NoStatus \notin Statuses

VARIABLES
    documented,    \* statuses an action documents a JSON schema for, by document
    fast,          \* does the endpoint ask for fastJsonStringify?
    validators,    \* _validatorCache: key -> schema it was compiled from
    stringifiers,  \* _stringifyCache
    pc,            \* "idle", a target, "action", "stringify", "sent", "rejected"
    at,            \* position in DocNames
    action,        \* the current request's action
    status,        \* ctx.status
    bad,           \* schemas that the payload in hand violates
    sentBy         \* the schema that serialized the answer; empty for JSON.stringify

fixed == <<documented, fast>>
caches == <<validators, stringifiers>>
vars == <<fixed, caches, pc, at, action, status, bad, sentBy>>

Schemas == [action : Actions, doc : Docs, target : Targets, status : Statuses \cup {NoStatus}]
Schema(a, d, t, s) == [action |-> a, doc |-> d, target |-> t, status |-> s]

TypeOK ==
    /\ documented \in [Actions -> [Docs -> SUBSET Statuses]]
    /\ fast \in [Actions -> BOOLEAN]
    /\ \A k \in DOMAIN validators : validators[k] \in Schemas
    /\ \A k \in DOMAIN stringifiers : stringifiers[k] \in Schemas
    /\ pc \in Targets \cup {"idle", "action", "stringify", "sent", "rejected"}
    /\ at \in 1..Len(DocNames) + 1
    /\ action \in Actions
    /\ status \in Statuses \cup {NoStatus}
    /\ bad \in SUBSET Schemas
    /\ sentBy \in SUBSET Schemas

Init ==
    /\ documented \in [Actions -> [Docs -> SUBSET Statuses]]
    /\ fast \in [Actions -> BOOLEAN]
    /\ validators = <<>> /\ stringifiers = <<>>
    /\ pc = "idle" /\ at = 1
    /\ action \in Actions
    /\ status = NoStatus /\ bad = {} /\ sentBy = {}

Doc == DocNames[at]

\* Whatever is validated next: any payload, by the schemas it violates.
Inspect(a, target, statuses) ==
    /\ pc' = target /\ at' = 1
    /\ \E b \in SUBSET {Schema(a, d, target, s) : d \in Docs, s \in statuses} : bad' = b

\* validateParams(): headers first.
Begin ==
    /\ pc = "idle"
    /\ action' \in Actions
    /\ status' = NoStatus
    /\ Inspect(action', "headers", {NoStatus})
    /\ UNCHANGED <<fixed, caches, sentBy>>

\* getResponseSchema() finds a schema; a request's always exists.
HasSchema(d) == pc \in RequestTargets \/ status \in documented[action][d]

\* Mutant: one validator for an action and a document.
CacheKeyWithoutTarget(t) == [action |-> action, doc |-> Doc]

\* getCacheKey(): a response's status is no part of it.
CacheKey(t) == [action |-> action, doc |-> Doc, target |-> t]

\* The cached entry, or a new one compiled from the schema in hand.
Cached(cache, key, schema) == IF key \in DOMAIN cache THEN cache[key] ELSE schema
With(cache, key, schema) ==
    [k \in DOMAIN cache \cup {key} |-> IF k = key THEN Cached(cache, key, schema) ELSE cache[k]]

\* One document's turn in validateOpenapi...(): skipped if it does not validate
\* this payload or has no schema for it; a violation throws, which is a 400 for
\* a request and a 500 for a response.
Validate ==
    /\ pc \in Targets /\ at <= Len(DocNames)
    /\ LET own == Schema(action, Doc, pc, status)
       IN IF pc \in Validates[Doc] /\ HasSchema(Doc)
          THEN /\ validators' = With(validators, CacheKey(pc), own)
               /\ IF Cached(validators, CacheKey(pc), own) \in bad
                  THEN pc' = "rejected" /\ UNCHANGED at
                  ELSE at' = at + 1 /\ UNCHANGED pc
          ELSE at' = at + 1 /\ UNCHANGED <<validators, pc>>
    /\ UNCHANGED <<fixed, stringifiers, action, status, bad, sentBy>>

\* All documents have accepted: on to the next payload, the action, or the answer.
Accepted ==
    /\ pc \in Targets /\ at > Len(DocNames)
    /\ \/ pc = "headers" /\ Inspect(action, "query", {NoStatus})
       \/ pc = "query" /\ Inspect(action, "requestBody", {NoStatus})
       \/ pc = "requestBody" /\ pc' = "action" /\ UNCHANGED <<at, bad>>
       \/ pc = "responseBody" /\ pc' = "stringify" /\ at' = 1 /\ UNCHANGED bad
    /\ UNCHANGED <<fixed, caches, action, status, sentBy>>

\* this.ok(data), this.created(data), ...: the status, then the validation.
Render ==
    /\ pc = "action"
    /\ status' \in Statuses
    /\ Inspect(action, "responseBody", Statuses)
    /\ UNCHANGED <<fixed, caches, action, sentBy>>

\* A deliberate error with an object for data, sent without being validated.
RenderError ==
    /\ pc = "action"
    /\ status' \in Statuses
    /\ pc' = "stringify" /\ at' = 1
    /\ UNCHANGED <<fixed, caches, action, bad, sentBy>>

\* Mutant: the stringifiers' key leaves the status out, too.
StringifyKeyWithoutStatus == [action |-> action, doc |-> Doc]

StringifyKey == [action |-> action, doc |-> Doc, status |-> status]

\* koaSendJson() with getFastJsonStringifyFunction(): the first document with
\* a schema for the status; JSON.stringify if there is none.
Stringify ==
    /\ pc = "stringify"
    /\ LET own == Schema(action, Doc, "responseBody", status)
       IN IF ~fast[action] \/ at > Len(DocNames)
          THEN /\ pc' = "sent" /\ sentBy' = {}
               /\ UNCHANGED <<stringifiers, at>>
          ELSE IF HasSchema(Doc)
          THEN /\ pc' = "sent" /\ sentBy' = {Cached(stringifiers, StringifyKey, own)}
               /\ stringifiers' = With(stringifiers, StringifyKey, own)
               /\ UNCHANGED at
          ELSE at' = at + 1 /\ UNCHANGED <<stringifiers, pc, sentBy>>
    /\ UNCHANGED <<fixed, validators, action, status, bad>>

\* Mutant: the documents are counted from zero for the next request.
FinishAtZero ==
    /\ pc \in {"sent", "rejected"}
    /\ pc' = "idle" /\ at' = 0 /\ status' = NoStatus /\ bad' = {} /\ sentBy' = {}
    /\ UNCHANGED <<fixed, caches, action>>

\* The request is over.
Finish ==
    /\ pc \in {"sent", "rejected"}
    /\ pc' = "idle" /\ at' = 1 /\ status' = NoStatus /\ bad' = {} /\ sentBy' = {}
    /\ UNCHANGED <<fixed, caches, action>>

Next == Begin \/ Validate \/ Accepted \/ Render \/ RenderError \/ Stringify \/ Finish

Spec == Init /\ [][Next]_vars

(***************************************************************************)
(* Properties                                                              *)
(***************************************************************************)

\* The schema the documents mean for what is being validated, and whether the
\* validators let it pass.
Judging(d) == at <= Len(DocNames) /\ Doc = d /\ pc \in Validates[d] /\ HasSchema(d)
OwnSchema(d) == Schema(action, d, pc, status)
Exact(d) == pc' = "rejected" <=> OwnSchema(d) \in bad

\* Each document that validates a part of a request rejects exactly the
\* requests that violate its own schema for it, whatever requests the process
\* has served, and cached validators for, before.
RequestVerdictsExact ==
    [][\A d \in Docs : pc \in RequestTargets /\ Judging(d) => Exact(d)]_vars

\* "the computed response schema for that decorator will be used to validate
\* this endpoint based on the status code set".
ResponseVerdictsExact ==
    [][\A d \in Docs : pc = "responseBody" /\ Judging(d) => Exact(d)]_vars

\* An answer of a fastJsonStringify endpoint is serialized by the schema that
\* its first document with one gives for its status, and by JSON.stringify only
\* when there is none: fields are dropped by no other status's schema.
SerializedByOwnSchema ==
    pc = "sent" /\ fast[action] =>
        LET having == {i \in DOMAIN DocNames : status \in documented[action][DocNames[i]]}
        IN IF having = {} THEN sentBy = {}
           ELSE \E i \in having : /\ \A j \in having : i <= j
                                  /\ sentBy = {Schema(action, DocNames[i], "responseBody", status)}
=============================================================================
