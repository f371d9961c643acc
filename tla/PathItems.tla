------------------------------- MODULE PathItems -------------------------------
(***************************************************************************)
(* The paths of an OpenAPI document.  OpenapiAppRenderer._toObject         *)
(* (app.ts) goes through the endpoints of a document; each finds the route *)
(* that leads to it and renders an operation and its parameters            *)
(* (endpoint.ts), and the parameters of all the operations of a path are   *)
(* combined, by name, on the path.  The parameters of a path's             *)
(* placeholders are memoized in the endpoint and shared by the documents.  *)
(*                                                                         *)
(* Schemas, the descriptions of headers and queries, tags, securities and  *)
(* the order of the parameters of a path are left out; allowEmptyValue and *)
(* allowReserved combine as `required` does.                               *)
(***************************************************************************)
EXTENDS Naturals, Sequences, FiniteSets

CONSTANTS
    PathApps,        \* routes and endpoints, in the order they are declared
    PathDocs,        \* documents
    DefaultHeaders   \* document -> its defaults.headers, name -> required

VARIABLES
    pathApp,     \* the routes and endpoints of the application
    pathParams,  \* endpoint -> <<its _pathParams>>, once computed
    document,    \* the document being rendered, or "none"
    bypass,      \* bypassMissingRoutes of that rendering
    reached,     \* endpoints it has come to
    paths,       \* finalOutput.paths, as far as it has come
    openapi      \* document -> <<the paths of its last rendering>>

pathVars == <<pathApp, pathParams, document, bypass, reached, paths, openapi>>

\* `required` is "yes", "no" or not given; a description is the endpoint that
\* gave it.
Unset == "unset"
NoEndpoint == 0
NoApp == [routes |-> <<>>, endpoints |-> <<>>]

Endpoints == DOMAIN pathApp.endpoints
EndpointAt(e) == pathApp.endpoints[e]

(***************************************************************************)
(* Routes                                                                  *)
(***************************************************************************)

\* A segment of a path is a name, or a placeholder.
Placeholders(path) == {path[i].name : i \in {j \in DOMAIN path : path[j].placeholder}}

RoutesTo(e) == {i \in DOMAIN pathApp.routes : pathApp.routes[i].action = EndpointAt(e).action}
FirstOf(S) == CHOOSE i \in S : \A j \in S : i <= j

\* getCurrentRouteConfig: the first route, the first PATCH for an update.
CurrentRoute(e) ==
    LET patches == {i \in RoutesTo(e) : pathApp.routes[i].method = "patch"}
    IN pathApp.routes[FirstOf(IF EndpointAt(e).action[2] = "update" /\ patches # {}
                              THEN patches ELSE RoutesTo(e))]

(***************************************************************************)
(* Parameters                                                              *)
(***************************************************************************)

\* Parameters are functions from their names.
Parameter(in, required, described, of) ==
    [in |-> in, required |-> required, described |-> described, of |-> of]
\* One for each key of a declaration, which gives `required` for each name.
ParametersOf(in, declaration, e) ==
    [name \in DOMAIN declaration |-> Parameter(in, declaration[name], e, e)]

\* headersArray: an endpoint's header takes the place of its namesake among the
\* document's defaults.
Headers(e, d) ==
    LET own == EndpointAt(e).headers  defaults == DefaultHeaders[d] IN
    ParametersOf("header",
        [name \in DOMAIN own \cup (IF EndpointAt(e).omitDefaultHeaders THEN {} ELSE DOMAIN defaults) |->
            IF name \in DOMAIN own THEN own[name] ELSE defaults[name]], e)

\* pathParamsArray.
PathParams(e) ==
    IF pathParams[e] # <<>> THEN pathParams[e][1]
    ELSE [name \in Placeholders(CurrentRoute(e).path) |->
             Parameter("path", "yes",
                       IF name \in EndpointAt(e).describes THEN e ELSE NoEndpoint, e)]

\* queryArray: with one more for a page and one for a cursor.
Query(e) == ParametersOf("query", EndpointAt(e).query, e)
Pages(e) == ParametersOf("query", [name \in EndpointAt(e).pages |-> "no"], e)

\* Mutant: `required` is taken over from a namesake that does not give it.
CompositeUnset(first, p) ==
    [first EXCEPT !.described = IF @ = NoEndpoint THEN p.described ELSE @,
                  !.required = p.required]

\* combineParameters: of two parameters with one name, the first one, with the
\* first description and the last `required` that is given.
Composite(first, p) ==
    [first EXCEPT !.described = IF @ = NoEndpoint THEN p.described ELSE @,
                  !.required = IF p.required = Unset THEN @ ELSE p.required]
Into(all, ps) ==
    [name \in DOMAIN all \cup DOMAIN ps |->
        IF name \notin DOMAIN all THEN ps[name]
        ELSE IF name \notin DOMAIN ps THEN all[name]
        ELSE Composite(all[name], ps[name])]
Combined(parameters, e, d) ==
    Into(Into(Into(Into(parameters, Headers(e, d)), PathParams(e)), Query(e)), Pages(e))

\* The parameters that are an endpoint's memoized ones are the same objects.
Memoized(e, parameters) ==
    [name \in DOMAIN PathParams(e) |->
        IF name \in DOMAIN parameters /\ parameters[name].in = "path" /\ parameters[name].of = e
        THEN parameters[name] ELSE PathParams(e)[name]]

\* The objects of parameters and documents give each `required`, or do not.
ASSUME EndpointsAssumption ==
    LET Declares(f) == \A name \in DOMAIN f : f[name] \in {"yes", "no", Unset} IN
    /\ "none" \notin PathDocs
    /\ \A d \in PathDocs : Declares(DefaultHeaders[d])
    /\ \A a \in PathApps :
         /\ a # NoApp /\ a.routes \in Seq({a.routes[i] : i \in DOMAIN a.routes})
         /\ a.endpoints \in Seq({a.endpoints[i] : i \in DOMAIN a.endpoints})
         /\ \A i \in DOMAIN a.endpoints :
              LET e == a.endpoints[i] IN
              e.docs \subseteq PathDocs /\ Declares(e.headers) /\ Declares(e.query)

(***************************************************************************)
(* Rendering                                                               *)
(***************************************************************************)

PathsInit ==
    /\ pathApp = NoApp /\ pathParams = <<>>
    /\ document = "none" /\ bypass = FALSE /\ reached = 0 /\ paths = << >>
    /\ openapi = [d \in PathDocs |-> <<>>]

\* The application is loaded.
DeclarePaths(a) ==
    /\ pathApp = NoApp /\ pathApp' = a
    /\ pathParams' = [e \in DOMAIN a.endpoints |-> <<>>]
    /\ UNCHANGED <<document, bypass, reached, paths, openapi>>

\* _toObject: for the application's cache, which bypasses missing routes, or for
\* the others, which do not.
BeginDocument(d) ==
    /\ pathApp # NoApp /\ document = "none"
    /\ document' = d /\ bypass' \in BOOLEAN /\ reached' = 0 /\ paths' = << >>
    /\ UNCHANGED <<pathApp, pathParams, openapi>>

Shows(d, e) == d \in EndpointAt(e).docs
Done == \A e \in Endpoints : e > reached => ~Shows(document, e)
NextEndpoint == CHOOSE e \in Endpoints :
    /\ e > reached /\ Shows(document, e)
    /\ \A f \in (reached + 1)..(e - 1) : ~Shows(document, f)

\* toPathObject, and its operation and parameters put on the path.
RenderPath ==
    /\ document # "none" /\ ~Done
    /\ LET e == NextEndpoint IN
       /\ RoutesTo(e) # {}
       /\ LET r == CurrentRoute(e)
              item == IF r.path \in DOMAIN paths THEN paths[r.path]
                      ELSE [parameters |-> << >>, operations |-> << >>]
              all == Combined(item.parameters, e, document)
          IN /\ paths' = [p \in DOMAIN paths \cup {r.path} |->
                             IF p # r.path THEN paths[p]
                             ELSE [parameters |-> all,
                                   operations |-> [m \in DOMAIN item.operations \cup {r.method} |->
                                                     IF m = r.method THEN e
                                                     ELSE item.operations[m]]]]
             /\ pathParams' = [f \in Endpoints |->
                                 IF f = e \/ pathParams[f] # <<>>
                                 THEN <<Memoized(f, all)>> ELSE <<>>]
       /\ reached' = e
    /\ UNCHANGED <<pathApp, document, bypass, openapi>>

\* MissingControllerActionPairingInRoutes: skipped, or the end of the rendering.
MissingRoute ==
    /\ document # "none" /\ ~Done /\ RoutesTo(NextEndpoint) = {}
    /\ reached' = NextEndpoint
    /\ document' = IF bypass THEN document ELSE "none"
    /\ UNCHANGED <<pathApp, pathParams, bypass, paths, openapi>>

EndDocument ==
    /\ document # "none" /\ Done
    /\ openapi' = [openapi EXCEPT ![document] = <<paths>>]
    /\ document' = "none"
    /\ UNCHANGED <<pathApp, pathParams, bypass, reached, paths>>

PathsNext ==
    \/ pathApp = NoApp /\ \E a \in PathApps : DeclarePaths(a)
    \/ \E d \in PathDocs : BeginDocument(d)
    \/ RenderPath \/ MissingRoute \/ EndDocument

PathsSpec == PathsInit /\ [][PathsNext]_pathVars

(***************************************************************************)
(* Properties                                                              *)
(***************************************************************************)

PathsTypeOK ==
    /\ \A e \in Endpoints : EndpointAt(e).docs \subseteq PathDocs
    /\ DOMAIN pathParams = Endpoints
    /\ document \in PathDocs \cup {"none"} /\ bypass \in BOOLEAN
    /\ reached \in 0..Len(pathApp.endpoints)
    /\ \A p \in DOMAIN paths : DOMAIN paths[p] = {"parameters", "operations"}
    /\ \A d \in PathDocs : Len(openapi[d]) <= 1

\* The documents hold the memoized parameters themselves.
Now(p, name) == IF p.in = "path" THEN pathParams[p.of][1][name] ELSE p

\* The endpoints that are documented on a path, and their headers and queries.
OnPath(path) == {e \in Endpoints : RoutesTo(e) # {} /\ CurrentRoute(e).path = path}
Own(e, d) ==
    UNION {{[name |-> n, required |-> ps[n].required] : n \in DOMAIN ps} :
              ps \in {Headers(e, d), Query(e), Pages(e)}}
\* Those with a name, in any document: they change the parameters that all share.
Namesakes(name, path) ==
    {p \in UNION {Own(e, d) : e \in OnPath(path), d \in PathDocs} : p.name = name}

\* A document shows an endpoint at r if the path has its operation, or that of
\* another endpoint with the same route; all of the path's placeholders, which
\* are required; and the headers and queries that the validation of the
\* endpoint's requests asks for.  A name that stands for two kinds of parameter
\* is one parameter, and one that another endpoint of the path declares as not
\* required is not.
ShownAt(e, r, d) ==
    LET item == openapi[d][1][r.path]
        parameters == [name \in DOMAIN item.parameters |-> Now(item.parameters[name], name)]
        rivals == {f \in OnPath(r.path) : CurrentRoute(f).method = r.method}
    IN /\ r.method \in DOMAIN item.operations /\ item.operations[r.method] \in rivals
       /\ \A name \in Placeholders(r.path) :
             /\ name \in DOMAIN parameters
             /\ Namesakes(name, r.path) = {} =>
                  LET p == parameters[name] IN
                  /\ p.in = "path" /\ p.required = "yes"
                  /\ name \in EndpointAt(e).describes => p.described # NoEndpoint
       /\ \A p \in Own(e, d) :
             /\ p.name \in DOMAIN parameters
             /\ p.required = "yes" /\ (\A n \in Namesakes(p.name, r.path) : n.required # "no")
                  => parameters[p.name].required = "yes"

\* Every endpoint of a document is shown at one of its routes, at a PATCH if it
\* is an update that has one, however the document and others were rendered
\* before; and what describes a parameter is an endpoint of the same path.
PathsAsDeclared ==
    \A d \in PathDocs : openapi[d] # <<>> =>
        /\ \A e \in Endpoints : Shows(d, e) /\ RoutesTo(e) # {} =>
              \E r \in {pathApp.routes[i] : i \in RoutesTo(e)} :
                 /\ r.path \in DOMAIN openapi[d][1] /\ ShownAt(e, r, d)
                 /\ (EndpointAt(e).action[2] = "update"
                     /\ \E i \in RoutesTo(e) : pathApp.routes[i].method = "patch") => r.method = "patch"
        /\ \A path \in DOMAIN openapi[d][1] :
              LET parameters == openapi[d][1][path].parameters IN
              \A name \in DOMAIN parameters :
                 Now(parameters[name], name).described \in {NoEndpoint} \cup OnPath(path)
=============================================================================
