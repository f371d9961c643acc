------------------------------ MODULE MCPathItems ------------------------------
EXTENDS PathItems

Name(s) == [name |-> s, placeholder |-> FALSE]
Id(s) == [name |-> s, placeholder |-> TRUE]
UsersPath == <<Name("users")>>
UserPath == <<Name("users"), Id("id")>>
Route(method, path, controller, action) ==
    [method |-> method, path |-> path, action |-> <<controller, action>>]

\* `resources('users')`, whose update has a PUT and a PATCH, in either order;
\* and one path served by two controllers.
RouteSet ==
    LET put == Route("put", UserPath, "Users", "update")
        patch == Route("patch", UserPath, "Users", "update")
        others == <<Route("get", UsersPath, "Users", "index"), Route("post", UsersPath, "Users", "create"),
                    Route("get", UserPath, "Users", "show"), Route("get", UserPath, "Admin", "show"),
                    Route("delete", UserPath, "Admin", "destroy")>>
    IN {others \o <<put, patch>>, others \o <<patch, put>>, <<put>> \o others}

Of(controller, action, docs, describes, omit, headers, query, pages) ==
    [action |-> <<controller, action>>, docs |-> docs, describes |-> describes,
     omitDefaultHeaders |-> omit, headers |-> headers, query |-> query, pages |-> pages]

\* Parameters that may share a name with one another, with a default header and
\* with the placeholder.
One(name, required) == [n \in {name} |-> required]
Two(name, required, other, alike) == [n \in {name, other} |-> IF n = name THEN required ELSE alike]
ParameterSet ==
    {<<<< >>, << >>, {"page"}>>,
     <<One("locale", "no"), One("token", "unset"), {}>>,
     <<Two("token", "yes", "page", "unset"), << >>, {"page"}>>,
     <<<< >>, Two("token", "yes", "page", "yes"), {}>>,
     <<<< >>, Two("id", "no", "token", "unset"), {}>>}
UsersEndpoints ==
    {Of("Users", action, {"default", "mobile"}, describes, omit, p[1], p[2], p[3]) :
        action \in {"index", "show", "update"}, <<describes, omit>> \in
            {<<{}, FALSE>>, <<{"id"}, FALSE>>, <<{"id"}, TRUE>>}, p \in ParameterSet}
OtherEndpoints ==
    {Of("Users", "create", {"default", "mobile"}, {}, FALSE, p[1], p[2], p[3]) : p \in ParameterSet}
    \cup {Of("Admin", action, docs, {"id"}, FALSE, p[1], p[2], p[3]) :
            action \in {"show", "destroy", "gone"}, docs \in {{"default"}, {"default", "mobile"}},
            p \in {q \in ParameterSet : DOMAIN q[1] = {}}}

PathAppSet == {[routes |-> rs, endpoints |-> es] :
    rs \in RouteSet,
    es \in {<<a, b>> : a \in {x \in UsersEndpoints : x.action[2] = "update"}, b \in OtherEndpoints}}
    \cup {[routes |-> CHOOSE rs \in RouteSet : TRUE, endpoints |-> <<b, a>>] :
            a \in {x \in UsersEndpoints : x.action[2] # "update"}, b \in OtherEndpoints}
DefaultHeadersFn == [d \in {"default", "mobile"} |->
    IF d = "default" THEN One("locale", "yes") ELSE << >>]
=============================================================================
