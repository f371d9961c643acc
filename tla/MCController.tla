----------------------------- MODULE MCController -----------------------------
(***************************************************************************)
(* A controller: the hooks of every hierarchy of controllers               *)
(* (ControllerHooks), the session cookie that they read (Session), one     *)
(* request through the boundary, the router and its action                 *)
(* (RequestPipeline), and what the OpenAPI documents say of an action: the *)
(* answer that it gives (EndpointResponses), the request body that it      *)
(* takes (RequestBodies) and the path and parameters that it is found at   *)
(* (PathItems).  They share no state: a behaviour is one of them, the      *)
(* others staying where they began.                                        *)
(***************************************************************************)
EXTENDS ControllerHooks, Session, RequestPipeline, MCEndpointResponses, MCRequestBodies,
        MCPathItems, TLC

Hook(m, only, except) == [method |-> m, only |-> only, except |-> except]
Auth == Hook("authenticate", {}, {})
AuthShow == Hook("authenticate", {"show"}, {})
Load == Hook("load", {}, {"create"})
\* What a class may declare: nothing, one hook, or two, in either order.
HookChoices == {<<>>, <<Auth>>, <<AuthShow>>, <<Load, Auth>>, <<AuthShow, Load>>}

\* Where the others stay while one of them runs.
PlainHooks == Init /\ parent = [c \in Classes |-> Base] /\ decl = [c \in Classes |-> <<>>]
PlainSession == SessionInit /\ ~production
PlainPipeline == PipelineInit /\ ~devOrTest /\ invalid = "none"

MCInit == /\ SessionInit /\ Init /\ PipelineInit /\ ResponsesInit /\ BodyInit /\ PathsInit
          /\ \/ PlainSession /\ PlainPipeline
             \/ PlainHooks /\ PlainPipeline
             \/ PlainHooks /\ PlainSession
MCNext ==
    \/ /\ ResponsesInit /\ BodyInit /\ PathsInit /\ UNCHANGED <<responseVars, bodyVars, pathVars>>
       /\ \/ PlainSession /\ PlainPipeline /\ Next /\ UNCHANGED <<sessionVars, pipelineVars>>
          \/ PlainPipeline /\ PlainHooks /\ SessionNext /\ UNCHANGED <<vars, pipelineVars>>
          \/ PlainSession /\ PlainHooks /\ PipelineNext /\ UNCHANGED <<vars, sessionVars>>
    \/ /\ PlainSession /\ PlainPipeline /\ PlainHooks /\ UNCHANGED <<vars, sessionVars, pipelineVars>>
       /\ \/ BodyInit /\ PathsInit /\ ResponsesNext /\ UNCHANGED <<bodyVars, pathVars>>
          \/ ResponsesInit /\ PathsInit /\ BodyNext /\ UNCHANGED <<responseVars, pathVars>>
          \/ ResponsesInit /\ BodyInit /\ PathsNext /\ UNCHANGED <<responseVars, bodyVars>>
          \/ answer # <<>> /\ UNCHANGED <<responseVars, bodyVars, pathVars>>
MCSpec == MCInit /\ [][MCNext]_<<vars, sessionVars, pipelineVars, responseVars, bodyVars, pathVars>>

\* Users and requests are interchangeable.
Symmetry == Permutations(Users) \cup Permutations(Requests)

\* Every variable of the modules run side by side keeps its type.
TypesOK == TypeOK /\ SessionTypeOK /\ PipelineTypeOK /\ ResponsesTypeOK /\ BodyTypeOK
           /\ PathsTypeOK
=============================================================================
