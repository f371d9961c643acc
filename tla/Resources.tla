------------------------------- MODULE Resources -------------------------------
(***************************************************************************)
(* What `psy g:resource` is asked for, and what it names: the actions that *)
(* it generates and the controllers of a resource and of the directories   *)
(* on the way to it (generate/resource.ts, generate/controller.ts).        *)
(***************************************************************************)
EXTENDS Naturals, Sequences, SequencesExt, FiniteSets

(***************************************************************************)
(* Requests                                                                *)
(***************************************************************************)

\* parseRoute: the ancestors of a resource are namespaces and, before a path
\* parameter, resources.  only: `--only` was given, for the actions listed.
Request(ancestors, method, name, only, actions) ==
    [ancestors |-> ancestors, method |-> method, name |-> name, only |-> only,
     actions |-> actions]
Ancestor(method, name) == [method |-> method, name |-> name]

RESOURCE_ACTIONS == {"index", "show", "create", "update", "destroy"}
DefaultActions(method) ==
    IF method = "resources" THEN RESOURCE_ACTIONS ELSE RESOURCE_ACTIONS \ {"index"}

\* The actions generated: an entry of `--only` that the resource has no action
\* for is neither generated nor routed.
Actions(r) ==
    IF r.only THEN DefaultActions(r.method) \cap r.actions ELSE DefaultActions(r.method)

(***************************************************************************)
(* Controllers                                                             *)
(***************************************************************************)

\* A path is a sequence of names; a base controller has the path of its
\* directory, and "authed" is a controller of the boilerplate, with the path of
\* the directory it is in.
BaseOf(path) == [kind |-> "base", path |-> path]
ControllerOf(path) == [kind |-> "resource", path |-> path]
Authed(path) == [kind |-> "authed", path |-> path]

\* The names below "Admin" or "Internal" begin after these: a resource that has
\* one of those for its own name is in no area.
Area(path) == IF Len(path) > 1 /\ Head(path) \in {"admin", "internal"} THEN <<Head(path)>> ELSE <<>>

\* baseAncestorNameAndImport.
ExtendedBy(path) ==
    IF Len(path) = Len(Area(path)) + 1 THEN Authed(Area(path)) ELSE BaseOf(Front(path))

PathOf(r) == [i \in DOMAIN r.ancestors |-> r.ancestors[i].name] \o <<r.name>>
=============================================================================
