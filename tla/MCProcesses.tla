----------------------------- MODULE MCProcesses -----------------------------
(***************************************************************************)
(* The processes of an application: its server, from start() to its end    *)
(* (ServerLifecycle), and the commands that keep its generated files in    *)
(* sync (SyncPipeline, over Watcher).  They share no state: a behaviour is *)
(* one of the two, the other resting.                                      *)
(***************************************************************************)
EXTENDS ServerLifecycle, SyncPipeline

VARIABLE part   \* the part that runs

MCInit == part \in {"server", "sync"} /\ Init /\ SyncInit
MCNext ==
    /\ \/ part = "server" /\ Next /\ UNCHANGED syncVars
       \/ part = "sync" /\ SyncNext /\ UNCHANGED vars
    /\ UNCHANGED part
MCSpec == MCInit /\ [][MCNext]_<<part, vars, syncVars>> /\ Fairness /\ SyncFairness

\* Every variable of the modules run side by side keeps its type.
TypesOK == TypeOK /\ WatchTypeOK /\ SyncTypeOK
=============================================================================
