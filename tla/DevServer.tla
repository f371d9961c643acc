------------------------------ MODULE DevServer ------------------------------
(***************************************************************************)
(* launchDevServer(), stopDevServer() and the loop that waits for a        *)
(* launched server to answer (src/src/devtools/helpers/launchDevServer.ts).*)
(*                                                                         *)
(* A launch is asynchronous: it may be overtaken by other launches and     *)
(* stops of the same key, and finds its process by key again when it       *)
(* fails.  The processes are external: they bind their port, or exit, at   *)
(* any time.  What a fetch of the port finds is modelled apart from whose  *)
(* process answers it.                                                     *)
(***************************************************************************)
EXTENDS Naturals

CONSTANTS Launches,   \* calls of launchDevServer(); each has its own process
          Keys,       \* dev server keys
          key,        \* the key of each launch
          None,       \* no process under a key
          Timeout     \* quick iterations of the wait loop that fit in the timeout

ASSUME DevServerAssumption == /\ Timeout \in Nat \ {0}
                              /\ key \in [Launches -> Keys]
                              /\ None \notin Launches

VARIABLES
    pc,       \* launch: "off" "polling" "fetching" "ready" "failed", or
              \* "skipped" when the key is taken
    left,     \* launch: iterations that still fit
    proc,     \* its process: "none" "starting" "serving" "exited" "killed";
              \* "unspawnable" never had a pid
    table,    \* devServerProcesses: key -> launch whose process it holds
    crossed   \* history: keys stopped while a launch of theirs waited

vars == <<pc, left, proc, table, crossed>>

Alive(p) == proc[p] \in {"starting", "serving"}
HasExitCode(p) == proc[p] \in {"exited", "unspawnable"}
HasPid(p) == proc[p] # "unspawnable"

TypeOK ==
    /\ pc \in [Launches -> {"off", "polling", "fetching", "ready", "failed", "skipped"}]
    /\ left \in [Launches -> 0..Timeout]
    /\ proc \in [Launches -> {"none", "starting", "serving", "exited", "killed", "unspawnable"}]
    /\ table \in [Keys -> Launches \cup {None}]
    /\ crossed \in SUBSET Keys

Init ==
    /\ pc = [l \in Launches |-> "off"]
    /\ left = [l \in Launches |-> Timeout]
    /\ proc = [l \in Launches |-> "none"]
    /\ table = [k \in Keys |-> None]
    /\ crossed = {}

Goto(l, from, to) == pc[l] = from /\ pc' = [pc EXCEPT ![l] = to]

(***************************************************************************)
(* The processes                                                           *)
(***************************************************************************)

\* External: the process binds its port, or ends by itself or by a signal.
Serves(p) == /\ proc[p] = "starting" /\ proc' = [proc EXCEPT ![p] = "serving"]
             /\ UNCHANGED <<pc, left, table, crossed>>
Exits(p) == /\ Alive(p) /\ \E s \in {"exited", "killed"} : proc' = [proc EXCEPT ![p] = s]
            /\ UNCHANGED <<pc, left, table, crossed>>

(***************************************************************************)
(* launchDevServer() and stopDevServer()                                   *)
(***************************************************************************)

\* Mutant: a key that is taken does not keep launches from starting.
LaunchAnyway(l) ==
    /\ Goto(l, "off", "fetching")
    /\ \E s \in {"starting", "unspawnable"} : proc' = [proc EXCEPT ![l] = s]
    /\ table' = [table EXCEPT ![key[l]] = l]
    /\ UNCHANGED <<left, crossed>>

\* The key is taken, or the process is spawned and registered, and the first
\* fetch starts.  A command that cannot be run gives a process without a pid,
\* whose exit code is set by the time the fetch settles.
Launch(l) ==
    /\ IF table[key[l]] # None
       THEN Goto(l, "off", "skipped") /\ UNCHANGED <<proc, table>>
       ELSE /\ Goto(l, "off", "fetching")
            /\ \E s \in {"starting", "unspawnable"} : proc' = [proc EXCEPT ![l] = s]
            /\ table' = [table EXCEPT ![key[l]] = l]
    /\ UNCHANGED <<left, crossed>>

\* Mutant: the entry is set to undefined instead of deleted.
KillKeepsKey(k) ==
    /\ proc' = [proc EXCEPT ![table[k]] = IF @ \in {"starting", "serving"} THEN "killed" ELSE @]
    /\ table' = [table EXCEPT ![k] = "undefined"]

\* What stopDevServer(k) does to the table and the process it finds there.
Kill(k) ==
    LET p == table[k]
    IN IF HasPid(p)
       THEN /\ proc' = [proc EXCEPT ![p] = IF Alive(p) THEN "killed" ELSE @]
            /\ table' = [table EXCEPT ![k] = None]
       ELSE UNCHANGED <<proc, table>>

\* stopDevServer(k) by the program, or by stopDevServers() for each key.
Stop(k) ==
    /\ crossed' = IF \E l \in Launches : key[l] = k /\ pc[l] \in {"polling", "fetching"}
                  THEN crossed \cup {k} ELSE crossed
    /\ IF table[k] # None THEN Kill(k) ELSE UNCHANGED <<proc, table>>
    /\ UNCHANGED <<pc, left>>

(***************************************************************************)
(* waitForHttpServer()                                                     *)
(***************************************************************************)

\* The head of the loop: out of time, the key is stopped -- which throws if it
\* holds nothing, and fails the launch either way; an exit code frees the key.
Poll(l) ==
    /\ IF left[l] = 0
       THEN /\ Goto(l, "polling", "failed")
            /\ IF table[key[l]] # None THEN Kill(key[l]) ELSE UNCHANGED <<proc, table>>
       ELSE IF HasExitCode(l)
       THEN /\ Goto(l, "polling", "failed")
            /\ table' = [table EXCEPT ![key[l]] = None]
            /\ UNCHANGED proc
       ELSE Goto(l, "polling", "fetching") /\ UNCHANGED <<proc, table>>
    /\ UNCHANGED <<left, crossed>>

\* Mutant: each iteration starts the clock again.
FetchedForgetsTime(l) ==
    /\ \/ Goto(l, "fetching", "ready")
       \/ Goto(l, "fetching", "polling") /\ proc[l] # "serving"
    /\ UNCHANGED <<left, proc, table, crossed>>

\* fetch() settles, at once or as late as the deadline: something answers on
\* the port, or the loop sleeps.
Fetched(l) ==
    /\ \/ Goto(l, "fetching", "ready") /\ UNCHANGED left
       \/ /\ Goto(l, "fetching", "polling") /\ proc[l] # "serving"
          /\ \E n \in 0..Timeout : n < left[l] /\ left' = [left EXCEPT ![l] = n]
    /\ UNCHANGED <<proc, table, crossed>>

Next == \/ \E l \in Launches : Launch(l) \/ Poll(l) \/ Fetched(l) \/ Serves(l) \/ Exits(l)
        \/ \E k \in Keys : Stop(k)

Spec == Init /\ [][Next]_vars

\* The event loop runs timers and settles fetches (undici bounds each of them).
Fairness == \A l \in Launches : WF_vars(Poll(l)) /\ WF_vars(Fetched(l))
FairSpec == Spec /\ Fairness

(***************************************************************************)
(* Properties                                                              *)
(***************************************************************************)

\* Every process that still runs is the one under its key, so that
\* stopDevServers() leaves none behind and a second launch of the key starts
\* no second server; and a launch that rejects leaves no process and the key
\* free for the next attempt, but for an entry whose process never had a pid --
\* unless the key was once stopped under a launch.
NoOrphans ==
    /\ \A p \in Launches : Alive(p) => table[key[p]] = p \/ key[p] \in crossed
    /\ \A l \in Launches : pc[l] = "failed" /\ key[l] \notin crossed =>
          /\ ~Alive(l)
          /\ table[key[l]] = l => ~HasPid(l)

\* "waited too long for dev server on port": a launch resolves or rejects.
LaunchSettles ==
    \A l \in Launches : pc[l] \in {"polling", "fetching"} ~> pc[l] \in {"ready", "failed"}
=============================================================================
