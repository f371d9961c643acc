--------------------------- MODULE ServerLifecycle ---------------------------
(***************************************************************************)
(* PsychicServer start(), stop() and the signal handlers                   *)
(* (src/src/server/index.ts).                                              *)
(*                                                                         *)
(* A "run" is one invocation of stop(): either awaited directly by the     *)
(* program, or by shutdownAndExit() for one delivered signal.  Nothing     *)
(* keeps two runs from being in progress together, and each has its own    *)
(* timers.  Time passes in Tick steps; a Tick is not taken past a timer    *)
(* that is due, because the event loop runs it first.  Hooks, request      *)
(* handlers and closeAllDbConnections() take any time, for ever included.  *)
(* Nothing keeps the program from calling stop() before start() has bound  *)
(* the server either: that stop() finds no httpServer to close.            *)
(***************************************************************************)
EXTENDS Integers

CONSTANTS Conns,            \* sockets peers may open
          Runs,             \* identities for invocations of stop()
          NStartHooks,      \* number of server:start hooks
          NStopHooks,       \* number of server:shutdown hooks
          ShutdownTimeout,  \* SHUTDOWN_TIMEOUT_MS, in ticks
          GracePeriod       \* gracefulShutdownTimeoutMillis, in ticks

ASSUME LifecycleAssumption ==
    /\ NStartHooks \in Nat
    /\ NStopHooks \in Nat
    /\ ShutdownTimeout \in Nat
    /\ GracePeriod \in Nat

VARIABLES
    startPc,    \* progress of start(): "booting" "binding" "hooks" "started" "failed"
    startHook,  \* server:start hooks already run
    handlers,   \* are the SIGINT and SIGTERM listeners registered?
    server,     \* this.httpServer: "none" "listening" "closing" "closed"
    conn,       \* socket: "none" "idle" "active" "ended", or "cut" mid-request
    db,         \* "open" or "closed"
    proc,       \* "up" "exited" (process.exit) "killed" (default signal action)
    exitCode,   \* argument of process.exit
    pc,         \* run: "off" "hooks" "drain" "db" "closingDb" "done" "threw"
    kind,       \* run: "signal" or "call"
    bypass,     \* run: bypassClosingDbConnections
    hook,       \* run: server:shutdown hooks already run
    exitIn,     \* run: ticks left on the SHUTDOWN_TIMEOUT_MS timer
    forceIn,    \* run: ticks left on forceTimer
    waited,     \* history: ticks since the first handled signal
    sinceClose, \* history: ticks since the server stopped listening, capped
    overtaken   \* history: was the server bound after the database was closed?

runVars   == <<pc, kind, bypass, hook, exitIn, forceIn>>
startVars == <<startPc, startHook, handlers>>
history   == <<waited, sinceClose, overtaken>>
vars == <<startVars, server, conn, db, proc, exitCode, runVars, history>>

StartPcs == {"booting", "binding", "hooks", "started", "failed"}
ConnStates == {"none", "idle", "active", "ended", "cut"}
Pcs == {"off", "hooks", "drain", "db", "closingDb", "done", "threw"}
Live == {"hooks", "drain", "db", "closingDb"}

TypeOK ==
    /\ startPc \in StartPcs
    /\ startHook \in 0..NStartHooks
    /\ handlers \in BOOLEAN
    /\ server \in {"none", "listening", "closing", "closed"}
    /\ conn \in [Conns -> ConnStates]
    /\ db \in {"open", "closed"}
    /\ proc \in {"up", "exited", "killed"}
    /\ exitCode \in {0, 1}
    /\ pc \in [Runs -> Pcs]
    /\ kind \in [Runs -> {"signal", "call"}]
    /\ bypass \in [Runs -> BOOLEAN]
    /\ hook \in [Runs -> 0..NStopHooks]
    /\ exitIn \in [Runs -> 0..ShutdownTimeout]
    /\ forceIn \in [Runs -> 0..GracePeriod]
    /\ waited \in 0..ShutdownTimeout
    /\ sinceClose \in 0..GracePeriod
    /\ overtaken \in BOOLEAN

Init ==
    /\ startPc = "booting"
    /\ startHook = 0
    /\ handlers = FALSE
    /\ server = "none"
    /\ conn = [c \in Conns |-> "none"]
    /\ db = "open"
    /\ proc = "up"
    /\ exitCode = 0
    /\ pc = [r \in Runs |-> "off"]
    /\ kind = [r \in Runs |-> "call"]
    /\ bypass = [r \in Runs |-> FALSE]
    /\ hook = [r \in Runs |-> 0]
    /\ exitIn = [r \in Runs |-> ShutdownTimeout]
    /\ forceIn = [r \in Runs |-> GracePeriod]
    /\ waited = 0
    /\ sinceClose = 0
    /\ overtaken = FALSE

(***************************************************************************)
(* start()                                                                 *)
(***************************************************************************)

Boot ==
    /\ proc = "up" /\ startPc = "booting"
    /\ startPc' \in {"binding", "failed"}
    /\ UNCHANGED <<startHook, handlers, server, conn, db, proc, exitCode, runVars, history>>

\* listen() either calls back, which sets this.httpServer, or emits "error"
\* (EADDRINUSE, EACCES), which rejects start() with httpServer still unset.
Bind ==
    /\ proc = "up" /\ startPc = "binding"
    /\ \/ startPc' = "hooks" /\ server' = "listening" /\ overtaken' = (db = "closed")
       \/ startPc' = "failed" /\ UNCHANGED <<server, overtaken>>
    /\ UNCHANGED <<startHook, handlers, conn, db, proc, exitCode, runVars, waited, sinceClose>>

\* A throwing hook rejects start(): the server goes on listening, and the
\* signal listeners are never registered.
StartHook ==
    /\ proc = "up" /\ startPc = "hooks" /\ startHook < NStartHooks
    /\ \/ startHook' = startHook + 1 /\ startPc' = startPc
       \/ startHook' = startHook /\ startPc' = "failed"
    /\ UNCHANGED <<handlers, server, conn, db, proc, exitCode, runVars, history>>

RegisterHandlers ==
    /\ proc = "up" /\ startPc = "hooks" /\ startHook = NStartHooks
    /\ startPc' = "started"
    /\ handlers' = TRUE
    /\ UNCHANGED <<startHook, server, conn, db, proc, exitCode, runVars, history>>

(***************************************************************************)
(* Peers and request handlers                                              *)
(***************************************************************************)

Connect(c) ==
    /\ proc = "up" /\ server = "listening" /\ conn[c] = "none"
    /\ conn' = [conn EXCEPT ![c] = "idle"]
    /\ UNCHANGED <<startVars, server, db, proc, exitCode, runVars, history>>

\* A keep-alive socket may carry a new request while the server is closing.
Request(c) ==
    /\ proc = "up" /\ conn[c] = "idle"
    /\ conn' = [conn EXCEPT ![c] = "active"]
    /\ UNCHANGED <<startVars, server, db, proc, exitCode, runVars, history>>

Respond(c) ==
    /\ proc = "up" /\ conn[c] = "active"
    /\ conn' = [conn EXCEPT ![c] = "idle"]
    /\ UNCHANGED <<startVars, server, db, proc, exitCode, runVars, history>>

\* The peer goes away or the keep-alive timeout ends an idle socket.
Disconnect(c) ==
    /\ proc = "up" /\ conn[c] \in {"idle", "active"}
    /\ conn' = [conn EXCEPT ![c] = "ended"]
    /\ UNCHANGED <<startVars, server, db, proc, exitCode, runVars, history>>

(***************************************************************************)
(* stop(), and shutdownAndExit() around it                                 *)
(***************************************************************************)

Open(s) == s \in {"idle", "active"}
Destroyed(s) == IF s = "active" THEN "cut" ELSE IF s = "idle" THEN "ended" ELSE s

\* process.exit, from the shutdownAndExit() of run r.
Exit(code) ==
    /\ proc' = "exited"
    /\ exitCode' = code
    /\ conn' = [c \in Conns |-> Destroyed(conn[c])]

\* Mutant: the signals share one timer, which each of them restarts.
SignalSharesTimer(r) ==
    /\ proc = "up" /\ pc[r] = "off" /\ handlers
    /\ pc' = [pc EXCEPT ![r] = "hooks"]
    /\ kind' = [kind EXCEPT ![r] = "signal"]
    /\ exitIn' = [q \in Runs |-> ShutdownTimeout]
    /\ UNCHANGED <<startVars, server, conn, db, proc, exitCode, bypass, hook, forceIn, history>>

\* Each delivered signal starts a run of its own; with no listener registered
\* the default action ends the process at once.
Signal(r) ==
    /\ proc = "up" /\ pc[r] = "off"
    /\ IF handlers
       THEN /\ pc' = [pc EXCEPT ![r] = "hooks"]
            /\ kind' = [kind EXCEPT ![r] = "signal"]
            /\ exitIn' = [exitIn EXCEPT ![r] = ShutdownTimeout]
            /\ UNCHANGED <<conn, proc, bypass>>
       ELSE /\ proc' = "killed"
            /\ conn' = [c \in Conns |-> Destroyed(conn[c])]
            /\ UNCHANGED <<pc, kind, exitIn, bypass>>
    /\ UNCHANGED <<startVars, server, db, exitCode, hook, forceIn, history>>

\* The program calls stop() itself, at any moment of start().
CallStop(r) ==
    /\ proc = "up" /\ pc[r] = "off"
    /\ pc' = [pc EXCEPT ![r] = "hooks"]
    /\ kind' = [kind EXCEPT ![r] = "call"]
    /\ \E b \in BOOLEAN : bypass' = [bypass EXCEPT ![r] = b]
    /\ UNCHANGED <<startVars, server, conn, db, proc, exitCode, hook, exitIn, forceIn, history>>

\* Mutant: the catch of shutdownAndExit() leaves the exit code at 0.
ThrowExitsZero(r) ==
    /\ pc' = [pc EXCEPT ![r] = "threw"]
    /\ IF kind[r] = "signal" THEN Exit(0) ELSE UNCHANGED <<proc, exitCode, conn>>

\* An error inside stop() rejects it; for a signal that is process.exit(1).
Throw(r) ==
    /\ pc' = [pc EXCEPT ![r] = "threw"]
    /\ IF kind[r] = "signal" THEN Exit(1) ELSE UNCHANGED <<proc, exitCode, conn>>

\* One server:shutdown hook settles; an error skips everything that follows.
StopHook(r) ==
    /\ proc = "up" /\ pc[r] = "hooks" /\ hook[r] < NStopHooks
    /\ \/ /\ hook' = [hook EXCEPT ![r] = @ + 1]
          /\ UNCHANGED <<pc, proc, exitCode, conn>>
       \/ Throw(r) /\ UNCHANGED hook
    /\ UNCHANGED <<startVars, server, db, kind, bypass, exitIn, forceIn, history>>

\* Mutant: closeAllConnections() at once, requests in flight included.
CloseServerAbruptly(r) ==
    /\ proc = "up" /\ pc[r] = "hooks" /\ hook[r] = NStopHooks /\ server # "none"
    /\ pc' = [pc EXCEPT ![r] = "drain"]
    /\ forceIn' = [forceIn EXCEPT ![r] = GracePeriod]
    /\ server' = IF server = "listening" THEN "closing" ELSE server
    /\ sinceClose' = IF server = "listening" THEN 0 ELSE sinceClose
    /\ conn' = [c \in Conns |-> Destroyed(conn[c])]
    /\ UNCHANGED <<startVars, db, proc, exitCode, kind, bypass, hook, exitIn, waited, overtaken>>

\* Mutant: a stop() that finds the server closing does not wait for it.
CloseServerOnce(r) ==
    /\ proc = "up" /\ pc[r] = "hooks" /\ hook[r] = NStopHooks /\ server # "none"
    /\ IF server # "listening"
       THEN /\ pc' = [pc EXCEPT ![r] = "db"]
            /\ UNCHANGED <<server, conn, forceIn, sinceClose>>
       ELSE /\ pc' = [pc EXCEPT ![r] = "drain"]
            /\ forceIn' = [forceIn EXCEPT ![r] = GracePeriod]
            /\ server' = "closing"
            /\ sinceClose' = 0
            /\ conn' = [c \in Conns |-> IF conn[c] = "idle" THEN "ended" ELSE conn[c]]
    /\ UNCHANGED <<startVars, db, proc, exitCode, kind, bypass, hook, exitIn, waited, overtaken>>

\* After the last hook: arm forceTimer, close(), closeIdleConnections().
CloseServer(r) ==
    /\ proc = "up" /\ pc[r] = "hooks" /\ hook[r] = NStopHooks /\ server # "none"
    /\ pc' = [pc EXCEPT ![r] = "drain"]
    /\ forceIn' = [forceIn EXCEPT ![r] = GracePeriod]
    /\ server' = IF server = "listening" THEN "closing" ELSE server
    /\ sinceClose' = IF server = "listening" THEN 0 ELSE sinceClose
    /\ conn' = [c \in Conns |-> IF conn[c] = "idle" THEN "ended" ELSE conn[c]]
    /\ UNCHANGED <<startVars, db, proc, exitCode, kind, bypass, hook, exitIn, waited, overtaken>>

ForceClose(r) ==
    /\ proc = "up" /\ pc[r] = "drain" /\ forceIn[r] = 0
    /\ \E c \in Conns : Open(conn[c])
    /\ conn' = [c \in Conns |-> Destroyed(conn[c])]
    /\ UNCHANGED <<startVars, server, db, proc, exitCode, runVars, history>>

\* Mutant: stop() resolves when forceTimer fires instead of on close().
DrainedByTimer(r) ==
    /\ proc = "up" /\ pc[r] = "drain" /\ forceIn[r] = 0
    /\ server' = "closed"
    /\ pc' = [pc EXCEPT ![r] = "db"]
    /\ UNCHANGED <<startVars, conn, db, proc, exitCode, kind, bypass, hook, exitIn, forceIn, history>>

\* close()'s callback: every connection has ended.
Drained(r) ==
    /\ proc = "up" /\ pc[r] = "drain"
    /\ \A c \in Conns : ~Open(conn[c])
    /\ server' = "closed"
    /\ pc' = [pc EXCEPT ![r] = "db"]
    /\ UNCHANGED <<startVars, conn, db, proc, exitCode, kind, bypass, hook, exitIn, forceIn, history>>

Finish(r) ==
    /\ pc' = [pc EXCEPT ![r] = "done"]
    /\ IF kind[r] = "signal" THEN Exit(0) ELSE UNCHANGED <<proc, exitCode, conn>>

\* The last statement of stop(): resolve, or call closeAllDbConnections().
Release(r) ==
    IF bypass[r]
    THEN Finish(r) /\ UNCHANGED db
    ELSE /\ pc' = [pc EXCEPT ![r] = "closingDb"]
         /\ db' = "closed"
         /\ UNCHANGED <<proc, exitCode, conn>>

\* After the last hook, with this.httpServer unset: start() has not bound the
\* server yet, or never will.
SkipServer(r) ==
    /\ proc = "up" /\ pc[r] = "hooks" /\ hook[r] = NStopHooks /\ server = "none"
    /\ Release(r)
    /\ UNCHANGED <<startVars, server, kind, bypass, hook, exitIn, forceIn, history>>

ReleaseDb(r) ==
    /\ proc = "up" /\ pc[r] = "db"
    /\ Release(r)
    /\ UNCHANGED <<startVars, server, kind, bypass, hook, exitIn, forceIn, history>>

\* closeAllDbConnections() settles.
DbReleased(r) ==
    /\ proc = "up" /\ pc[r] = "closingDb"
    /\ Finish(r) \/ Throw(r)
    /\ UNCHANGED <<startVars, server, db, kind, bypass, hook, exitIn, forceIn, history>>

\* Mutant: the timeout is raced only against the closing of the server.
ExitTimeoutWhileDraining(r) ==
    /\ proc = "up" /\ kind[r] = "signal" /\ pc[r] = "drain" /\ exitIn[r] = 0
    /\ Exit(1)
    /\ UNCHANGED <<startVars, server, db, runVars, history>>

\* stopWithTimeout(): the timer beats stop(), shutdownAndExit() exits with 1.
ExitTimeout(r) ==
    /\ proc = "up" /\ kind[r] = "signal" /\ pc[r] \in Live /\ exitIn[r] = 0
    /\ Exit(1)
    /\ UNCHANGED <<startVars, server, db, runVars, history>>

(***************************************************************************)
(* Time                                                                    *)
(***************************************************************************)

Dec(n) == IF n > 0 THEN n - 1 ELSE 0
AwaitsExit(r) == kind[r] = "signal" /\ pc[r] \in Live
Signalled == \E r \in Runs : AwaitsExit(r)
StoppedListening == server \in {"closing", "closed"}

\* Mutant: setTimeout() with the timer's callback lost.
TickPastTimers ==
    /\ proc = "up"
    /\ exitIn' = [r \in Runs |-> IF AwaitsExit(r) THEN Dec(exitIn[r]) ELSE exitIn[r]]
    /\ forceIn' = [r \in Runs |-> IF pc[r] = "drain" THEN Dec(forceIn[r]) ELSE forceIn[r]]
    /\ waited' = IF Signalled THEN waited + 1 ELSE waited
    /\ sinceClose' = IF StoppedListening /\ sinceClose < GracePeriod
                     THEN sinceClose + 1 ELSE sinceClose
    /\ UNCHANGED <<startVars, server, conn, db, proc, exitCode, pc, kind, bypass, hook, overtaken>>

Tick ==
    /\ proc = "up"
    /\ \A r \in Runs : AwaitsExit(r) => exitIn[r] > 0
    /\ \A r \in Runs : pc[r] = "drain" /\ forceIn[r] = 0 => \A c \in Conns : ~Open(conn[c])
    /\ exitIn' = [r \in Runs |-> IF AwaitsExit(r) THEN Dec(exitIn[r]) ELSE exitIn[r]]
    /\ forceIn' = [r \in Runs |-> IF pc[r] = "drain" THEN Dec(forceIn[r]) ELSE forceIn[r]]
    /\ waited' = IF Signalled THEN waited + 1 ELSE waited
    /\ sinceClose' = IF StoppedListening /\ sinceClose < GracePeriod
                     THEN sinceClose + 1 ELSE sinceClose
    /\ UNCHANGED <<startVars, server, conn, db, proc, exitCode, pc, kind, bypass, hook, overtaken>>

Peer == \E c \in Conns : Connect(c) \/ Request(c) \/ Respond(c) \/ Disconnect(c)

Stop(r) == \/ Signal(r) \/ CallStop(r) \/ StopHook(r) \/ CloseServer(r) \/ ForceClose(r)
           \/ Drained(r) \/ SkipServer(r) \/ ReleaseDb(r) \/ DbReleased(r) \/ ExitTimeout(r)

Next == \/ Boot \/ Bind \/ StartHook \/ RegisterHandlers
        \/ Peer
        \/ \E r \in Runs : Stop(r)
        \/ Tick

Spec == Init /\ [][Next]_vars

\* Time passes and due timers run; nothing is assumed of hooks, of request
\* handlers, of peers or of the database.
Fairness == /\ WF_vars(Tick)
            /\ \A r \in Runs : WF_vars(ExitTimeout(r)) /\ WF_vars(ForceClose(r))

FairSpec == Spec /\ Fairness

(***************************************************************************)
(* Properties                                                              *)
(***************************************************************************)

\* stop() closes the database connections only once no connection is open,
\* so that a request that can still be answered always has its database --
\* whichever run closes the server and whichever run closes the database.
\* Except for a server that "overtaken" marks: a stop() called before start()
\* had bound it found no server, closed the database and resolved, and start()
\* then served all the same.
DbOutlivesConnections ==
    db = "closed" /\ ~overtaken => \A c \in Conns : ~Open(conn[c])

\* A request whose socket the server destroyed had the whole grace period
\* after the server stopped listening, unless the process died with a
\* failure: repeated stop() runs never shorten it.
GraceRespected ==
    (proc = "up" \/ (proc = "exited" /\ exitCode = 0))
        /\ (\E c \in Conns : conn[c] = "cut") => sinceClose = GracePeriod

\* A handled signal is never outlived by more than SHUTDOWN_TIMEOUT_MS, and
\* a second signal does not extend the first one's deadline: as long as the
\* process is up some run will exit it by then.
DeadlineKept ==
    Signalled /\ proc = "up" =>
        \E r \in Runs : AwaitsExit(r) /\ exitIn[r] + waited = ShutdownTimeout

\* Exit code 0 after a signal means a run went through all of stop(): every
\* shutdown hook, the drained server and the database.
SuccessIsComplete ==
    proc = "exited" /\ exitCode = 0 =>
        /\ db = "closed" /\ server = "closed"
        /\ \E r \in Runs : kind[r] = "signal" /\ pc[r] = "done" /\ hook[r] = NStopHooks

\* "so that a hung server:shutdown hook or db close can never keep a dying
\* process alive": once a signal is handled the process ends.
SignalledProcessEnds == Signalled ~> proc # "up"

\* The abstract contract, with the server's stage read off its state.
Stage == IF proc # "up" THEN "gone"
         ELSE IF overtaken THEN "overtaken"
         ELSE IF db = "closed" THEN IF server = "none" THEN "abandoned" ELSE "released"
         ELSE IF StoppedListening THEN "draining"
         ELSE IF server = "listening" THEN "serving" ELSE "down"
Report == IF proc = "up" THEN "none"
          ELSE IF proc = "exited" /\ exitCode = 0 THEN "success" ELSE "failure"
Contract == INSTANCE ShutdownContract
                WITH stage <- Stage, report <- Report,
                     open <- {c \in Conns : Open(conn[c])}
\* Every run of the server is a run of the contract, which names what becomes
\* of a server that was stopped before it was bound.
MeetsContract == Contract!Spec
=============================================================================
