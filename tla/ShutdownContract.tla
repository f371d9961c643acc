-------------------------- MODULE ShutdownContract --------------------------
(***************************************************************************)
(* What a PsychicServer promises about going down, without hooks, timers,  *)
(* signals or repeated stop() calls: a server serves, then refuses new     *)
(* connections while the open ones drain, then lets go of the database     *)
(* once nothing is open, and only then may the process report success.     *)
(* A process may die with a failure at any moment.  A server told to stop  *)
(* before it serves lets go of the database at once, and is not promised   *)
(* to stay down: it may come up afterwards, without one.                   *)
(***************************************************************************)
CONSTANT Conns

VARIABLES stage,   \* "down" "serving" "draining" "released" "gone", or
                   \* "abandoned" before it served and "overtaken" by start()
          open,    \* connections the peer can still get an answer on
          report   \* "none" while alive, else "success" or "failure"

vars == <<stage, open, report>>

Init == stage = "down" /\ open = {} /\ report = "none"

Listen == /\ stage = "down"
          /\ stage' = "serving"
          /\ UNCHANGED <<open, report>>

\* start() goes on after a stop() that found nothing to stop.
ListenLate == /\ stage = "abandoned"
              /\ stage' = "overtaken"
              /\ UNCHANGED <<open, report>>

Accept(c) == /\ stage \in {"serving", "overtaken"}
             /\ c \notin open
             /\ open' = open \cup {c}
             /\ UNCHANGED <<stage, report>>

\* Connections end one at a time or many at once (dropping the idle ones,
\* forcing the stragglers).
End == /\ stage \in {"serving", "draining", "overtaken"}
       /\ \E gone \in SUBSET open : open' = open \ gone
       /\ UNCHANGED <<stage, report>>

Refuse == /\ stage = "serving"
          /\ stage' = "draining"
          /\ \E gone \in SUBSET open : open' = open \ gone
          /\ UNCHANGED report

\* The database goes only when no connection is left to need it.
Release == /\ stage = "draining"
           /\ open = {}
           /\ stage' = "released"
           /\ UNCHANGED <<open, report>>

Abandon == /\ stage = "down"
           /\ stage' = "abandoned"
           /\ UNCHANGED <<open, report>>

\* Neither a server with an open connection nor one that never served.
Succeed == /\ stage \in {"released", "overtaken"}
           /\ open = {}
           /\ stage' = "gone"
           /\ report' = "success"
           /\ UNCHANGED open

Fail == /\ stage # "gone"
        /\ stage' = "gone"
        /\ report' = "failure"
        /\ open' = {}

Next == \/ Listen \/ ListenLate \/ Abandon \/ End \/ Refuse \/ Release \/ Succeed \/ Fail
        \/ \E c \in Conns : Accept(c)

Spec == Init /\ [][Next]_vars
=============================================================================
