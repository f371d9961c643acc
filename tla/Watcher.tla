------------------------------- MODULE Watcher -------------------------------
(***************************************************************************)
(* `psy watch` (src/src/watcher/Watcher.ts): file system events start a    *)
(* debounce timer, the timer runs the sync command in a child process, and *)
(* events are ignored from then until a second after the command ended.    *)
(*                                                                         *)
(* Edits are numbered.  The command reads the sources at some moment of    *)
(* its run, and writes .ts files itself, whose events are numbered 0.      *)
(***************************************************************************)
EXTENDS Naturals

CONSTANT MaxEdits   \* bound on the edits of one behaviour

ASSUME WatcherAssumption == MaxEdits \in Nat

VARIABLES
    edits,    \* edits made so far
    events,   \* events not delivered yet, by edit
    timer,    \* is the debounce timer set?
    syncing,  \* Watcher.syncing
    running,  \* sync commands running
    reads,    \* last edit the running command may have to miss
    cooling,  \* is the one-second timer set?
    heard,    \* history: last edit whose event set the timer
    covered,  \* history: last edit some sync has taken in
    started   \* history: sync commands started

watchVars == <<edits, events, timer, syncing, running, reads, cooling, heard, covered, started>>

WatchTypeOK ==
    /\ edits \in 0..MaxEdits
    /\ events \in SUBSET (0..MaxEdits)
    /\ timer \in BOOLEAN /\ syncing \in BOOLEAN /\ cooling \in BOOLEAN
    /\ running \in 0..1
    /\ reads \in 0..MaxEdits
    /\ heard \in 0..MaxEdits /\ covered \in 0..MaxEdits
    /\ started \in Nat

WatchInit ==
    /\ edits = 0 /\ events = {}
    /\ timer = FALSE /\ syncing = FALSE /\ cooling = FALSE
    /\ running = 0 /\ reads = 0
    /\ heard = 0 /\ covered = 0 /\ started = 0

\* External: a source file is saved, and the file system reports it.
Edit == /\ edits < MaxEdits
        /\ edits' = edits + 1
        /\ events' = events \cup {edits + 1}
        /\ UNCHANGED <<timer, syncing, running, reads, cooling, heard, covered, started>>

\* Mutant: the timer is cleared by a further event, and not set again.
EventClearsTimer(e) ==
    /\ e \in events
    /\ events' = events \ {e}
    /\ timer' = IF syncing THEN timer ELSE ~timer
    /\ heard' = IF ~syncing /\ e > heard THEN e ELSE heard
    /\ UNCHANGED <<edits, syncing, running, reads, cooling, covered, started>>

\* The fs.watch callback: ignored while syncing, else it restarts the timer.
Event(e) ==
    /\ e \in events
    /\ events' = events \ {e}
    /\ timer' = (timer \/ ~syncing)
    /\ heard' = IF ~syncing /\ e > heard THEN e ELSE heard
    /\ UNCHANGED <<edits, syncing, running, reads, cooling, covered, started>>

\* The debounce timer fires: the sync command is spawned.
TimerFires ==
    /\ timer
    /\ timer' = FALSE
    /\ syncing' = TRUE
    /\ running' = running + 1
    /\ reads' = edits
    /\ started' = started + 1
    /\ UNCHANGED <<edits, events, cooling, heard, covered>>

\* External: the command writes its output.
SyncWrites ==
    /\ running > 0 /\ 0 \notin events
    /\ events' = events \cup {0}
    /\ UNCHANGED <<edits, timer, syncing, running, reads, cooling, heard, covered, started>>

\* Mutant: watching resumes as soon as the command ends.
SyncEndsAtOnce ==
    /\ running > 0
    /\ running' = running - 1
    /\ syncing' = FALSE
    /\ \E v \in reads..edits : covered' = IF v > covered THEN v ELSE covered
    /\ UNCHANGED <<edits, events, timer, reads, cooling, heard, started>>

\* The command ends, well or badly, having read edits up to some moment of
\* its run; the one-second timer is set.
SyncEnds ==
    /\ running > 0
    /\ running' = running - 1
    /\ cooling' = TRUE
    /\ \E v \in reads..edits : covered' = IF v > covered THEN v ELSE covered
    /\ UNCHANGED <<edits, events, timer, syncing, reads, heard, started>>

\* The second is over.  The events of the command's own writes have been
\* delivered by then: that is what the second is for.
Cooled ==
    /\ cooling /\ 0 \notin events
    /\ cooling' = FALSE
    /\ syncing' = FALSE
    /\ UNCHANGED <<edits, events, timer, running, reads, heard, covered, started>>

WatchNext == \/ Edit \/ TimerFires \/ SyncWrites \/ SyncEnds \/ Cooled
        \/ \E e \in events : Event(e)

WatchSpec == WatchInit /\ [][WatchNext]_watchVars

\* Timers fire, events are delivered, and the sync command ends.
WatchFairness == /\ WF_watchVars(TimerFires) /\ WF_watchVars(SyncEnds) /\ WF_watchVars(Cooled)
            /\ \A e \in 0..MaxEdits : WF_watchVars(Event(e))
FairWatchSpec == WatchSpec /\ WatchFairness

(***************************************************************************)
(* Properties                                                              *)
(***************************************************************************)

\* "do not want to sync if we are already syncing": a timer set before a sync
\* never fires during it, nor the cool-down of one sync during the next.
OneSyncAtATime == running <= 1 /\ (running = 1 => syncing /\ ~cooling)

\* The command's own writes never make it run again ("an infinite loop of
\* reloading"): there are no more syncs than edits.
NoSyncLoop == started <= edits

\* "Watches your app source files for changes and automatically runs sync when
\* modifications are detected": every edit is taken in by a sync in the end.
EditsSynced == \A e \in 1..MaxEdits : edits >= e ~> covered >= e
=============================================================================
