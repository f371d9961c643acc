---------------------------- MODULE SyncPipeline ----------------------------
(***************************************************************************)
(* `psy sync` (src/src/bin/index.ts, src/src/cli/index.ts): a chain of     *)
(* generators in two processes, each of which reads what the ones before   *)
(* it wrote; composed with the watcher that runs it while a developer      *)
(* edits, and with commands run by hand, which nothing keeps apart.        *)
(*                                                                         *)
(* Files are followed by the version of the sources they were made from,   *)
(* a version being the number of edits before it (Watcher's "edits").      *)
(***************************************************************************)
EXTENDS Watcher

CONSTANTS Watch,   \* the watcher's command
          ByHand,  \* commands run by hand, and by db:migrate
          Docs     \* the configured OpenAPI documents

ASSUME SyncAssumption == Watch \notin ByHand

VARIABLES
    stage,    \* what each command is about to do
    mode,     \* its options
    loaded,   \* the version its present process has loaded, 0 if it has ended
    todo,     \* the documents it has not written, or not converted, yet
    seen,     \* the version of each document as it has read it, or NotRead
    out,      \* the version of each generated file
    since,    \* history: the version of the sources when it began, if in full
    alone,    \* history: has no other command run during it?
    latest    \* history: the command that began last

pipeVars == <<stage, mode, loaded, todo, seen, out, since, alone, latest>>
syncVars == <<watchVars, pipeVars>>

Commands == {Watch} \cup ByHand
NotRead == MaxEdits + 1
Active == {"dream", "types", "spawn", "json", "hooks", "dts"}
Modes == {"full", "schemaOnly", "afterMigrate", "notTest"}

\* Generated files: types/dream.ts, types/psychic.ts, the documents, what the
\* application's cli:sync hooks make of them, and their .d.ts; the route types,
\* which only sync:routes writes, are left out.
File(kind, d) == [kind |-> kind, doc |-> d]
Types == [kind |-> "types"]
DreamTypes == [kind |-> "dream"]
Files == {Types, DreamTypes} \cup [kind : {"json", "client", "dts"}, doc : Docs]

SyncTypeOK ==
    /\ stage \in [Commands -> Active \cup {"idle", "done", "failed"}]
    /\ mode \in [Commands -> Modes]
    /\ loaded \in [Commands -> 0..MaxEdits] /\ since \in [Commands -> 0..MaxEdits]
    /\ todo \in [Commands -> SUBSET Docs]
    /\ seen \in [Commands -> [Docs -> 0..NotRead]]
    /\ out \in [Files -> 0..MaxEdits]
    /\ alone \in [Commands -> BOOLEAN] /\ latest \in Commands

SyncInit ==
    /\ WatchInit
    /\ stage = [c \in Commands |-> "idle"] /\ mode = [c \in Commands |-> "full"]
    /\ loaded = [c \in Commands |-> 0] /\ since = [c \in Commands |-> 0]
    /\ todo = [c \in Commands |-> {}]
    /\ seen = [c \in Commands |-> [d \in Docs |-> NotRead]]
    /\ out = [f \in Files |-> 0]
    /\ alone = [c \in Commands |-> TRUE] /\ latest = Watch

(***************************************************************************)
(* One command                                                             *)
(***************************************************************************)

\* The process starts and loads the application.  Outside NODE_ENV=test nothing
\* is generated; after a migration Dream has synced already.
Begin(c, m) ==
    LET others == {o \in Commands : stage[o] \in Active} \ {c} IN
    /\ stage[c] \notin Active
    /\ stage' = [stage EXCEPT ![c] = CASE m = "notTest" -> "done"
                                       [] m = "afterMigrate" -> "types"
                                       [] OTHER -> "dream"]
    /\ mode' = [mode EXCEPT ![c] = m]
    /\ loaded' = [loaded EXCEPT ![c] = IF m = "notTest" THEN 0 ELSE edits]
    /\ since' = [since EXCEPT ![c] = IF m = "full" THEN edits ELSE 0]
    /\ alone' = [o \in Commands |-> IF o = c THEN others = {} ELSE alone[o] /\ o \notin others]
    /\ latest' = c
    /\ todo' = [todo EXCEPT ![c] = {}]
    /\ seen' = [seen EXCEPT ![c] = [d \in Docs |-> NotRead]]
    /\ UNCHANGED out

\* c goes to stage s, having written the files fs at version v.
Step(c, s, fs, v) ==
    /\ stage' = [stage EXCEPT ![c] = s]
    /\ out' = [f \in Files |-> IF f \in fs THEN v ELSE out[f]]
    /\ UNCHANGED <<mode, since, alone, latest>>

\* External: DreamBin.sync.
DreamSync(c) ==
    /\ stage[c] = "dream"
    /\ Step(c, IF mode[c] = "schemaOnly" THEN "done" ELSE "types", {DreamTypes}, loaded[c])
    /\ loaded' = IF mode[c] = "schemaOnly" THEN [loaded EXCEPT ![c] = 0] ELSE loaded
    /\ UNCHANGED <<todo, seen>>

SyncTypes(c) ==
    /\ stage[c] = "types"
    /\ Step(c, "spawn", {Types}, loaded[c])
    /\ UNCHANGED <<loaded, todo, seen>>

\* A process of its own runs post-sync: it loads the application anew, which
\* is as old as its sources or as the types it is loaded with.
PostSync(c) ==
    /\ stage[c] = "spawn"
    /\ Step(c, "json", {}, 0)
    /\ loaded' = [loaded EXCEPT ![c] = IF out[DreamTypes] < edits THEN out[DreamTypes] ELSE edits]
    /\ todo' = [todo EXCEPT ![c] = Docs]
    /\ UNCHANGED seen

\* OpenapiAppRenderer.sync: the documents are written, in any order.
SyncOpenapiJson(c, d) ==
    /\ stage[c] = "json" /\ d \in todo[c]
    /\ Step(c, IF todo[c] = {d} THEN "hooks" ELSE "json", {File("json", d)}, loaded[c])
    /\ todo' = [todo EXCEPT ![c] = @ \ {d}]
    /\ UNCHANGED <<loaded, seen>>

\* The cli:sync hooks, which generate clients from the documents' files.
RunCliHooks(c) ==
    /\ stage[c] = "hooks"
    /\ out' = [f \in Files |-> IF f.kind = "client" THEN out[File("json", f.doc)] ELSE out[f]]
    /\ stage' = [stage EXCEPT ![c] = "dts"]
    /\ todo' = [todo EXCEPT ![c] = Docs]
    /\ UNCHANGED <<mode, loaded, seen, since, alone, latest>>

\* Mutant: the documents are read while they are being written.
ReadJsonMeanwhile(c, d) ==
    /\ stage[c] \in {"json", "hooks", "dts"} /\ seen[c][d] = NotRead
    /\ stage[c] = "dts" => d \in todo[c]
    /\ seen' = [seen EXCEPT ![c][d] = out[File("json", d)]]
    /\ UNCHANGED <<stage, mode, loaded, todo, out, since, alone, latest>>

\* syncOpenapiTypescriptFiles: each document is read, and later its .d.ts is
\* written.
ReadJson(c, d) ==
    /\ stage[c] = "dts" /\ d \in todo[c] /\ seen[c][d] = NotRead
    /\ seen' = [seen EXCEPT ![c][d] = out[File("json", d)]]
    /\ UNCHANGED <<stage, mode, loaded, todo, out, since, alone, latest>>

WriteDts(c, d) ==
    /\ stage[c] = "dts" /\ d \in todo[c] /\ seen[c][d] # NotRead
    /\ Step(c, IF todo[c] = {d} THEN "done" ELSE "dts", {File("dts", d)}, seen[c][d])
    /\ todo' = [todo EXCEPT ![c] = @ \ {d}]
    /\ seen' = [seen EXCEPT ![c][d] = NotRead]
    /\ loaded' = IF todo[c] = {d} THEN [loaded EXCEPT ![c] = 0] ELSE loaded

\* Any stage may fail: a generator or a hook throws, a file cannot be written,
\* the second process does not load.  The command ends there.
FailSync(c) ==
    /\ stage[c] \in Active
    /\ stage' = [stage EXCEPT ![c] = "failed"]
    /\ todo' = [todo EXCEPT ![c] = {}]
    /\ seen' = [seen EXCEPT ![c] = [d \in Docs |-> NotRead]]
    /\ mode' = [mode EXCEPT ![c] = "full"]
    /\ loaded' = [loaded EXCEPT ![c] = 0] /\ since' = [since EXCEPT ![c] = 0]
    /\ UNCHANGED <<out, alone, latest>>

(***************************************************************************)
(* The commands and the watcher together                                   *)
(***************************************************************************)

\* Files with the ending .ts are under the watched directory.
WritesTs(c) ==
    \/ DreamSync(c) \/ SyncTypes(c) \/ \E d \in Docs : WriteDts(c, d)

WritesOther(c) ==
    \/ PostSync(c) \/ RunCliHooks(c)
    \/ \E d \in Docs : SyncOpenapiJson(c, d) \/ ReadJson(c, d)

Progress(c) ==
    \/ WritesOther(c) /\ UNCHANGED watchVars
    \/ /\ WritesTs(c)
       /\ events' = events \cup {0}
       /\ UNCHANGED <<edits, timer, syncing, running, reads, cooling, heard, covered, started>>

Fails(c) == FailSync(c) /\ UNCHANGED watchVars

WatcherFires == TimerFires /\ Begin(Watch, "full")
WatcherEnds ==
    /\ SyncEnds /\ stage[Watch] \notin Active
    /\ covered' = IF reads > covered THEN reads ELSE covered
    /\ UNCHANGED pipeVars
RunByHand(c) == \E m \in Modes : stage[c] = "idle" /\ Begin(c, m) /\ UNCHANGED watchVars

SyncNext ==
    \/ Edit /\ UNCHANGED pipeVars
    \/ \E e \in events : Event(e) /\ UNCHANGED pipeVars
    \/ Cooled /\ UNCHANGED pipeVars
    \/ WatcherFires \/ WatcherEnds
    \/ \E c \in ByHand : RunByHand(c)
    \/ \E c \in Commands : Progress(c) \/ Fails(c)

\* Timers fire, events are delivered, and the watcher's command goes on until
\* it ends.  One run by hand may wait for ever.
SyncFairness ==
    /\ WF_syncVars(WatcherFires) /\ WF_syncVars(WatcherEnds)
    /\ WF_syncVars(Cooled /\ UNCHANGED pipeVars)
    /\ WF_syncVars(\E e \in events : Event(e) /\ UNCHANGED pipeVars)
    /\ WF_syncVars(Progress(Watch))

SyncSpec == SyncInit /\ [][SyncNext]_syncVars /\ SyncFairness

(***************************************************************************)
(* Properties                                                              *)
(***************************************************************************)

Complete(c) == stage[c] = "done" /\ mode[c] = "full"

\* A complete sync that ran alone leaves no generated file older than the
\* sources it began from, whatever failed or was interrupted before it, and
\* whatever is edited, synced or fails after it.  And what is made from a
\* document is made from the document as it then is: the clients and .d.ts files
\* are those of the documents next to them, edits during the sync
\* notwithstanding.
CompleteSyncIsCurrent ==
    /\ \A c \in Commands : Complete(c) /\ alone[c] => \A f \in Files : out[f] >= since[c]
    /\ Complete(latest) /\ alone[latest] =>
          \A d \in Docs : /\ out[File("client", d)] = out[File("json", d)]
                          /\ out[File("dts", d)] = out[File("json", d)]

\* The commands of a watcher are one at a time, and as long as nobody syncs by
\* hand they are no more than the edits: its own writes never start it again.
WatcherNeverLoops ==
    /\ OneSyncAtATime
    /\ (\A c \in ByHand : stage[c] = "idle") => NoSyncLoop

\* An edit the watcher did not ignore reaches every generated file in the end,
\* unless a command fails or two overlap.
HeardEditsReachFiles ==
    \A e \in 1..MaxEdits :
       heard >= e ~> \/ \A f \in Files : out[f] >= e
                     \/ \E c \in Commands : stage[c] = "failed" \/ ~alone[c]
=============================================================================
