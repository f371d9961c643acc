--------------------------- MODULE Processes_proofs ---------------------------
(***************************************************************************)
(* The processes of an application: for any number of edits, of sync       *)
(* commands run by hand and of documents, the watcher runs one command     *)
(* at a time and never because of what its own command wrote, and a        *)
(* complete sync that ran alone leaves every generated file current; and   *)
(* for any number of connections, of stop() runs, of hooks and for any     *)
(* timeouts, the server stops in the order it promises.                    *)
(***************************************************************************)
EXTENDS SyncPipeline, ServerLifecycle, FiniteSetTheorems, TLAPS

(***************************************************************************)
(* The watcher                                                             *)
(***************************************************************************)

\* The flag is up exactly while a command runs or its second passes, and no
\* timer is set meanwhile; the command runs from the timer to its end.
FlagInv ==
    /\ syncing <=> running = 1 \/ cooling
    /\ ~(running = 1 /\ cooling)
    /\ timer => ~syncing
    /\ stage[Watch] \in Active => running = 1
    /\ events \subseteq 0..edits

\* Edits whose events are under way.
Waiting == Cardinality(events \ {0})
AllIdle == \A c \in ByHand : stage[c] = "idle"

\* Every start is paid for by the event of an edit: only the watcher's own
\* command reports files that it wrote, and the flag is up until they are heard.
LoopInv ==
    AllIdle => /\ 0 \in events => syncing
               /\ started + (IF timer THEN 1 ELSE 0) + Waiting <= edits

WatcherInv == WatchTypeOK /\ SyncTypeOK /\ FlagInv /\ LoopInv

\* The events of edits can be counted.
LEMMA WaitingCounts ==
  ASSUME WatchTypeOK
  PROVE  /\ Waiting \in Nat
         /\ \A e \in events \ {0} : Cardinality((events \ {e}) \ {0}) = Waiting - 1
         /\ \A e : e \notin events /\ e # 0 => Cardinality((events \cup {e}) \ {0}) = Waiting + 1
         /\ Cardinality((events \ {0}) \ {0}) = Waiting
         /\ Cardinality((events \cup {0}) \ {0}) = Waiting
<1>1. IsFiniteSet(events)
  <2>1. IsFiniteSet(0..MaxEdits)
    BY WatcherAssumption, FS_Interval
  <2> QED
    BY <2>1, FS_Subset DEF WatchTypeOK
<1>2. IsFiniteSet(events \ {0})
  BY <1>1, FS_RemoveElement
<1>3. Waiting \in Nat
  BY <1>2, FS_CardinalityType DEF Waiting
<1>4. ASSUME NEW e \in events \ {0}
      PROVE  Cardinality((events \ {e}) \ {0}) = Waiting - 1
  <2>1. (events \ {e}) \ {0} = (events \ {0}) \ {e}
    OBVIOUS
  <2> QED
    BY <1>2, <2>1, FS_RemoveElement DEF Waiting
<1>5. ASSUME NEW e, e \notin events, e # 0
      PROVE  Cardinality((events \cup {e}) \ {0}) = Waiting + 1
  <2>1. (events \cup {e}) \ {0} = (events \ {0}) \cup {e}
    BY <1>5
  <2> QED
    BY <1>2, <1>5, <2>1, FS_AddElement DEF Waiting
<1>6. (events \ {0}) \ {0} = events \ {0} /\ (events \cup {0}) \ {0} = events \ {0}
  OBVIOUS
<1> QED
  BY <1>3, <1>4, <1>5, <1>6 DEF Waiting

LEMMA InitWatcherInv == SyncInit => WatcherInv
<1> SUFFICES ASSUME SyncInit PROVE WatcherInv
  OBVIOUS
<1>1. WatchTypeOK
  <2>1. 0 \in 0..MaxEdits /\ 0 \in 0..1 /\ 0 \in Nat /\ {} \in SUBSET (0..MaxEdits)
    BY WatcherAssumption
  <2> QED
    BY <2>1 DEF SyncInit, WatchInit, WatchTypeOK
<1>2. SyncTypeOK
  <2>1. 0 \in 0..MaxEdits /\ NotRead \in 0..NotRead
    BY WatcherAssumption DEF NotRead
  <2>2. "idle" \in Active \cup {"idle", "done", "failed"} /\ "full" \in Modes /\ Watch \in Commands
    BY DEF Modes, Commands
  <2> QED
    BY <2>1, <2>2 DEF SyncInit, SyncTypeOK
<1>3. FlagInv
  BY DEF SyncInit, WatchInit, FlagInv, Commands, Active
<1>4. Waiting = 0
  BY FS_EmptySet DEF SyncInit, WatchInit, Waiting
<1>5. LoopInv
  BY <1>4 DEF SyncInit, WatchInit, LoopInv
<1> QED
  BY <1>1, <1>2, <1>3, <1>5 DEF WatcherInv

\* A command that begins knows of no document and no stage but its first.
LEMMA BeginTypeOK ==
  ASSUME WatchTypeOK, SyncTypeOK, NEW c \in Commands, NEW m \in Modes, Begin(c, m)
  PROVE  SyncTypeOK'
<1> USE DEF SyncTypeOK
<1>1. edits \in 0..MaxEdits /\ 0 \in 0..MaxEdits /\ NotRead \in 0..NotRead
  BY WatcherAssumption DEF WatchTypeOK, NotRead
<1>2. stage' \in [Commands -> Active \cup {"idle", "done", "failed"}]
  BY DEF Begin, Active
<1>3. mode' \in [Commands -> Modes] /\ latest' \in Commands
  BY DEF Begin
<1>4. loaded' \in [Commands -> 0..MaxEdits] /\ since' \in [Commands -> 0..MaxEdits]
  BY <1>1 DEF Begin
<1>5. todo' \in [Commands -> SUBSET Docs] /\ seen' \in [Commands -> [Docs -> 0..NotRead]]
  BY <1>1 DEF Begin
<1>6. out' \in [Files -> 0..MaxEdits]
  BY DEF Begin
<1>7. alone' \in [Commands -> BOOLEAN]
  BY Zenon DEF Begin
<1> QED
  BY <1>2, <1>3, <1>4, <1>5, <1>6, <1>7

\* A document that was read was read at some version.
LEMMA ReadVersion == ASSUME NEW v \in 0..NotRead, v # NotRead PROVE v \in 0..MaxEdits
  BY WatcherAssumption DEF NotRead

\* Every step of a command has the types it should.
LEMMA ProgressTypeOK ==
  ASSUME WatchTypeOK, SyncTypeOK, NEW c \in Commands,
         WritesTs(c) \/ WritesOther(c) \/ FailSync(c)
  PROVE  SyncTypeOK'
<1> USE WatcherAssumption DEF SyncTypeOK, WatchTypeOK, Active, Modes, Step
<1>1. CASE DreamSync(c)
  BY <1>1 DEF DreamSync
<1>2. CASE SyncTypes(c)
  BY <1>2 DEF SyncTypes
<1>3. ASSUME NEW d \in Docs, WriteDts(c, d) PROVE SyncTypeOK'
  <2>1. seen[c][d] \in 0..MaxEdits
    <3>1. seen[c] \in [Docs -> 0..NotRead]
      OBVIOUS
    <3>2. seen[c][d] \in 0..NotRead
      BY <3>1
    <3>3. seen[c][d] # NotRead
      BY <1>3 DEF WriteDts
    <3> QED
      BY <3>2, <3>3, ReadVersion
  <2>2. NotRead \in 0..NotRead /\ 0 \in 0..MaxEdits
    BY DEF NotRead
  <2>3. stage' \in [Commands -> Active \cup {"idle", "done", "failed"}]
    BY <1>3 DEF WriteDts
  <2>4. out' \in [Files -> 0..MaxEdits]
    BY <1>3, <2>1 DEF WriteDts
  <2>5. todo' \in [Commands -> SUBSET Docs] /\ seen' \in [Commands -> [Docs -> 0..NotRead]]
    BY <1>3, <2>2 DEF WriteDts
  <2>6. loaded' \in [Commands -> 0..MaxEdits]
    BY <1>3, <2>2 DEF WriteDts
  <2> QED
    BY <1>3, <2>3, <2>4, <2>5, <2>6 DEF WriteDts
<1>4. CASE PostSync(c)
  <2>1. (IF out[DreamTypes] < edits THEN out[DreamTypes] ELSE edits) \in 0..MaxEdits
    BY DEF Files
  <2> QED
    BY <1>4, <2>1 DEF PostSync
<1>5. CASE RunCliHooks(c)
  <2>1. \A f \in Files : f.kind = "client" => File("json", f.doc) \in Files
    BY DEF Files, File, Types, DreamTypes
  <2> QED
    BY <1>5, <2>1 DEF RunCliHooks
<1>6. ASSUME NEW d \in Docs, SyncOpenapiJson(c, d) PROVE SyncTypeOK'
  BY <1>6 DEF SyncOpenapiJson
<1>7. ASSUME NEW d \in Docs, ReadJson(c, d) PROVE SyncTypeOK'
  <2>1. File("json", d) \in Files
    BY DEF Files, File
  <2>2. out[File("json", d)] \in 0..NotRead
    BY <2>1 DEF NotRead
  <2> QED
    BY <1>7, <2>2 DEF ReadJson
<1>8. CASE FailSync(c)
  <2>1. NotRead \in 0..NotRead
    BY DEF NotRead
  <2> QED
    BY <1>8, <2>1 DEF FailSync
<1> QED
  BY <1>1, <1>2, <1>3, <1>4, <1>5, <1>6, <1>7, <1>8 DEF WritesTs, WritesOther

\* An edit is one more to report; an event is heard or dropped; the second ends.
LEMMA WatchSteps ==
  ASSUME WatcherInv, UNCHANGED pipeVars, Edit \/ (\E e \in events : Event(e)) \/ Cooled
  PROVE  WatcherInv'
<1> USE WatcherAssumption DEF WatcherInv, WatchTypeOK, FlagInv, LoopInv, AllIdle
<1>1. SyncTypeOK' /\ UNCHANGED stage
  BY DEF SyncTypeOK, pipeVars
<1>2. CASE Edit
  <2>1. edits + 1 \notin events /\ edits + 1 # 0
    BY DEF WatchTypeOK
  <2>2. Waiting' = Waiting + 1 /\ Waiting \in Nat
    BY <1>2, <2>1, WaitingCounts DEF Edit, Waiting
  <2>3. 0 \in events' => 0 \in events
    BY <1>2 DEF Edit
  <2> QED
    BY <1>1, <1>2, <2>2, <2>3 DEF Edit
<1>3. ASSUME NEW e \in events, Event(e) PROVE WatcherInv'
  <2>1. e \in 0..MaxEdits
    BY <1>3
  <2>2. CASE e = 0
    <3>1. Waiting' = Waiting /\ Waiting \in Nat
      BY <1>3, <2>2, WaitingCounts DEF Event, Waiting
    <3>2. AllIdle => syncing
      BY <1>3, <2>2
    <3> QED
      BY <1>1, <1>3, <2>1, <2>2, <3>1, <3>2 DEF Event
  <2>3. CASE e # 0
    <3>1. Waiting' = Waiting - 1 /\ Waiting \in Nat
      BY <1>3, <2>3, WaitingCounts DEF Event, Waiting
    <3> QED
      BY <1>1, <1>3, <2>1, <3>1 DEF Event
  <2> QED
    BY <2>2, <2>3
<1>4. CASE Cooled
  <2>1. Waiting' = Waiting
    BY <1>4 DEF Cooled, Waiting
  <2> QED
    BY <1>1, <1>4, <2>1 DEF Cooled
<1> QED
  BY <1>2, <1>3, <1>4

\* The timer's start of the command takes the place of the timer.
LEMMA FiresStep == ASSUME WatcherInv, WatcherFires PROVE WatcherInv'
<1>1. SyncTypeOK'
  BY BeginTypeOK DEF WatcherInv, WatcherFires, Commands, Modes
<1>2. \A c \in ByHand : stage'[c] = stage[c]
  BY SyncAssumption DEF WatcherInv, SyncTypeOK, WatcherFires, Begin, Commands
<1>3. running = 0 /\ ~cooling
  BY DEF WatcherInv, WatchTypeOK, FlagInv, WatcherFires, TimerFires
<1>4. /\ running' = 1 /\ syncing' = TRUE /\ timer' = FALSE
      /\ reads' = edits /\ started' = started + 1
      /\ UNCHANGED <<edits, events, cooling, heard, covered>>
  BY <1>3 DEF WatcherFires, TimerFires
<1>7. WatchTypeOK'
  <2>1. 1 \in 0..1 /\ started + 1 \in Nat
    BY DEF WatcherInv, WatchTypeOK
  <2> QED
    BY <1>4, <2>1, Zenon DEF WatcherInv, WatchTypeOK
<1>8. FlagInv'
  BY <1>3, <1>4 DEF WatcherInv, FlagInv
<1>5. Waiting' = Waiting /\ Waiting \in Nat
  BY WaitingCounts DEF WatcherInv, WatcherFires, TimerFires, Waiting
<1>6. LoopInv'
  BY <1>2, <1>5 DEF WatcherInv, WatchTypeOK, LoopInv, AllIdle, WatcherFires, TimerFires
<1> QED
  BY <1>1, <1>6, <1>7, <1>8 DEF WatcherInv

LEMMA EndsStep == ASSUME WatcherInv, WatcherEnds PROVE WatcherInv'
<1>1. SyncTypeOK' /\ UNCHANGED stage
  BY DEF WatcherInv, SyncTypeOK, WatcherEnds, pipeVars
<1>2. WatchTypeOK'
  BY DEF WatcherInv, WatchTypeOK, WatcherEnds, SyncEnds
<1>3. FlagInv'
  BY <1>1 DEF WatcherInv, WatchTypeOK, FlagInv, WatcherEnds, SyncEnds
<1>4. LoopInv'
  <2>1. Waiting' = Waiting
    BY DEF WatcherEnds, SyncEnds, Waiting
  <2> QED
    BY <1>1, <2>1 DEF WatcherInv, LoopInv, AllIdle, WatcherEnds, SyncEnds
<1> QED
  BY <1>1, <1>2, <1>3, <1>4 DEF WatcherInv

\* Once a command has been run by hand it is never again one that was not.
LEMMA ByHandStep == ASSUME WatcherInv, NEW c \in ByHand, RunByHand(c) PROVE WatcherInv'
<1>1. PICK m \in Modes : stage[c] = "idle" /\ Begin(c, m) /\ UNCHANGED watchVars
  BY DEF RunByHand
<1>2. SyncTypeOK'
  BY <1>1, BeginTypeOK DEF WatcherInv, Commands
<1>3. WatchTypeOK'
  BY <1>1 DEF WatcherInv, WatchTypeOK, watchVars
<1>4. stage'[c] # "idle" /\ stage'[Watch] = stage[Watch]
  BY <1>1, SyncAssumption DEF WatcherInv, SyncTypeOK, Begin, Commands
<1>5. FlagInv'
  BY <1>1, <1>4 DEF WatcherInv, WatchTypeOK, FlagInv, watchVars
<1>6. LoopInv'
  BY <1>4 DEF LoopInv, AllIdle
<1> QED
  BY <1>2, <1>3, <1>5, <1>6 DEF WatcherInv

\* What a command that makes progress or fails does to the stages.
LEMMA ProgressStages ==
  ASSUME SyncTypeOK, NEW c \in Commands, WritesTs(c) \/ WritesOther(c) \/ FailSync(c)
  PROVE  /\ stage[c] \in Active /\ stage'[c] # "idle"
         /\ \A o \in Commands \ {c} : stage'[o] = stage[o]
  BY DEF SyncTypeOK, WritesTs, WritesOther, DreamSync, SyncTypes, WriteDts, PostSync, RunCliHooks,
         SyncOpenapiJson, ReadJson, FailSync, Step, Active

\* Only a running command writes: the flag is up, or it was run by hand.
LEMMA ProgressStep ==
  ASSUME WatcherInv, NEW c \in Commands, Progress(c) \/ Fails(c)
  PROVE  WatcherInv'
<1>1. WritesTs(c) \/ WritesOther(c) \/ FailSync(c)
  BY DEF Progress, Fails
<1>2. SyncTypeOK'
  BY <1>1, ProgressTypeOK DEF WatcherInv
<1>3. /\ stage[c] \in Active /\ stage'[c] # "idle"
      /\ \A o \in Commands \ {c} : stage'[o] = stage[o]
  BY <1>1, ProgressStages DEF WatcherInv
<1>4. /\ events' \in {events, events \cup {0}}
      /\ UNCHANGED <<edits, timer, syncing, running, reads, cooling, heard, covered, started>>
  BY DEF Progress, Fails, watchVars
<1>5. WatchTypeOK'
  BY <1>4, WatcherAssumption DEF WatcherInv, WatchTypeOK
<1>6. FlagInv'
  <2>1. stage'[Watch] \in Active => stage[Watch] \in Active
    BY <1>3 DEF Commands
  <2>2. events' \subseteq 0..edits'
    BY <1>4 DEF WatcherInv, FlagInv, WatchTypeOK
  <2> QED
    BY <1>4, <2>1, <2>2 DEF WatcherInv, FlagInv
<1>7. LoopInv'
  <2>1. Waiting' = Waiting
    BY <1>4, WaitingCounts DEF WatcherInv, Waiting
  <2>2. SUFFICES ASSUME AllIdle' PROVE LoopInv'
    BY DEF LoopInv
  <2>3. c \notin ByHand
    BY <1>3, <2>2 DEF AllIdle
  <2>4. c = Watch /\ AllIdle
    BY <1>3, <2>2, <2>3 DEF AllIdle, Commands
  <2>5. syncing
    BY <1>3, <2>4 DEF WatcherInv, FlagInv
  <2> QED
    BY <1>4, <2>1, <2>4, <2>5 DEF WatcherInv, LoopInv
<1> QED
  BY <1>2, <1>5, <1>6, <1>7 DEF WatcherInv

\* The watcher's invariant holds in every reachable state.
THEOREM WatcherInvariant == SyncSpec => []WatcherInv
<1>1. WatcherInv /\ [SyncNext]_syncVars => WatcherInv'
  <2> SUFFICES ASSUME WatcherInv, [SyncNext]_syncVars PROVE WatcherInv'
    OBVIOUS
  <2>1. CASE UNCHANGED syncVars
    BY <2>1
    DEF syncVars, watchVars, pipeVars, WatcherInv, WatchTypeOK, SyncTypeOK, FlagInv, LoopInv,
        AllIdle, Waiting
  <2> QED
    BY <2>1, WatchSteps, FiresStep, EndsStep, ByHandStep, ProgressStep DEF SyncNext
<1> QED
  BY InitWatcherInv, <1>1, PTL DEF SyncSpec

\* However edits, events and commands interleave, the watcher runs one command
\* at a time; and unless somebody syncs by hand it runs no more than there are
\* edits.
THEOREM WatcherNeverLoopsAlways == SyncSpec => []WatcherNeverLoops
<1>1. WatcherInv => WatcherNeverLoops
  <2> SUFFICES ASSUME WatcherInv PROVE WatcherNeverLoops
    OBVIOUS
  <2>1. OneSyncAtATime
    BY DEF WatcherInv, WatchTypeOK, FlagInv, OneSyncAtATime
  <2>2. Waiting \in Nat
    BY WaitingCounts DEF WatcherInv
  <2>3. AllIdle => NoSyncLoop
    BY <2>2 DEF WatcherInv, WatchTypeOK, LoopInv, NoSyncLoop
  <2> QED
    BY <2>1, <2>3 DEF WatcherNeverLoops, AllIdle
<1> QED
  BY WatcherInvariant, <1>1, PTL

(***************************************************************************)
(* The files                                                               *)
(***************************************************************************)

PastDream == {"types", "spawn", "json", "hooks", "dts", "done"}
PastTypes == {"spawn", "json", "hooks", "dts", "done"}
PastJson == {"hooks", "dts", "done"}
PastHooks == {"dts", "done"}

Full(c) == mode[c] = "full" /\ stage[c] \in Active \cup {"done"}
OthersRest(c) == \A o \in Commands \ {c} : stage[o] \notin Active

\* A command that is alone is so to its end, and the latest one until the next.
AloneInv ==
    /\ \A c \in Commands : alone[c] /\ stage[c] \in Active => OthersRest(c)
    /\ alone[latest] => OthersRest(latest)

\* No command that runs holds anything older than v.
Fresh(v) ==
    \A o \in Commands : stage[o] \in Active =>
       loaded[o] >= v /\ \A d \in Docs : seen[o][d] >= v

\* What a complete command has written, and all that others have at hand since,
\* is no older than the sources it began from.
Current(c) ==
    /\ since[c] <= edits
    /\ Fresh(since[c])
    /\ stage[c] \in PastDream => out[DreamTypes] >= since[c]
    /\ stage[c] \in PastTypes => out[Types] >= since[c]
    /\ stage[c] = "json" => \A d \in Docs \ todo[c] : out[File("json", d)] >= since[c]
    /\ stage[c] \in PastJson => \A d \in Docs : out[File("json", d)] >= since[c]
    /\ stage[c] \in PastHooks => \A d \in Docs : out[File("client", d)] >= since[c]
    /\ stage[c] = "dts" => \A d \in Docs \ todo[c] : out[File("dts", d)] >= since[c]
    /\ stage[c] = "done" => \A d \in Docs : out[File("dts", d)] >= since[c]
CurrentInv == \A c \in Commands : Full(c) /\ alone[c] => Current(c)

\* What the latest command, if alone, made from the documents is made from the
\* documents as they are.
Chained(c) ==
    /\ stage[c] \in Active \ {"dts"} => \A d \in Docs : seen[c][d] = NotRead
    /\ stage[c] \in PastHooks => \A d \in Docs : out[File("client", d)] = out[File("json", d)]
    /\ stage[c] = "dts" =>
          /\ \A d \in todo[c] : seen[c][d] \in {NotRead, out[File("json", d)]}
          /\ \A d \in Docs \ todo[c] : out[File("dts", d)] = out[File("json", d)]
    /\ stage[c] = "done" => \A d \in Docs : out[File("dts", d)] = out[File("json", d)]
ChainInv == Full(latest) /\ alone[latest] => Chained(latest)

FilesInv == AloneInv /\ CurrentInv /\ ChainInv

\* Which files there are, each apart from every other.
LEMMA FileFacts ==
  /\ Types \in Files /\ DreamTypes \in Files /\ Types # DreamTypes
  /\ \A k \in {"json", "client", "dts"}, d \in Docs :
        /\ File(k, d) \in Files /\ File(k, d).kind = k /\ File(k, d).doc = d
        /\ File(k, d) # Types /\ File(k, d) # DreamTypes
        /\ \A j \in {"json", "client", "dts"}, e \in Docs :
              File(k, d) = File(j, e) => k = j /\ d = e
  /\ \A f \in Files :
        f = Types \/ f = DreamTypes
        \/ \E k \in {"json", "client", "dts"}, d \in Docs : f = File(k, d)
<1>1. Types.kind = "types" /\ DreamTypes.kind = "dream"
  BY DEF Types, DreamTypes
<1>2. ASSUME NEW k \in {"json", "client", "dts"}, NEW d \in Docs
      PROVE  File(k, d) \in Files /\ File(k, d).kind = k /\ File(k, d).doc = d
  BY DEF File, Files
<1>3. \A f \in Files :
        f = Types \/ f = DreamTypes
        \/ \E k \in {"json", "client", "dts"}, d \in Docs : f = File(k, d)
  BY DEF File, Files
<1>4. Types \in Files /\ DreamTypes \in Files
  BY DEF Files
<1> QED
  BY <1>1, <1>2, <1>3, <1>4

\* The version of a file is a number, like every other version.
LEMMA VersionTypes ==
  ASSUME WatchTypeOK, SyncTypeOK
  PROVE  /\ edits \in Nat /\ edits <= MaxEdits
         /\ \A f \in Files : out[f] \in Nat /\ out[f] <= MaxEdits
         /\ \A c \in Commands :
               /\ loaded[c] \in Nat /\ since[c] \in Nat /\ since[c] <= MaxEdits
               /\ todo[c] \subseteq Docs
               /\ \A d \in Docs : seen[c][d] \in Nat
<1>1. NotRead \in Nat
  BY WatcherAssumption DEF NotRead
<1>2. ASSUME NEW c \in Commands, NEW d \in Docs PROVE seen[c][d] \in Nat
  <2>1. seen[c] \in [Docs -> 0..NotRead]
    BY DEF SyncTypeOK
  <2> QED
    BY <1>1, <2>1
<1> QED
  BY <1>2, WatcherAssumption DEF WatchTypeOK, SyncTypeOK

\* A step of one command writes nothing older than all that is at hand.
LEMMA FreshKept ==
  ASSUME WatchTypeOK, SyncTypeOK, NEW c \in Commands, WritesTs(c) \/ WritesOther(c) \/ FailSync(c),
         NEW v \in Nat, v <= edits, v <= MaxEdits, Fresh(v), \A f \in Files : out[f] >= v
  PROVE  Fresh(v)' /\ \A f \in Files : out'[f] >= v
<1> USE VersionTypes, ProgressStages
<1>1. loaded[c] >= v /\ \A d \in Docs : seen[c][d] >= v
  BY DEF Fresh
<1>2. NotRead >= v
  BY WatcherAssumption DEF NotRead
<1>3. CASE DreamSync(c)
  <2>1. \A f \in Files : out'[f] >= v
    BY <1>1, <1>3 DEF DreamSync, Step
  <2>2. CASE mode[c] = "schemaOnly"
    <3>1. stage'[c] \notin Active
      BY <1>3, <2>2 DEF DreamSync, Step, SyncTypeOK, Active
    <3> QED
      BY <1>3, <2>1, <3>1 DEF DreamSync, Fresh, SyncTypeOK
  <2>3. CASE mode[c] # "schemaOnly"
    BY <1>1, <1>3, <2>1, <2>3 DEF DreamSync, Fresh, SyncTypeOK
  <2> QED
    BY <2>1, <2>2, <2>3
<1>4. CASE SyncTypes(c)
  BY <1>1, <1>4 DEF SyncTypes, Step, Fresh, SyncTypeOK
<1>5. ASSUME NEW d \in Docs, WriteDts(c, d) PROVE Fresh(v)' /\ \A f \in Files : out'[f] >= v
  <2>1. \A f \in Files : out'[f] >= v
    BY <1>1, <1>5 DEF WriteDts, Step
  <2>2. \A o \in Commands, e \in Docs : seen'[o][e] \in {seen[o][e], NotRead}
    BY <1>5 DEF WriteDts, SyncTypeOK
  <2>3. ASSUME NEW o \in Commands, stage'[o] \in Active PROVE loaded'[o] = loaded[o] /\ stage[o] \in Active
    <3>1. CASE o = c
      <4>1. todo[c] # {d}
        BY <1>5, <2>3, <3>1 DEF WriteDts, Step, SyncTypeOK, Active
      <4> QED
        BY <1>5, <3>1, <4>1 DEF WriteDts, Active
    <3>2. CASE o # c
      BY <1>5, <2>3, <3>2 DEF WriteDts, SyncTypeOK
    <3> QED
      BY <3>1, <3>2
  <2> QED
    BY <1>2, <2>1, <2>2, <2>3 DEF Fresh
<1>6. CASE PostSync(c)
  <2>1. out[DreamTypes] >= v
    BY FileFacts
  <2>2. loaded'[c] >= v
    BY <1>6, <2>1 DEF PostSync, SyncTypeOK
  <2> QED
    BY <1>1, <1>6, <2>2 DEF PostSync, Step, Fresh, SyncTypeOK
<1>7. CASE RunCliHooks(c)
  <2>1. \A f \in Files : f.kind = "client" => File("json", f.doc) \in Files
    BY FileFacts DEF Types, DreamTypes
  <2>2. \A f \in Files : out'[f] >= v
    BY <1>7, <2>1 DEF RunCliHooks
  <2> QED
    BY <1>7, <2>2 DEF RunCliHooks, Fresh, SyncTypeOK
<1>8. ASSUME NEW d \in Docs, SyncOpenapiJson(c, d) PROVE Fresh(v)' /\ \A f \in Files : out'[f] >= v
  BY <1>1, <1>8 DEF SyncOpenapiJson, Step, Fresh, SyncTypeOK
<1>9. ASSUME NEW d \in Docs, ReadJson(c, d) PROVE Fresh(v)' /\ \A f \in Files : out'[f] >= v
  <2>1. out[File("json", d)] >= v
    BY FileFacts
  <2>2. \A o \in Commands, e \in Docs : seen'[o][e] \in {seen[o][e], out[File("json", d)]}
    BY <1>9 DEF ReadJson, SyncTypeOK
  <2>3. UNCHANGED <<stage, loaded, out>>
    BY <1>9 DEF ReadJson
  <2> QED
    BY <2>1, <2>2, <2>3 DEF Fresh
<1>10. CASE FailSync(c)
  <2>1. stage'[c] \notin Active
    BY <1>10 DEF FailSync, SyncTypeOK, Active
  <2> QED
    BY <1>10, <2>1 DEF FailSync, Fresh, SyncTypeOK
<1> QED
  BY <1>3, <1>4, <1>5, <1>6, <1>7, <1>8, <1>9, <1>10 DEF WritesTs, WritesOther

\* A command that is done holds every file to the version it began from.
LEMMA DoneCurrent ==
  ASSUME NEW c \in Commands, stage[c] = "done", Current(c)
  PROVE  \A f \in Files : out[f] >= since[c]
  BY FileFacts DEF Current, PastDream, PastTypes, PastJson, PastHooks

\* A command that begins leaves alone only those that are over.
LEMMA BeginEffect ==
  ASSUME WatchTypeOK, SyncTypeOK, NEW c \in Commands, NEW m \in Modes, Begin(c, m)
  PROVE  /\ stage'[c] \in {"dream", "types", "done"} /\ mode'[c] = m /\ latest' = c
         /\ m = "full" => stage'[c] = "dream" /\ since'[c] = edits
         /\ stage'[c] \in Active => loaded'[c] = edits
         /\ \A d \in Docs : seen'[c][d] = NotRead
         /\ alone'[c] => OthersRest(c)
         /\ \A o \in Commands \ {c} :
               /\ stage'[o] = stage[o] /\ mode'[o] = mode[o] /\ since'[o] = since[o]
               /\ loaded'[o] = loaded[o] /\ seen'[o] = seen[o] /\ todo'[o] = todo[o]
               /\ alone'[o] => alone[o] /\ stage[o] \notin Active
         /\ UNCHANGED out
<1> DEFINE others == {o \in Commands : stage[o] \in Active} \ {c}
<1>1. alone' = [o \in Commands |-> IF o = c THEN others = {} ELSE alone[o] /\ o \notin others]
  BY DEF Begin
<1>2. alone'[c] => OthersRest(c)
  <2>1. alone'[c] = (others = {})
    BY <1>1
  <2> QED
    BY <2>1 DEF OthersRest
<1>3. \A o \in Commands \ {c} : alone'[o] => alone[o] /\ stage[o] \notin Active
  <2> SUFFICES ASSUME NEW o \in Commands \ {c}, alone'[o] PROVE alone[o] /\ stage[o] \notin Active
    OBVIOUS
  <2>1. alone'[o] = (alone[o] /\ o \notin others)
    BY <1>1
  <2> QED
    BY <2>1
<1>4. /\ stage'[c] \in {"dream", "types", "done"} /\ mode'[c] = m /\ latest' = c
      /\ m = "full" => stage'[c] = "dream" /\ since'[c] = edits
      /\ stage'[c] \in Active => loaded'[c] = edits
  BY DEF Begin, SyncTypeOK, Modes, Active
<1>5. \A d \in Docs : seen'[c][d] = NotRead
  BY DEF Begin, SyncTypeOK
<1>6. \A o \in Commands \ {c} :
         /\ stage'[o] = stage[o] /\ mode'[o] = mode[o] /\ since'[o] = since[o]
         /\ loaded'[o] = loaded[o] /\ seen'[o] = seen[o] /\ todo'[o] = todo[o]
  BY DEF Begin, SyncTypeOK
<1> QED
  BY <1>2, <1>3, <1>4, <1>5, <1>6 DEF Begin

\* A command that begins has everything before it, and finds those that are
\* complete as they were.
LEMMA BeginFiles ==
  ASSUME WatchTypeOK, SyncTypeOK, FilesInv, NEW c \in Commands, NEW m \in Modes, Begin(c, m),
         UNCHANGED edits
  PROVE  FilesInv'
<1> USE BeginEffect, VersionTypes
<1>1. AloneInv'
  <2>1. ASSUME NEW o \in Commands, alone'[o], stage'[o] \in Active PROVE OthersRest(o)'
    BY <2>1 DEF OthersRest
  <2>2. alone'[latest'] => OthersRest(latest)'
    BY DEF OthersRest
  <2> QED
    BY <2>1, <2>2 DEF AloneInv
<1>2. ASSUME NEW o \in Commands, Full(o)', alone'[o] PROVE Current(o)'
  <2>1. CASE o = c
    <3>1. stage'[o] = "dream" /\ since'[o] = edits
      BY <1>2, <2>1 DEF Full, Active
    <3>2. \A q \in Commands : q # o => stage'[q] \notin Active
      BY <1>2, <2>1 DEF OthersRest
    <3>3. NotRead >= edits
      BY WatcherAssumption DEF NotRead
    <3>4. Fresh(since[o])'
      BY <2>1, <3>1, <3>2, <3>3 DEF Fresh
    <3> QED
      BY <3>1, <3>4 DEF Current, PastDream, PastTypes, PastJson, PastHooks
  <2>2. CASE o # c
    <3>1. stage[o] = "done" /\ Full(o) /\ alone[o]
      BY <1>2, <2>2 DEF Full
    <3>2. Current(o)
      BY <3>1 DEF FilesInv, CurrentInv
    <3>3. since[o] <= edits /\ NotRead >= since[o]
      BY <3>2, WatcherAssumption DEF Current, NotRead
    <3>4. Fresh(since[o])'
      BY <2>2, <3>2, <3>3 DEF Current, Fresh
    <3> QED
      BY <2>2, <3>1, <3>2, <3>4 DEF Current, PastDream, PastTypes, PastJson, PastHooks
  <2> QED
    BY <2>1, <2>2
<1>3. ChainInv'
  BY DEF ChainInv, Chained, Full, PastHooks, Active
<1> QED
  BY <1>1, <1>2, <1>3 DEF FilesInv, CurrentInv

\* What a step of a command leaves of the others.
LEMMA ProgressFrame ==
  ASSUME SyncTypeOK, NEW c \in Commands, WritesTs(c) \/ WritesOther(c) \/ FailSync(c)
  PROVE  /\ UNCHANGED <<alone, latest>>
         /\ \A o \in Commands \ {c} :
               mode'[o] = mode[o] /\ since'[o] = since[o] /\ seen'[o] = seen[o] /\ todo'[o] = todo[o]
         /\ ~FailSync(c) => UNCHANGED <<mode, since>>
  BY DEF SyncTypeOK, WritesTs, WritesOther, DreamSync, SyncTypes, WriteDts, PostSync, RunCliHooks,
         SyncOpenapiJson, ReadJson, FailSync, Step

\* A complete command's own step: each stage leaves behind what it should.
LEMMA OwnStep ==
  ASSUME WatchTypeOK, SyncTypeOK, NEW c \in Commands, WritesTs(c) \/ WritesOther(c),
         mode[c] = "full", OthersRest(c), Current(c), UNCHANGED edits
  PROVE  Current(c)'
<1> USE VersionTypes, FileFacts
    DEF SyncTypeOK, Step, PastDream, PastTypes, PastJson, PastHooks
<1>1. since[c] \in Nat /\ UNCHANGED since /\ since[c] <= edits
  BY ProgressFrame, VersionTypes DEF FailSync, Current, WritesTs, WritesOther, DreamSync, SyncTypes,
     WriteDts, PostSync, RunCliHooks, SyncOpenapiJson, ReadJson
<1>2. loaded[c] >= since[c] /\ \A d \in Docs : seen[c][d] >= since[c]
  <2>1. stage[c] \in Active
    BY ProgressStages
  <2> QED
    BY <2>1 DEF Current, Fresh
<1>3. \A o \in Commands \ {c} : stage'[o] \notin Active
  BY ProgressStages DEF OthersRest
<1>4. NotRead >= since[c]
  BY WatcherAssumption DEF NotRead
<1>5. CASE DreamSync(c)
  <2>1. stage'[c] = "types" /\ out'[DreamTypes] = loaded[c] /\ UNCHANGED <<loaded, seen>>
    BY <1>5 DEF DreamSync
  <2> QED
    BY <1>1, <1>2, <1>3, <2>1 DEF Current, Fresh
<1>6. CASE SyncTypes(c)
  <2>1. /\ stage[c] = "types" /\ stage'[c] = "spawn" /\ out'[Types] = loaded[c]
        /\ out'[DreamTypes] = out[DreamTypes] /\ UNCHANGED <<loaded, seen>>
    BY <1>6 DEF SyncTypes
  <2> QED
    BY <1>1, <1>2, <1>3, <2>1 DEF Current, Fresh
<1>7. CASE PostSync(c)
  <2>1. /\ stage[c] = "spawn" /\ stage'[c] = "json" /\ todo'[c] = Docs
        /\ \A f \in Files : out'[f] = out[f]
        /\ loaded'[c] = (IF out[DreamTypes] < edits THEN out[DreamTypes] ELSE edits)
        /\ UNCHANGED seen
    BY <1>7 DEF PostSync
  <2>2. loaded'[c] >= since[c]
    BY <1>1, <2>1 DEF Current
  <2> QED
    BY <1>1, <1>2, <1>3, <2>1, <2>2 DEF Current, Fresh
<1>8. ASSUME NEW d \in Docs, SyncOpenapiJson(c, d) PROVE Current(c)'
  <2>1. /\ stage[c] = "json" /\ stage'[c] = (IF todo[c] = {d} THEN "hooks" ELSE "json")
        /\ out'[File("json", d)] = loaded[c]
        /\ \A f \in Files \ {File("json", d)} : out'[f] = out[f]
        /\ todo'[c] = todo[c] \ {d} /\ UNCHANGED <<loaded, seen>>
    BY <1>8 DEF SyncOpenapiJson
  <2>2. \A e \in Docs \ todo'[c] : out'[File("json", e)] >= since[c]
    BY <1>2, <2>1 DEF Current
  <2>3. todo[c] = {d} => todo'[c] = {}
    BY <2>1
  <2>4. out'[Types] = out[Types] /\ out'[DreamTypes] = out[DreamTypes]
    BY <2>1
  <2> QED
    BY <1>1, <1>2, <1>3, <2>1, <2>2, <2>3, <2>4 DEF Current, Fresh
<1>9. CASE RunCliHooks(c)
  <2>1. /\ stage[c] = "hooks" /\ stage'[c] = "dts" /\ todo'[c] = Docs
        /\ UNCHANGED <<loaded, seen>>
    BY <1>9 DEF RunCliHooks
  <2>2. /\ out'[Types] = out[Types] /\ out'[DreamTypes] = out[DreamTypes]
        /\ \A d \in Docs : /\ out'[File("json", d)] = out[File("json", d)]
                           /\ out'[File("client", d)] = out[File("json", d)]
    BY <1>9 DEF RunCliHooks, Types, DreamTypes
  <2> QED
    BY <1>1, <1>2, <1>3, <2>1, <2>2 DEF Current, Fresh
<1>10. ASSUME NEW d \in Docs, ReadJson(c, d) PROVE Current(c)'
  <2>1. stage[c] = "dts" /\ UNCHANGED <<stage, loaded, todo, out>>
    BY <1>10 DEF ReadJson
  <2>2. \A e \in Docs : seen'[c][e] \in {seen[c][e], out[File("json", d)]}
    BY <1>10 DEF ReadJson
  <2>3. out[File("json", d)] >= since[c]
    BY <2>1 DEF Current
  <2>4. \A e \in Docs : seen'[c][e] >= since[c]
    BY <1>2, <2>2, <2>3
  <2>5. Fresh(since[c])'
    BY <1>1, <1>2, <1>3, <2>1, <2>4 DEF Fresh
  <2> QED
    BY <1>1, <2>1, <2>5 DEF Current
<1>11. ASSUME NEW d \in Docs, WriteDts(c, d) PROVE Current(c)'
  <2>1. /\ stage[c] = "dts" /\ stage'[c] = (IF todo[c] = {d} THEN "done" ELSE "dts")
        /\ out'[File("dts", d)] = seen[c][d]
        /\ \A f \in Files \ {File("dts", d)} : out'[f] = out[f]
        /\ todo'[c] = todo[c] \ {d}
        /\ todo[c] # {d} => UNCHANGED loaded
    BY <1>11 DEF WriteDts
  <2>2. \A e \in Docs : seen'[c][e] \in {seen[c][e], NotRead}
    BY <1>11 DEF WriteDts
  <2>3. \A e \in Docs \ todo'[c] : out'[File("dts", e)] >= since[c]
    BY <1>2, <2>1 DEF Current
  <2>4. /\ out'[Types] = out[Types] /\ out'[DreamTypes] = out[DreamTypes]
        /\ \A e \in Docs : /\ out'[File("json", e)] = out[File("json", e)]
                           /\ out'[File("client", e)] = out[File("client", e)]
    BY <2>1
  <2>5. todo[c] = {d} => todo'[c] = {}
    BY <2>1
  <2>6. Fresh(since[c])'
    <3>1. \A e \in Docs : seen'[c][e] >= since[c]
      BY <1>2, <1>4, <2>2, SMTT(60)
    <3>2. stage'[c] \in Active => loaded'[c] >= since[c]
      BY <1>2, <2>1 DEF Active
    <3> QED
      BY <1>1, <1>3, <3>1, <3>2 DEF Fresh
  <2> QED
    BY <1>1, <2>1, <2>3, <2>4, <2>5, <2>6 DEF Current
<1> QED
  BY <1>5, <1>6, <1>7, <1>8, <1>9, <1>10, <1>11 DEF WritesTs, WritesOther

\* The same for what it makes from the documents.
LEMMA OwnChain ==
  ASSUME WatchTypeOK, SyncTypeOK, NEW c \in Commands, WritesTs(c) \/ WritesOther(c),
         mode[c] = "full", Chained(c)
  PROVE  Chained(c)'
<1> USE VersionTypes, FileFacts DEF SyncTypeOK, Step, PastHooks, Active
<1>1. CASE DreamSync(c) \/ SyncTypes(c) \/ PostSync(c)
  BY <1>1 DEF DreamSync, SyncTypes, PostSync, Chained
<1>2. ASSUME NEW d \in Docs, SyncOpenapiJson(c, d) PROVE Chained(c)'
  BY <1>2 DEF SyncOpenapiJson, Chained
<1>3. CASE RunCliHooks(c)
  <2>1. stage[c] = "hooks" /\ stage'[c] = "dts" /\ todo'[c] = Docs /\ UNCHANGED seen
    BY <1>3 DEF RunCliHooks
  <2>2. \A d \in Docs : /\ out'[File("json", d)] = out[File("json", d)]
                        /\ out'[File("client", d)] = out[File("json", d)]
    BY <1>3 DEF RunCliHooks
  <2> QED
    BY <2>1, <2>2 DEF Chained
<1>4. ASSUME NEW d \in Docs, ReadJson(c, d) PROVE Chained(c)'
  <2>1. stage[c] = "dts" /\ UNCHANGED <<stage, todo, out>>
    BY <1>4 DEF ReadJson
  <2>2. \A e \in Docs : seen'[c][e] = IF e = d THEN out[File("json", d)] ELSE seen[c][e]
    BY <1>4 DEF ReadJson
  <2>3. \A e \in todo[c] : seen'[c][e] \in {NotRead, out[File("json", e)]}
    BY <2>1, <2>2, SMTT(60) DEF Chained
  <2> QED
    BY <2>1, <2>3 DEF Chained
<1>5. ASSUME NEW d \in Docs, WriteDts(c, d) PROVE Chained(c)'
  <2>1. /\ stage[c] = "dts" /\ stage'[c] = (IF todo[c] = {d} THEN "done" ELSE "dts")
        /\ d \in todo[c] /\ seen[c][d] # NotRead
        /\ out'[File("dts", d)] = seen[c][d]
        /\ \A f \in Files \ {File("dts", d)} : out'[f] = out[f]
        /\ todo'[c] = todo[c] \ {d}
    BY <1>5 DEF WriteDts
  <2>2. \A e \in Docs : seen'[c][e] = IF e = d THEN NotRead ELSE seen[c][e]
    BY <1>5 DEF WriteDts
  <2>3. \A e \in Docs : /\ out'[File("json", e)] = out[File("json", e)]
                        /\ out'[File("client", e)] = out[File("client", e)]
    BY <2>1
  <2>4. \A e \in Docs \ todo'[c] : out'[File("dts", e)] = out'[File("json", e)]
    BY <2>1, <2>3 DEF Chained
  <2>5. todo[c] = {d} => todo'[c] = {}
    BY <2>1
  <2> QED
    BY <2>1, <2>2, <2>3, <2>4, <2>5 DEF Chained
<1> QED
  BY <1>1, <1>2, <1>3, <1>4, <1>5 DEF WritesTs, WritesOther

\* A step of a command keeps the files' invariant, whosever it is.
LEMMA ProgressFiles ==
  ASSUME WatchTypeOK, SyncTypeOK, FilesInv, NEW c \in Commands, UNCHANGED edits,
         WritesTs(c) \/ WritesOther(c) \/ FailSync(c)
  PROVE  FilesInv'
<1> USE ProgressStages, ProgressFrame, VersionTypes
<1>1. AloneInv'
  <2>1. \A o \in Commands : stage'[o] \in Active => stage[o] \in Active
    OBVIOUS
  <2> QED
    BY <2>1 DEF FilesInv, AloneInv, OthersRest
<1>2. FailSync(c) => stage'[c] = "failed"
  BY DEF FailSync, SyncTypeOK
<1>3. ASSUME NEW o \in Commands, Full(o)', alone'[o] PROVE Current(o)'
  <2>1. CASE o = c
    <3>1. ~FailSync(c)
      BY <1>2, <1>3, <2>1 DEF Full, Active
    <3>2. mode[c] = "full" /\ OthersRest(c) /\ Current(c)
      BY <1>3, <2>1, <3>1 DEF Full, FilesInv, AloneInv, CurrentInv
    <3> QED
      BY <2>1, <3>1, <3>2, OwnStep
  <2>2. CASE o # c
    <3>1. alone[o] /\ stage[o] = "done" /\ Full(o)
      BY <1>3, <2>2 DEF Full, FilesInv, AloneInv, OthersRest
    <3>2. Current(o) /\ \A f \in Files : out[f] >= since[o]
      BY <3>1, DoneCurrent DEF FilesInv, CurrentInv
    <3>3. Fresh(since[o])' /\ \A f \in Files : out'[f] >= since[o]
      <4>1. PICK v \in Nat : v = since[o]
        OBVIOUS
      <4>2. v <= edits /\ v <= MaxEdits /\ Fresh(v) /\ \A f \in Files : out[f] >= v
        BY <3>2, <4>1 DEF Current
      <4>3. Fresh(v)' /\ \A f \in Files : out'[f] >= v
        BY <4>2, FreshKept
      <4> QED
        BY <2>2, <4>1, <4>3
    <3> QED
      BY <2>2, <3>1, <3>2, <3>3, FileFacts
      DEF Current, PastDream, PastTypes, PastJson, PastHooks
  <2> QED
    BY <2>1, <2>2
<1>4. ChainInv'
  <2> SUFFICES ASSUME Full(latest)', alone'[latest'] PROVE Chained(latest)'
    BY DEF ChainInv
  <2>1. latest' = latest /\ c = latest /\ ~FailSync(c)
    BY <1>2 DEF FilesInv, AloneInv, OthersRest, SyncTypeOK, Full, Active
  <2>2. mode[c] = "full" /\ Chained(c)
    BY <2>1 DEF FilesInv, ChainInv, Full
  <2> QED
    BY <2>1, <2>2, OwnChain DEF Chained
<1> QED
  BY <1>1, <1>3, <1>4 DEF FilesInv, CurrentInv

LEMMA InitFiles == SyncInit => FilesInv
  BY DEF SyncInit, FilesInv, AloneInv, OthersRest, CurrentInv, ChainInv, Full, Active, Commands

\* An edit, or anything the watcher does but to start a command, leaves files
\* and commands alone.
LEMMA RestFiles ==
  ASSUME WatchTypeOK, SyncTypeOK, FilesInv, UNCHANGED pipeVars, edits' \in {edits, edits + 1}
  PROVE  FilesInv'
<1>1. ASSUME NEW c \in Commands, Current(c) PROVE Current(c)'
  <2>1. since[c] <= edits'
    BY <1>1, VersionTypes DEF Current
  <2> QED
    BY <1>1, <2>1 DEF pipeVars, Current, Fresh
<1> QED
  BY <1>1 DEF FilesInv, pipeVars, AloneInv, OthersRest, CurrentInv, ChainInv, Chained, Full

\* The files' invariant holds in every reachable state.
THEOREM FilesInvariant == SyncSpec => []FilesInv
<1>1. WatcherInv /\ FilesInv /\ [SyncNext]_syncVars => FilesInv'
  <2> SUFFICES ASSUME WatcherInv, FilesInv, [SyncNext]_syncVars PROVE FilesInv'
    OBVIOUS
  <2>1. WatchTypeOK /\ SyncTypeOK /\ edits \in Nat
    BY WatcherAssumption DEF WatcherInv, WatchTypeOK
  <2>2. ASSUME UNCHANGED pipeVars,
               Edit \/ (\E e \in events : Event(e)) \/ Cooled \/ WatcherEnds \/ UNCHANGED watchVars
        PROVE  FilesInv'
    <3>1. edits' \in {edits, edits + 1}
      BY <2>2 DEF Edit, Event, Cooled, WatcherEnds, SyncEnds, watchVars
    <3> QED
      BY <2>1, <2>2, <3>1, RestFiles
  <2>3. CASE WatcherFires
    BY <2>1, <2>3, BeginFiles DEF WatcherFires, TimerFires, Commands, Modes
  <2>4. ASSUME NEW c \in ByHand, RunByHand(c) PROVE FilesInv'
    BY <2>1, <2>4, BeginFiles DEF RunByHand, watchVars, Commands
  <2>5. ASSUME NEW c \in Commands, Progress(c) \/ Fails(c) PROVE FilesInv'
    <3>1. WritesTs(c) \/ WritesOther(c) \/ FailSync(c)
      BY <2>5 DEF Progress, Fails
    <3>2. UNCHANGED edits
      BY <2>5 DEF Progress, Fails, watchVars
    <3> QED
      BY <2>1, <3>1, <3>2, ProgressFiles
  <2>6. CASE UNCHANGED syncVars
    BY <2>2, <2>6 DEF syncVars
  <2>7. CASE WatcherEnds
    BY <2>2, <2>7 DEF WatcherEnds
  <2> QED
    BY <2>2, <2>3, <2>4, <2>5, <2>6, <2>7 DEF SyncNext
<1> QED
  BY InitFiles, WatcherInvariant, <1>1, PTL DEF SyncSpec

\* Whatever failed before, and is edited, synced or fails after it: what a
\* complete sync that ran alone wrote is no older than the sources it began
\* from, and its clients and types are those of its documents.
THEOREM CompleteSyncAlwaysCurrent == SyncSpec => []CompleteSyncIsCurrent
<1>1. SyncTypeOK /\ FilesInv => CompleteSyncIsCurrent
  <2> SUFFICES ASSUME SyncTypeOK, FilesInv PROVE CompleteSyncIsCurrent
    OBVIOUS
  <2>1. ASSUME NEW c \in Commands, Complete(c), alone[c] PROVE \A f \in Files : out[f] >= since[c]
    BY <2>1, DoneCurrent DEF Complete, FilesInv, CurrentInv, Full
  <2>2. ASSUME Complete(latest), alone[latest], NEW d \in Docs
        PROVE  /\ out[File("client", d)] = out[File("json", d)]
               /\ out[File("dts", d)] = out[File("json", d)]
    BY <2>2 DEF Complete, FilesInv, ChainInv, Chained, Full, PastHooks
  <2> QED
    BY <2>1, <2>2 DEF CompleteSyncIsCurrent
<1> QED
  BY WatcherInvariant, FilesInvariant, <1>1, PTL DEF WatcherInv

(***************************************************************************)
(* The life of a server                                                    *)
(***************************************************************************)
USE DEF StartPcs, ConnStates, Pcs

\* Destroying sockets leaves none open and stays within their states.
LEMMA DestroyedFacts ==
    ASSUME NEW s \in ConnStates
    PROVE  /\ Destroyed(s) \in ConnStates
           /\ ~Open(Destroyed(s))
           /\ Destroyed(s) = "cut" => s \in {"active", "cut"}
           /\ s = "none" => Destroyed(s) = "none"
BY DEF Destroyed, Open

\* A booting server with no run in progress has its type.
LEMMA InitTypeOK == Init => TypeOK
<1> SUFFICES ASSUME Init PROVE TypeOK
  OBVIOUS
<1> USE LifecycleAssumption DEF LifecycleAssumption, Init
<1>1. /\ exitIn \in [Runs -> 0..ShutdownTimeout]
      /\ forceIn \in [Runs -> 0..GracePeriod]
      /\ hook \in [Runs -> 0..NStopHooks]
  OBVIOUS
<1>2. /\ startHook \in 0..NStartHooks
      /\ waited \in 0..ShutdownTimeout
      /\ sinceClose \in 0..GracePeriod
  OBVIOUS
<1>3. /\ conn \in [Conns -> ConnStates]
      /\ pc \in [Runs -> Pcs]
      /\ kind \in [Runs -> {"signal", "call"}]
      /\ bypass \in [Runs -> BOOLEAN]
  OBVIOUS
<1> QED
  BY <1>1, <1>2, <1>3 DEF TypeOK

\* Every step keeps every variable in its type.
LEMMA StepTypeOK == TypeOK /\ DeadlineKept /\ [Next]_vars => TypeOK'
<1> SUFFICES ASSUME TypeOK, DeadlineKept, [Next]_vars PROVE TypeOK'
  OBVIOUS
<1> USE LifecycleAssumption DEF LifecycleAssumption, TypeOK, runVars, startVars, history
<1>0. CASE UNCHANGED vars
  BY <1>0 DEF vars
<1>1. CASE Boot
  BY <1>1 DEF Boot
<1>2. CASE Bind
  BY <1>2 DEF Bind
<1>3. CASE StartHook
  BY <1>3 DEF StartHook
<1>4. CASE RegisterHandlers
  BY <1>4 DEF RegisterHandlers
<1>5. CASE Peer
  BY <1>5 DEF Peer, Connect, Request, Respond, Disconnect
<1>6. ASSUME NEW r \in Runs, Stop(r) PROVE TypeOK'
  <2>1. CASE Signal(r)
    BY <2>1, DestroyedFacts DEF Signal
  <2>2. CASE CallStop(r)
    BY <2>2 DEF CallStop
  <2>3. CASE StopHook(r)
    BY <2>3, DestroyedFacts DEF StopHook, Throw, Exit
  <2>4. CASE CloseServer(r)
    BY <2>4 DEF CloseServer
  <2>5. CASE ForceClose(r)
    BY <2>5, DestroyedFacts DEF ForceClose
  <2>6. CASE Drained(r)
    BY <2>6 DEF Drained
  <2>7. CASE SkipServer(r) \/ ReleaseDb(r)
    BY <2>7, DestroyedFacts DEF SkipServer, ReleaseDb, Release, Finish, Exit
  <2>8. CASE DbReleased(r)
    BY <2>8, DestroyedFacts DEF DbReleased, Finish, Throw, Exit
  <2>9. CASE ExitTimeout(r)
    BY <2>9, DestroyedFacts DEF ExitTimeout, Exit
  <2> QED
    BY <1>6, <2>1, <2>2, <2>3, <2>4, <2>5, <2>6, <2>7, <2>8, <2>9 DEF Stop
<1>7. CASE Tick
  <2>1. waited' \in 0..ShutdownTimeout
    BY <1>7 DEF Tick, Signalled, DeadlineKept, AwaitsExit
  <2>2. /\ exitIn' \in [Runs -> 0..ShutdownTimeout]
        /\ forceIn' \in [Runs -> 0..GracePeriod]
    BY <1>7 DEF Tick, Dec
  <2>3. sinceClose' \in 0..GracePeriod
    BY <1>7 DEF Tick
  <2> QED
    BY <1>7, <2>1, <2>2, <2>3 DEF Tick
<1> QED
  BY <1>0, <1>1, <1>2, <1>3, <1>4, <1>5, <1>6, <1>7 DEF Next

(***************************************************************************)
(* The inductive invariant.                                                *)
(***************************************************************************)

\* No peer has a connection open and none can open one any more.
PeersGone == /\ server # "listening"
             /\ startPc \notin {"booting", "binding"}
             /\ \A c \in Conns : ~Open(conn[c])

\* There is a server once start() has bound it, whatever stop() did before.
StartInv ==
    /\ startPc \in {"booting", "binding"} => server = "none"
    /\ startPc \in {"hooks", "started"} => server # "none"
    /\ handlers => startPc = "started"
    /\ server = "none" => \A c \in Conns : conn[c] = "none"
    /\ server = "closed" => PeersGone

\* What a run may rely on, by how far it got.
RunInv ==
    \A r \in Runs :
        /\ pc[r] = "drain" => StoppedListening
        /\ pc[r] = "db" => server = "closed"
        /\ pc[r] = "closingDb" => db = "closed"
        /\ pc[r] \in {"drain", "db", "closingDb"} => hook[r] = NStopHooks
        /\ pc[r] = "off" => ~bypass[r] /\ kind[r] = "call"
        /\ kind[r] = "signal" => ~bypass[r] /\ handlers
        /\ kind[r] = "signal" /\ pc[r] \in {"db", "closingDb"} => server = "closed"

\* The database is closed after every peer has gone, or before one could come:
\* if start() binds the server after all, it is overtaken.
DbInv ==
    /\ db = "closed" => PeersGone \/ server = "none" \/ overtaken
    /\ overtaken => db = "closed" /\ server # "none"

\* The first handled signal's run is never over while the process is up.
FirstSignal == \E r \in Runs : AwaitsExit(r) /\ exitIn[r] + waited = ShutdownTimeout
DeadlineInv == proc = "up" => (~Signalled /\ waited = 0) \/ FirstSignal

\* A run's force timer never runs ahead of the time since the server closed.
GraceInv ==
    /\ \A r \in Runs : pc[r] = "drain" => forceIn[r] + sinceClose >= GracePeriod
    /\ proc = "up" /\ (\E c \in Conns : conn[c] = "cut") => StoppedListening

ServerIInv == /\ TypeOK /\ StartInv /\ RunInv /\ DbInv /\ DeadlineInv /\ GraceInv
        /\ GraceRespected /\ SuccessIsComplete

\* A server that start() bound stays one, and a closed one has no peers.
LEMMA StepStartInv == TypeOK /\ StartInv /\ RunInv /\ [Next]_vars => StartInv'
<1> SUFFICES ASSUME TypeOK, StartInv, RunInv, [Next]_vars PROVE StartInv'
  OBVIOUS
<1> USE DestroyedFacts DEF TypeOK, runVars, startVars, history, StartInv, RunInv, PeersGone, Open, StoppedListening
<1>0. CASE UNCHANGED vars
  BY <1>0 DEF vars
<1>1. CASE Boot
  BY <1>1 DEF Boot
<1>2. CASE Bind
  BY <1>2 DEF Bind
<1>3. CASE StartHook
  BY <1>3 DEF StartHook
<1>4. CASE RegisterHandlers
  BY <1>4 DEF RegisterHandlers
<1>5. CASE Peer
  BY <1>5 DEF Peer, Connect, Request, Respond, Disconnect
<1>6. ASSUME NEW s \in Runs, Stop(s) PROVE StartInv'
  <2>1. CASE Signal(s)
    BY <2>1 DEF Signal
  <2>2. CASE CallStop(s)
    BY <2>2 DEF CallStop
  <2>3. CASE StopHook(s)
    BY <2>3 DEF StopHook, Throw, Exit
  <2>4. CASE CloseServer(s)
    BY <2>4 DEF CloseServer
  <2>5. CASE ForceClose(s)
    BY <2>5 DEF ForceClose
  <2>6. CASE Drained(s)
    BY <2>6 DEF Drained
  <2>7. CASE SkipServer(s) \/ ReleaseDb(s)
    BY <2>7 DEF SkipServer, ReleaseDb, Release, Finish, Exit
  <2>8. CASE DbReleased(s)
    BY <2>8 DEF DbReleased, Finish, Throw, Exit
  <2>9. CASE ExitTimeout(s)
    BY <2>9 DEF ExitTimeout, Exit
  <2> QED
    BY <1>6, <2>1, <2>2, <2>3, <2>4, <2>5, <2>6, <2>7, <2>8, <2>9 DEF Stop
<1>7. CASE Tick
  BY <1>7 DEF Tick
<1> QED
  BY <1>0, <1>1, <1>2, <1>3, <1>4, <1>5, <1>6, <1>7 DEF Next

\* Every step keeps what each run relies on.
LEMMA StepRunInv == TypeOK /\ StartInv /\ RunInv /\ [Next]_vars => RunInv'
<1> SUFFICES ASSUME TypeOK, StartInv, RunInv, [Next]_vars PROVE RunInv'
  OBVIOUS
<1> USE DestroyedFacts DEF TypeOK, runVars, startVars, history, StartInv, RunInv, PeersGone, Open, StoppedListening
<1>0. CASE UNCHANGED vars
  BY <1>0 DEF vars
<1>1. CASE Boot
  BY <1>1 DEF Boot
<1>2. CASE Bind
  BY <1>2 DEF Bind
<1>3. CASE StartHook
  BY <1>3 DEF StartHook
<1>4. CASE RegisterHandlers
  BY <1>4 DEF RegisterHandlers
<1>5. CASE Peer
  BY <1>5 DEF Peer, Connect, Request, Respond, Disconnect
<1>6. ASSUME NEW s \in Runs, Stop(s) PROVE RunInv'
  <2>1. CASE Signal(s)
    BY <2>1 DEF Signal
  <2>2. CASE CallStop(s)
    BY <2>2 DEF CallStop
  <2>3. CASE StopHook(s)
    BY <2>3 DEF StopHook, Throw, Exit
  <2>4. CASE CloseServer(s)
    BY <2>4 DEF CloseServer
  <2>5. CASE ForceClose(s)
    BY <2>5 DEF ForceClose
  <2>6. CASE Drained(s)
    BY <2>6 DEF Drained
  <2>7. CASE SkipServer(s) \/ ReleaseDb(s)
    BY <2>7 DEF SkipServer, ReleaseDb, Release, Finish, Exit
  <2>8. CASE DbReleased(s)
    BY <2>8 DEF DbReleased, Finish, Throw, Exit
  <2>9. CASE ExitTimeout(s)
    BY <2>9 DEF ExitTimeout, Exit
  <2> QED
    BY <1>6, <2>1, <2>2, <2>3, <2>4, <2>5, <2>6, <2>7, <2>8, <2>9 DEF Stop
<1>7. CASE Tick
  BY <1>7 DEF Tick
<1> QED
  BY <1>0, <1>1, <1>2, <1>3, <1>4, <1>5, <1>6, <1>7 DEF Next

\* The database is only closed with every peer gone, and none comes back,
\* or before the server is bound.
LEMMA StepDbInv == TypeOK /\ StartInv /\ RunInv /\ DbInv /\ [Next]_vars => DbInv'
<1> SUFFICES ASSUME TypeOK, StartInv, RunInv, DbInv, [Next]_vars PROVE DbInv'
  OBVIOUS
<1> USE DestroyedFacts DEF TypeOK, runVars, startVars, history, StartInv, RunInv, DbInv, PeersGone, Open
<1>0. CASE UNCHANGED vars
  BY <1>0 DEF vars
<1>1. CASE Boot
  BY <1>1 DEF Boot
<1>2. CASE Bind
  <2>1. server = "none" /\ ~overtaken /\ db' = db
    BY <1>2 DEF Bind
  <2>2. server' = "none" \/ (overtaken' <=> db = "closed")
    BY <1>2, <2>1 DEF Bind
  <2>3. overtaken' => db = "closed" /\ server' # "none"
    BY <1>2, <2>1, Zenon DEF Bind
  <2> QED
    BY <2>1, <2>2, <2>3
<1>3. CASE StartHook
  BY <1>3 DEF StartHook
<1>4. CASE RegisterHandlers
  BY <1>4 DEF RegisterHandlers
<1>5. CASE Peer
  BY <1>5 DEF Peer, Connect, Request, Respond, Disconnect
<1>6. ASSUME NEW s \in Runs, Stop(s) PROVE DbInv'
  <2>1. CASE Signal(s)
    BY <2>1 DEF Signal
  <2>2. CASE CallStop(s)
    BY <2>2 DEF CallStop
  <2>3. CASE StopHook(s)
    BY <2>3 DEF StopHook, Throw, Exit
  <2>4. CASE CloseServer(s)
    BY <2>4 DEF CloseServer
  <2>5. CASE ForceClose(s)
    BY <2>5 DEF ForceClose
  <2>6. CASE Drained(s)
    BY <2>6 DEF Drained, StoppedListening
  <2>7. CASE SkipServer(s) \/ ReleaseDb(s)
    BY <2>7 DEF SkipServer, ReleaseDb, Release, Finish, Exit
  <2>8. CASE DbReleased(s)
    BY <2>8 DEF DbReleased, Finish, Throw, Exit
  <2>9. CASE ExitTimeout(s)
    BY <2>9 DEF ExitTimeout, Exit
  <2> QED
    BY <1>6, <2>1, <2>2, <2>3, <2>4, <2>5, <2>6, <2>7, <2>8, <2>9 DEF Stop
<1>7. CASE Tick
  BY <1>7 DEF Tick
<1> QED
  BY <1>0, <1>1, <1>2, <1>3, <1>4, <1>5, <1>6, <1>7 DEF Next

\* Some run always honours the first signal's deadline.
LEMMA StepDeadlineInv == TypeOK /\ RunInv /\ DeadlineInv /\ [Next]_vars => DeadlineInv'
<1> SUFFICES ASSUME TypeOK, RunInv, DeadlineInv, [Next]_vars PROVE DeadlineInv'
  OBVIOUS
<1> USE LifecycleAssumption DEF TypeOK, runVars, startVars, history, RunInv, DeadlineInv, FirstSignal, Signalled, AwaitsExit, Live
<1>0. CASE UNCHANGED vars
  BY <1>0 DEF vars
<1>1. CASE Boot
  BY <1>1 DEF Boot
<1>2. CASE Bind
  BY <1>2 DEF Bind
<1>3. CASE StartHook
  BY <1>3 DEF StartHook
<1>4. CASE RegisterHandlers
  BY <1>4 DEF RegisterHandlers
<1>5. CASE Peer
  BY <1>5 DEF Peer, Connect, Request, Respond, Disconnect
<1>6. ASSUME NEW s \in Runs, Stop(s) PROVE DeadlineInv'
  <2>1. CASE Signal(s)
    BY <2>1 DEF Signal
  <2>2. CASE CallStop(s)
    BY <2>2 DEF CallStop
  <2>3. CASE StopHook(s)
    BY <2>3 DEF StopHook, Throw, Exit
  <2>4. CASE CloseServer(s)
    BY <2>4 DEF CloseServer
  <2>5. CASE ForceClose(s)
    BY <2>5 DEF ForceClose
  <2>6. CASE Drained(s)
    BY <2>6 DEF Drained
  <2>7. CASE SkipServer(s) \/ ReleaseDb(s)
    BY <2>7 DEF SkipServer, ReleaseDb, Release, Finish, Exit
  <2>8. CASE DbReleased(s)
    BY <2>8 DEF DbReleased, Finish, Throw, Exit
  <2>9. CASE ExitTimeout(s)
    BY <2>9 DEF ExitTimeout, Exit
  <2> QED
    BY <1>6, <2>1, <2>2, <2>3, <2>4, <2>5, <2>6, <2>7, <2>8, <2>9 DEF Stop
<1>7. CASE Tick
  BY <1>7 DEF Tick, Dec
<1> QED
  BY <1>0, <1>1, <1>2, <1>3, <1>4, <1>5, <1>6, <1>7 DEF Next

\* Force timers never run ahead of the time since the server closed.
LEMMA StepGraceInv == TypeOK /\ StartInv /\ RunInv /\ GraceInv /\ [Next]_vars => GraceInv'
<1> SUFFICES ASSUME TypeOK, StartInv, RunInv, GraceInv, [Next]_vars PROVE GraceInv'
  OBVIOUS
<1> USE LifecycleAssumption, DestroyedFacts DEF TypeOK, runVars, startVars, history, StartInv, RunInv, PeersGone, GraceInv, Open, StoppedListening
<1>0. CASE UNCHANGED vars
  BY <1>0 DEF vars
<1>1. CASE Boot
  BY <1>1 DEF Boot
<1>2. CASE Bind
  BY <1>2 DEF Bind
<1>3. CASE StartHook
  BY <1>3 DEF StartHook
<1>4. CASE RegisterHandlers
  BY <1>4 DEF RegisterHandlers
<1>5. CASE Peer
  BY <1>5 DEF Peer, Connect, Request, Respond, Disconnect
<1>6. ASSUME NEW s \in Runs, Stop(s) PROVE GraceInv'
  <2>1. CASE Signal(s)
    BY <2>1 DEF Signal
  <2>2. CASE CallStop(s)
    BY <2>2 DEF CallStop
  <2>3. CASE StopHook(s)
    BY <2>3 DEF StopHook, Throw, Exit
  <2>4. CASE CloseServer(s)
    BY <2>4 DEF CloseServer
  <2>5. CASE ForceClose(s)
    BY <2>5 DEF ForceClose
  <2>6. CASE Drained(s)
    BY <2>6 DEF Drained
  <2>7. CASE SkipServer(s) \/ ReleaseDb(s)
    BY <2>7 DEF SkipServer, ReleaseDb, Release, Finish, Exit
  <2>8. CASE DbReleased(s)
    BY <2>8 DEF DbReleased, Finish, Throw, Exit
  <2>9. CASE ExitTimeout(s)
    BY <2>9 DEF ExitTimeout, Exit
  <2> QED
    BY <1>6, <2>1, <2>2, <2>3, <2>4, <2>5, <2>6, <2>7, <2>8, <2>9 DEF Stop
<1>7. CASE Tick
  BY <1>7 DEF Tick, Dec
<1> QED
  BY <1>0, <1>1, <1>2, <1>3, <1>4, <1>5, <1>6, <1>7 DEF Next

\* A request is only cut once the grace period is over.
LEMMA StepGraceRespected == TypeOK /\ StartInv /\ RunInv /\ GraceInv /\ GraceRespected /\ [Next]_vars => GraceRespected'
<1> SUFFICES ASSUME TypeOK, StartInv, RunInv, GraceInv, GraceRespected, [Next]_vars PROVE GraceRespected'
  OBVIOUS
<1> USE LifecycleAssumption, DestroyedFacts DEF TypeOK, runVars, startVars, history, StartInv, RunInv, PeersGone, GraceInv, GraceRespected, Open, StoppedListening
<1>0. CASE UNCHANGED vars
  BY <1>0 DEF vars
<1>1. CASE Boot
  BY <1>1 DEF Boot
<1>2. CASE Bind
  BY <1>2 DEF Bind
<1>3. CASE StartHook
  BY <1>3 DEF StartHook
<1>4. CASE RegisterHandlers
  BY <1>4 DEF RegisterHandlers
<1>5. CASE Peer
  BY <1>5 DEF Peer, Connect, Request, Respond, Disconnect
<1>6. ASSUME NEW s \in Runs, Stop(s) PROVE GraceRespected'
  <2>1. CASE Signal(s)
    BY <2>1 DEF Signal
  <2>2. CASE CallStop(s)
    BY <2>2 DEF CallStop
  <2>3. CASE StopHook(s)
    BY <2>3 DEF StopHook, Throw, Exit
  <2>4. CASE CloseServer(s)
    BY <2>4 DEF CloseServer
  <2>5. CASE ForceClose(s)
    BY <2>5 DEF ForceClose
  <2>6. CASE Drained(s)
    BY <2>6 DEF Drained
  <2>7. CASE SkipServer(s) \/ ReleaseDb(s)
    BY <2>7 DEF SkipServer, ReleaseDb, Release, Finish, Exit
  <2>8. CASE DbReleased(s)
    BY <2>8 DEF DbReleased, Finish, Throw, Exit
  <2>9. CASE ExitTimeout(s)
    BY <2>9 DEF ExitTimeout, Exit
  <2> QED
    BY <1>6, <2>1, <2>2, <2>3, <2>4, <2>5, <2>6, <2>7, <2>8, <2>9 DEF Stop
<1>7. CASE Tick
  BY <1>7 DEF Tick
<1> QED
  BY <1>0, <1>1, <1>2, <1>3, <1>4, <1>5, <1>6, <1>7 DEF Next

\* Exit code 0 is only reported by a run that completed stop().
LEMMA StepSuccessIsComplete == TypeOK /\ RunInv /\ SuccessIsComplete /\ [Next]_vars => SuccessIsComplete'
<1> SUFFICES ASSUME TypeOK, RunInv, SuccessIsComplete, [Next]_vars PROVE SuccessIsComplete'
  OBVIOUS
<1> USE LifecycleAssumption DEF TypeOK, runVars, startVars, history, RunInv, SuccessIsComplete
<1>0. CASE UNCHANGED vars
  BY <1>0 DEF vars
<1>1. CASE Boot
  BY <1>1 DEF Boot
<1>2. CASE Bind
  BY <1>2 DEF Bind
<1>3. CASE StartHook
  BY <1>3 DEF StartHook
<1>4. CASE RegisterHandlers
  BY <1>4 DEF RegisterHandlers
<1>5. CASE Peer
  BY <1>5 DEF Peer, Connect, Request, Respond, Disconnect
<1>6. ASSUME NEW s \in Runs, Stop(s) PROVE SuccessIsComplete'
  <2>1. CASE Signal(s)
    BY <2>1 DEF Signal
  <2>2. CASE CallStop(s)
    BY <2>2 DEF CallStop
  <2>3. CASE StopHook(s)
    BY <2>3 DEF StopHook, Throw, Exit
  <2>4. CASE CloseServer(s)
    BY <2>4 DEF CloseServer
  <2>5. CASE ForceClose(s)
    BY <2>5 DEF ForceClose
  <2>6. CASE Drained(s)
    BY <2>6 DEF Drained
  <2>7. CASE SkipServer(s) \/ ReleaseDb(s)
    BY <2>7 DEF SkipServer, ReleaseDb, Release, Finish, Exit
  <2>8. CASE DbReleased(s)
    BY <2>8 DEF DbReleased, Finish, Throw, Exit
  <2>9. CASE ExitTimeout(s)
    BY <2>9 DEF ExitTimeout, Exit
  <2> QED
    BY <1>6, <2>1, <2>2, <2>3, <2>4, <2>5, <2>6, <2>7, <2>8, <2>9 DEF Stop
<1>7. CASE Tick
  BY <1>7 DEF Tick
<1> QED
  BY <1>0, <1>1, <1>2, <1>3, <1>4, <1>5, <1>6, <1>7 DEF Next

\* The inductive invariant holds of a server that has not booted.
LEMMA ServerInitially == Init => ServerIInv
<1> SUFFICES ASSUME Init PROVE ServerIInv
  OBVIOUS
<1>1. TypeOK
  BY InitTypeOK
<1>2. /\ \A c \in Conns : conn[c] = "none"
      /\ \A r \in Runs : pc[r] = "off" /\ kind[r] = "call" /\ bypass[r] = FALSE
  BY DEF Init
<1>3. StartInv /\ DbInv
  BY <1>2 DEF Init, StartInv, DbInv
<1>4. RunInv
  BY <1>2 DEF RunInv
<1>5. DeadlineInv
  BY <1>2 DEF Init, DeadlineInv, Signalled, AwaitsExit
<1>6. GraceInv /\ GraceRespected
  BY <1>2 DEF Init, GraceInv, GraceRespected
<1>7. SuccessIsComplete
  BY DEF Init, SuccessIsComplete
<1> QED
  BY <1>1, <1>3, <1>4, <1>5, <1>6, <1>7 DEF ServerIInv

\* Every step of start(), stop(), the peers and the clock keeps the invariant.
LEMMA ServerStep == ServerIInv /\ [Next]_vars => ServerIInv'
<1>1. ServerIInv => DeadlineKept
  BY DEF ServerIInv, DeadlineInv, DeadlineKept, FirstSignal
<1> QED
  BY <1>1, StepTypeOK, StepStartInv, StepRunInv, StepDbInv, StepDeadlineInv, StepGraceInv,
     StepGraceRespected, StepSuccessIsComplete DEF ServerIInv

\* The inductive invariant holds in every reachable state.
THEOREM ServerInvariant == Spec => []ServerIInv
<1>1. Init => ServerIInv
  BY ServerInitially
<1>2. ServerIInv /\ [Next]_vars => ServerIInv'
  BY ServerStep
<1> QED
  BY <1>1, <1>2, PTL DEF Spec

(***************************************************************************)
(* The properties of the model.                                            *)
(***************************************************************************)

\* start(), stop() and the signal handlers keep every variable in its type.
THEOREM ServerTypeCorrect == Spec => []TypeOK
<1>1. ServerIInv => TypeOK
  BY DEF ServerIInv
<1> QED
  BY <1>1, ServerInvariant, PTL

\* stop() never closes the database under an open connection, however many
\* stop() runs the program and the signals start, unless the server was bound
\* after a stop() had found none.
THEOREM DbOutlivesConnectionsAlways == Spec => []DbOutlivesConnections
<1>1. ServerIInv => DbOutlivesConnections
  BY DEF ServerIInv, DbInv, StartInv, PeersGone, Open, DbOutlivesConnections
<1> QED
  BY <1>1, ServerInvariant, PTL

\* Every request that is cut had gracefulShutdownTimeoutMillis to finish, or
\* the process reported a failure.
THEOREM GraceAlwaysRespected == Spec => []GraceRespected
<1>1. ServerIInv => GraceRespected
  BY DEF ServerIInv
<1> QED
  BY <1>1, ServerInvariant, PTL

\* Repeated signals never extend the deadline the first one started.
THEOREM DeadlineAlwaysKept == Spec => []DeadlineKept
<1>1. ServerIInv => DeadlineKept
  BY DEF ServerIInv, DeadlineInv, DeadlineKept, FirstSignal
<1> QED
  BY <1>1, ServerInvariant, PTL

\* process.exit(0) is only reached through a complete stop().
THEOREM SuccessAlwaysComplete == Spec => []SuccessIsComplete
<1>1. ServerIInv => SuccessIsComplete
  BY DEF ServerIInv
<1> QED
  BY <1>1, ServerInvariant, PTL

(***************************************************************************)
(* The server implements ShutdownContract.                                 *)
(***************************************************************************)

OpenConns == {c \in Conns : Open(conn[c])}

\* A step that ends the process with a failure is a step of the contract.
LEMMA FailMaps ==
    ASSUME proc = "up", proc' # "up", ~(proc' = "exited" /\ exitCode' = 0),
           OpenConns' = {}
    PROVE  Contract!Next
<1>1. Contract!Fail
  BY DEF Contract!Fail, Stage, Report, OpenConns
<1> QED
  BY <1>1 DEF Contract!Next

\* A step that leaves the stage alone and opens no connection is one too.
LEMMA EndMaps ==
    ASSUME Stage' = Stage, Report' = Report, OpenConns' \subseteq OpenConns,
           Stage \in {"serving", "draining", "overtaken"} \/ OpenConns' = OpenConns
    PROVE  [Contract!Next]_Contract!vars
<1>1. CASE OpenConns' = OpenConns
  BY <1>1 DEF Contract!vars, OpenConns
<1>2. CASE Stage \in {"serving", "draining", "overtaken"}
  <2>1. Contract!End
    BY <1>2, ZenonT(60) DEF Contract!End, OpenConns
  <2> QED
    BY <2>1 DEF Contract!Next
<1> QED
  BY <1>1, <1>2

\* Every step of the server is a step of the contract or leaves it alone.
LEMMA StepMaps == ServerIInv /\ [Next]_vars => [Contract!Next]_Contract!vars
<1> SUFFICES ASSUME ServerIInv, [Next]_vars PROVE [Contract!Next]_Contract!vars
  OBVIOUS
<1> USE DEF ServerIInv, TypeOK, runVars, startVars, history
<1>0. CASE UNCHANGED vars
  BY <1>0, EndMaps DEF vars, Stage, Report, OpenConns, StoppedListening
<1>1. CASE Boot \/ StartHook \/ RegisterHandlers \/ Tick
  BY <1>1, EndMaps
     DEF Boot, StartHook, RegisterHandlers, Tick, Stage, Report, OpenConns, StoppedListening
<1>2. CASE Bind
  <2>1. /\ proc = "up" /\ server = "none" /\ ~overtaken /\ Report' = Report
        /\ proc' = proc /\ db' = db /\ OpenConns' = OpenConns
    BY <1>2 DEF Bind, StartInv, DbInv, Report, OpenConns
  <2>2. CASE server' = "none"
    <3>1. UNCHANGED <<Stage, Report, OpenConns>>
      BY <1>2, <2>1, <2>2 DEF Bind, Stage, StoppedListening
    <3> QED
      BY <3>1, EndMaps
  <2>3. CASE server' = "listening" /\ db = "closed"
    <3>1. overtaken' = (db = "closed")
      BY <1>2, <2>1, <2>3 DEF Bind
    <3>2. overtaken'
      BY <2>3, <3>1, Zenon
    <3>3. Contract!ListenLate
      BY <2>1, <2>3, <3>2 DEF Contract!ListenLate, Stage, OpenConns
    <3> QED
      BY <3>3 DEF Contract!Next
  <2>4. CASE server' = "listening" /\ db = "open"
    <3>1. ~overtaken'
      BY <1>2, <2>1, <2>4 DEF Bind
    <3>2. Contract!Listen
      BY <2>1, <2>4, <3>1 DEF Contract!Listen, Stage, OpenConns, StoppedListening
    <3> QED
      BY <3>2 DEF Contract!Next
  <2>5. server' \in {"none", "listening"} /\ db \in {"open", "closed"}
    BY <1>2, <2>1 DEF Bind
  <2> QED
    BY <2>2, <2>3, <2>4, <2>5
<1>3. CASE Peer
  <2>1. PICK c \in Conns : Connect(c) \/ Request(c) \/ Respond(c) \/ Disconnect(c)
    BY <1>3 DEF Peer
  <2>2. CASE Connect(c)
    <3>1. Contract!Accept(c)
      BY <2>2 DEF Connect, Contract!Accept, Stage, Report, Open, StoppedListening, DbInv,
                  PeersGone
    <3> QED
      BY <3>1 DEF Contract!Next
  <2>3. CASE Request(c) \/ Respond(c)
    <3>1. UNCHANGED <<Stage, Report, OpenConns>>
      BY <2>3 DEF Request, Respond, Stage, Report, OpenConns, Open, StoppedListening
    <3> QED
      BY <3>1, EndMaps
  <2>4. CASE Disconnect(c)
    <3>1. /\ UNCHANGED <<Stage, Report>>
          /\ OpenConns' \subseteq OpenConns
          /\ Stage \in {"serving", "draining", "overtaken"}
      BY <2>4 DEF Disconnect, Stage, Report, OpenConns, Open, StoppedListening, DbInv,
                  PeersGone, StartInv
    <3> QED
      BY <3>1, EndMaps
  <2> QED
    BY <2>1, <2>2, <2>3, <2>4
<1>4. ASSUME NEW s \in Runs, Stop(s) PROVE [Contract!Next]_Contract!vars
  <2>0. CASE proc' # "up" /\ ~(proc' = "exited" /\ exitCode' = 0)
    <3>1. proc = "up" /\ OpenConns' = {}
      BY <1>4, <2>0, DestroyedFacts
         DEF Stop, Signal, CallStop, StopHook, CloseServer, ForceClose, Drained, SkipServer,
             ReleaseDb, Release, DbReleased, ExitTimeout, Finish, Throw, Exit, OpenConns
    <3> QED
      BY <2>0, <3>1, FailMaps
  <2>1. CASE proc' = "exited" /\ exitCode' = 0
    <3>1. proc = "up" /\ pc[s] \in {"db", "closingDb"} /\ kind[s] = "signal" /\ Finish(s)
      BY <1>4, <2>1
         DEF Stop, Signal, CallStop, StopHook, CloseServer, ForceClose, Drained, SkipServer,
             ReleaseDb, Release, DbReleased, ExitTimeout, Finish, Throw, Exit, RunInv
    <3>2. db = "closed" /\ server = "closed" /\ \A c \in Conns : ~Open(conn[c])
      BY <1>4, <2>1, <3>1
         DEF Stop, Signal, CallStop, StopHook, CloseServer, ForceClose, Drained, SkipServer,
             ReleaseDb, Release, DbReleased, ExitTimeout, Throw, Exit, RunInv, StartInv, PeersGone
    <3>3. OpenConns' = {} /\ OpenConns = {}
      BY <3>1, <3>2, DestroyedFacts DEF OpenConns, Finish, Exit
    <3>4. Contract!Succeed
      BY <2>1, <3>1, <3>2, <3>3 DEF Contract!Succeed, Stage, Report, OpenConns
    <3> QED
      BY <3>4 DEF Contract!Next
  <2>2. CASE proc' = "up"
    <3> USE <2>2 DEF Stage, Report, OpenConns, StoppedListening
    <3>1. CASE Signal(s) \/ CallStop(s) \/ StopHook(s) \/ DbReleased(s) \/ ExitTimeout(s)
      <4>1. UNCHANGED <<Stage, Report, OpenConns>>
        BY <3>1 DEF Signal, CallStop, StopHook, DbReleased, ExitTimeout, Finish, Throw, Exit
      <4> QED
        BY <4>1, EndMaps
    <3>2. CASE CloseServer(s)
      <4> DEFINE idle == {c \in Conns : conn[c] = "idle"}
      <4>1. idle \in SUBSET OpenConns /\ OpenConns' = OpenConns \ idle
        BY <3>2 DEF CloseServer, Open
      <4>2. CASE server = "listening" /\ ~overtaken
        <5>1. Stage = "serving" /\ Stage' = "draining" /\ Report' = Report
          BY <3>2, <4>2 DEF CloseServer, DbInv, PeersGone
        <5>2. Contract!Refuse
          BY <4>1, <5>1 DEF Contract!Refuse
        <5> QED
          BY <5>2 DEF Contract!Next
      <4>3. CASE server # "listening" /\ ~overtaken /\ db = "closed"
        <5>1. UNCHANGED <<Stage, Report, OpenConns>>
          BY <3>2, <4>3 DEF CloseServer, Open, DbInv, PeersGone
        <5> QED
          BY <5>1, EndMaps
      <4>4. CASE overtaken \/ (server \in {"closing", "closed"} /\ db = "open")
        <5>1. UNCHANGED <<Stage, Report>> /\ Stage \in {"draining", "overtaken"}
          BY <3>2, <4>4 DEF CloseServer, DbInv
        <5> QED
          BY <4>1, <5>1, EndMaps
      <4> QED
        BY <3>2, <4>2, <4>3, <4>4 DEF CloseServer
    <3>3. CASE ForceClose(s)
      <4>1. /\ UNCHANGED <<Stage, Report>>
            /\ OpenConns' = {}
            /\ Stage \in {"serving", "draining", "overtaken"}
        BY <3>3, DestroyedFacts DEF ForceClose, RunInv, DbInv, PeersGone
      <4> QED
        BY <4>1, EndMaps
    <3>4. CASE Drained(s)
      <4>1. UNCHANGED <<Stage, Report, OpenConns>>
        BY <3>4 DEF Drained, RunInv
      <4> QED
        BY <4>1, EndMaps
    <3>5. CASE ReleaseDb(s)
      <4>1. OpenConns = {} /\ OpenConns' = OpenConns /\ server = "closed"
        BY <3>5 DEF ReleaseDb, Release, Finish, Exit, RunInv, StartInv, PeersGone
      <4>2. Contract!Release \/ UNCHANGED <<Stage, Report, OpenConns>>
        BY <3>5, <4>1 DEF ReleaseDb, Release, Finish, Exit, Contract!Release
      <4> QED
        BY <4>2, EndMaps DEF Contract!Next
    <3>6. CASE SkipServer(s)
      <4>1. OpenConns' = OpenConns /\ server = "none" /\ ~overtaken
        BY <3>6 DEF SkipServer, Release, Finish, Exit, DbInv
      <4>2. Contract!Abandon \/ UNCHANGED <<Stage, Report, OpenConns>>
        BY <3>6, <4>1 DEF SkipServer, Release, Finish, Exit, Contract!Abandon
      <4> QED
        BY <4>2, EndMaps DEF Contract!Next
    <3> QED
      BY <1>4, <3>1, <3>2, <3>3, <3>4, <3>5, <3>6 DEF Stop
  <2> QED
    BY <1>4, <2>0, <2>1, <2>2
       DEF Stop, Signal, CallStop, StopHook, CloseServer, ForceClose, Drained, SkipServer,
           ReleaseDb, Release, DbReleased, ExitTimeout, Finish, Throw, Exit
<1> QED
  BY <1>0, <1>1, <1>2, <1>3, <1>4 DEF Next

\* PsychicServer's start(), stop() and signal handling, with their hooks,
\* timers and repeated signals, keep the shutdown contract.
THEOREM ServerMeetsContract == Spec => MeetsContract
<1>1. Init => Contract!Init
  BY DEF Init, Contract!Init, Stage, Report, StoppedListening, Open
<1>2. ServerIInv /\ [Next]_vars => [Contract!Next]_Contract!vars
  BY StepMaps
<1> QED
  BY <1>1, <1>2, ServerInvariant, PTL DEF Spec, MeetsContract, Contract!Spec
===============================================================================
