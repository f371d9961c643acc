----------------------- MODULE DeveloperTools_proofs ------------------------
(***************************************************************************)
(* What a developer runs: the dev server processes (DevServer), the files  *)
(* that setup commands write (WriteSet), the OpenAPI diff (SpecDiff), the  *)
(* comparison of locales (LocaleDifferences), the specs of generated       *)
(* resources (GeneratedSpecs), their controllers (GeneratedControllers)    *)
(* and the tree of an application's controllers (ControllerTree).  They    *)
(* share no state; each has an inductive invariant and theorems of its own.*)
(***************************************************************************)
EXTENDS DevServer, WriteSet, SpecDiff, LocaleDifferences, GeneratedSpecs,
        GeneratedControllers, ControllerTree, Walks,
        FiniteSetTheorems, SequenceTheorems, TLAPS

(***************************************************************************)
(* Dev server processes: for any number of launches and keys and any timeout *)
(***************************************************************************)

\* A launch has a process from its start on, and the table holds each process
\* under its own key.
TableInv ==
    /\ \A l \in Launches : pc[l] \in {"off", "skipped"} => proc[l] = "none"
    /\ \A k \in Keys : table[k] # None => key[table[k]] = k

\* While a launch waits its process is the one under its key, unless that key
\* is stopped: no other launch of the key gets beyond its first check.
WaitInv ==
    \A l \in Launches :
       pc[l] \in {"polling", "fetching"} /\ key[l] \notin crossed => table[key[l]] = l

ProcessesIInv == TypeOK /\ TableInv /\ WaitInv /\ NoOrphans

\* Before the first launch there is neither a process nor an entry.
LEMMA InitProcesses == Init => ProcessesIInv
  BY DevServerAssumption
  DEF Init, ProcessesIInv, TypeOK, TableInv, WaitInv, NoOrphans, Alive, HasPid

\* A process that is stopped is alive no more, and leaves the table; one that
\* never had a pid stays as it is.
LEMMA KillEffect ==
  ASSUME TypeOK, NEW k \in Keys, table[k] # None, Kill(k)
  PROVE  /\ table[k] \in Launches
         /\ \A p \in Launches \ {table[k]} : proc'[p] = proc[p]
         /\ proc'[table[k]] \notin {"starting", "serving"}
         /\ proc'[table[k]] \in {proc[table[k]], "killed"}
         /\ proc[table[k]] = "none" => proc'[table[k]] = "none"
         /\ \A j \in Keys \ {k} : table'[j] = table[j]
         /\ IF proc[table[k]] = "unspawnable" THEN UNCHANGED <<proc, table>> ELSE table'[k] = None
         /\ proc' \in [Launches -> {"none", "starting", "serving", "exited", "killed", "unspawnable"}]
         /\ table' \in [Keys -> Launches \cup {None}]
  BY DevServerAssumption DEF TypeOK, Kill, HasPid, Alive

\* Every step has the types it should.
LEMMA StepProcessTypes == TypeOK /\ [Next]_vars => TypeOK'
<1> SUFFICES ASSUME TypeOK, [Next]_vars PROVE TypeOK'
  OBVIOUS
<1> USE DevServerAssumption DEF TypeOK, Goto
<1>1. ASSUME NEW l \in Launches, Launch(l) PROVE TypeOK'
  BY <1>1 DEF Launch
<1>2. ASSUME NEW l \in Launches, Poll(l) PROVE TypeOK'
  BY <1>2, KillEffect DEF Poll
<1>3. ASSUME NEW l \in Launches, Fetched(l) PROVE TypeOK'
  BY <1>3 DEF Fetched
<1>4. ASSUME NEW l \in Launches, Serves(l) \/ Exits(l) PROVE TypeOK'
  BY <1>4 DEF Serves, Exits
<1>5. ASSUME NEW k \in Keys, Stop(k) PROVE TypeOK'
  BY <1>5, KillEffect DEF Stop
<1>6. CASE UNCHANGED vars
  BY <1>6 DEF vars
<1> QED
  BY <1>1, <1>2, <1>3, <1>4, <1>5, <1>6 DEF Next

\* The rest of the invariant is kept by every step.
LEMMA StepProcesses == ProcessesIInv /\ [Next]_vars => (TableInv /\ WaitInv /\ NoOrphans)'
<1> SUFFICES ASSUME ProcessesIInv, [Next]_vars PROVE (TableInv /\ WaitInv /\ NoOrphans)'
  OBVIOUS
<1> USE DevServerAssumption
    DEF ProcessesIInv, TypeOK, TableInv, WaitInv, NoOrphans, Goto, Alive, HasPid
\* A launch that finds its key free finds no process of that key alive either,
\* unless the key is crossed.
<1>1. ASSUME NEW l \in Launches, Launch(l) PROVE (TableInv /\ WaitInv /\ NoOrphans)'
  <2>1. CASE table[key[l]] # None
    BY <1>1, <2>1 DEF Launch
  <2>2. CASE table[key[l]] = None
    <3>1. TableInv'
      BY <1>1, <2>2 DEF Launch
    <3>2. WaitInv'
      BY <1>1, <2>2 DEF Launch
    <3>3. NoOrphans'
      BY <1>1, <2>2 DEF Launch
    <3> QED
      BY <3>1, <3>2, <3>3
  <2> QED
    BY <2>1, <2>2
\* A launch that gives up holds its key, unless the key is crossed.
<1>2. ASSUME NEW l \in Launches, Poll(l) PROVE (TableInv /\ WaitInv /\ NoOrphans)'
  <2>1. CASE left[l] = 0 /\ table[key[l]] # None
    <3>1. Goto(l, "polling", "failed") /\ Kill(key[l]) /\ UNCHANGED crossed
      BY <1>2, <2>1 DEF Poll
    <3>2. TableInv'
      BY <2>1, <3>1, KillEffect
    <3>3. WaitInv'
      BY <2>1, <3>1, KillEffect
    <3>4. NoOrphans'
      BY <2>1, <3>1, KillEffect
    <3> QED
      BY <3>2, <3>3, <3>4
  <2>2. CASE left[l] = 0 /\ table[key[l]] = None
    BY <1>2, <2>2 DEF Poll
  <2>3. CASE left[l] # 0 /\ HasExitCode(l)
    <3>1. /\ Goto(l, "polling", "failed") /\ UNCHANGED <<proc, crossed>>
          /\ table' = [table EXCEPT ![key[l]] = None]
      BY <1>2, <2>3 DEF Poll
    <3>2. TableInv'
      BY <3>1
    <3>3. WaitInv'
      BY <3>1
    <3>4. NoOrphans'
      BY <2>3, <3>1 DEF HasExitCode
    <3> QED
      BY <3>2, <3>3, <3>4
  <2>4. CASE left[l] # 0 /\ ~HasExitCode(l)
    BY <1>2, <2>4 DEF Poll
  <2> QED
    BY <2>1, <2>2, <2>3, <2>4
<1>3. ASSUME NEW l \in Launches, Fetched(l) PROVE (TableInv /\ WaitInv /\ NoOrphans)'
  BY <1>3 DEF Fetched
<1>4. ASSUME NEW l \in Launches, Serves(l) \/ Exits(l) PROVE (TableInv /\ WaitInv /\ NoOrphans)'
  BY <1>4 DEF Serves, Exits
\* A stop crosses the launches that wait, and ends the process of any other.
<1>5. ASSUME NEW k \in Keys, Stop(k) PROVE (TableInv /\ WaitInv /\ NoOrphans)'
  <2>1. CASE table[k] # None
    <3>1. Kill(k) /\ UNCHANGED <<pc, left>>
      BY <1>5, <2>1 DEF Stop
    <3>2. /\ crossed \subseteq crossed'
          /\ k \in crossed' \/ \A l \in Launches : key[l] = k => pc[l] \notin {"polling", "fetching"}
      BY <1>5 DEF Stop
    <3>3. TableInv'
      BY <2>1, <3>1, KillEffect
    <3>4. WaitInv'
      BY <2>1, <3>1, <3>2, KillEffect
    <3>5. NoOrphans'
      BY <2>1, <3>1, <3>2, KillEffect
    <3> QED
      BY <3>3, <3>4, <3>5
  <2>2. CASE table[k] = None
    BY <1>5, <2>2 DEF Stop
  <2> QED
    BY <2>1, <2>2
<1>6. CASE UNCHANGED vars
  BY <1>6 DEF vars
<1> QED
  BY <1>1, <1>2, <1>3, <1>4, <1>5, <1>6 DEF Next

\* The invariant holds in every reachable state.
THEOREM ProcessesInvariant == Spec => []ProcessesIInv
<1>1. ProcessesIInv /\ [Next]_vars => ProcessesIInv'
  BY StepProcessTypes, StepProcesses DEF ProcessesIInv
<1> QED
  BY InitProcesses, <1>1, PTL DEF Spec

\* No process that launchDevServer() started outlives a stop of all keys, and
\* none is left by a launch that rejects, whatever launches and stops overlap.
THEOREM NeverOrphans == Spec => []NoOrphans
<1>1. ProcessesIInv => NoOrphans
  BY DEF ProcessesIInv
<1> QED
  BY ProcessesInvariant, <1>1, PTL

(***************************************************************************)
(* Files written by a command: for any set of files and any settings       *)
(***************************************************************************)

(***************************************************************************)
(* The inductive invariant                                                 *)
(***************************************************************************)

SetTyped ==
    /\ disk \in [Files -> Contents] /\ setting \in Settings
    /\ doing \in {"idle", "reading", "asking", "writing"}
    /\ read \in [Files -> Contents \cup {"unread"}]
    /\ writes \in Seq(Files) /\ touched \subseteq Files
    /\ changed \in BOOLEAN /\ asked \in BOOLEAN /\ lost \in BOOLEAN /\ overwrite \in BOOLEAN
    /\ result \in {"none", "applied", "declined", "threw"}

Untouched == Files \ touched
AllRead == \A f \in Files : read[f] # "unread"

\* Until it writes, what a command has read of a file that nobody edits since
\* is what the disk holds; after that the file has these contents or the
\* command's, and no others once its turn is over.
DiskAsRead ==
    /\ doing \in {"reading", "asking"} =>
          \A f \in Untouched : read[f] = "unread" \/ read[f] = disk[f]
    /\ doing = "asking" => \A f \in Files : read[f] = setting \/ f \in ToSet(writes)
    /\ doing = "writing" =>
          \A f \in Untouched : disk[f] = setting \/ (f \in ToSet(writes) /\ disk[f] = read[f])

\* Nothing is written before the question, if there is one, is answered.
AskedFirst ==
    /\ doing \in {"reading", "asking"} => ~changed /\ ~asked
    /\ doing = "asking" => ~overwrite /\ Differing # {}
    /\ doing \in {"asking", "writing"} => AllRead
    /\ doing = "writing" /\ ~asked /\ ~overwrite => Differing = {}

\* How the last command ended.
Results ==
    /\ doing # "idle" => result = "none"
    /\ result = "declined" => ~changed
    /\ result = "threw" /\ ~asked /\ ~overwrite /\ Differing # {} /\ AllRead => ~changed
    /\ result = "applied" => \A f \in Untouched : disk[f] = setting

SetIInv == SetTyped /\ DiskAsRead /\ AskedFirst /\ Results /\ ~lost
(***************************************************************************)
(* The order that the files are written in                                 *)
(***************************************************************************)

\* A finite set made a sequence has the elements of the set.
LEMMA SequenceOfSet ==
  ASSUME NEW S, IsFiniteSet(S)
  PROVE  SetToSeq(S) \in Seq(S) /\ ToSet(SetToSeq(S)) = S
<1> DEFINE n == Cardinality(S)
           f == SetToSeq(S)
<1>1. n \in Nat /\ ExistsBijection(1..n, S)
  BY FS_CardinalityType
<1>2. \E g \in [1..n -> S] : IsInjective(g)
  BY <1>1 DEF ExistsBijection, Bijection, Injection
<1>3. f \in [1..n -> S] /\ IsInjective(f)
  BY <1>2 DEF SetToSeq
<1>4. IsFiniteSet(1..n) /\ Cardinality(1..n) = n
  BY <1>1, FS_Interval
<1>5. f \in Surjection(1..n, S)
  BY <1>3, <1>4, FS_Injection DEF Injection
<1>6. f \in Seq(S)
  BY <1>1, <1>3, SeqDef
<1>7. DOMAIN f = 1..n
  BY <1>3
<1>8. ToSet(f) = S
  BY <1>3, <1>5, <1>7 DEF ToSet, Surjection
<1> QED
  BY <1>6, <1>8

\* What is not the first of the files to be written is in the rest.
LEMMA RestOfWrites ==
  ASSUME NEW s \in Seq(Files), s # <<>>
  PROVE  /\ Head(s) \in Files /\ Tail(s) \in Seq(Files)
         /\ ToSet(s) = ToSet(Tail(s)) \cup {Head(s)}
<1>1. Head(s) \in Files /\ Tail(s) \in Seq(Files) /\ Len(s) \in Nat \ {0} /\ DOMAIN s = 1..Len(s)
  OBVIOUS
<1>2. Len(Tail(s)) = Len(s) - 1 /\ DOMAIN Tail(s) = 1..(Len(s) - 1)
      /\ \A k \in 1..(Len(s) - 1) : Tail(s)[k] = s[k + 1]
  BY <1>1
<1>3. Head(s) = s[1]
  BY <1>1
<1>4. ASSUME NEW k \in DOMAIN s PROVE s[k] \in ToSet(Tail(s)) \cup {Head(s)}
  <2>1. k = 1 \/ (k - 1 \in 1..(Len(s) - 1) /\ (k - 1) + 1 = k)
    BY <1>1
  <2> QED
    BY <1>2, <1>3, <2>1 DEF ToSet
<1>5. \A x \in ToSet(Tail(s)) : x \in ToSet(s)
  <2>1. \A k \in 1..(Len(s) - 1) : k + 1 \in DOMAIN s
    BY <1>1
  <2> QED
    BY <1>2, <2>1 DEF ToSet
<1>6. Head(s) \in ToSet(s)
  BY <1>1, <1>3 DEF ToSet
<1> QED
  BY <1>1, <1>4, <1>5, <1>6 DEF ToSet

(***************************************************************************)
(* The steps                                                               *)
(***************************************************************************)

LEMMA InitSetIInv == SetInit => SetIInv
<1> SUFFICES ASSUME SetInit PROVE SetIInv
  OBVIOUS
<1>1. /\ doing = "idle" /\ ~changed /\ ~asked /\ ~overwrite /\ ~lost /\ result = "none"
      /\ writes = <<>> /\ touched = {}
  BY DEF SetInit
<1>2. disk \in [Files -> Contents] /\ setting \in Settings /\ read \in [Files -> Contents \cup {"unread"}]
  BY SetAssumption DEF SetInit, Contents
<1>3. changed \in BOOLEAN /\ asked \in BOOLEAN /\ lost \in BOOLEAN /\ overwrite \in BOOLEAN
  BY Zenon DEF SetInit
<1>4. SetTyped
  <2>1. writes \in Seq(Files) /\ touched \subseteq Files
    BY <1>1
  <2> QED
    BY <1>1, <1>2, <1>3, <2>1 DEF SetTyped
<1>5. DiskAsRead /\ AskedFirst /\ Results
  BY <1>1 DEF DiskAsRead, AskedFirst, Results
<1> QED
  BY <1>1, <1>4, <1>5 DEF SetIInv

LEMMA RunStep ==
  ASSUME SetIInv, Run
  PROVE  SetIInv'
<1>1. /\ doing' = "reading" /\ setting' \in Settings /\ ~changed' /\ ~asked' /\ result' = "none"
      /\ read' = [f \in Files |-> "unread"] /\ UNCHANGED <<disk, lost>>
      /\ writes' = <<>> /\ touched' = {}
  BY DEF Run
<1>2. changed' \in BOOLEAN /\ asked' \in BOOLEAN /\ overwrite' \in BOOLEAN /\ lost' \in BOOLEAN
  BY Zenon DEF Run, SetIInv, SetTyped
<1>3. SetTyped'
  <2>1. disk' \in [Files -> Contents] /\ read' \in [Files -> Contents \cup {"unread"}]
    BY <1>1 DEF SetIInv, SetTyped
  <2>2. writes' \in Seq(Files) /\ touched' \subseteq Files
    BY <1>1
  <2>3. /\ setting' \in Settings /\ doing' \in {"idle", "reading", "asking", "writing"}
        /\ result' \in {"none", "applied", "declined", "threw"}
    BY <1>1
  <2> QED
    BY <1>2, <2>1, <2>2, <2>3 DEF SetTyped
<1>4. DiskAsRead' /\ AskedFirst' /\ Results'
  <2>1. \A f \in Files : read'[f] = "unread"
    BY <1>1
  <2>2. DiskAsRead'
    BY <1>1, <2>1 DEF DiskAsRead, Untouched
  <2>3. AskedFirst'
    BY <1>1 DEF AskedFirst
  <2>4. Results'
    BY <1>1 DEF Results
  <2> QED
    BY <2>2, <2>3, <2>4
<1>5. ~lost'
  BY <1>1 DEF SetIInv
<1> QED
  BY <1>3, <1>4, <1>5 DEF SetIInv

\* A command that ends without having gone further.
LEMMA SettleStep ==
  ASSUME SetIInv, NEW r \in {"declined", "threw"}, Settle(r), doing \in {"reading", "asking", "writing"},
         UNCHANGED <<disk, setting, overwrite, read, writes, touched, asked, changed, lost>>,
         r = "declined" => doing = "asking"
  PROVE  SetIInv'
<1>1. doing' = "idle" /\ result' = r
  BY DEF Settle
<1>2. SetTyped'
  BY <1>1 DEF SetIInv, SetTyped
<1>3. DiskAsRead' /\ AskedFirst'
  BY <1>1 DEF DiskAsRead, AskedFirst
<1>4. Results'
  <2>1. r = "declined" => ~changed
    BY DEF SetIInv, AskedFirst
  <2>2. ~asked /\ ~overwrite /\ Differing # {} => ~changed
    BY DEF SetIInv, AskedFirst
  <2>3. Differing' = Differing
    BY DEF Differing
  <2> QED
    BY <1>1, <2>1, <2>2, <2>3 DEF Results
<1> QED
  BY <1>2, <1>3, <1>4 DEF SetIInv

LEMMA ReadFileStep ==
  ASSUME SetIInv, NEW f \in Files, ReadFile(f)
  PROVE  SetIInv'
<1>1. doing = "reading" /\ read[f] = "unread"
      /\ UNCHANGED <<disk, setting, overwrite, writes, touched, asked, changed, lost>>
  BY DEF ReadFile
<1>2. CASE disk[f] = Absent \/ readable[f]
  <2>1. read' = [read EXCEPT ![f] = disk[f]] /\ UNCHANGED <<doing, result>>
    BY <1>2 DEF ReadFile
  <2>2. \A g \in Files : read'[g] = read[g] \/ read'[g] = disk[g]
    BY <2>1 DEF SetIInv, SetTyped
  <2>3. SetTyped'
    <3>1. read' \in [Files -> Contents \cup {"unread"}]
      BY <2>1 DEF SetIInv, SetTyped
    <3> QED
      BY <1>1, <2>1, <3>1 DEF SetIInv, SetTyped
  <2>4. DiskAsRead'
    BY <1>1, <2>1, <2>2 DEF SetIInv, DiskAsRead, Untouched
  <2>5. AskedFirst' /\ Results'
    BY <1>1, <2>1 DEF SetIInv, AskedFirst, Results
  <2> QED
    BY <1>1, <2>3, <2>4, <2>5 DEF SetIInv
<1>3. CASE ~(disk[f] = Absent \/ readable[f])
  <2>1. Settle("threw") /\ UNCHANGED read
    BY <1>3 DEF ReadFile
  <2> QED
    BY <1>1, <2>1, SettleStep
<1> QED
  BY <1>2, <1>3

LEMMA CompareStep ==
  ASSUME SetIInv, Compare
  PROVE  SetIInv'
<1> DEFINE W == {f \in Files : read[f] # setting}
<1>1. /\ doing = "reading" /\ AllRead /\ writes' = SetToSeq(W)
      /\ UNCHANGED <<disk, setting, overwrite, read, touched, changed, asked, lost, result>>
  BY DEF Compare, AllRead
<1>2. doing' = (IF Differing # {} /\ ~overwrite THEN "asking" ELSE "writing")
  BY DEF Compare
<1>3. SetToSeq(W) \in Seq(W) /\ ToSet(SetToSeq(W)) = W
  BY SetAssumption, FS_Subset, SequenceOfSet
<1>4. writes' \in Seq(Files) /\ ToSet(writes') = W
  <2>1. W \subseteq Files
    OBVIOUS
  <2> HIDE DEF W
  <2> QED
    BY <1>1, <1>3, <2>1, SeqMonotonic
<1>5. ToSet(writes)' = W
  BY <1>4 DEF ToSet
<1>6. SetTyped'
  BY <1>1, <1>2, <1>4 DEF SetIInv, SetTyped
<1>7. \A f \in Untouched : read[f] = disk[f]
  BY <1>1 DEF SetIInv, DiskAsRead, AllRead, Untouched
<1>8. DiskAsRead'
  <2>1. \A f \in Untouched : disk[f] = setting \/ (f \in W /\ disk[f] = read[f])
    BY <1>7 DEF Untouched
  <2>2. Untouched' = Untouched
    BY <1>1 DEF Untouched
  <2>3. \A f \in Files : read[f] = setting \/ f \in W
    OBVIOUS
  <2> HIDE DEF W
  <2> QED
    BY <1>1, <1>2, <1>5, <1>7, <2>1, <2>2, <2>3 DEF DiskAsRead
<1>9. AskedFirst'
  BY <1>1, <1>2 DEF SetIInv, AskedFirst, AllRead, Differing
<1>10. Results'
  BY <1>1, <1>2 DEF SetIInv, Results
<1> QED
  BY <1>1, <1>6, <1>8, <1>9, <1>10 DEF SetIInv

LEMMA ConfirmStep ==
  ASSUME SetIInv, Confirm
  PROVE  SetIInv'
<1>1. doing = "asking" /\ UNCHANGED <<disk, setting, overwrite, read, writes, touched, changed, lost>>
  BY DEF Confirm
<1>2. CASE doing' = "writing" /\ asked' = TRUE /\ UNCHANGED result
  <2>1. SetTyped'
    BY <1>1, <1>2 DEF SetIInv, SetTyped
  <2>2. AllRead
    BY <1>1 DEF SetIInv, AskedFirst
  <2>3. DiskAsRead'
    <3>1. \A f \in Untouched : disk[f] = setting \/ (f \in ToSet(writes) /\ disk[f] = read[f])
      BY <1>1, <2>2 DEF SetIInv, DiskAsRead, AllRead, Untouched
    <3> QED
      BY <1>1, <1>2, <3>1 DEF DiskAsRead, Untouched
  <2>4. AskedFirst' /\ Results'
    BY <1>1, <1>2, <2>2 DEF SetIInv, AskedFirst, Results, AllRead
  <2> QED
    BY <1>1, <2>1, <2>3, <2>4 DEF SetIInv
<1>3. CASE \E r \in {"declined", "threw"} : Settle(r) /\ UNCHANGED asked
  BY <1>1, <1>3, SettleStep
<1> QED
  BY <1>2, <1>3 DEF Confirm
\* A file that is written has the contents of the command, and the rest of the
\* files have still to be written, or have them already.
LEMMA WriteStep ==
  ASSUME SetIInv, Write
  PROVE  SetIInv'
<1> DEFINE f == Head(writes)
<1>1. /\ doing = "writing" /\ writes # <<>>
      /\ UNCHANGED <<setting, overwrite, read, touched, asked>>
  BY DEF Write
<1>2. /\ f \in Files /\ Tail(writes) \in Seq(Files)
      /\ ToSet(writes) = ToSet(Tail(writes)) \cup {f}
  BY <1>1, RestOfWrites DEF SetIInv, SetTyped
<1>3. CASE Settle("threw") /\ UNCHANGED <<disk, writes, changed, lost>>
  BY <1>1, <1>3, SettleStep
<1>4. CASE /\ disk' = [disk EXCEPT ![f] = setting]
           /\ writes' = Tail(writes)
           /\ changed' = TRUE
           /\ lost' = (lost \/ /\ f \notin touched /\ disk[f] \notin {Absent, setting}
                               /\ ~asked /\ ~overwrite)
           /\ UNCHANGED <<doing, result>>
  <2>1. ~lost'
    <3>1. ASSUME f \notin touched, ~asked, ~overwrite PROVE disk[f] \in {Absent, setting}
      <4>1. disk[f] = setting \/ disk[f] = read[f]
        BY <1>1, <1>2, <3>1 DEF SetIInv, DiskAsRead, Untouched
      <4>2. read[f] \in {Absent, setting}
        BY <1>1, <1>2, <3>1 DEF SetIInv, AskedFirst, Differing
      <4> QED
        BY <4>1, <4>2
    <3> QED
      BY <1>4, <3>1 DEF SetIInv
  <2>2. SetTyped'
    <3>1. disk' \in [Files -> Contents]
      BY <1>2, <1>4 DEF SetIInv, SetTyped, Contents
    <3>2. lost' \in BOOLEAN /\ changed' \in BOOLEAN
      BY <1>4, <2>1
    <3> QED
      BY <1>1, <1>2, <1>4, <3>1, <3>2 DEF SetIInv, SetTyped
  <2>3. DiskAsRead'
    <3>1. ASSUME NEW g \in Untouched
          PROVE  disk'[g] = setting \/ (g \in ToSet(Tail(writes)) /\ disk'[g] = read[g])
      <4>1. g \in Files /\ (disk[g] = setting \/ (g \in ToSet(writes) /\ disk[g] = read[g]))
        BY <1>1 DEF SetIInv, DiskAsRead, Untouched
      <4>2. CASE g = f
        BY <1>2, <1>4, <4>2 DEF SetIInv, SetTyped
      <4>3. CASE g # f
        <5>1. disk'[g] = disk[g]
          BY <1>4, <4>1, <4>3 DEF SetIInv, SetTyped
        <5> QED
          BY <1>2, <4>1, <4>3, <5>1
      <4> QED
        BY <4>2, <4>3
    <3>2. Untouched' = Untouched /\ ToSet(writes)' = ToSet(Tail(writes))
      BY <1>1, <1>4 DEF Untouched, ToSet
    <3> QED
      BY <1>1, <1>4, <3>1, <3>2 DEF DiskAsRead
  <2>4. AskedFirst'
    BY <1>1, <1>4 DEF SetIInv, AskedFirst, AllRead, Differing
  <2>5. Results'
    BY <1>1, <1>4 DEF SetIInv, Results
  <2> QED
    BY <2>1, <2>2, <2>3, <2>4, <2>5 DEF SetIInv
<1> QED
  BY <1>3, <1>4 DEF Write

LEMMA AppliedStep ==
  ASSUME SetIInv, Applied
  PROVE  SetIInv'
<1>1. /\ doing = "writing" /\ writes = <<>> /\ doing' = "idle" /\ result' = "applied"
      /\ UNCHANGED <<disk, setting, overwrite, read, writes, touched, changed, asked, lost>>
  BY DEF Applied, Settle
<1>2. ToSet(writes) = {}
  BY <1>1 DEF ToSet
<1>3. \A f \in Untouched : disk[f] = setting
  BY <1>1, <1>2 DEF SetIInv, DiskAsRead
<1>4. SetTyped'
  BY <1>1 DEF SetIInv, SetTyped
<1>5. DiskAsRead' /\ AskedFirst'
  BY <1>1 DEF DiskAsRead, AskedFirst
<1>6. Results'
  BY <1>1, <1>3 DEF Results, Untouched
<1>7. ~lost'
  BY <1>1 DEF SetIInv
<1> QED
  BY <1>4, <1>5, <1>6, <1>7 DEF SetIInv

\* The developer's edits concern the edited file alone, and that is no longer
\* among the untouched ones.
LEMMA TouchStep ==
  ASSUME SetIInv, NEW f \in Files, Touch(f)
  PROVE  SetIInv'
<1>1. /\ touched' = touched \cup {f}
      /\ UNCHANGED <<setting, overwrite, doing, read, writes, changed, asked, lost, result>>
  BY DEF Touch
<1>2. disk' \in [Files -> Contents] /\ \A g \in Files : g # f => disk'[g] = disk[g]
  BY DEF Touch, SetIInv, SetTyped, Contents
<1>3. SetTyped'
  <2>1. touched' \subseteq Files
    BY <1>1 DEF SetIInv, SetTyped
  <2> QED
    BY <1>1, <1>2, <2>1 DEF SetIInv, SetTyped
<1>4. \A g \in Untouched' : g \in Untouched /\ disk'[g] = disk[g]
  BY <1>1, <1>2 DEF Untouched
<1>5. DiskAsRead'
  BY <1>1, <1>4 DEF SetIInv, DiskAsRead
<1>6. AskedFirst'
  BY <1>1 DEF SetIInv, AskedFirst, AllRead, Differing
<1>7. Results'
  BY <1>1, <1>4 DEF SetIInv, Results, AllRead, Differing
<1> QED
  BY <1>1, <1>3, <1>5, <1>6, <1>7 DEF SetIInv

(***************************************************************************)
(* The theorems                                                            *)
(***************************************************************************)

\* In every reachable state of a command that writes a set of files: what it
\* read of a file that nobody edits is what the disk holds until it is written.
THEOREM WritesInvariant == SetSpec => []SetIInv
<1>1. SetIInv /\ [SetNext]_setVars => SetIInv'
  <2> SUFFICES ASSUME SetIInv, [SetNext]_setVars PROVE SetIInv'
    OBVIOUS
  <2>1. CASE Run
    BY <2>1, RunStep
  <2>2. CASE Compare
    BY <2>2, CompareStep
  <2>3. CASE Confirm
    BY <2>3, ConfirmStep
  <2>4. CASE Write
    BY <2>4, WriteStep
  <2>5. CASE Applied
    BY <2>5, AppliedStep
  <2>6. ASSUME NEW f \in Files, ReadFile(f) PROVE SetIInv'
    BY <2>6, ReadFileStep
  <2>7. ASSUME NEW f \in Files, Touch(f) PROVE SetIInv'
    BY <2>7, TouchStep
  <2>8. CASE UNCHANGED setVars
    <3>1. SetTyped'
      BY <2>8 DEF SetIInv, SetTyped, setVars
    <3>2. DiskAsRead'
      BY <2>8 DEF SetIInv, DiskAsRead, Untouched, setVars
    <3>3. AskedFirst'
      BY <2>8 DEF SetIInv, AskedFirst, AllRead, Differing, setVars
    <3>4. Results'
      BY <2>8 DEF SetIInv, Results, AllRead, Differing, Untouched, setVars
    <3> QED
      BY <2>8, <3>1, <3>2, <3>3, <3>4 DEF SetIInv, setVars
  <2> QED
    BY <2>1, <2>2, <2>3, <2>4, <2>5, <2>6, <2>7, <2>8 DEF SetNext
<1> QED
  BY <1>1, InitSetIInv, PTL DEF SetSpec

\* For any set of files and any settings, however commands fail halfway and
\* the developer edits between their steps: nothing found on the disk is
\* replaced without consent, a declined question writes nothing, and success
\* means that every file nobody edited has the command's contents.
THEOREM WritesAlwaysAsAgreed == SetSpec => []WritesAsAgreed
<1>1. SetIInv => WritesAsAgreed
  <2> SUFFICES ASSUME SetIInv PROVE WritesAsAgreed
    OBVIOUS
  <2>1. result = "declined" => ~changed
    BY DEF SetIInv, Results
  <2>2. result = "threw" /\ ~asked /\ ~overwrite /\ Differing # {} /\ AllRead => ~changed
    BY DEF SetIInv, Results
  <2>3. result = "applied" => \A f \in Files \ touched : disk[f] = setting
    BY DEF SetIInv, Results, Untouched
  <2> QED
    BY <2>1, <2>2, <2>3 DEF SetIInv, WritesAsAgreed, AllRead
<1> QED
  BY <1>1, WritesInvariant, PTL

(***************************************************************************)
(* OpenAPI diff: for any number of documents                               *)
(***************************************************************************)

Running == {"next", "content", "temp", "breaking", "changelog"}
Comparing == {"content", "temp", "breaking", "changelog"}

\* The head branch is the one git named, and the document being compared is in
\* the tree and has no result yet.
CompareInv ==
    /\ at \in Running \/ exit \in {"ok", "failed"} => head = HeadBranch /\ origin # "unreachable"
    /\ at \in {"off", "config"} => results = Pending
    /\ at \in Comparing => results[doc] = "pending" /\ tree[doc].there
    /\ at = "changelog" => (found = "breaking" <=> Base = "breaking")

\* A result that is no error says how the document differs, unless the head
\* branch went unnamed; and a document that has a result has no file left.
ResultInv ==
    \A s \in Specs :
       /\ results[s] \in Kinds => tree[s].there
       /\ results[s] \in Kinds /\ origin # "ambiguous" => results[s] = tree[s].diff
       /\ results[s] # "pending" /\ tree[s].there => s \notin temp

\* The command ends well only after a summary, which gives way to no failure.
ExitInv ==
    /\ at # "exited" => exit = "none"
    /\ exit \in {"ok", "failed"} => verdict = Verdict /\ ~Some("pending")
    /\ exit = "ok" /\ gate => Verdict \notin {"breaking", "inconclusive"}

DiffIInv == DiffTypeOK /\ CompareInv /\ ResultInv /\ ExitInv

\* What holds before the command is run for the first time.
LEMMA InitDiff == DiffInit => DiffIInv
<1> SUFFICES ASSUME DiffInit PROVE DiffIInv
  OBVIOUS
<1>1. tree \in [Specs -> Documents]
  BY DEF DiffInit, NoTree, Documents, Kinds
<1>2. results = Pending /\ results \in [Specs -> Kinds \cup {"pending", "error"}]
  BY DEF DiffInit, Pending
<1>3. DiffTypeOK
  BY <1>1, <1>2 DEF DiffInit, DiffTypeOK, Origins
<1>4. CompareInv /\ ExitInv
  BY <1>2 DEF DiffInit, CompareInv, ExitInv, Running, Comparing
<1>5. ResultInv
  BY DEF DiffInit, ResultInv, Pending, Kinds
<1> QED
  BY <1>3, <1>4, <1>5 DEF DiffIInv

\* The result of the document being compared changes no other's.
LEMMA ResultEffect ==
  ASSUME DiffIInv, at \in Comparing, NEW r \in Kinds \cup {"error"}, Result(r), temp' = temp \ {doc},
         UNCHANGED <<tree, origin, ci, gate, head, exit, verdict>>, found' \in {"none", "breaking"},
         r \in Kinds /\ origin # "ambiguous" => r = tree[doc].diff
  PROVE  DiffIInv'
<1>1. doc \in Specs /\ results[doc] = "pending" /\ tree[doc].there /\ exit = "none"
  BY DEF DiffIInv, DiffTypeOK, CompareInv, ExitInv, Comparing
<1>2. DiffTypeOK'
  BY <1>1 DEF DiffIInv, DiffTypeOK, Result, Kinds
<1>3. CompareInv'
  BY <1>1 DEF DiffIInv, CompareInv, Result, Running, Comparing, HeadBranch
<1>4. ResultInv'
  BY <1>1 DEF DiffIInv, ResultInv, Result, DiffTypeOK
<1>5. ExitInv'
  BY <1>1 DEF DiffIInv, ExitInv, Result
<1> QED
  BY <1>2, <1>3, <1>4, <1>5 DEF DiffIInv

\* A failure becomes an error of its document.
LEMMA CatchStep ==
  ASSUME DiffIInv, at \in Comparing, Catch, UNCHANGED <<tree, origin, ci, gate, head, exit, verdict>>
  PROVE  DiffIInv'
<1>1. Result("error") /\ temp' = temp \ {doc} /\ found' \in {"none", "breaking"}
  BY DEF Catch, DiffIInv, DiffTypeOK
<1>2. "error" \notin Kinds
  BY DEF Kinds
<1> QED
  BY <1>1, <1>2, ResultEffect

\* A step within the comparison of one document leaves the results alone.
LEMMA WithinStep ==
  ASSUME DiffIInv, at \in Comparing, at' \in Comparing,
         temp' \subseteq temp \cup {doc}, found' \in {"none", "breaking"},
         at' = "changelog" => (found' = "breaking" <=> Base = "breaking"),
         UNCHANGED <<tree, origin, ci, gate, head, doc, results, exit, verdict>>
  PROVE  DiffIInv'
<1>1. doc \in Specs /\ results[doc] = "pending" /\ tree[doc].there /\ exit = "none"
  BY DEF DiffIInv, DiffTypeOK, CompareInv, ExitInv, Comparing
<1>2. DiffTypeOK'
  BY <1>1 DEF DiffIInv, DiffTypeOK, Comparing
<1>3. CompareInv'
  BY <1>1 DEF DiffIInv, CompareInv, Running, Comparing, HeadBranch, Base, ReadsIndex
<1>4. ResultInv'
  BY <1>1 DEF DiffIInv, ResultInv, DiffTypeOK
<1>5. ExitInv'
  BY <1>1 DEF DiffIInv, ExitInv, Comparing
<1> QED
  BY <1>2, <1>3, <1>4, <1>5 DEF DiffIInv

\* The steps that begin the command and end the process.
LEMMA FrameStep ==
  ASSUME DiffIInv, Invoke \/ Gone \/ GetOasDiffConfig \/ KilledMidway
  PROVE  DiffIInv'
<1> USE DiffAssumption
    DEF DiffIInv, DiffTypeOK, CompareInv, ResultInv, ExitInv, Running, Comparing, Exit
<1>1. CASE Invoke
  BY <1>1 DEF Invoke, Pending, Kinds
<1>2. CASE Gone
  BY <1>2 DEF Gone, NoTree, Pending, Documents, Kinds, Origins
<1>3. CASE GetOasDiffConfig
  BY <1>3, ZenonT(60) DEF GetOasDiffConfig, HeadBranch, Pending, Kinds
<1>4. CASE KilledMidway
  BY <1>4 DEF KilledMidway
<1> QED
  BY <1>1, <1>2, <1>3, <1>4

\* A document is taken up, or is missing, which is an error of its own.
LEMMA TakeStep == ASSUME DiffIInv, NEW s \in Specs, Take(s) PROVE DiffIInv'
<1>1. exit = "none"
  BY DEF DiffIInv, ExitInv, Take
<1>2. CASE tree[s].there
  BY <1>1, <1>2, DiffAssumption
  DEF Take, DiffIInv, DiffTypeOK, CompareInv, ResultInv, ExitInv, Running, Comparing, HeadBranch
<1>3. CASE ~tree[s].there
  BY <1>1, <1>3, ZenonT(60)
  DEF Take, DiffIInv, DiffTypeOK, CompareInv, ResultInv, ExitInv, Running, Comparing, HeadBranch, Kinds
<1> QED
  BY <1>2, <1>3

\* The steps of one comparison.
LEMMA CompareDocStep ==
  ASSUME DiffIInv, Content \/ WriteTemp \/ OasDiffBreaking \/ OasDiffChangelog
  PROVE  DiffIInv'
<1>1. CASE Content
  <2>1. CASE Catch
    BY <1>1, <2>1, CatchStep DEF Content, Comparing
  <2>2. CASE ~Catch
    BY <1>1, <2>2, WithinStep DEF Content, Comparing, DiffIInv, DiffTypeOK
  <2> QED
    BY <2>1, <2>2
<1>2. CASE WriteTemp
  <2>1. CASE Catch
    BY <1>2, <2>1, CatchStep DEF WriteTemp, Comparing
  <2>2. CASE ~Catch
    BY <1>2, <2>2, WithinStep DEF WriteTemp, Comparing, DiffIInv, DiffTypeOK
  <2> QED
    BY <2>1, <2>2
<1>3. CASE OasDiffBreaking
  <2>1. CASE Catch
    BY <1>3, <2>1, CatchStep DEF OasDiffBreaking, Comparing
  <2>2. CASE ~Catch
    <3>1. /\ at = "breaking" /\ at' = "changelog"
          /\ found' = IF Base = "breaking" THEN "breaking" ELSE "none"
          /\ UNCHANGED <<tree, origin, ci, gate, head, doc, temp, results, exit, verdict>>
      BY <1>3, <2>2 DEF OasDiffBreaking
    <3> QED
      BY <3>1, WithinStep DEF Comparing
  <2> QED
    BY <2>1, <2>2
<1>4. CASE OasDiffChangelog
  <2>1. CASE Catch
    BY <1>4, <2>1, CatchStep DEF OasDiffChangelog, Comparing
  <2>2. CASE ~Catch
    <3> DEFINE r == IF found = "breaking" THEN "breaking"
                    ELSE IF Base = "none" THEN "none" ELSE "additive"
    <3>1. /\ at = "changelog" /\ Result(r) /\ temp' = temp \ {doc}
          /\ UNCHANGED <<found, tree, origin, ci, gate, head, exit, verdict>>
      BY <1>4, <2>2 DEF OasDiffChangelog
    <3>2. r \in Kinds
      BY DEF Kinds
    <3>3. origin # "ambiguous" => r = tree[doc].diff
      <4>1. doc \in Specs /\ tree[doc].diff \in Kinds
        BY <3>1 DEF DiffIInv, DiffTypeOK, Documents
      <4>2. origin # "ambiguous" => head # ""
        BY <3>1 DEF DiffIInv, DiffTypeOK, CompareInv, HeadBranch, Running, Origins
      <4> QED
        BY <3>1, <4>1, <4>2 DEF DiffIInv, CompareInv, Base, ReadsIndex, Kinds
    <3>4. found' \in {"none", "breaking"} /\ at \in Comparing
      BY <3>1 DEF DiffIInv, DiffTypeOK, Comparing
    <3> HIDE DEF r
    <3> QED
      BY <3>1, <3>2, <3>3, <3>4, ResultEffect
  <2> QED
    BY <2>1, <2>2
<1> QED
  BY <1>1, <1>2, <1>3, <1>4

\* The summary throws for what it cannot vouch for.
LEMMA SummaryStep == ASSUME DiffIInv, Summary PROVE DiffIInv'
<1>1. DiffTypeOK'
  BY DEF DiffIInv, DiffTypeOK, Summary, Exit, Verdict
<1>2. CompareInv' /\ ResultInv'
  BY DEF DiffIInv, CompareInv, ResultInv, Summary, Exit, Running, Comparing, HeadBranch
<1>3. Verdict' = Verdict /\ Some("pending")' = Some("pending")
  BY DEF Summary, Verdict, Some
<1>4. ExitInv'
  BY <1>3 DEF DiffIInv, ExitInv, Summary, Exit
<1> QED
  BY <1>1, <1>2, <1>4 DEF DiffIInv

\* The invariant holds in every reachable state.
THEOREM DiffInvariant == DiffSpec => []DiffIInv
<1>1. DiffIInv /\ [DiffNext]_diffVars => DiffIInv'
  <2> SUFFICES ASSUME DiffIInv, [DiffNext]_diffVars PROVE DiffIInv'
    OBVIOUS
  <2>1. CASE UNCHANGED diffVars
    <3>1. DiffTypeOK'
      BY <2>1, ZenonT(60) DEF diffVars, DiffIInv, DiffTypeOK
    <3>2. CompareInv' /\ ResultInv'
      BY <2>1 DEF diffVars, DiffIInv, CompareInv, ResultInv, HeadBranch, Base, ReadsIndex
    <3>3. ExitInv'
      BY <2>1 DEF diffVars, DiffIInv, ExitInv, Verdict, Some
    <3> QED
      BY <3>1, <3>2, <3>3 DEF DiffIInv
  <2> QED
    BY <2>1, FrameStep, TakeStep, CompareDocStep, SummaryStep DEF DiffNext
<1> QED
  BY InitDiff, <1>1, PTL DEF DiffSpec

\* Whatever git and oasdiff fail at, and however many documents are compared,
\* an inconclusive or breaking diff is never passed by the gate.
THEOREM GateAlwaysConclusive == DiffSpec => []GateIsConclusive
<1>1. DiffIInv => GateIsConclusive
  <2> SUFFICES ASSUME DiffIInv PROVE GateIsConclusive
    OBVIOUS
  <2>1. ASSUME exit = "ok", gate, origin # "ambiguous", NEW s \in Specs
        PROVE  tree[s].there /\ tree[s].diff # "breaking" /\ results[s] = tree[s].diff
    <3>1. results[s] \notin {"pending", "error", "breaking"}
      BY <2>1 DEF DiffIInv, ExitInv, Verdict, Some
    <3>2. results[s] \in Kinds
      BY <3>1 DEF DiffIInv, DiffTypeOK
    <3> QED
      BY <2>1, <3>1, <3>2 DEF DiffIInv, ResultInv
  <2>2. exit \in {"ok", "failed"} /\ Some("breaking") => verdict = "breaking"
    BY DEF DiffIInv, ExitInv, Verdict
  <2> QED
    BY <2>1, <2>2 DEF DiffIInv, ResultInv, GateIsConclusive
<1> QED
  BY DiffInvariant, <1>1, PTL

(***************************************************************************)
(* Translations: for any locales of any depth, and any paths               *)
(***************************************************************************)

\* f holds the nodes along a path, as far as m keys.
NodesTo(f, m, locale, path) ==
    /\ DOMAIN f = 0..m /\ f = [i \in 0..m |-> f[i]]
    /\ f[0] = locale
    /\ \A i \in 1..m : f[i] = Step(f[i - 1], path[i])

LEMMA NodesExist ==
  ASSUME NEW locale, NEW path, NEW n \in Nat
  PROVE  \E f : NodesTo(f, n, locale, path)
<1> DEFINE S == {m \in 0..n : \E f : NodesTo(f, m, locale, path)}
<1>1. PICK rank : Walk(0..n, {0}, Before(n), rank)
  BY NumbersWalk
<1>2. 0 \in S
  <2>1. PICK f : f = [i \in 0..0 |-> locale]
    OBVIOUS
  <2>2. NodesTo(f, 0, locale, path)
    BY <2>1 DEF NodesTo
  <2> QED
    BY <2>2
<1>3. ASSUME NEW m \in 1..n, m - 1 \in S PROVE m \in S
  <2>1. PICK f : NodesTo(f, m - 1, locale, path)
    BY <1>3
  <2>2. PICK g : g = [i \in 0..m |-> IF i = m THEN Step(f[m - 1], path[m]) ELSE f[i]]
    OBVIOUS
  <2>3. \A i \in 0..(m - 1) : g[i] = f[i]
    BY <2>2
  <2>4. g[m] = Step(g[m - 1], path[m])
    BY <2>2, <2>3
  <2>5. DOMAIN g = 0..m /\ g = [i \in 0..m |-> g[i]]
    BY <2>2
  <2>6. g[0] = locale
    BY <2>1, <2>3 DEF NodesTo
  <2>7. ASSUME NEW i \in 1..m PROVE g[i] = Step(g[i - 1], path[i])
    <3>1. CASE i = m
      BY <2>4, <3>1
    <3>2. CASE i # m
      <4>1. i \in 1..(m - 1) /\ i - 1 \in 0..(m - 1) /\ i \in 0..(m - 1)
        BY <3>2
      <4> QED
        BY <2>1, <2>3, <4>1 DEF NodesTo
    <3> QED
      BY <3>1, <3>2
  <2>8. NodesTo(g, m, locale, path)
    BY <2>5, <2>6, <2>7 DEF NodesTo
  <2> QED
    BY <2>8
<1>4. Closed(S, 0..n, {0}, Before(n))
  <2> SUFFICES ASSUME NEW i \in 0..n, i \in {0} \/ Before(n)[i] \in S PROVE i \in S
    BY DEF Closed
  <2>1. CASE i = 0
    BY <1>2, <2>1
  <2>2. CASE i # 0
    BY <1>3, <2>2 DEF Before
  <2> QED
    BY <2>1, <2>2
<1>5. n \in S
  <2> HIDE DEF S
  <2>1. 0..n \subseteq S
    BY <1>1, <1>4, WalkInduction
  <2> QED
    BY <2>1
<1> QED
  BY <1>5

\* What a path leads to is the last of the nodes along it.
LEMMA FoundAlong ==
  ASSUME NEW locale, NEW path, Len(path) \in Nat
  PROVE  \E f : /\ NodesTo(f, Len(path), locale, path)
                /\ FindTranslation(locale, path) =
                     IF f[Len(path)].is = "string" THEN f[Len(path)] ELSE Missing
<1> DEFINE n == Len(path)
           Is(f) == f = [i \in 0..n |-> IF i = 0 THEN locale ELSE Step(f[i - 1], path[i])]
           node == CHOOSE f : Is(f)
<1>1. PICK g : NodesTo(g, n, locale, path)
  BY NodesExist
<1>2. \A i \in 0..n : g[i] = IF i = 0 THEN locale ELSE Step(g[i - 1], path[i])
  BY <1>1 DEF NodesTo
<1>3. g = [i \in 0..n |-> g[i]]
  BY <1>1 DEF NodesTo
<1>4. Is(g)
  <2> HIDE DEF n
  <2> QED
    BY <1>2, <1>3
<1>5. Is(node)
  <2> HIDE DEF Is
  <2> QED
    BY <1>4
<1>6. FindTranslation(locale, path) = IF node[n].is = "string" THEN node[n] ELSE Missing
  BY DEF FindTranslation
<1>7. PICK f : f = node
  OBVIOUS
<1>8. NodesTo(f, n, locale, path)
  <2>1. f = [i \in 0..n |-> IF i = 0 THEN locale ELSE Step(f[i - 1], path[i])]
    BY <1>5, <1>7
  <2> HIDE DEF n, node, Is
  <2>2. n \in Nat
    BY DEF n
  <2>3. DOMAIN f = 0..n /\ f = [i \in 0..n |-> f[i]]
    BY <2>1
  <2>4. f[0] = locale
    BY <2>1, <2>2
  <2>5. ASSUME NEW i \in 1..n PROVE f[i] = Step(f[i - 1], path[i])
    BY <2>1, <2>2
  <2> QED
    BY <2>3, <2>4, <2>5 DEF NodesTo
<1> QED
  BY <1>6, <1>7, <1>8

\* A string at the end has objects all the way, each with the next key.
LEMMA ObjectsOnTheWay ==
  ASSUME NEW f, NEW n \in Nat, NEW locale, NEW path, NodesTo(f, n, locale, path),
         f[n] # Missing
  PROVE  \A i \in 1..n : /\ f[i - 1].is = "object" /\ path[i] \in DOMAIN f[i - 1].at
                         /\ f[i] = f[i - 1].at[path[i]]
<1> DEFINE S == {i \in 0..n : f[n - i] # Missing}
<1>1. PICK rank : Walk(0..n, {0}, Before(n), rank)
  BY NumbersWalk
<1>2. ASSUME NEW i \in 1..n, f[i] # Missing
      PROVE  /\ f[i - 1].is = "object" /\ path[i] \in DOMAIN f[i - 1].at
             /\ f[i] = f[i - 1].at[path[i]]
  BY <1>2 DEF NodesTo, Step
<1>3. Missing.is # "object"
  BY DEF Missing
<1>4. 0 \in S
  OBVIOUS
<1>5. ASSUME NEW i \in 1..n, i - 1 \in S PROVE i \in S
  <2>1. n - (i - 1) \in 1..n /\ (n - (i - 1)) - 1 = n - i /\ i \in 0..n
    OBVIOUS
  <2>2. f[n - (i - 1)] # Missing
    BY <1>5
  <2>3. f[n - i].is = "object"
    BY <1>2, <2>1, <2>2
  <2> QED
    BY <1>3, <2>1, <2>3
<1>6. Closed(S, 0..n, {0}, Before(n))
  <2> SUFFICES ASSUME NEW i \in 0..n, i \in {0} \/ Before(n)[i] \in S PROVE i \in S
    BY DEF Closed
  <2>1. CASE i = 0
    BY <1>4, <2>1
  <2>2. CASE i # 0
    BY <1>5, <2>2 DEF Before
  <2> QED
    BY <2>1, <2>2
<1>7. 0..n \subseteq S
  <2> HIDE DEF S
  <2> QED
    BY <1>1, <1>6, WalkInduction
<1>8. ASSUME NEW i \in 0..n PROVE f[i] # Missing
  <2>1. n - i \in 0..n /\ n - (n - i) = i
    OBVIOUS
  <2>2. n - i \in S
    BY <1>7, <2>1
  <2> QED
    BY <2>1, <2>2
<1> QED
  BY <1>2, <1>8

(***************************************************************************)
(* The pairs that are compared                                             *)
(***************************************************************************)
RootPair(base, locale) == [path |-> <<>>, base |-> base, locale |-> locale]

PairsTo(f, m, base, locale) ==
    /\ f = [i \in 0..m |-> f[i]]
    /\ f[0] = {RootPair(base, locale)}
    /\ \A i \in 1..m : f[i] = UNION {Below(p) : p \in f[i - 1]}

LEMMA PairsExist ==
  ASSUME NEW base, NEW locale, NEW n \in Nat
  PROVE  \E f : PairsTo(f, n, base, locale)
<1> DEFINE S == {m \in 0..n : \E f : PairsTo(f, m, base, locale)}
<1>1. PICK rank : Walk(0..n, {0}, Before(n), rank)
  BY NumbersWalk
<1>2. 0 \in S
  <2>1. PICK f : f = [i \in 0..0 |-> {RootPair(base, locale)}]
    OBVIOUS
  <2>2. PairsTo(f, 0, base, locale)
    BY <2>1 DEF PairsTo
  <2> QED
    BY <2>2
<1>3. ASSUME NEW m \in 1..n, m - 1 \in S PROVE m \in S
  <2>1. PICK f : PairsTo(f, m - 1, base, locale)
    BY <1>3
  <2>2. PICK next : next = UNION {Below(p) : p \in f[m - 1]}
    OBVIOUS
  <2>3. PICK g : g = [i \in 0..m |-> IF i = m THEN next ELSE f[i]]
    OBVIOUS
  <2>4. \A i \in 0..(m - 1) : g[i] = f[i]
    BY <2>3
  <2>5. g[m] = next /\ g[m - 1] = f[m - 1]
    BY <2>3
  <2>6. g = [i \in 0..m |-> g[i]]
    BY <2>3
  <2>7. g[0] = {RootPair(base, locale)}
    BY <2>1, <2>4 DEF PairsTo
  <2>8. ASSUME NEW i \in 1..m PROVE g[i] = UNION {Below(p) : p \in g[i - 1]}
    <3>1. CASE i = m
      BY <2>2, <2>5, <3>1
    <3>2. CASE i # m
      <4>1. i \in 1..(m - 1) /\ i - 1 \in 0..(m - 1) /\ i \in 0..(m - 1)
        BY <3>2
      <4>2. f[i] = UNION {Below(p) : p \in f[i - 1]}
        BY <2>1, <4>1 DEF PairsTo
      <4>3. g[i] = f[i] /\ g[i - 1] = f[i - 1]
        BY <2>4, <4>1
      <4> QED
        BY <4>2, <4>3
    <3> QED
      BY <3>1, <3>2
  <2>9. PairsTo(g, m, base, locale)
    BY <2>6, <2>7, <2>8 DEF PairsTo
  <2> QED
    BY <2>9
<1>4. Closed(S, 0..n, {0}, Before(n))
  <2> SUFFICES ASSUME NEW i \in 0..n, i \in {0} \/ Before(n)[i] \in S PROVE i \in S
    BY DEF Closed
  <2>1. CASE i = 0
    BY <1>2, <2>1
  <2>2. CASE i # 0
    BY <1>3, <2>2 DEF Before
  <2> QED
    BY <2>1, <2>2
<1>5. n \in S
  <2> HIDE DEF S
  <2>1. 0..n \subseteq S
    BY <1>1, <1>4, WalkInduction
  <2> QED
    BY <2>1
<1> QED
  BY <1>5

LEMMA PairsUnfold ==
  ASSUME NEW base, NEW locale
  PROVE  PairsTo(Pairs(base, locale), Depth, base, locale)
<1> DEFINE Is(f) == f = [n \in 0..Depth |->
                           IF n = 0 THEN {[path |-> <<>>, base |-> base, locale |-> locale]}
                           ELSE UNION {Below(p) : p \in f[n - 1]}]
           chosen == CHOOSE f : Is(f)
<1>1. Depth \in Nat
  BY ApplicationsAssumption
<1>2. PICK g : PairsTo(g, Depth, base, locale)
  BY <1>1, PairsExist
<1>3. ASSUME NEW n \in 0..Depth
      PROVE  g[n] = IF n = 0 THEN {[path |-> <<>>, base |-> base, locale |-> locale]}
                    ELSE UNION {Below(p) : p \in g[n - 1]}
  <2>1. CASE n = 0
    <3>1. g[0] = {RootPair(base, locale)}
      BY <1>2, Zenon DEF PairsTo
    <3> QED
      BY <2>1, <3>1 DEF RootPair
  <2>2. CASE n # 0
    <3>1. n \in 1..Depth
      BY <1>1, <2>2
    <3> QED
      BY <1>2, <2>2, <3>1, Zenon DEF PairsTo
  <2> QED
    BY <2>1, <2>2
<1>4. g = [n \in 0..Depth |-> g[n]]
  BY <1>2 DEF PairsTo
<1>5. Is(g)
  BY <1>3, <1>4, Zenon
<1>6. Is(chosen)
  <2> HIDE DEF Is
  <2> QED
    BY <1>5
<1>7. Pairs(base, locale) = chosen
  BY DEF Pairs
<1>8. PICK f : f = Pairs(base, locale)
  OBVIOUS
<1>9. f = [n \in 0..Depth |-> IF n = 0 THEN {[path |-> <<>>, base |-> base, locale |-> locale]}
                              ELSE UNION {Below(p) : p \in f[n - 1]}]
  BY <1>6, <1>7, <1>8
<1>10. f = [n \in 0..Depth |-> f[n]]
  BY <1>9, Zenon
<1>11. \A n \in 0..Depth : f[n] = IF n = 0 THEN {[path |-> <<>>, base |-> base, locale |-> locale]}
                                  ELSE UNION {Below(p) : p \in f[n - 1]}
  BY <1>9, Zenon
<1>12. f[0] = {RootPair(base, locale)}
  <2>1. 0 \in 0..Depth
    BY <1>1
  <2>2. f[0] = {[path |-> <<>>, base |-> base, locale |-> locale]}
    BY <1>11, <2>1, Zenon
  <2> QED
    BY <2>2, Zenon DEF RootPair
<1>13. ASSUME NEW i \in 1..Depth PROVE f[i] = UNION {Below(p) : p \in f[i - 1]}
  <2>1. i \in 0..Depth /\ i # 0
    BY <1>1
  <2> QED
    BY <1>11, <2>1, Zenon
<1>14. PairsTo(f, Depth, base, locale)
  BY <1>10, <1>12, <1>13 DEF PairsTo
<1> QED
  BY <1>8, <1>14

\* The pair of the nodes at i keys of a path.
PairAt(b, l, path, i) == [path |-> SubSeq(path, 1, i), base |-> b[i], locale |-> l[i]]

\* A prefix one longer appends the next key.
LEMMA PrefixAppends ==
  ASSUME NEW T, NEW path \in Seq(T), NEW i \in 1..Len(path)
  PROVE  SubSeq(path, 1, i) = Append(SubSeq(path, 1, i - 1), path[i])
<1>1. SubSeq(path, 1, i) = SubSeq(path, 1, i - 1) \o <<path[i]>>
  BY SubSeqRecursiveSecond
<1>2. SubSeq(path, 1, i - 1) \in Seq(T) /\ path[i] \in T
  BY SubSeqProperties
<1> QED
  BY <1>1, <1>2, AppendIsConcat

\* Where a compared pair of objects has a path's next key and nothing is reported
\* there, both have it, with values that do not differ.
LEMMA NextAgrees ==
  ASSUME NEW base, NEW locale, NEW T, NEW path \in Seq(T), NEW b, NEW l,
         NodesTo(b, Len(path), base, path), NodesTo(l, Len(path), locale, path),
         NEW i \in 1..Len(path), i - 1 \in 0..Depth,
         PairAt(b, l, path, i - 1) \in Pairs(base, locale)[i - 1],
         l[i - 1].is = "object", path[i] \in DOMAIN b[i - 1].at,
         b[i] = b[i - 1].at[path[i]],
         SubSeq(path, 1, i) \notin Compared(base, locale)
  PROVE  /\ path[i] \in DOMAIN l[i - 1].at /\ l[i] = l[i - 1].at[path[i]]
         /\ ~Differ(b[i], l[i])
<1>1. PICK p : p = PairAt(b, l, path, i - 1)
  OBVIOUS
<1>2. p.path = SubSeq(path, 1, i - 1) /\ p.base = b[i - 1] /\ p.locale = l[i - 1]
  BY <1>1 DEF PairAt
<1>3. PICK k0 : k0 = path[i]
  OBVIOUS
<1>4. SubSeq(path, 1, i) = Append(SubSeq(path, 1, i - 1), path[i])
  BY PrefixAppends
<1>5. Append(p.path, k0) \notin Reported(p)
  <2> SUFFICES ASSUME Append(p.path, k0) \in Reported(p)
               PROVE  SubSeq(path, 1, i) \in Compared(base, locale)
    OBVIOUS
  <2> DEFINE At(n) == UNION {Reported(q) : q \in Pairs(base, locale)[n]}
  <2>1. Compared(base, locale) = UNION {At(n) : n \in 0..Depth}
    BY DEF Compared
  <2>2. SubSeq(path, 1, i) \in At(i - 1)
    BY <1>1, <1>2, <1>3, <1>4
  <2> HIDE DEF At
  <2> QED
    BY <2>1, <2>2
<1>6. k0 \in DOMAIN p.base.at /\ b[i] = p.base.at[k0]
  BY <1>2, <1>3
<1>7. k0 \in DOMAIN p.locale.at
  BY <1>5, <1>6 DEF Reported
<1>8. ~Differ(p.base.at[k0], p.locale.at[k0])
  BY <1>5, <1>6, <1>7 DEF Reported
<1>9. l[i] = l[i - 1].at[path[i]]
  <2>1. l[i] = Step(l[i - 1], path[i])
    BY DEF NodesTo
  <2> QED
    BY <1>2, <1>3, <1>7, <2>1 DEF Step
<1> QED
  BY <1>2, <1>3, <1>6, <1>7, <1>8, <1>9

\* A translation of the base to which nothing is reported along its path has its
\* like in the locale.
LEMMA Translates ==
  ASSUME NEW base, NEW locale, base.is = "object", locale.is = "object",
         Pairs(base, locale)[Depth] = {},
         NEW T, NEW path \in Seq(T), path # <<>>, FindTranslation(base, path) # Missing,
         \A n \in 0..Len(path) : SubSeq(path, 1, n) \notin Compared(base, locale)
  PROVE  /\ FindTranslation(locale, path) # Missing
         /\ FindTranslation(locale, path).names = FindTranslation(base, path).names
<1>1. Len(path) \in Nat /\ Len(path) > 0
  BY LenProperties, EmptySeq
<1>2. PICK n : n = Len(path)
  OBVIOUS
<1>3. PICK b : /\ NodesTo(b, n, base, path)
               /\ FindTranslation(base, path) = IF b[n].is = "string" THEN b[n] ELSE Missing
  BY <1>1, <1>2, FoundAlong
<1>4. PICK l : /\ NodesTo(l, n, locale, path)
               /\ FindTranslation(locale, path) = IF l[n].is = "string" THEN l[n] ELSE Missing
  BY <1>1, <1>2, FoundAlong
<1>5. Depth \in Nat
  BY ApplicationsAssumption
<1>6. PairsTo(Pairs(base, locale), Depth, base, locale)
  BY PairsUnfold
<1>7. b[n].is = "string" /\ b[n] = FindTranslation(base, path)
  BY <1>3
<1>8. \A i \in 1..n : /\ b[i - 1].is = "object" /\ path[i] \in DOMAIN b[i - 1].at
                       /\ b[i] = b[i - 1].at[path[i]]
  <2>1. b[n] # Missing
    BY <1>7 DEF Missing
  <2> QED
    BY <1>1, <1>2, <1>3, <2>1, ObjectsOnTheWay
<1> DEFINE Agrees(i) == /\ i \in 0..Depth /\ l[i].is = "object"
                        /\ PairAt(b, l, path, i) \in Pairs(base, locale)[i]
           S == {i \in 0..(n - 1) : Agrees(i)}
<1>9. ASSUME NEW i \in 1..n, Agrees(i - 1)
      PROVE  /\ path[i] \in DOMAIN l[i - 1].at /\ l[i] = l[i - 1].at[path[i]]
             /\ ~Differ(b[i], l[i])
  <2>1. i \in 1..Len(path) /\ i \in 0..Len(path)
    BY <1>1, <1>2
  <2>2. SubSeq(path, 1, i) \notin Compared(base, locale)
    BY <2>1
  <2>3. path[i] \in DOMAIN b[i - 1].at /\ b[i] = b[i - 1].at[path[i]]
    BY <1>8
  <2> QED
    BY <1>2, <1>3, <1>4, <1>9, <2>1, <2>2, <2>3, NextAgrees
<1>10. Agrees(0)
  <2>1. b[0] = base /\ l[0] = locale
    BY <1>3, <1>4 DEF NodesTo
  <2>2. SubSeq(path, 1, 0) = <<>>
    BY SubSeqEmpty
  <2>3. PairAt(b, l, path, 0) = RootPair(base, locale)
    BY <2>1, <2>2 DEF PairAt, RootPair
  <2>4. Pairs(base, locale)[0] = {RootPair(base, locale)}
    BY <1>6, Zenon DEF PairsTo
  <2> QED
    BY <1>5, <2>1, <2>3, <2>4
<1>11. ASSUME NEW i \in 1..(n - 1), Agrees(i - 1) PROVE Agrees(i)
  <2>1. i \in 1..n /\ i + 1 \in 1..n /\ (i + 1) - 1 = i /\ i - 1 \in 0..Depth
    BY <1>1, <1>2, <1>11
  <2>2. b[i].is = "object"
    BY <1>8, <2>1
  <2>3. /\ path[i] \in DOMAIN l[i - 1].at /\ l[i] = l[i - 1].at[path[i]] /\ ~Differ(b[i], l[i])
    BY <1>9, <1>11, <2>1
  <2>4. l[i].is = "object"
    BY <2>2, <2>3 DEF Differ
  <2>5. i - 1 # Depth
    BY <1>11
  <2>6. i \in 1..Depth
    BY <1>5, <2>1, <2>5
  <2>7. PICK p : p = PairAt(b, l, path, i - 1)
    OBVIOUS
  <2>8. p.path = SubSeq(path, 1, i - 1) /\ p.base = b[i - 1] /\ p.locale = l[i - 1]
    BY <2>7 DEF PairAt
  <2>9. PairAt(b, l, path, i) = [path |-> Append(p.path, path[i]), base |-> p.base.at[path[i]],
                                 locale |-> p.locale.at[path[i]]]
    <3>1. SubSeq(path, 1, i) = Append(SubSeq(path, 1, i - 1), path[i])
      <4>1. path \in Seq(T) /\ i \in 1..Len(path)
        BY <1>1, <1>2, <2>1
      <4> QED
        BY <4>1, PrefixAppends
    <3>2. b[i] = p.base.at[path[i]] /\ l[i] = p.locale.at[path[i]]
      BY <1>8, <2>1, <2>3, <2>8
    <3> QED
      BY <2>8, <3>1, <3>2 DEF PairAt
  <2>10. PairAt(b, l, path, i) \in Below(p)
    <3>1. path[i] \in DOMAIN p.base.at \cap DOMAIN p.locale.at
      BY <1>8, <2>1, <2>3, <2>8
    <3>2. p.base.at[path[i]].is = "object" /\ p.locale.at[path[i]].is = "object"
      BY <1>8, <2>1, <2>2, <2>3, <2>4, <2>8
    <3> QED
      BY <2>9, <3>1, <3>2, Zenon DEF Below
  <2>11. Pairs(base, locale)[i] = UNION {Below(q) : q \in Pairs(base, locale)[i - 1]}
    BY <1>6, <2>6, Zenon DEF PairsTo
  <2>12. p \in Pairs(base, locale)[i - 1]
    BY <1>11, <2>7
  <2>13. PairAt(b, l, path, i) \in Pairs(base, locale)[i]
    BY <2>10, <2>11, <2>12, Zenon
  <2>14. i \in 0..Depth
    BY <1>5, <2>6
  <2> QED
    BY <2>4, <2>13, <2>14
<1>12. Agrees(n - 1)
  <2>1. n - 1 \in Nat
    BY <1>1, <1>2
  <2>2. PICK rank : Walk(0..(n - 1), {0}, Before(n - 1), rank)
    BY <2>1, NumbersWalk
  <2>3. Closed(S, 0..(n - 1), {0}, Before(n - 1))
    <3> SUFFICES ASSUME NEW i \in 0..(n - 1), i \in {0} \/ Before(n - 1)[i] \in S PROVE i \in S
      BY DEF Closed
    <3>1. CASE i = 0
      BY <1>10, <3>1
    <3>2. CASE i # 0
      <4>1. i \in 1..(n - 1) /\ Before(n - 1)[i] = i - 1
        BY <2>1, <3>2 DEF Before
      <4>2. Agrees(i - 1)
        BY <3>2, <4>1
      <4> HIDE DEF Agrees
      <4> QED
        BY <1>11, <4>1, <4>2
    <3> QED
      BY <3>1, <3>2
  <2>4. n - 1 \in S
    <3> HIDE DEF S
    <3>1. 0..(n - 1) \subseteq S
      BY <2>2, <2>3, WalkInduction
    <3> QED
      BY <2>1, <3>1
  <2> HIDE DEF Agrees
  <2> QED
    BY <2>4
<1>13. ~Differ(b[n], l[n])
  <2>1. n \in 1..n
    BY <1>1, <1>2
  <2> HIDE DEF Agrees
  <2> QED
    BY <1>9, <1>12, <2>1
<1>14. l[n].is = "string" /\ l[n].names = b[n].names
  BY <1>7, <1>13 DEF Differ
<1> QED
  BY <1>4, <1>7, <1>14 DEF Missing

\* What is reported of a locale that is not the base.
LEMMA ReportedOf ==
  ASSUME NEW a, a.locales[a.base].is = "object", NEW l \in DOMAIN a.locales \ {a.base}, NEW where,
         \/ a.locales[l].is # "object" /\ where = <<>>
         \/ a.locales[l].is = "object" /\ where \in Compared(a.locales[a.base], a.locales[l])
  PROVE  [locale |-> l, at |-> where] \in Differences(a)
<1> DEFINE Of(m) == {[locale |-> m, at |-> x] : x \in
                       IF a.locales[m].is # "object" THEN {<<>>}
                       ELSE Compared(a.locales[a.base], a.locales[m])}
<1>1. Differences(a) = UNION {Of(m) : m \in DOMAIN a.locales \ {a.base}}
  BY DEF Differences
<1>2. [locale |-> l, at |-> where] \in Of(l)
  OBVIOUS
<1> HIDE DEF Of
<1> QED
  BY <1>1, <1>2

(***************************************************************************)
(* The function that provide returns                                       *)
(***************************************************************************)
I18nIInv ==
    /\ setup \in Applications
    /\ question = <<>> \/ \E locale \in DOMAIN LanguageOf, path \in Paths, given \in Interpolations :
          /\ question = <<[locale |-> locale, path |-> path, given |-> given]>>
          /\ answer = Answer(setup, locale, path, given)

\* The strengthened invariant.
THEOREM I18nInvariant == I18nSpec => []I18nIInv
<1>1. I18nInit => I18nIInv
  BY DEF I18nInit, I18nIInv
<1>2. I18nIInv /\ [I18nNext]_i18nVars => I18nIInv'
  <2> SUFFICES ASSUME I18nIInv, [I18nNext]_i18nVars PROVE I18nIInv'
    OBVIOUS
  <2>1. ASSUME NEW locale \in DOMAIN LanguageOf, NEW path \in Paths, NEW given \in Interpolations,
               Ask(locale, path, given)
        PROVE  I18nIInv'
    <3>1. setup' \in Applications
      BY <2>1 DEF I18nIInv, Ask
    <3>2. /\ question' = <<[locale |-> locale, path |-> path, given |-> given]>>
          /\ answer' = Answer(setup', locale, path, given)
      BY <2>1 DEF Ask
    <3> QED
      BY <3>1, <3>2, Zenon DEF I18nIInv
  <2>2. CASE UNCHANGED i18nVars
    BY <2>2 DEF i18nVars, I18nIInv
  <2> QED
    BY <2>1, <2>2 DEF I18nNext
<1> QED
  BY <1>1, <1>2, PTL DEF I18nSpec

\* What localeDifferences does not report translates, whatever the locales, the
\* paths and the interpolations.
THEOREM UnreportedPathsAlwaysTranslate == I18nSpec => []UnreportedPathsTranslate
<1>1. I18nIInv => UnreportedPathsTranslate
  <2> SUFFICES ASSUME I18nIInv, question # <<>> PROVE UnreportedPathsTranslate
    BY DEF UnreportedPathsTranslate
  <2>1. PICK locale \in DOMAIN LanguageOf, path \in Paths, given \in Interpolations :
          /\ question = <<[locale |-> locale, path |-> path, given |-> given]>>
          /\ answer = Answer(setup, locale, path, given)
    BY DEF I18nIInv
  <2>2. /\ question[1].locale = locale /\ question[1].path = path /\ question[1].given = given
    BY <2>1
  <2>3. PICK a \in Applications : a = setup
    BY DEF I18nIInv
  <2>4. PICK l : l = RequestedLocale(a, locale)
    OBVIOUS
  <2>5. l \in DOMAIN a.locales /\ a.base \in DOMAIN a.locales
    BY <2>4, ApplicationsAssumption DEF RequestedLocale
  <2>6. PICK inBase : inBase = FindTranslation(a.locales[a.base], path)
    OBVIOUS
  <2>7. PICK there : there = FindTranslation(a.locales[l], path)
    OBVIOUS
  <2>8. answer = IF there # Missing THEN Filled(l, there.names, given)
                 ELSE IF inBase # Missing THEN Filled(a.base, inBase.names, given)
                 ELSE [is |-> "key"]
    BY <2>1, <2>3, <2>4, <2>6, <2>7 DEF Answer
  <2>9. ASSUME inBase # Missing PROVE answer.is # "key"
    BY <2>8, <2>9 DEF Filled
  <2>10. ASSUME inBase # Missing,
                \A n \in 0..Len(path) : [locale |-> l, at |-> SubSeq(path, 1, n)] \notin Differences(a)
         PROVE  answer = Filled(l, inBase.names, given)
    <3>1. CASE l = a.base
      BY <2>6, <2>7, <2>8, <2>10, <3>1
    <3>2. CASE l # a.base
      <4>1. path \in Seq({path[i] : i \in DOMAIN path}) /\ path # <<>>
        BY DottedAssumption
      <4>2. Len(path) \in Nat /\ Len(path) > 0
        BY <4>1, LenProperties, EmptySeq
      <4>3. a.locales[a.base].is = "object"
        <5>1. PICK f : /\ NodesTo(f, Len(path), a.locales[a.base], path)
                       /\ inBase = IF f[Len(path)].is = "string" THEN f[Len(path)] ELSE Missing
          BY <2>6, <4>2, FoundAlong
        <5>2. f[Len(path)] # Missing
          BY <2>10, <5>1
        <5>3. f[1 - 1].is = "object"
          <6>1. 1 \in 1..Len(path)
            BY <4>2
          <6> QED
            BY <4>2, <5>1, <5>2, <6>1, ObjectsOnTheWay
        <5> QED
          BY <5>1, <5>3 DEF NodesTo
      <4>4. ASSUME NEW where, [locale |-> l, at |-> where] \notin Differences(a)
            PROVE  /\ a.locales[l].is # "object" => where # <<>>
                   /\ a.locales[l].is = "object" => where \notin Compared(a.locales[a.base], a.locales[l])
        BY <2>5, <3>2, <4>3, <4>4, ReportedOf
      <4>5. a.locales[l].is = "object"
        <5>1. SubSeq(path, 1, 0) = <<>> /\ 0 \in 0..Len(path)
          BY <4>2, SubSeqEmpty
        <5> QED
          BY <2>10, <4>4, <5>1
      <4>6. \A n \in 0..Len(path) :
               SubSeq(path, 1, n) \notin Compared(a.locales[a.base], a.locales[l])
        BY <2>10, <4>4, <4>5
      <4>7. Pairs(a.locales[a.base], a.locales[l])[Depth] = {}
        BY <2>5, <4>3, <4>5, ApplicationsAssumption
      <4>8. there # Missing /\ there.names = inBase.names
        BY <2>6, <2>7, <2>10, <4>1, <4>3, <4>5, <4>6, <4>7, Translates
      <4> QED
        BY <2>8, <4>8
    <3> QED
      BY <3>1, <3>2
  <2> QED
    BY <2>2, <2>3, <2>4, <2>6, <2>9, <2>10, Zenon DEF UnreportedPathsTranslate
<1> QED
  BY <1>1, I18nInvariant, PTL

(***************************************************************************)
(* Generated specs: for any resources that may be scaffolded               *)
(***************************************************************************)

\* The areas are apart, and the owner is the same to the controller and to its spec
\* wherever the association of the owner is used.
LEMMA AreasApart ==
  ASSUME NEW r PROVE ~(InArea(r, "admin") /\ InArea(r, "internal"))
BY DEF InArea

LEMMA SameOwner ==
  ASSUME NEW r
  PROVE  /\ UseDirectModelAccess(r) = SpecDirectAccess(r)
         /\ ~UseDirectModelAccess(r) => ControllerOwner(r) = SpecOwner(r)
<1>1. UseDirectModelAccess(r) = SpecDirectAccess(r)
  BY DEF UseDirectModelAccess, SpecDirectAccess
<1>2. ASSUME ~UseDirectModelAccess(r) PROVE ControllerOwner(r) = SpecOwner(r)
  BY <1>2, AreasApart DEF UseDirectModelAccess, ControllerOwner, SpecOwner, UserOf
<1> QED
  BY <1>1, <1>2

\* Somebody else is nobody that a controller's owner may be.
LEMMA NotSomebody ==
  ASSUME NEW r \in Scaffolds PROVE ControllerOwner(r) # "somebody"
BY ScaffoldsAssumption DEF ControllerOwner, UserOf

\* What the spec sends of a supported resource is assigned, by both actions that
\* take params; and what an update of somebody else's record is checked for are
\* columns.
LEMMA SentAreAssigned ==
  ASSUME NEW r \in Scaffolds, Supported(r), NEW action \in {"create", "update"}
  PROVE  Assigned(r, action) = SentColumns(r) /\ SentColumns(r) \subseteq r.columns
<1>1. GeneratedAction(r, action).accepts = SafeColumns(r)
  BY DEF GeneratedAction, Generated
<1>2. SentColumns(r) \subseteq r.columns
  BY DEF SentColumns, ParsedColumns
<1>3. ASSUME NEW c \in SentColumns(r) PROVE c \in SafeColumns(r)
  <2>1. c \in ParsedColumns(r) /\ c.type \in SpecTypes /\ ~(c.type = "enum" /\ c.name = "type")
    BY DEF SentColumns
  <2>2. c.type # "belongs_to"
    BY <2>1 DEF SpecTypes
  <2>3. c.name # "deletedAt"
    BY <2>1, <2>2 DEF ParsedColumns, Parsed
  <2>4. c.name \notin {"id", "createdAt", "updatedAt", "type"}
    BY <2>1, <2>2 DEF Supported
  <2> QED
    BY <2>1, <2>2, <2>3, <2>4 DEF SafeColumns
<1> QED
  BY <1>1, <1>2, <1>3 DEF Assigned

\* A supported resource can be created with what its spec sends.
LEMMA SupportedIsCreatable ==
  ASSUME NEW r \in Scaffolds, Supported(r)
  PROVE  Creatable(r)
<1> SUFFICES ASSUME NEW c \in Required(r)
             PROVE  IF c.type = "belongs_to" THEN ~UseDirectModelAccess(r) /\ c.name = ControllerOwner(r)
                    ELSE c \in Assigned(r, "create")
  BY DEF Creatable
<1>1. CASE c.type = "belongs_to"
  <2>1. c.name \in {d.name : d \in {e \in r.columns : e.type = "belongs_to" /\ ~e.optional}}
    BY <1>1 DEF Required
  <2>2. c.name \in IF SpecDirectAccess(r) THEN {} ELSE {SpecOwner(r)}
    BY <2>1 DEF Supported
  <2> QED
    BY <1>1, <2>2, SameOwner
<1>2. CASE c.type # "belongs_to"
  <2>1. c \in r.columns /\ Parsed(c) /\ c.type \in SpecTypes /\ c.name # "type"
    BY <1>2 DEF Supported, Required
  <2>2. c \in SentColumns(r)
    BY <2>1 DEF SentColumns, ParsedColumns
  <2> QED
    BY <1>2, <2>2, SentAreAssigned
<1> QED
  BY <1>1, <1>2

\* Whatever an example of a supported resource refers to is declared for it.
LEMMA NamesDeclared ==
  ASSUME NEW r \in Scaffolds, Supported(r), NEW e \in Examples(r)
  PROVE  ReferredNames(r, e) \subseteq DeclaredNames(r, e)
<1> DEFINE values == UNION {ValueName(c, e.action) : c \in SentColumns(r)}
<1>1. ASSUME NEW v \in PathArguments(r) PROVE Name("id", v) \in DeclaredNames(r, e)
  <2>1. v = r.owning
    BY DEF Supported
  <2>2. v # NoOwner
    BY ScaffoldsAssumption DEF PathArguments
  <2>3. v \in Variables(r)
    BY <2>1, <2>2 DEF Variables, SpecOwner
  <2> QED
    BY <2>3 DEF DeclaredNames
<1>2. ASSUME NEW n \in values, e.action \in {"create", "update"},
             e.whose # "own" => n[1] # "new uuid"
      PROVE  n \in DateTimeSetup(r, e)
  <2>1. PICK c \in SentColumns(r) : n \in ValueName(c, e.action)
    OBVIOUS
  <2>2. CASE c.type = "date"
    <3>1. Included(r, "date")
      BY <2>2 DEF Included
    <3> QED
      BY <1>2, <2>1, <2>2, <3>1 DEF ValueName, DateTimeSetup, Name
  <2>3. CASE c.type = "datetime"
    <3>1. Included(r, "datetime")
      BY <2>3 DEF Included
    <3> QED
      BY <1>2, <2>1, <2>3, <3>1 DEF ValueName, DateTimeSetup, Name
  <2>4. CASE c.type = "uuid"
    <3>1. c \in {d \in SentColumns(r) : d.type = "uuid"}
      BY <2>4
    <3>2. n = IF e.action = "create" THEN Name("uuid", c.name) ELSE Name("new uuid", c.name)
      BY <2>1, <2>4 DEF ValueName, Name
    <3>3. CASE e.action = "create"
      BY <3>1, <3>2, <3>3 DEF DateTimeSetup
    <3>4. CASE e.action = "update"
      <4>1. e.whose = "own"
        BY <1>2, <3>2, <3>4 DEF Name
      <4> QED
        BY <3>1, <3>2, <3>4, <4>1 DEF DateTimeSetup
    <3> QED
      BY <1>2, <3>3, <3>4
  <2>5. CASE c.type \notin {"date", "datetime", "uuid"}
    BY <2>1, <2>5 DEF ValueName
  <2> QED
    BY <2>2, <2>3, <2>4, <2>5
<1>3. ASSUME NEW t \in {"date", "datetime", "uuid"}, Included(r, t)
      PROVE  Name("import", t) \in ImportStatements(r)
  BY <1>3 DEF ImportStatements
<1> SUFFICES ASSUME NEW n \in ReferredNames(r, e) PROVE n \in DeclaredNames(r, e)
  OBVIOUS
<1>4. CASE \E v \in PathArguments(r) : n = Name("id", v)
  BY <1>1, <1>4
<1>5. CASE n \in values /\ e.action \in {"create", "update"} /\ (e.whose # "own" => n[1] # "new uuid")
  <2>1. n \in DateTimeSetup(r, e)
    BY <1>2, <1>5
  <2> QED
    BY <2>1 DEF DeclaredNames
<1>6. CASE \E t \in {"date", "datetime", "uuid"} : Included(r, t) /\ n = Name("import", t)
  BY <1>3, <1>6 DEF DeclaredNames
<1>7. \/ \E v \in PathArguments(r) : n = Name("id", v)
      \/ n \in values /\ e.action \in {"create", "update"} /\ (e.whose # "own" => n[1] # "new uuid")
      \/ \E t \in {"date", "datetime", "uuid"} : Included(r, t) /\ n = Name("import", t)
  <2> HIDE DEF values
  <2>1. \/ n \in {Name("id", v) : v \in PathArguments(r)}
        \/ n \in (IF e.action \notin {"create", "update"} THEN {}
                  ELSE IF e.whose = "own" THEN values ELSE {m \in values : m[1] # "new uuid"})
        \/ n \in {Name("import", type) : type \in
                     IF e.action \notin {"create", "update"} THEN {}
                     ELSE {t \in {"date", "datetime", "uuid"} : Included(r, t)}}
    BY DEF ReferredNames, values
  <2> QED
    BY <2>1
<1> QED
  BY <1>4, <1>5, <1>6, <1>7

\* The example of an action on a record of its own.
LEMMA OwnPasses ==
  ASSUME NEW r \in Scaffolds, Supported(r), NEW a \in RESOURCE_ACTIONS,
         NEW e, e = [action |-> a, whose |-> "own"]
  PROVE  LET before == Created(r, e)  out == Outcome(r, a, before) IN
         /\ out.reply.status = ExpectedStatus(e)
         /\ a = "index" => ExpectedOfIndex(r, e, before, out)
         /\ a = "show" => ExpectedOfShow(r, e, before, out)
         /\ a = "create" => ExpectedOfCreate(r, e, before, out)
         /\ a = "update" => ExpectedOfUpdate(r, e, before, out)
         /\ a = "destroy" => ExpectedOfDestroy(r, e, before, out)
<1> DEFINE before == Created(r, e)
           out == Outcome(r, a, before)
           fetched == InScope(r, before)
<1>1. a # "create" => fetched = before /\ before # {}
  <2>1. SUFFICES ASSUME a # "create" PROVE fetched = before /\ before # {}
    OBVIOUS
  <2>2. PICK x : x = [owner |-> IF ~SpecDirectAccess(r) THEN SpecOwner(r) ELSE "somebody",
                      values |-> [c \in r.columns |-> "factory's"]]
    OBVIOUS
  <2>3. before = {x}
    BY <2>1, <2>2 DEF Created
  <2>4. UseDirectModelAccess(r) \/ x.owner = ControllerOwner(r)
    BY <2>2, SameOwner
  <2> QED
    BY <2>3, <2>4 DEF InScope
<1>2. CASE a = "index"
  <2>1. out = [reply |-> Reply(200, fetched), records |-> before]
    BY <1>2 DEF Outcome, GeneratedAction, Generated
  <2> QED
    BY <1>1, <1>2, <2>1 DEF Reply, ExpectedStatus, ExpectedOfIndex
<1>3. CASE a = "show"
  <2>1. out = [reply |-> Reply(200, fetched), records |-> before]
    BY <1>1, <1>3 DEF Outcome, GeneratedAction, Generated
  <2> QED
    BY <1>1, <1>3, <2>1 DEF Reply, ExpectedStatus, ExpectedOfShow
<1>4. CASE a = "create"
  <2>1. before = {}
    BY <1>4 DEF Created
  <2>2. PICK new : new = [owner |-> IF UseDirectModelAccess(r) THEN NoOwner ELSE ControllerOwner(r),
                          values |-> [c \in r.columns |->
                              IF c \in Assigned(r, "create") THEN "original" ELSE "unset"]]
    OBVIOUS
  <2>3. out = [reply |-> Reply(201, {new}), records |-> before \cup {new}]
    BY <1>4, <2>2, SupportedIsCreatable DEF Outcome, GeneratedAction, Generated
  <2>4. \A c \in SentColumns(r) : new.values[c] = "original"
    BY <2>2, SentAreAssigned
  <2>5. SpecDirectAccess(r) \/ new.owner = SpecOwner(r)
    BY <2>2, SameOwner
  <2> QED
    BY <1>4, <2>1, <2>3, <2>4, <2>5 DEF Reply, ExpectedStatus, ExpectedOfCreate
<1>5. CASE a = "update"
  <2> DEFINE Updated(x) == [x EXCEPT !.values = [c \in r.columns |->
                               IF c \in Assigned(r, "update") THEN "updated" ELSE @[c]]]
  <2>1. out = [reply |-> Reply(204, {}), records |-> (before \ fetched) \cup {Updated(x) : x \in fetched}]
    <3>1. GeneratedAction(r, "update").answers = 204
      BY DEF GeneratedAction, Generated
    <3>2. ASSUME NEW records, InScope(r, records) # {}
          PROVE  Outcome(r, "update", records) =
                   [reply |-> Reply(204, {}),
                    records |-> (records \ InScope(r, records)) \cup {Updated(x) : x \in InScope(r, records)}]
      BY <3>1, <3>2 DEF Outcome
    <3> QED
      BY <1>1, <1>5, <3>2
  <2>2. out.records = {Updated(x) : x \in before}
    BY <1>1, <1>5, <2>1
  <2>3. ASSUME NEW x \in before, NEW c \in SentColumns(r) PROVE Updated(x).values[c] = "updated"
    <3>1. DOMAIN x = {"owner", "values"}
      BY <1>5 DEF Created
    <3>2. c \in r.columns /\ c \in Assigned(r, "update")
      BY SentAreAssigned
    <3> QED
      BY <3>1, <3>2
  <2>4. out.reply.status = 204
    BY <2>1 DEF Reply
  <2> HIDE DEF Updated, before, out
  <2>5. ExpectedOfUpdate(r, e, before, out) /\ out.reply.status = ExpectedStatus(e)
    BY <1>5, <2>2, <2>3, <2>4 DEF ExpectedStatus, ExpectedOfUpdate
  <2> QED
    BY <1>5, <2>5 DEF before, out
<1>6. CASE a = "destroy"
  <2>1. out = [reply |-> Reply(204, {}), records |-> before \ fetched]
    BY <1>1, <1>6 DEF Outcome, GeneratedAction, Generated
  <2> QED
    BY <1>1, <1>6, <2>1 DEF Reply, ExpectedStatus, ExpectedOfDestroy
<1> HIDE DEF before, out
<1> QED
  BY <1>2, <1>3, <1>4, <1>5, <1>6 DEF RESOURCE_ACTIONS, before, out

\* The example of an action on a record that is somebody else's.
LEMMA OtherPasses ==
  ASSUME NEW r \in Scaffolds, ~SpecDirectAccess(r), NEW a \in RESOURCE_ACTIONS \ {"create"},
         NEW e, e = [action |-> a, whose |-> "another's"]
  PROVE  LET before == Created(r, e)  out == Outcome(r, a, before) IN
         /\ out.reply.status = ExpectedStatus(e)
         /\ a = "index" => ExpectedOfIndex(r, e, before, out)
         /\ a = "show" => ExpectedOfShow(r, e, before, out)
         /\ a = "update" => ExpectedOfUpdate(r, e, before, out)
         /\ a = "destroy" => ExpectedOfDestroy(r, e, before, out)
<1> DEFINE before == Created(r, e)
           out == Outcome(r, a, before)
<1>1. PICK x : x = [owner |-> "somebody", values |-> [c \in r.columns |-> "factory's"]]
  OBVIOUS
<1>2. before = {x}
  BY <1>1 DEF Created
<1>3. InScope(r, before) = {}
  BY <1>1, <1>2, NotSomebody, SameOwner DEF InScope
<1>4. CASE a = "index"
  <2>1. out = [reply |-> Reply(200, {}), records |-> before]
    BY <1>3, <1>4 DEF Outcome, GeneratedAction, Generated
  <2> QED
    BY <1>4, <2>1 DEF Reply, ExpectedStatus, ExpectedOfIndex
<1>5. CASE a # "index"
  <2>1. out = [reply |-> Reply(404, {}), records |-> before]
    BY <1>3, <1>5 DEF Outcome
  <2>2. out.reply.status = ExpectedStatus(e)
    BY <1>5, <2>1 DEF Reply, ExpectedStatus
  <2>3. a = "update" => ExpectedOfUpdate(r, e, before, out)
    BY <1>1, <1>2, <2>1 DEF ExpectedOfUpdate, TrackedColumns, ParsedColumns
  <2> QED
    BY <1>5, <2>1, <2>2, <2>3 DEF ExpectedOfShow, ExpectedOfDestroy
<1> HIDE DEF before, out
<1> QED
  BY <1>4, <1>5 DEF before, out

\* What an action answers is what it documents, of a record loaded for it.
LEMMA DocumentsWhatItAnswers ==
  ASSUME NEW r, NEW a \in RESOURCE_ACTIONS
  PROVE  LET g == GeneratedAction(r, a) IN g.documents = g.answers /\ g.renders \in {g.loads, "nothing"}
<1>1. CASE a = "create" BY <1>1 DEF GeneratedAction, Generated
<1>2. CASE a = "index" BY <1>2 DEF GeneratedAction, Generated
<1>3. CASE a = "show" BY <1>3 DEF GeneratedAction, Generated
<1>4. CASE a = "update" BY <1>4 DEF GeneratedAction, Generated
<1>5. CASE a = "destroy" BY <1>5 DEF GeneratedAction, Generated
<1> QED
  BY <1>1, <1>2, <1>3, <1>4, <1>5 DEF RESOURCE_ACTIONS

\* The actions of a controller are some of those of a resource.
LEMMA ActionsOfResource ==
  ASSUME NEW r PROVE Actions(r) \subseteq RESOURCE_ACTIONS
BY DEF Actions, DefaultActions

\* Every example of a supported resource passes.
LEMMA ExamplePasses ==
  ASSUME NEW r \in Scaffolds, Supported(r), NEW e \in Examples(r)
  PROVE  Expected(r, e, Created(r, e), Outcome(r, e.action, Created(r, e)))
<1>1. PICK a : a = e.action
  OBVIOUS
<1>2. \/ a \in RESOURCE_ACTIONS /\ e = [action |-> a, whose |-> "own"]
      \/ /\ a \in RESOURCE_ACTIONS \ {"create"} /\ ~SpecDirectAccess(r)
         /\ e = [action |-> a, whose |-> "another's"]
  <2>1. CASE e \in {[action |-> b, whose |-> "own"] : b \in Actions(r)}
    BY <1>1, <2>1, ActionsOfResource
  <2>2. CASE e \in {[action |-> b, whose |-> "another's"] :
            b \in IF r.method = "resource" \/ SpecDirectAccess(r) THEN {} ELSE Actions(r) \ {"create"}}
    BY <1>1, <2>2, ActionsOfResource
  <2> QED
    BY <2>1, <2>2 DEF Examples
<1>3. PICK before : before = Created(r, e)
  OBVIOUS
<1>4. PICK out : out = Outcome(r, a, before)
  OBVIOUS
<1>5. /\ out.reply.status = ExpectedStatus(e)
      /\ a = "index" => ExpectedOfIndex(r, e, before, out)
      /\ a = "show" => ExpectedOfShow(r, e, before, out)
      /\ a = "create" => ExpectedOfCreate(r, e, before, out)
      /\ a = "update" => ExpectedOfUpdate(r, e, before, out)
      /\ a = "destroy" => ExpectedOfDestroy(r, e, before, out)
  <2>1. CASE a \in RESOURCE_ACTIONS /\ e = [action |-> a, whose |-> "own"]
    BY <1>3, <1>4, <2>1, OwnPasses, Zenon
  <2>2. CASE /\ a \in RESOURCE_ACTIONS \ {"create"} /\ ~SpecDirectAccess(r)
             /\ e = [action |-> a, whose |-> "another's"]
    <3>1. a # "create"
      BY <2>2
    <3> QED
      BY <1>3, <1>4, <2>2, <3>1, OtherPasses, Zenon
  <2> QED
    BY <1>2, <2>1, <2>2
<1>6. ReferredNames(r, e) \subseteq DeclaredNames(r, e)
  BY NamesDeclared
<1>7. a \in {"index", "show", "create", "update", "destroy"}
  BY <1>2 DEF RESOURCE_ACTIONS
<1>8. Expected(r, e, before, out)
  BY <1>1, <1>5, <1>6, <1>7 DEF Expected
<1> QED
  BY <1>1, <1>3, <1>4, <1>8

\* An example that was run did as Expected says.
SpecsIInv ==
    \/ scaffold = <<>> /\ example = <<>>
    \/ \E r \in Scaffolds : scaffold = <<r>> /\ example = <<>> /\ passed
    \/ \E r \in Scaffolds : \E e \in Examples(r) :
          /\ scaffold = <<r>> /\ example = <<e>>
          /\ passed = Expected(r, e, Created(r, e), Outcome(r, e.action, Created(r, e)))
SpecsInv == SpecsIInv /\ (scaffold = <<>> => passed)

\* An example that was run passed if its action did as Expected says.
THEOREM SpecsInvariant == SpecsSpec => []SpecsInv
<1>1. SpecsInit => SpecsInv
  BY DEF SpecsInit, SpecsInv, SpecsIInv
<1>2. SpecsInv /\ [SpecsNext]_specVars => SpecsInv'
  <2> SUFFICES ASSUME SpecsInv, [SpecsNext]_specVars PROVE SpecsInv'
    OBVIOUS
  <2>1. ASSUME scaffold = <<>>, NEW r \in Scaffolds, WriteScaffold(r) PROVE SpecsInv'
    <3>1. example = <<>> /\ passed
      BY <2>1 DEF SpecsInv, SpecsIInv
    <3>2. scaffold' = <<r>> /\ example' = <<>> /\ passed'
      BY <2>1, <3>1, Zenon DEF WriteScaffold
    <3>3. scaffold' # <<>>
      BY <3>2
    <3> QED
      BY <3>2, <3>3, Zenon DEF SpecsInv, SpecsIInv
  <2>2. ASSUME scaffold # <<>>, example = <<>>, NEW e \in Examples(scaffold[1]), RunExample(e)
        PROVE  SpecsInv'
    <3>1. PICK r \in Scaffolds : scaffold = <<r>>
      BY <2>2 DEF SpecsInv, SpecsIInv
    <3>2. scaffold[1] = r
      BY <3>1
    <3>3. /\ scaffold' = <<r>> /\ example' = <<e>> /\ e \in Examples(r)
          /\ passed' = Expected(r, e, Created(r, e), Outcome(r, e.action, Created(r, e)))
      BY <2>2, <3>1, <3>2, Zenon DEF RunExample
    <3>4. scaffold' # <<>>
      BY <3>3
    <3> QED
      BY <3>3, <3>4, Zenon DEF SpecsInv, SpecsIInv
  <2>3. CASE UNCHANGED specVars
    BY <2>3, Zenon DEF specVars, SpecsInv, SpecsIInv
  <2> QED
    BY <2>1, <2>2, <2>3 DEF SpecsNext
<1> QED
  BY <1>1, <1>2, PTL DEF SpecsSpec

\* The spec that `g:resource` writes passes against the controller, the model and
\* the routes that it writes (generateResourceControllerSpecContent.ts), for every
\* supported resource.
THEOREM GeneratedSpecsAlwaysPass == SpecsSpec => []GeneratedSpecsPass
<1>1. SpecsInv => GeneratedSpecsPass
  <2> SUFFICES ASSUME SpecsInv, scaffold # <<>> PROVE GeneratedSpecsPass
    BY DEF GeneratedSpecsPass
  <2>1. PICK r \in Scaffolds : /\ scaffold = <<r>>
           /\ \/ passed
              \/ \E e \in Examples(r) :
                   passed = Expected(r, e, Created(r, e), Outcome(r, e.action, Created(r, e)))
    BY DEF SpecsInv, SpecsIInv
  <2>2. scaffold[1] = r
    BY <2>1
  <2>3. Supported(r) => passed
    BY <2>1, ExamplePasses, Zenon
  <2>4. \A a \in Actions(r) :
           LET g == GeneratedAction(r, a) IN g.documents = g.answers /\ g.renders \in {g.loads, "nothing"}
    BY ActionsOfResource, DocumentsWhatItAnswers
  <2> QED
    BY <2>2, <2>3, <2>4, Zenon DEF GeneratedSpecsPass
<1> QED
  BY <1>1, SpecsInvariant, PTL

(***************************************************************************)
(* The tree of an application's controllers: for any registry              *)
(***************************************************************************)

\* A registry, or none yet.
Registry(h) == h \in Hierarchies \cup {<<>>}

LEMMA RegistryType ==
  ASSUME NEW h, Registry(h)
  PROVE  /\ Len(h) \in Nat /\ DOMAIN h = 1..Len(h) /\ 0 \notin DOMAIN h
         /\ \A c \in DOMAIN h : h[c].extends \in 0..Len(h) /\ c \notin Above(h, c)
<1>1. CASE h = <<>>
  BY <1>1
<1>2. CASE h \in Hierarchies
  <2>1. /\ h \in Seq([dir : Seq(STRING), extends : Nat])
        /\ \A c \in DOMAIN h : h[c].extends <= Len(h) /\ c \notin Above(h, c)
    BY <1>2, TreeAssumption
  <2>2. ASSUME NEW c \in DOMAIN h PROVE h[c].extends \in Nat
    <3> DEFINE Class == [dir : Seq(STRING), extends : Nat]
    <3>1. h \in Seq(Class)
      BY <2>1
    <3>2. h[c] \in Class
      <4> HIDE DEF Class
      <4> QED
        BY <3>1
    <3> QED
      BY <3>2
  <2> QED
    BY <2>1, <2>2
<1> QED
  BY <1>1, <1>2 DEF Registry

\* The classes above a class are the least set that holds the one it extends and,
\* with a class, the one that class extends.
LEMMA AboveHolds ==
  ASSUME NEW h, Registry(h), NEW c \in DOMAIN h
  PROVE  /\ Above(h, c) \subseteq 0..Len(h) /\ h[c].extends \in Above(h, c)
         /\ \A d \in Above(h, c) \ {0} : d \in DOMAIN h /\ h[d].extends \in Above(h, c)
<1>1. Len(h) \in Nat /\ DOMAIN h = 1..Len(h) /\ \A d \in DOMAIN h : h[d].extends \in 0..Len(h)
  BY RegistryType
<1>2. Above(h, c) \subseteq 0..Len(h) /\ h[c].extends \in Above(h, c)
  BY <1>1 DEF Above
<1>3. ASSUME NEW d \in Above(h, c) \ {0} PROVE d \in DOMAIN h /\ h[d].extends \in Above(h, c)
  <2>1. d \in DOMAIN h /\ h[d].extends \in 0..Len(h)
    BY <1>1, <1>2
  <2> QED
    BY <2>1 DEF Above
<1> QED
  BY <1>2, <1>3

LEMMA AboveLeast ==
  ASSUME NEW h, NEW c \in DOMAIN h, NEW S \in SUBSET (0..Len(h)),
         h[c].extends \in S, \A d \in S \ {0} : h[d].extends \in S
  PROVE  Above(h, c) \subseteq S
BY DEF Above

\* What is above a class above is above; and the classes above one are the one it
\* extends and those above that.
LEMMA AboveUpward ==
  ASSUME NEW h, Registry(h), NEW c \in DOMAIN h
  PROVE  /\ \A a \in Above(h, c) \ {0} : Above(h, a) \subseteq Above(h, c)
         /\ h[c].extends = 0 => Above(h, c) = {0}
         /\ h[c].extends # 0 => Above(h, c) = {h[c].extends} \cup Above(h, h[c].extends)
<1> DEFINE p == h[c].extends
<1>1. Len(h) \in Nat /\ DOMAIN h = 1..Len(h) /\ p \in 0..Len(h)
  BY RegistryType
<1>2. ASSUME NEW a \in Above(h, c) \ {0} PROVE Above(h, a) \subseteq Above(h, c)
  <2>1. /\ Above(h, c) \in SUBSET (0..Len(h)) /\ a \in DOMAIN h /\ h[a].extends \in Above(h, c)
        /\ \A d \in Above(h, c) \ {0} : h[d].extends \in Above(h, c)
    BY AboveHolds
  <2> QED
    BY <2>1, AboveLeast
<1>3. ASSUME p = 0 PROVE Above(h, c) = {0}
  <2>1. Above(h, c) \subseteq {0}
    <3>1. {0} \in SUBSET (0..Len(h)) /\ h[c].extends \in {0} /\ \A d \in {0} \ {0} : h[d].extends \in {0}
      BY <1>1, <1>3
    <3> QED
      BY <3>1, AboveLeast
  <2> QED
    BY <1>3, <2>1, AboveHolds
<1>4. ASSUME p # 0 PROVE Above(h, c) = {p} \cup Above(h, p)
  <2>1. p \in DOMAIN h
    BY <1>1, <1>4
  <2> DEFINE S == {p} \cup Above(h, p)
  <2>2. S \in SUBSET (0..Len(h)) /\ h[c].extends \in S /\ \A d \in S \ {0} : h[d].extends \in S
    BY <1>1, <2>1, AboveHolds
  <2>3. Above(h, c) \subseteq S
    <3> HIDE DEF S
    <3> QED
      BY <2>2, AboveLeast
  <2>4. S \subseteq Above(h, c)
    BY <1>2, <1>4, AboveHolds
  <2> QED
    BY <2>3, <2>4
<1> QED
  BY <1>2, <1>3, <1>4

\* Classes each of which extends another of them there are none.
LEMMA NoCircle ==
  ASSUME NEW h, Registry(h), NEW S \in SUBSET (DOMAIN h), \A c \in S : h[c].extends \in S
  PROVE  S = {}
<1> SUFFICES ASSUME S # {} PROVE FALSE
  OBVIOUS
<1> DEFINE T == {Cardinality(Above(h, c)) : c \in S}
<1>1. ASSUME NEW c \in DOMAIN h PROVE IsFiniteSet(Above(h, c)) /\ Cardinality(Above(h, c)) \in Nat
  <2>1. Above(h, c) \subseteq 0..Len(h) /\ IsFiniteSet(0..Len(h))
    BY AboveHolds, RegistryType, FS_Interval
  <2> QED
    BY <2>1, FS_Subset, FS_CardinalityType
<1>2. T \in SUBSET Nat /\ T # {}
  BY <1>1
<1>3. PICK c \in S : \A d \in S : Cardinality(Above(h, c)) <= Cardinality(Above(h, d))
  <2>1. PICK m \in T : \A k \in T : m <= k
    BY <1>2, SmallestOf
  <2> QED
    BY <2>1
<1> DEFINE p == h[c].extends
<1>4. p \in S /\ p \in DOMAIN h /\ p # 0
  BY RegistryType
<1>5. Above(h, p) \subseteq Above(h, c) /\ p \in Above(h, c) /\ p \notin Above(h, p)
  BY <1>4, AboveUpward, AboveHolds, RegistryType
<1>6. Above(h, p) # Above(h, c)
  BY <1>5
<1>7. Cardinality(Above(h, p)) < Cardinality(Above(h, c))
  <2> DEFINE V == Above(h, p)
             W == Above(h, c)
  <2>1. IsFiniteSet(W) /\ V \in SUBSET W /\ V # W
    BY <1>1, <1>5, <1>6
  <2> HIDE DEF V, W
  <2>2. IsFiniteSet(V) /\ Cardinality(V) <= Cardinality(W) /\ Cardinality(V) # Cardinality(W)
    BY <2>1, FS_Subset
  <2>3. Cardinality(V) < Cardinality(W)
    BY <2>1, <2>2, FS_CardinalityType
  <2> QED
    BY <2>3 DEF V, W
<1>8. Cardinality(Above(h, p)) \in Nat /\ Cardinality(Above(h, c)) \in Nat
  BY <1>1, <1>4
<1> QED
  BY <1>3, <1>4, <1>7, <1>8

\* A root hangs from the tree, and so does a class of the directory exactly if
\* the one that it extends is of the directory and hangs from it.
LEMMA HangsByParent ==
  ASSUME NEW h, Registry(h), NEW classes \in SUBSET (DOMAIN h), NEW c \in classes
  PROVE  IF c \in TreeRoots(h, classes) THEN Hangs(h, classes, c)
         ELSE Hangs(h, classes, c) <=> h[c].extends \in classes /\ Hangs(h, classes, h[c].extends)
<1> DEFINE p == h[c].extends
<1>1. 0 \notin classes /\ p \in Above(h, c) /\ p \in 0..Len(h) /\ (p # 0 => p \in DOMAIN h)
  BY RegistryType, AboveHolds
<1>2. /\ \A a \in Above(h, c) \ {0} : Above(h, a) \subseteq Above(h, c)
      /\ p = 0 => Above(h, c) = {0}
      /\ p # 0 => Above(h, c) = {p} \cup Above(h, p)
  BY AboveUpward
<1>3. ASSUME c \in TreeRoots(h, classes) PROVE Hangs(h, classes, c)
  BY <1>2, <1>3 DEF TreeRoots, Hangs
<1>4. ASSUME c \notin TreeRoots(h, classes), Hangs(h, classes, c)
      PROVE  p \in classes /\ Hangs(h, classes, p)
  <2>1. Above(h, c) \cap classes # {}
    BY <1>4 DEF TreeRoots
  <2>2. p # 0
    BY <1>1, <1>2, <2>1
  <2>3. p \in classes \/ Above(h, p) \cap classes = {}
    BY <1>1, <1>4, <2>2 DEF Hangs
  <2>4. p \in classes
    BY <1>2, <2>1, <2>2, <2>3
  <2> QED
    BY <1>2, <1>4, <2>2, <2>4 DEF Hangs
<1>5. ASSUME p \in classes, Hangs(h, classes, p) PROVE Hangs(h, classes, c)
  BY <1>1, <1>2, <1>5 DEF Hangs
<1> QED
  BY <1>3, <1>4, <1>5

(***************************************************************************)
(* The walk over a tree                                                    *)
(***************************************************************************)

TreeClasses == Selected(hierarchy, directory)
Shown == {printed[i].shows : i \in DOMAIN printed}

\* A class that is printed, or that a call has still to print, is a root or has
\* its parent printed, as that call or as a line that it is below; and the line
\* of a call that is under way is followed by deeper ones only.
Placed ==
    /\ \A n \in DOMAIN walk : \A c \in walk[n].children :
          IF n = 1 THEN c \in TreeRoots(hierarchy, TreeClasses)
          ELSE c \in ChildrenOf(hierarchy, TreeClasses, walk[n].of)
    /\ \A i \in DOMAIN printed :
          IF printed[i].depth = 0 THEN printed[i].shows \in TreeRoots(hierarchy, TreeClasses)
          ELSE BelowItsParent(i)
    /\ \A n \in DOMAIN walk : n > 1 =>
          \E j \in DOMAIN printed :
             /\ printed[j].shows = walk[n].of /\ printed[j].depth = n - 2
             /\ \A k \in DOMAIN printed : k > j => printed[k].depth > n - 2

\* No class is printed twice, or is to be.
Once ==
    /\ \A i, j \in DOMAIN printed : printed[i].shows = printed[j].shows => i = j
    /\ \A n \in DOMAIN walk : walk[n].children \cap Shown = {}
    /\ \A m, n \in DOMAIN walk : m # n => walk[m].children \cap walk[n].children = {}

\* Each hangs from the tree.
Hanging ==
    /\ \A i \in DOMAIN printed :
          printed[i].shows \in TreeClasses /\ Hangs(hierarchy, TreeClasses, printed[i].shows)
    /\ \A n \in DOMAIN walk : \A c \in walk[n].children :
          c \in TreeClasses /\ Hangs(hierarchy, TreeClasses, c)

\* The roots and the children of what is printed are printed, or are to be.
Met(c) == c \in Shown \/ \E n \in DOMAIN walk : c \in walk[n].children
Complete ==
    hierarchy # <<>> =>
       /\ \A c \in TreeRoots(hierarchy, TreeClasses) : Met(c)
       /\ \A c \in TreeClasses : hierarchy[c].extends \in Shown => Met(c)

Judged ==
    /\ \A i \in DOMAIN printed :
          printed[i].warns <=> printed[i].depth > 0 /\ InViolation(hierarchy, printed[i].shows)
    /\ checked # <<>> =>
          /\ walk = <<>> /\ hierarchy # <<>>
          /\ checked[1].reports = {c \in TreeClasses : InViolation(hierarchy, c)}

Unstarted == hierarchy = <<>> => printed = <<>> /\ checked = <<>>

TreeIInv == TreeTypeOK /\ Placed /\ Once /\ Hanging /\ Complete /\ Judged /\ Unstarted

LEMMA InitTree == TreeInit => TreeIInv
<1> SUFFICES ASSUME TreeInit PROVE TreeIInv
  OBVIOUS
<1>1. DOMAIN walk = {} /\ DOMAIN printed = {} /\ checked = <<>> /\ hierarchy = <<>>
  BY DEF TreeInit
<1>2. TreeTypeOK
  BY TreeAssumption DEF TreeInit, TreeTypeOK
<1>3. Placed /\ Once /\ Hanging /\ Complete /\ Judged /\ Unstarted
  BY <1>1 DEF TreeInit, Placed, Once, Hanging, Complete, Judged, Unstarted
<1> QED
  BY <1>2, <1>3 DEF TreeIInv

\* What the steps below use of the types.
LEMMA TreeBasics ==
  ASSUME TreeTypeOK
  PROVE  /\ Registry(hierarchy) /\ TreeClasses \in SUBSET (DOMAIN hierarchy)
         /\ Len(walk) \in Nat /\ DOMAIN walk = 1..Len(walk)
         /\ Len(printed) \in Nat /\ DOMAIN printed = 1..Len(printed)
         /\ \A i \in DOMAIN printed : printed[i] \in Line
         /\ \A n \in DOMAIN walk : walk[n] \in Frame
BY DEF TreeTypeOK, Registry, TreeClasses, Selected

\* A command begins: nothing is printed, and the roots are to be.
LEMMA InspectTree ==
  ASSUME TreeIInv, hierarchy = <<>>, walk = <<>>, NEW h \in Hierarchies, NEW dir \in Directories,
         Inspect(h, dir)
  PROVE  TreeIInv'
<1> DEFINE classes == Selected(h, dir)
           roots == TreeRoots(h, classes)
<1>1. /\ hierarchy' = h /\ directory' = dir /\ printed' = <<>> /\ checked' = <<>>
      /\ walk' = <<[of |-> 0, children |-> roots]>> /\ TreeClasses' = classes
  BY DEF Inspect, TreeIInv, Unstarted, TreeClasses
<1>2. Registry(h) /\ classes \in SUBSET (DOMAIN h) /\ roots \in SUBSET classes
  BY DEF Registry, Selected, TreeRoots
<1>3. /\ DOMAIN walk' = {1} /\ walk'[1].children = roots /\ walk'[1].of = 0
      /\ DOMAIN printed' = {} /\ Shown' = {}
  <2> HIDE DEF roots
  <2> QED
    BY <1>1 DEF Shown
<1>4. TreeTypeOK'
  <2>1. Len(h) \in Nat
    BY <1>2, RegistryType
  <2>2. [of |-> 0, children |-> roots] \in Frame'
    BY <1>1, <1>2, <2>1 DEF Frame
  <2>3. walk' \in Seq(Frame')
    <3> HIDE DEF roots
    <3> QED
      BY <1>1, <2>2
  <2> QED
    BY <1>1, <2>3 DEF TreeTypeOK
<1>5. Placed' /\ Once'
  BY <1>1, <1>3 DEF Placed, Once
<1>6. Hanging'
  <2>1. \A c \in roots : c \in classes /\ Hangs(h, classes, c)
    BY <1>2, HangsByParent
  <2> HIDE DEF roots, classes
  <2> QED
    BY <1>1, <1>3, <2>1 DEF Hanging
<1>7. Complete'
  <2> HIDE DEF classes
  <2> QED
    BY <1>1, <1>3 DEF Complete, Met
<1>8. Judged' /\ Unstarted'
  BY <1>1, <1>3 DEF Judged, Unstarted
<1> QED
  BY <1>4, <1>5, <1>6, <1>7, <1>8 DEF TreeIInv

\* A sequence with one more element.
LEMMA Appended ==
  ASSUME NEW T, NEW s \in Seq(T), NEW e \in T
  PROVE  LET t == Append(s, e) IN
         /\ t \in Seq(T) /\ Len(t) = Len(s) + 1 /\ DOMAIN t = 1..(Len(s) + 1)
         /\ t[Len(s) + 1] = e /\ \A i \in 1..Len(s) : t[i] = s[i]
OBVIOUS

\* A line of the class whose turn it is, which leaves the children to come, and
\* a call for its own children: on the two sequences' lengths, on the calls, on the
\* line, and what stays.
CollectSizes ==
    /\ Len(walk) \in Nat /\ Len(walk) >= 1 /\ Len(printed) \in Nat
    /\ DOMAIN walk = 1..Len(walk) /\ DOMAIN printed = 1..Len(printed)
    /\ DOMAIN walk' = 1..(Len(walk) + 1) /\ DOMAIN printed' = 1..(Len(printed) + 1)
CollectWalk(c) ==
    /\ c \in walk[Len(walk)].children
    /\ \A n \in 1..Len(walk) : walk'[n].of = walk[n].of
    /\ \A n \in 1..Len(walk) : n # Len(walk) => walk'[n].children = walk[n].children
    /\ walk'[Len(walk)].children = walk[Len(walk)].children \ {c}
    /\ walk'[Len(walk) + 1].of = c
    /\ walk'[Len(walk) + 1].children = ChildrenOf(hierarchy, TreeClasses, c)
CollectLine(c) ==
    /\ \A i \in 1..Len(printed) : printed'[i] = printed[i]
    /\ printed'[Len(printed) + 1].shows = c /\ printed'[Len(printed) + 1].depth = Len(walk) - 1
CollectWarns(c) ==
    printed'[Len(printed) + 1].warns <=> Len(walk) > 1 /\ InViolation(hierarchy, c)
CollectLeaves ==
    /\ hierarchy' = hierarchy /\ directory' = directory /\ checked' = checked
    /\ TreeClasses' = TreeClasses
CollectEffect(c) ==
    CollectSizes /\ CollectWalk(c) /\ CollectLine(c) /\ CollectWarns(c) /\ CollectLeaves

LEMMA CollectTree ==
  ASSUME TreeTypeOK, walk # <<>>, NEW c \in Last(walk).children, CollectTreeLine(c)
  PROVE  CollectEffect(c) /\ TreeTypeOK'
<1> DEFINE n0 == Len(walk)
           N == Len(printed)
           warns == n0 - 1 > 0 /\ InViolation(hierarchy, c)
           line == [shows |-> c, depth |-> n0 - 1, warns |-> warns]
           kids == ChildrenOf(hierarchy, TreeClasses, c)
           rest == [walk EXCEPT ![n0].children = @ \ {c}]
           frame == [of |-> c, children |-> kids]
<1>1. /\ Registry(hierarchy) /\ TreeClasses \in SUBSET (DOMAIN hierarchy)
      /\ n0 \in Nat /\ DOMAIN walk = 1..n0 /\ N \in Nat /\ DOMAIN printed = 1..N
      /\ n0 >= 1 /\ walk \in Seq(Frame) /\ printed \in Seq(Line)
  BY TreeBasics DEF TreeTypeOK
<1>2. /\ printed' = Append(printed, line) /\ walk' = Append(rest, frame)
      /\ hierarchy' = hierarchy /\ directory' = directory /\ checked' = checked
      /\ TreeClasses' = TreeClasses
  BY DEF CollectTreeLine, TreeClasses
<1>3. c \in walk[n0].children /\ walk[n0] \in Frame
  BY <1>1 DEF Last
<1>4. warns \in BOOLEAN
  OBVIOUS
<1>5. c \in DOMAIN hierarchy /\ c \in 0..Len(hierarchy)
  BY <1>1, <1>3, RegistryType DEF Frame
<1>6. line \in Line
  <2> HIDE DEF warns
  <2> QED
    BY <1>1, <1>4, <1>5 DEF Line
<1>7. frame \in Frame
  <2>1. kids \in SUBSET (DOMAIN hierarchy)
    BY <1>1 DEF ChildrenOf
  <2> HIDE DEF kids
  <2> QED
    BY <1>5, <2>1 DEF Frame
<1>8. /\ rest \in Seq(Frame) /\ Len(rest) = n0
      /\ \A n \in 1..n0 : rest[n].of = walk[n].of
      /\ \A n \in 1..n0 : n # n0 => rest[n].children = walk[n].children
      /\ rest[n0].children = walk[n0].children \ {c}
  <2>1. rest = [walk EXCEPT ![n0] = [walk[n0] EXCEPT !.children = @ \ {c}]]
    BY <1>1, <1>3
  <2>2. [walk[n0] EXCEPT !.children = @ \ {c}] \in Frame
    BY <1>3 DEF Frame
  <2>3. /\ [walk[n0] EXCEPT !.children = @ \ {c}].of = walk[n0].of
        /\ [walk[n0] EXCEPT !.children = @ \ {c}].children = walk[n0].children \ {c}
    BY <1>3 DEF Frame
  <2> QED
    BY <1>1, <2>1, <2>2, <2>3
<1> HIDE DEF warns, line, kids, rest, frame
<1>9. /\ walk' \in Seq(Frame) /\ DOMAIN walk' = 1..(n0 + 1) /\ walk'[n0 + 1] = frame
      /\ \A n \in 1..n0 : walk'[n] = rest[n]
  <2>1. rest \in Seq(Frame) /\ frame \in Frame /\ Len(rest) = n0
    BY <1>7, <1>8
  <2> QED
    BY <1>2, <2>1, Appended
<1>10. /\ printed' \in Seq(Line) /\ DOMAIN printed' = 1..(N + 1) /\ printed'[N + 1] = line
       /\ \A i \in 1..N : printed'[i] = printed[i]
  BY <1>1, <1>2, <1>6, Appended
<1>11. TreeTypeOK'
  BY <1>2, <1>9, <1>10 DEF TreeTypeOK, Frame, Line
<1>12. line.shows = c /\ line.depth = n0 - 1 /\ line.warns = warns
  BY DEF line
<1>13. warns <=> n0 > 1 /\ InViolation(hierarchy, c)
  BY <1>1 DEF warns
<1>14. printed'[N + 1].warns <=> n0 > 1 /\ InViolation(hierarchy, c)
  BY <1>10, <1>12, <1>13, Zenon
<1>15. frame.of = c /\ frame.children = ChildrenOf(hierarchy, TreeClasses, c)
  BY DEF frame, kids
<1>16. /\ printed'[N + 1].shows = c /\ printed'[N + 1].depth = n0 - 1
       /\ walk'[n0 + 1].of = c /\ walk'[n0 + 1].children = ChildrenOf(hierarchy, TreeClasses, c)
  BY <1>9, <1>10, <1>12, <1>15
<1>17. /\ \A n \in 1..n0 : walk'[n].of = walk[n].of
       /\ \A n \in 1..n0 : n # n0 => walk'[n].children = walk[n].children
       /\ walk'[n0].children = walk[n0].children \ {c}
  <2>1. n0 \in 1..n0
    BY <1>1
  <2> HIDE DEF n0
  <2> QED
    BY <1>8, <1>9, <2>1
<1>18. CollectSizes
  BY <1>1, <1>9, <1>10 DEF CollectSizes
<1>19. CollectWalk(c)
  BY <1>3, <1>16, <1>17 DEF CollectWalk
<1>20. CollectLine(c)
  BY <1>10, <1>16 DEF CollectLine
<1>21. CollectWarns(c) /\ CollectLeaves
  BY <1>2, <1>14, Zenon DEF CollectWarns, CollectLeaves
<1> QED
  BY <1>11, <1>18, <1>19, <1>20, <1>21 DEF CollectEffect

\* What is said of a line goes on to hold of it.
LEMMA BelowKept ==
  ASSUME NEW c, CollectEffect(c), NEW i \in DOMAIN printed, BelowItsParent(i)
  PROVE  BelowItsParent(i)'
<1>1. PICK j \in 1..(i - 1) :
         /\ printed[j].shows = hierarchy[printed[i].shows].extends
         /\ printed[j].depth = printed[i].depth - 1
         /\ \A k \in (j + 1)..i : printed[k].depth > printed[j].depth
  BY DEF BelowItsParent
<1>2. i \in 1..Len(printed) /\ Len(printed) \in Nat
  BY DEF CollectEffect, CollectSizes
<1>3. (\A k \in 1..Len(printed) : printed'[k] = printed[k]) /\ hierarchy' = hierarchy
  BY Zenon DEF CollectEffect, CollectLine, CollectLeaves
<1>4. \A k \in 1..i : printed'[k] = printed[k]
  BY <1>2, <1>3
<1>5. j \in 1..i /\ i \in 1..i /\ \A k \in (j + 1)..i : k \in 1..i
  BY <1>2
<1>6. printed'[j] = printed[j] /\ printed'[i] = printed[i]
  BY <1>4, <1>5
<1>7. \A k \in (j + 1)..i : printed'[k].depth > printed'[j].depth
  BY <1>1, <1>4, <1>5, <1>6
<1>8. /\ printed'[j].shows = hierarchy'[printed'[i].shows].extends
      /\ printed'[j].depth = printed'[i].depth - 1
  BY <1>1, <1>3, <1>6
<1> QED
  BY <1>7, <1>8 DEF BelowItsParent

LEMMA PlacedKept ==
  ASSUME TreeIInv, NEW c, CollectEffect(c)
  PROVE  Placed'
<1> DEFINE n0 == Len(walk)
           N == Len(printed)
<1>1. /\ n0 \in Nat /\ n0 >= 1 /\ N \in Nat
      /\ DOMAIN walk = 1..n0 /\ DOMAIN printed = 1..N
      /\ DOMAIN walk' = 1..(n0 + 1) /\ DOMAIN printed' = 1..(N + 1)
  BY DEF CollectEffect, CollectSizes
<1>2. /\ c \in walk[n0].children /\ walk'[n0 + 1].of = c
      /\ walk'[n0 + 1].children = ChildrenOf(hierarchy, TreeClasses, c)
      /\ \A n \in 1..n0 : walk'[n].of = walk[n].of /\ walk'[n].children \subseteq walk[n].children
  BY DEF CollectEffect, CollectWalk
<1>3. /\ \A i \in 1..N : printed'[i] = printed[i]
      /\ printed'[N + 1].shows = c /\ printed'[N + 1].depth = n0 - 1
  BY DEF CollectEffect, CollectLine
<1>4. hierarchy' = hierarchy /\ TreeClasses' = TreeClasses
  BY DEF CollectEffect, CollectLeaves
<1>5. /\ \A n \in 1..n0 : \A d \in walk[n].children :
            IF n = 1 THEN d \in TreeRoots(hierarchy, TreeClasses)
            ELSE d \in ChildrenOf(hierarchy, TreeClasses, walk[n].of)
      /\ \A i \in 1..N : IF printed[i].depth = 0 THEN printed[i].shows \in TreeRoots(hierarchy, TreeClasses)
                         ELSE BelowItsParent(i)
      /\ \A n \in 1..n0 : n > 1 =>
            \E j \in 1..N : /\ printed[j].shows = walk[n].of /\ printed[j].depth = n - 2
                            /\ \A k \in 1..N : k > j => printed[k].depth > n - 2
  BY <1>1 DEF TreeIInv, Placed
<1>6. \A i \in 1..N : BelowItsParent(i) => BelowItsParent(i)'
  BY <1>1, BelowKept
<1> HIDE DEF n0, N
<1>7. ASSUME NEW n \in 1..(n0 + 1), NEW d \in walk'[n].children
      PROVE  IF n = 1 THEN d \in TreeRoots(hierarchy, TreeClasses)
             ELSE d \in ChildrenOf(hierarchy, TreeClasses, walk'[n].of)
  <2>1. CASE n = n0 + 1
    BY <1>1, <1>2, <1>7, <2>1
  <2>2. CASE n \in 1..n0
    <3>1. d \in walk[n].children /\ walk'[n].of = walk[n].of
      BY <1>2, <1>7, <2>2
    <3> QED
      BY <1>5, <2>2, <3>1
  <2> QED
    BY <1>1, <2>1, <2>2
<1>8. ASSUME NEW i \in 1..(N + 1)
      PROVE  IF printed'[i].depth = 0 THEN printed'[i].shows \in TreeRoots(hierarchy, TreeClasses)
             ELSE BelowItsParent(i)'
  <2>1. CASE i \in 1..N
    BY <1>3, <1>5, <1>6, <2>1
  <2>2. CASE i = N + 1
    <3>1. CASE n0 = 1
      BY <1>1, <1>2, <1>3, <1>5, <2>2, <3>1
    <3>2. CASE n0 # 1
      <4>1. n0 \in 1..n0 /\ n0 > 1
        BY <1>1, <3>2
      <4>2. PICK j \in 1..N :
               /\ printed[j].shows = walk[n0].of /\ printed[j].depth = n0 - 2
               /\ \A k \in 1..N : k > j => printed[k].depth > n0 - 2
        BY <1>5, <4>1
      <4>3. c \in ChildrenOf(hierarchy, TreeClasses, walk[n0].of)
        BY <1>2, <1>5, <4>1
      <4>4. hierarchy'[printed'[i].shows].extends = walk[n0].of
        BY <1>3, <1>4, <2>2, <4>3 DEF ChildrenOf
      <4>5. j \in 1..(i - 1) /\ printed'[j] = printed[j]
        BY <1>1, <1>3, <2>2, <4>2
      <4>6. printed'[i].depth = n0 - 1 /\ printed'[j].depth = n0 - 2
        BY <1>3, <2>2, <4>2, <4>5
      <4>7. ASSUME NEW k \in (j + 1)..i PROVE printed'[k].depth > n0 - 2
        <5>1. CASE k = i
          BY <1>1, <4>6, <5>1
        <5>2. CASE k # i
          <6>1. k \in 1..N /\ k > j
            BY <1>1, <2>2, <4>5, <5>2
          <6> QED
            BY <1>3, <4>2, <6>1
        <5> QED
          BY <5>1, <5>2
      <4>8. printed'[j].shows = hierarchy'[printed'[i].shows].extends
        BY <4>2, <4>4, <4>5
      <4>9. printed'[j].depth = printed'[i].depth - 1
        BY <1>1, <4>6
      <4>10. \A k \in (j + 1)..i : printed'[k].depth > printed'[j].depth
        BY <4>6, <4>7
      <4>11. BelowItsParent(i)'
        BY <4>5, <4>8, <4>9, <4>10 DEF BelowItsParent
      <4> QED
        BY <1>1, <3>2, <4>6, <4>11
    <3> QED
      BY <3>1, <3>2
  <2> QED
    BY <1>1, <2>1, <2>2
<1>9. ASSUME NEW n \in 1..(n0 + 1), n > 1
      PROVE  \E j \in 1..(N + 1) :
                /\ printed'[j].shows = walk'[n].of /\ printed'[j].depth = n - 2
                /\ \A k \in 1..(N + 1) : k > j => printed'[k].depth > n - 2
  <2>1. CASE n = n0 + 1
    <3>1. /\ N + 1 \in 1..(N + 1) /\ printed'[N + 1].shows = walk'[n].of
          /\ printed'[N + 1].depth = n - 2 /\ \A k \in 1..(N + 1) : ~(k > N + 1)
      BY <1>1, <1>2, <1>3, <2>1
    <3> QED
      BY <3>1
  <2>2. CASE n \in 1..n0
    <3>1. PICK j \in 1..N :
             /\ printed[j].shows = walk[n].of /\ printed[j].depth = n - 2
             /\ \A k \in 1..N : k > j => printed[k].depth > n - 2
      BY <1>5, <1>9, <2>2
    <3>2. j \in 1..(N + 1) /\ printed'[j] = printed[j] /\ walk'[n].of = walk[n].of
      BY <1>1, <1>2, <1>3, <2>2, <3>1
    <3>3. ASSUME NEW k \in 1..(N + 1), k > j PROVE printed'[k].depth > n - 2
      <4>1. CASE k = N + 1
        BY <1>1, <1>3, <2>2, <4>1
      <4>2. CASE k \in 1..N
        BY <1>3, <3>1, <3>3, <4>2
      <4> QED
        BY <1>1, <4>1, <4>2
    <3>4. printed'[j].shows = walk'[n].of /\ printed'[j].depth = n - 2
      BY <3>1, <3>2
    <3> QED
      BY <3>2, <3>3, <3>4
  <2> QED
    BY <1>1, <1>9, <2>1, <2>2
<1> QED
  BY <1>1, <1>4, <1>7, <1>8, <1>9 DEF Placed

\* No class is met before the one of the directory that it extends is printed.
LEMMA ParentShown ==
  ASSUME TreeIInv, NEW d, Met(d), hierarchy[d].extends \in TreeClasses
  PROVE  hierarchy[d].extends \in Shown
<1>1. /\ Registry(hierarchy) /\ TreeClasses \in SUBSET (DOMAIN hierarchy)
      /\ DOMAIN walk = 1..Len(walk) /\ Len(walk) \in Nat
      /\ DOMAIN printed = 1..Len(printed) /\ Len(printed) \in Nat
  BY TreeBasics DEF TreeIInv
<1>2. d \notin TreeRoots(hierarchy, TreeClasses)
  <2> SUFFICES ASSUME d \in TreeRoots(hierarchy, TreeClasses) PROVE FALSE
    OBVIOUS
  <2>1. d \in DOMAIN hierarchy /\ Above(hierarchy, d) \cap TreeClasses = {}
    BY <1>1 DEF TreeRoots
  <2>2. hierarchy[d].extends \in Above(hierarchy, d)
    BY <1>1, <2>1, AboveHolds
  <2> QED
    BY <2>1, <2>2
<1>3. ASSUME d \in Shown PROVE hierarchy[d].extends \in Shown
  <2>1. PICK i \in DOMAIN printed : printed[i].shows = d
    BY <1>3 DEF Shown
  <2>2. BelowItsParent(i)
    BY <1>2, <2>1 DEF TreeIInv, Placed
  <2>3. PICK j \in 1..(i - 1) : printed[j].shows = hierarchy[printed[i].shows].extends
    BY <2>2 DEF BelowItsParent
  <2>4. j \in DOMAIN printed
    BY <1>1
  <2> QED
    BY <2>1, <2>3, <2>4 DEF Shown
<1>4. ASSUME NEW n \in DOMAIN walk, d \in walk[n].children PROVE hierarchy[d].extends \in Shown
  <2>1. n > 1 /\ d \in ChildrenOf(hierarchy, TreeClasses, walk[n].of)
    BY <1>1, <1>2, <1>4 DEF TreeIInv, Placed
  <2>2. PICK j \in DOMAIN printed : printed[j].shows = walk[n].of
    BY <2>1 DEF TreeIInv, Placed
  <2> QED
    BY <2>1, <2>2 DEF ChildrenOf, Shown
<1> QED
  BY <1>3, <1>4 DEF Met

\* The line of a class, and the call for its children, leave every class met that
\* was met, and add its children.
LEMMA CollectMeets ==
  ASSUME NEW c, CollectEffect(c)
  PROVE  /\ c \in walk[Len(walk)].children /\ Len(walk) \in DOMAIN walk
         /\ hierarchy' = hierarchy /\ TreeClasses' = TreeClasses
         /\ Shown' = Shown \cup {c}
         /\ \A n \in DOMAIN walk' : n \in DOMAIN walk \/ n = Len(walk) + 1
         /\ \A n \in DOMAIN walk : n \in DOMAIN walk' /\ n # Len(walk) + 1
         /\ \A n \in DOMAIN walk :
               walk'[n].children = IF n = Len(walk) THEN walk[n].children \ {c} ELSE walk[n].children
         /\ Len(walk) + 1 \in DOMAIN walk'
         /\ walk'[Len(walk) + 1].children = ChildrenOf(hierarchy, TreeClasses, c)
<1> DEFINE n0 == Len(walk)
           N == Len(printed)
<1>1. /\ n0 \in Nat /\ n0 >= 1 /\ N \in Nat
      /\ DOMAIN walk = 1..n0 /\ DOMAIN printed = 1..N
      /\ DOMAIN walk' = 1..(n0 + 1) /\ DOMAIN printed' = 1..(N + 1)
  BY DEF CollectEffect, CollectSizes
<1>2. /\ c \in walk[n0].children
      /\ walk'[n0 + 1].children = ChildrenOf(hierarchy, TreeClasses, c)
      /\ \A n \in 1..n0 : n # n0 => walk'[n].children = walk[n].children
      /\ walk'[n0].children = walk[n0].children \ {c}
  BY DEF CollectEffect, CollectWalk
<1>3. hierarchy' = hierarchy /\ TreeClasses' = TreeClasses
  BY DEF CollectEffect, CollectLeaves
<1>4. Shown' = Shown \cup {c}
  <2>1. (\A i \in 1..N : printed'[i] = printed[i]) /\ printed'[N + 1].shows = c
    BY DEF CollectEffect, CollectLine
  <2> HIDE DEF N
  <2>2. \A i \in 1..(N + 1) : i \in 1..N \/ i = N + 1
    BY <1>1
  <2>3. N + 1 \in 1..(N + 1) /\ \A i \in 1..N : i \in 1..(N + 1)
    BY <1>1
  <2>4. Shown' \subseteq Shown \cup {c}
    BY <1>1, <2>1, <2>2 DEF Shown
  <2>5. Shown \cup {c} \subseteq Shown'
    BY <1>1, <2>1, <2>3 DEF Shown
  <2> QED
    BY <2>4, <2>5
<1> HIDE DEF n0
<1>5. /\ n0 \in DOMAIN walk /\ n0 + 1 \in DOMAIN walk'
      /\ \A n \in DOMAIN walk' : n \in DOMAIN walk \/ n = n0 + 1
      /\ \A n \in DOMAIN walk : n \in DOMAIN walk' /\ n # n0 + 1
  BY <1>1
<1>6. \A n \in DOMAIN walk :
         walk'[n].children = IF n = n0 THEN walk[n].children \ {c} ELSE walk[n].children
  BY <1>1, <1>2
<1> QED
  BY <1>2, <1>3, <1>4, <1>5, <1>6 DEF n0

LEMMA OnceKept ==
  ASSUME TreeIInv, NEW c, CollectEffect(c)
  PROVE  Once'
<1> DEFINE n0 == Len(walk)
           N == Len(printed)
           kids == ChildrenOf(hierarchy, TreeClasses, c)
<1>1. /\ c \in walk[n0].children /\ n0 \in DOMAIN walk /\ Shown' = Shown \cup {c}
      /\ \A n \in DOMAIN walk' : n \in DOMAIN walk \/ n = n0 + 1
      /\ \A n \in DOMAIN walk :
            walk'[n].children = IF n = n0 THEN walk[n].children \ {c} ELSE walk[n].children
      /\ walk'[n0 + 1].children = kids
  BY CollectMeets
<1>2. c \in TreeClasses /\ c \in DOMAIN hierarchy /\ Registry(hierarchy)
  BY <1>1, TreeBasics DEF TreeIInv, Hanging
<1>3. c \notin Shown
  BY <1>1 DEF TreeIInv, Once
<1>4. \A d \in kids : ~Met(d) /\ d # c
  <2>1. ASSUME NEW d \in kids PROVE ~Met(d)
    BY <1>2, <1>3, <2>1, ParentShown DEF ChildrenOf
  <2>2. Met(c)
    BY <1>1 DEF Met
  <2> QED
    BY <2>1, <2>2
<1>5. /\ \A n \in DOMAIN walk : walk[n].children \cap Shown = {}
      /\ \A m, n \in DOMAIN walk : m # n => walk[m].children \cap walk[n].children = {}
  BY DEF TreeIInv, Once
<1>6. \A d \in kids : d \notin Shown /\ \A n \in DOMAIN walk : d \notin walk[n].children
  BY <1>4 DEF Met
<1> HIDE DEF n0, kids
<1>7. ASSUME NEW n \in DOMAIN walk' PROVE walk'[n].children \cap Shown' = {}
  <2>1. CASE n = n0 + 1
    BY <1>1, <1>4, <1>6, <2>1
  <2>2. CASE n \in DOMAIN walk
    <3>1. c \notin walk'[n].children
      BY <1>1, <1>5, <2>2
    <3> QED
      BY <1>1, <1>5, <2>2, <3>1
  <2> QED
    BY <1>1, <2>1, <2>2
<1>8. ASSUME NEW m \in DOMAIN walk', NEW n \in DOMAIN walk', m # n
      PROVE  walk'[m].children \cap walk'[n].children = {}
  <2>1. \A k \in DOMAIN walk : walk'[k].children \subseteq walk[k].children
    BY <1>1
  <2>2. CASE m \in DOMAIN walk /\ n \in DOMAIN walk
    BY <1>5, <1>8, <2>1, <2>2
  <2>3. CASE m = n0 + 1 /\ n \in DOMAIN walk
    BY <1>1, <1>6, <2>1, <2>3
  <2>4. CASE n = n0 + 1 /\ m \in DOMAIN walk
    BY <1>1, <1>6, <2>1, <2>4
  <2> QED
    BY <1>1, <1>8, <2>2, <2>3, <2>4
<1>9. ASSUME NEW i \in DOMAIN printed', NEW j \in DOMAIN printed', printed'[i].shows = printed'[j].shows
      PROVE  i = j
  <2>1. /\ N \in Nat /\ DOMAIN printed = 1..N /\ DOMAIN printed' = 1..(N + 1)
        /\ (\A k \in 1..N : printed'[k] = printed[k]) /\ printed'[N + 1].shows = c
    BY DEF CollectEffect, CollectSizes, CollectLine
  <2>2. \A k \in 1..N : printed[k].shows # c
    BY <1>3, <2>1 DEF Shown
  <2>3. \A k, l \in 1..N : printed[k].shows = printed[l].shows => k = l
    BY <2>1 DEF TreeIInv, Once
  <2> HIDE DEF N
  <2>4. /\ i \in 1..N \/ i = N + 1
        /\ j \in 1..N \/ j = N + 1
    BY <1>9, <2>1
  <2> QED
    BY <1>9, <2>1, <2>2, <2>3, <2>4
<1> QED
  BY <1>7, <1>8, <1>9 DEF Once

LEMMA HangingKept ==
  ASSUME TreeIInv, NEW c, CollectEffect(c)
  PROVE  Hanging'
<1> DEFINE n0 == Len(walk)
           Good(d) == d \in TreeClasses /\ Hangs(hierarchy, TreeClasses, d)
<1>1. /\ c \in walk[n0].children /\ n0 \in DOMAIN walk /\ Shown' = Shown \cup {c}
      /\ hierarchy' = hierarchy /\ TreeClasses' = TreeClasses
      /\ \A n \in DOMAIN walk' : n \in DOMAIN walk \/ n = n0 + 1
      /\ \A n \in DOMAIN walk :
            walk'[n].children = IF n = n0 THEN walk[n].children \ {c} ELSE walk[n].children
      /\ walk'[n0 + 1].children = ChildrenOf(hierarchy, TreeClasses, c)
  BY CollectMeets
<1>2. /\ \A d \in Shown : Good(d)
      /\ \A n \in DOMAIN walk : \A d \in walk[n].children : Good(d)
  BY DEF TreeIInv, Hanging, Shown
<1>3. ASSUME NEW d \in ChildrenOf(hierarchy, TreeClasses, c) PROVE Good(d)
  <2>1. Registry(hierarchy) /\ TreeClasses \in SUBSET (DOMAIN hierarchy)
    BY TreeBasics DEF TreeIInv
  <2>2. d \in TreeClasses /\ hierarchy[d].extends = c
    BY DEF ChildrenOf
  <2> QED
    BY <1>1, <1>2, <2>1, <2>2, HangsByParent
<1> HIDE DEF n0, Good
<1>4. \A d \in Shown' : Good(d)
  BY <1>1, <1>2
<1>5. \A n \in DOMAIN walk' : \A d \in walk'[n].children : Good(d)
  BY <1>1, <1>2, <1>3
<1> QED
  BY <1>1, <1>4, <1>5 DEF Hanging, Shown, Good

LEMMA CompleteKept ==
  ASSUME TreeIInv, NEW c, CollectEffect(c)
  PROVE  Complete'
<1> DEFINE n0 == Len(walk)
<1>1. /\ n0 \in DOMAIN walk /\ Shown' = Shown \cup {c}
      /\ hierarchy' = hierarchy /\ TreeClasses' = TreeClasses
      /\ \A n \in DOMAIN walk : n \in DOMAIN walk'
      /\ \A n \in DOMAIN walk :
            walk'[n].children = IF n = n0 THEN walk[n].children \ {c} ELSE walk[n].children
      /\ n0 + 1 \in DOMAIN walk'
      /\ walk'[n0 + 1].children = ChildrenOf(hierarchy, TreeClasses, c)
  BY CollectMeets
<1> HIDE DEF n0
<1>2. \A d : Met(d) => Met(d)'
  <2> SUFFICES ASSUME NEW d, Met(d), d # c PROVE Met(d)'
    BY <1>1 DEF Met
  <2> QED
    BY <1>1 DEF Met
<1>3. \A d \in ChildrenOf(hierarchy, TreeClasses, c) : Met(d)'
  BY <1>1 DEF Met
<1> SUFFICES ASSUME hierarchy' # <<>>
             PROVE  /\ \A d \in TreeRoots(hierarchy, TreeClasses) : Met(d)'
                    /\ \A d \in TreeClasses : hierarchy[d].extends \in Shown' => Met(d)'
  BY <1>1 DEF Complete
<1>4. /\ \A d \in TreeRoots(hierarchy, TreeClasses) : Met(d)
      /\ \A d \in TreeClasses : hierarchy[d].extends \in Shown => Met(d)
  BY <1>1 DEF TreeIInv, Complete
<1>5. ASSUME NEW d \in TreeClasses, hierarchy[d].extends = c PROVE Met(d)'
  BY <1>3, <1>5 DEF ChildrenOf
<1> QED
  BY <1>1, <1>2, <1>4, <1>5

LEMMA JudgedKept ==
  ASSUME TreeIInv, NEW c, CollectEffect(c)
  PROVE  Judged' /\ Unstarted'
<1> DEFINE N == Len(printed)
           n0 == Len(walk)
<1>1. /\ N \in Nat /\ DOMAIN printed = 1..N /\ DOMAIN printed' = 1..(N + 1)
      /\ n0 \in Nat /\ DOMAIN walk = 1..n0 /\ n0 >= 1
      /\ \A i \in 1..N : printed'[i] = printed[i]
      /\ printed'[N + 1].shows = c /\ printed'[N + 1].depth = n0 - 1
      /\ hierarchy' = hierarchy /\ checked' = checked
  BY DEF CollectEffect, CollectSizes, CollectLine, CollectLeaves
<1>2. printed'[N + 1].warns <=> n0 > 1 /\ InViolation(hierarchy, c)
  BY DEF CollectEffect, CollectWarns
<1>3. walk # <<>>
  BY <1>1
<1>4. checked = <<>>
  BY <1>3 DEF TreeIInv, Judged
<1>5. hierarchy # <<>>
  <2>1. c \in DOMAIN hierarchy
    BY CollectMeets, TreeBasics DEF TreeIInv, Hanging
  <2> QED
    BY <2>1
<1>6. ASSUME NEW i \in 1..(N + 1)
      PROVE  printed'[i].warns <=> printed'[i].depth > 0 /\ InViolation(hierarchy, printed'[i].shows)
  <2>1. CASE i \in 1..N
    <3>1. printed[i].warns <=> printed[i].depth > 0 /\ InViolation(hierarchy, printed[i].shows)
      BY <1>1, <2>1, Zenon DEF TreeIInv, Judged
    <3> QED
      BY <1>1, <2>1, <3>1, Zenon
  <2>2. CASE i = N + 1
    <3>1. n0 > 1 <=> printed'[i].depth > 0
      BY <1>1, <2>2
    <3> QED
      BY <1>1, <1>2, <2>2, <3>1, Zenon
  <2>3. i \in 1..N \/ i = N + 1
    BY <1>1
  <2> QED
    BY <2>1, <2>2, <2>3
<1>7. Judged'
  <2> HIDE DEF N
  <2> QED
    BY <1>1, <1>4, <1>6, Zenon DEF Judged
<1> QED
  BY <1>1, <1>5, <1>7 DEF Unstarted

\* A call returns when its children are printed.
LEMMA ReturnTree ==
  ASSUME TreeIInv, walk # <<>>, TreeReturn
  PROVE  TreeIInv'
<1> DEFINE n0 == Len(walk)
<1>1. /\ n0 \in Nat /\ n0 >= 1 /\ DOMAIN walk = 1..n0 /\ walk \in Seq(Frame)
  BY TreeBasics DEF TreeIInv, TreeTypeOK
<1>2. /\ hierarchy' = hierarchy /\ directory' = directory /\ printed' = printed /\ checked' = checked
      /\ walk[n0].children = {} /\ walk' = SubSeq(walk, 1, n0 - 1)
      /\ TreeClasses' = TreeClasses /\ Shown' = Shown
  BY DEF TreeReturn, Last, Front, TreeClasses, Shown
<1>3. /\ walk' \in Seq(Frame) /\ DOMAIN walk' = 1..(n0 - 1)
      /\ \A n \in 1..(n0 - 1) : walk'[n] = walk[n]
  BY <1>1, <1>2
<1>4. /\ DOMAIN walk' \subseteq DOMAIN walk /\ \A n \in DOMAIN walk' : walk'[n] = walk[n]
      /\ \A n \in DOMAIN walk : n \in DOMAIN walk' \/ walk[n].children = {}
  BY <1>1, <1>2, <1>3
<1>5. TreeTypeOK'
  BY <1>2, <1>3 DEF TreeIInv, TreeTypeOK, Frame, Line
<1>6. \A i \in DOMAIN printed : BelowItsParent(i) => BelowItsParent(i)'
  BY <1>2 DEF BelowItsParent
<1> HIDE DEF n0
<1>7. Placed'
  <2>1. ASSUME NEW n \in DOMAIN walk', NEW c \in walk'[n].children
        PROVE  IF n = 1 THEN c \in TreeRoots(hierarchy, TreeClasses)
               ELSE c \in ChildrenOf(hierarchy, TreeClasses, walk'[n].of)
    BY <1>4, <2>1 DEF TreeIInv, Placed
  <2>2. ASSUME NEW i \in DOMAIN printed
        PROVE  IF printed[i].depth = 0 THEN printed[i].shows \in TreeRoots(hierarchy, TreeClasses)
               ELSE BelowItsParent(i)'
    BY <1>6, <2>2 DEF TreeIInv, Placed
  <2>3. ASSUME NEW n \in DOMAIN walk', n > 1
        PROVE  \E j \in DOMAIN printed :
                  /\ printed[j].shows = walk'[n].of /\ printed[j].depth = n - 2
                  /\ \A k \in DOMAIN printed : k > j => printed[k].depth > n - 2
    BY <1>4, <2>3 DEF TreeIInv, Placed
  <2> QED
    BY <1>2, <2>1, <2>2, <2>3 DEF Placed
<1>8. Once'
  BY <1>2, <1>4 DEF TreeIInv, Once
<1>9. Hanging'
  BY <1>2, <1>4 DEF TreeIInv, Hanging
<1>10. Complete'
  <2>1. \A c : Met(c) => Met(c)'
    BY <1>2, <1>4 DEF Met
  <2> QED
    BY <1>2, <2>1 DEF TreeIInv, Complete
<1>11. Judged' /\ Unstarted'
  BY <1>2 DEF TreeIInv, Judged, Unstarted
<1> QED
  BY <1>5, <1>7, <1>8, <1>9, <1>10, <1>11 DEF TreeIInv

\* The check looks at the classes once the tree is printed.
LEMMA CheckTree ==
  ASSUME TreeIInv, hierarchy # <<>>, walk = <<>>, Check
  PROVE  TreeIInv'
<1> DEFINE reported == {c \in TreeClasses : InViolation(hierarchy, c)}
           code == IF reported = {} THEN 0 ELSE 1
<1>1. /\ hierarchy' = hierarchy /\ directory' = directory /\ printed' = printed /\ walk' = walk
      /\ checked' = <<[reports |-> reported, code |-> code]>>
      /\ TreeClasses' = TreeClasses /\ Shown' = Shown
  BY DEF Check, TreeClasses, Shown
<1>2. reported \subseteq DOMAIN hierarchy /\ code \in {0, 1}
  BY TreeBasics DEF TreeIInv
<1>3. checked'[1].reports = reported /\ checked'[1].code = code /\ Len(checked') = 1 /\ DOMAIN checked' = {1}
  <2> HIDE DEF reported, code
  <2> QED
    BY <1>1
<1>4. TreeTypeOK'
  <2> HIDE DEF reported, code
  <2> QED
    BY <1>1, <1>2, <1>3 DEF TreeIInv, TreeTypeOK, Frame, Line
<1>5. Placed'
  <2>1. \A i \in DOMAIN printed : BelowItsParent(i) => BelowItsParent(i)'
    BY <1>1 DEF BelowItsParent
  <2> HIDE DEF reported, code
  <2> QED
    BY <1>1, <2>1 DEF TreeIInv, Placed
<1>6. Once' /\ Hanging'
  <2> HIDE DEF reported, code
  <2> QED
    BY <1>1 DEF TreeIInv, Once, Hanging
<1>7. Complete'
  <2> HIDE DEF reported, code
  <2> QED
    BY <1>1 DEF TreeIInv, Complete, Met
<1>8. Judged' /\ Unstarted'
  <2>1. checked'[1].reports = {c \in TreeClasses' : InViolation(hierarchy', c)}
    BY <1>1, <1>3
  <2> HIDE DEF reported, code
  <2> QED
    BY <1>1, <2>1 DEF TreeIInv, Judged, Unstarted
<1> QED
  BY <1>4, <1>5, <1>6, <1>7, <1>8 DEF TreeIInv

\* However far the tree is printed, each class is met once, below its parent, and
\* whoever's parent is printed is met.
THEOREM TreeInvariant == TreeSpec => []TreeIInv
<1>1. TreeIInv /\ [TreeNext]_treeVars => TreeIInv'
  <2> SUFFICES ASSUME TreeIInv, [TreeNext]_treeVars PROVE TreeIInv'
    OBVIOUS
  <2>1. ASSUME hierarchy = <<>>, walk = <<>>, NEW h \in Hierarchies, NEW dir \in Directories,
               Inspect(h, dir)
        PROVE  TreeIInv'
    BY <2>1, InspectTree
  <2>2. ASSUME walk # <<>>, NEW c \in Last(walk).children, CollectTreeLine(c) PROVE TreeIInv'
    <3>1. CollectEffect(c) /\ TreeTypeOK'
      BY <2>2, CollectTree DEF TreeIInv
    <3> QED
      BY <3>1, PlacedKept, OnceKept, HangingKept, CompleteKept, JudgedKept DEF TreeIInv
  <2>3. ASSUME walk # <<>>, TreeReturn PROVE TreeIInv'
    BY <2>3, ReturnTree
  <2>4. ASSUME hierarchy # <<>>, walk = <<>>, Check PROVE TreeIInv'
    BY <2>4, CheckTree
  <2>5. CASE UNCHANGED treeVars
    <3> USE <2>5 DEF treeVars
    <3>1. \A i : BelowItsParent(i) <=> BelowItsParent(i)'
      BY DEF BelowItsParent
    <3>2. TreeClasses' = TreeClasses /\ Shown' = Shown
      BY DEF TreeClasses, Shown
    <3>3. TreeTypeOK' /\ Placed' /\ Once' /\ Hanging'
      BY <3>1, <3>2 DEF TreeIInv, TreeTypeOK, Frame, Line, Placed, Once, Hanging
    <3>4. Complete' /\ Judged' /\ Unstarted'
      BY <3>2 DEF TreeIInv, Complete, Met, Judged, Unstarted
    <3> QED
      BY <3>3, <3>4 DEF TreeIInv
  <2> QED
    BY <2>1, <2>2, <2>3, <2>4, <2>5 DEF TreeNext
<1> QED
  BY InitTree, <1>1, PTL DEF TreeSpec

\* Whatever of the hierarchy is printed is of its registry.
THEOREM TreeAlwaysTyped == TreeSpec => []TreeTypeOK
<1>1. TreeIInv => TreeTypeOK
  BY DEF TreeIInv
<1> QED
  BY <1>1, TreeInvariant, PTL

\* Once the walk is over, the classes on its lines are those that hang from the
\* tree: one that hangs and is not printed would have a parent of that kind.
LEMMA AllShown ==
  ASSUME TreeIInv, walk = <<>>, NEW c \in TreeClasses
  PROVE  Hangs(hierarchy, TreeClasses, c) <=> c \in Shown
<1>1. /\ Registry(hierarchy) /\ TreeClasses \in SUBSET (DOMAIN hierarchy)
  BY TreeBasics DEF TreeIInv
<1>2. c \in Shown => Hangs(hierarchy, TreeClasses, c)
  BY DEF TreeIInv, Hanging, Shown
<1> DEFINE S == {d \in TreeClasses : Hangs(hierarchy, TreeClasses, d) /\ d \notin Shown}
<1>3. ASSUME NEW d \in S PROVE hierarchy[d].extends \in S
  <2>1. hierarchy # <<>>
    BY <1>1
  <2>2. \A e : ~Met(e) <=> e \notin Shown
    BY DEF Met
  <2>3. d \notin TreeRoots(hierarchy, TreeClasses) /\ hierarchy[d].extends \notin Shown
    BY <2>1, <2>2 DEF TreeIInv, Complete
  <2>4. hierarchy[d].extends \in TreeClasses /\ Hangs(hierarchy, TreeClasses, hierarchy[d].extends)
    BY <1>1, <2>3, HangsByParent
  <2> QED
    BY <2>3, <2>4
<1>4. S \in SUBSET (DOMAIN hierarchy)
  BY <1>1
<1>5. S = {}
  <2> HIDE DEF S
  <2> QED
    BY <1>1, <1>3, <1>4, NoCircle
<1> QED
  BY <1>2, <1>5

\* `psy inspect:controller-hierarchy` shows each controller of a directory once,
\* below the one it extends, and `psy check:controller-hierarchy` reports what it
\* warns of (printControllerHierarchy.ts), whatever the application's hierarchy.
THEOREM TreeAlwaysShowsWhatIsChecked == TreeSpec => []TreeShowsWhatIsChecked
<1>1. TreeIInv => TreeShowsWhatIsChecked
  <2> SUFFICES ASSUME TreeIInv PROVE TreeShowsWhatIsChecked
    OBVIOUS
  <2> DEFINE warned == {printed[i].shows : i \in {j \in DOMAIN printed : printed[j].warns}}
  <2>1. /\ Registry(hierarchy) /\ TreeClasses \in SUBSET (DOMAIN hierarchy)
        /\ Shown \subseteq TreeClasses /\ 0 \notin DOMAIN hierarchy
    BY TreeBasics, RegistryType DEF TreeIInv, Hanging, Shown
  <2>2. ASSUME walk = <<>>, NEW c \in DOMAIN hierarchy
        PROVE  Cardinality(LinesOf(c)) =
                  IF c \in TreeClasses /\ Hangs(hierarchy, TreeClasses, c) THEN 1 ELSE 0
    <3>1. c \in TreeClasses /\ Hangs(hierarchy, TreeClasses, c) <=> c \in Shown
      BY <2>1, <2>2, AllShown
    <3>2. CASE c \in Shown
      <4>1. PICK i \in DOMAIN printed : printed[i].shows = c
        BY <3>2 DEF Shown
      <4>2. LinesOf(c) = {i}
        BY <4>1 DEF LinesOf, TreeIInv, Once
      <4>3. Cardinality({i}) = 1
        BY FS_Singleton
      <4> QED
        BY <3>1, <3>2, <4>2, <4>3
    <3>3. CASE c \notin Shown
      <4>1. LinesOf(c) = {}
        BY <3>3 DEF LinesOf, Shown
      <4>2. Cardinality({}) = 0
        BY FS_EmptySet
      <4> QED
        BY <3>1, <3>3, <4>1, <4>2
    <3> QED
      BY <3>2, <3>3
  <2>3. ASSUME NEW i \in DOMAIN printed, printed[i].depth > 0 PROVE BelowItsParent(i)
    BY <2>3 DEF TreeIInv, Placed
  <2>4. ASSUME NEW i \in DOMAIN printed
        PROVE  /\ printed[i].warns => InViolation(hierarchy, printed[i].shows)
               /\ printed[i].depth > 0 /\ InViolation(hierarchy, printed[i].shows) => printed[i].warns
    BY Zenon DEF TreeIInv, Judged
  <2>5. ASSUME checked # <<>>
        PROVE  /\ warned \subseteq checked[1].reports
               /\ \A c \in (checked[1].reports \cap Shown) \ warned : \E i \in LinesOf(c) : printed[i].depth = 0
               /\ directory = <<>> => checked[1].reports = warned
    <3>1. walk = <<>> /\ checked[1].reports = {c \in TreeClasses : InViolation(hierarchy, c)}
      BY <2>5 DEF TreeIInv, Judged
    <3>2. warned \subseteq checked[1].reports
      BY <2>1, <2>4, <3>1 DEF Shown
    <3>3. ASSUME NEW c \in (checked[1].reports \cap Shown) \ warned
          PROVE  \E i \in LinesOf(c) : printed[i].depth = 0
      <4>1. PICK i \in DOMAIN printed : printed[i].shows = c
        BY <3>3 DEF Shown
      <4>2. ~printed[i].warns /\ InViolation(hierarchy, c)
        BY <3>1, <3>3, <4>1
      <4>3. ~(printed[i].depth > 0)
        BY <2>4, <4>1, <4>2
      <4>4. printed[i].depth = 0
        BY <4>3, TreeBasics DEF TreeIInv, Line
      <4> QED
        BY <4>1, <4>4 DEF LinesOf
    <3>4. ASSUME directory = <<>>, NEW c \in checked[1].reports PROVE c \in warned
      <4>1. TreeClasses = DOMAIN hierarchy
        <5>1. ASSUME NEW d \in DOMAIN hierarchy PROVE UnderDirectory(<<>>, hierarchy[d])
          <6>1. hierarchy[d].dir \in Seq(STRING)
            <7> DEFINE Class == [dir : Seq(STRING), extends : Nat]
            <7>1. hierarchy \in Seq(Class)
              BY <2>1, TreeAssumption DEF Registry
            <7>2. hierarchy[d] \in Class
              <8> HIDE DEF Class
              <8> QED
                BY <7>1
            <7> QED
              BY <7>2
          <6> QED
            BY <6>1 DEF UnderDirectory, IsPrefix
        <5> QED
          BY <3>4, <5>1 DEF TreeClasses, Selected
      <4>2. c \in DOMAIN hierarchy /\ InViolation(hierarchy, c)
        BY <2>1, <3>1
      <4>3. hierarchy[c].extends # 0 /\ hierarchy[c].extends \in DOMAIN hierarchy
        BY <2>1, <4>2, RegistryType DEF InViolation
      <4>4. hierarchy[c].extends \in Above(hierarchy, c)
        BY <2>1, <4>2, AboveHolds
      <4>5. Hangs(hierarchy, TreeClasses, c)
        BY <2>1, <4>1, <4>2, AboveHolds DEF Hangs
      <4>6. PICK i \in DOMAIN printed : printed[i].shows = c
        BY <3>1, <4>1, <4>2, <4>5, AllShown DEF Shown
      <4>7. printed[i].depth # 0
        BY <4>1, <4>3, <4>4, <4>6 DEF TreeIInv, Placed, TreeRoots
      <4>8. printed[i].depth > 0
        BY <4>7, TreeBasics DEF TreeIInv, Line
      <4> QED
        BY <2>4, <4>2, <4>6, <4>8
    <3> QED
      BY <3>2, <3>3, <3>4
  <2> QED
    BY <2>2, <2>3, <2>5 DEF TreeShowsWhatIsChecked, TreeClasses, Shown
<1> QED
  BY <1>1, TreeInvariant, PTL

(***************************************************************************)
(* The controllers of generated resources: for any resources               *)
(***************************************************************************)

\* Those of the boilerplate are never taken away.
ControllersIInv ==
    /\ ran \in Seq([resource : Requests, routed : BOOLEAN])
    /\ Boilerplate \subseteq DOMAIN controllers
    /\ GeneratedControllersServe

\* The path of a resource has a name beside that of its area.
LEMMA PathType ==
  ASSUME NEW r \in Requests
  PROVE  PathOf(r) # <<>> /\ \E Names : PathOf(r) \in Seq(Names)
<1> DEFINE Names == STRING \cup {r.name}
           above == [i \in DOMAIN r.ancestors |-> r.ancestors[i].name]
           Anc == [method : STRING, name : STRING]
<1>1. r.ancestors \in Seq(Anc)
  BY RequestsAssumption
<1>2. \A i \in DOMAIN r.ancestors : r.ancestors[i] \in Anc
  <2> HIDE DEF Anc
  <2> QED
    BY <1>1
<1>3. \A i \in DOMAIN r.ancestors : r.ancestors[i].name \in Names
  BY <1>2
<1>4. above \in Seq(Names)
  <2>1. Len(r.ancestors) \in Nat /\ DOMAIN r.ancestors = 1..Len(r.ancestors)
    <3> HIDE DEF Anc
    <3> QED
      BY <1>1
  <2> HIDE DEF Names, Anc
  <2> QED
    BY <1>3, <2>1
<1>5. <<r.name>> \in Seq(Names)
  OBVIOUS
<1>6. above \o <<r.name>> \in Seq(Names) /\ above \o <<r.name>> # <<>>
  <2> HIDE DEF above, Names
  <2> QED
    BY <1>4, <1>5
<1> QED
  BY <1>6 DEF PathOf

\* The first directories of a path are in its area.
LEMMA AreaOf ==
  ASSUME NEW Names, NEW path \in Seq(Names), path # <<>>
  PROVE  /\ Area(path) \in Seq(Names) /\ Len(Area(path)) < Len(path)
         /\ \A n \in (Len(Area(path)) + 1)..Len(path) : Area(SubSeq(path, 1, n)) = Area(path)
         /\ Area(path) \in {<<>>, <<"admin">>, <<"internal">>}
         /\ Area(path) = SubSeq(path, 1, Len(Area(path)))
<1>1. Len(path) \in Nat /\ Len(path) >= 1 /\ Head(path) = path[1] /\ path[1] \in Names
  OBVIOUS
<1>2. CASE Len(path) > 1 /\ Head(path) \in {"admin", "internal"}
  <2>1. Area(path) = <<path[1]>>
    BY <1>1, <1>2 DEF Area
  <2>2. ASSUME NEW n \in 2..Len(path) PROVE Area(SubSeq(path, 1, n)) = Area(path)
    <3>1. Len(SubSeq(path, 1, n)) = n /\ Head(SubSeq(path, 1, n)) = path[1]
      BY <1>1
    <3> QED
      BY <1>1, <1>2, <3>1 DEF Area
  <2>3. <<path[1]>> = SubSeq(path, 1, 1)
    BY <1>1
  <2> QED
    BY <1>1, <1>2, <2>1, <2>2, <2>3
<1>3. CASE ~(Len(path) > 1 /\ Head(path) \in {"admin", "internal"})
  <2>1. Area(path) = <<>>
    BY <1>3 DEF Area
  <2>2. ASSUME NEW n \in 1..Len(path) PROVE Area(SubSeq(path, 1, n)) = Area(path)
    <3>1. Len(SubSeq(path, 1, n)) = n /\ Head(SubSeq(path, 1, n)) = path[1]
      BY <1>1
    <3> QED
      BY <1>1, <1>3, <3>1 DEF Area
  <2>3. <<>> = SubSeq(path, 1, 0)
    BY <1>1
  <2> QED
    BY <1>1, <2>1, <2>2, <2>3
<1> QED
  BY <1>2, <1>3

\* What the controller of a directory, or of a resource, extends: that of the
\* boilerplate right below the area, and else the base controller of the directory
\* above, or of its own.
LEMMA ExtendsByLevel ==
  ASSUME NEW Names, NEW path \in Seq(Names), path # <<>>,
         NEW n \in (Len(Area(path)) + 1)..Len(path)
  PROVE  LET sub == SubSeq(path, 1, n) IN
         /\ ExtendedBy(sub) =
               IF n = Len(Area(path)) + 1 THEN Authed(Area(path)) ELSE BaseOf(SubSeq(path, 1, n - 1))
         /\ OfItsLevel(BaseOf(sub), ExtendedBy(sub)) /\ OfItsLevel(ControllerOf(sub), ExtendedBy(sub))
<1> DEFINE sub == SubSeq(path, 1, n)
           above == SubSeq(path, 1, n - 1)
           area == Area(path)
<1>1. /\ area \in Seq(Names) /\ Len(area) < Len(path) /\ Area(sub) = area
      /\ area = SubSeq(path, 1, Len(area))
  BY AreaOf
<1>2. /\ Len(path) \in Nat /\ Len(area) \in Nat /\ n \in Nat
      /\ sub \in Seq(Names) /\ Len(sub) = n /\ sub # <<>>
  <2>1. Len(area) \in Nat
    BY <1>1
  <2> HIDE DEF area
  <2> QED
    BY <2>1
<1>3. Front(sub) = above
  <2> HIDE DEF area
  <2> QED
    BY <1>2 DEF Front
<1>4. ExtendedBy(sub) = IF n = Len(area) + 1 THEN Authed(area) ELSE BaseOf(above)
  <2> HIDE DEF sub, above, area
  <2> QED
    BY <1>1, <1>2, <1>3 DEF ExtendedBy
<1>5. n = Len(area) + 1 => area = above
  BY <1>1, <1>2
<1>6. DirectoryOf(ExtendedBy(sub)) = above
  <2> HIDE DEF sub, above, area
  <2> QED
    BY <1>4, <1>5 DEF DirectoryOf, Authed, BaseOf
<1>7. DirectoryOf(BaseOf(sub)) = sub /\ DirectoryOf(ControllerOf(sub)) = above
  <2> HIDE DEF sub, above, area
  <2> QED
    BY <1>3 DEF DirectoryOf, BaseOf, ControllerOf
<1> HIDE DEF sub, above, area
<1>8. OfItsLevel(BaseOf(sub), ExtendedBy(sub)) /\ OfItsLevel(ControllerOf(sub), ExtendedBy(sub))
  BY <1>2, <1>3, <1>6, <1>7 DEF OfItsLevel
<1> QED
  BY <1>4, <1>8 DEF sub, above, area

LEMMA InitControllers == ControllersInit => ControllersIInv
<1> SUFFICES ASSUME ControllersInit PROVE ControllersIInv
  OBVIOUS
<1>1. DOMAIN controllers = Boilerplate /\ ran = <<>>
  BY DEF ControllersInit
<1>2. ASSUME NEW k \in Boilerplate PROVE controllers[k].extends = k /\ OfItsLevel(k, k)
  BY <1>2 DEF ControllersInit, OfItsLevel
<1> QED
  BY <1>1, <1>2 DEF ControllersIInv, GeneratedControllersServe

\* A run writes a chain of controllers up to one of the boilerplate, and takes
\* none away.
LEMMA WriteKeepsControllers ==
  ASSUME ControllersIInv, NEW r \in Requests, NEW routed \in BOOLEAN, WriteControllers(r, routed)
  PROVE  ControllersIInv'
<1> DEFINE path == PathOf(r)
           depth == Len(Area(path))
           bases == {BaseOf(SubSeq(path, 1, n)) : n \in (depth + 1)..(Len(path) - 1)}
           own == ControllerOf(path)
<1>1. PICK Names : path \in Seq(Names) /\ path # <<>>
  BY PathType
<1>2. /\ depth \in Nat /\ Len(path) \in Nat /\ depth < Len(path)
      /\ Area(path) \in {<<>>, <<"admin">>, <<"internal">>}
      /\ path = SubSeq(path, 1, Len(path))
  <2>1. Area(path) \in Seq(Names) /\ Len(Area(path)) < Len(path)
        /\ Area(path) \in {<<>>, <<"admin">>, <<"internal">>}
    BY <1>1, AreaOf
  <2>2. Len(path) \in Nat /\ path = SubSeq(path, 1, Len(path))
    <3> HIDE DEF path
    <3> QED
      BY <1>1
  <2> QED
    BY <2>1, <2>2
<1>3. /\ DOMAIN controllers' = DOMAIN controllers \cup bases \cup {own}
      /\ controllers'[own] = [extends |-> ExtendedBy(path), actions |-> Actions(r)]
      /\ \A k \in DOMAIN controllers \ {own} : controllers'[k] = controllers[k]
      /\ \A k \in bases \ DOMAIN controllers :
            k # own => controllers'[k] = [extends |-> ExtendedBy(k.path), actions |-> {}]
  <2> HIDE DEF path, bases, own
  <2>1. controllers' =
           [k \in DOMAIN controllers \cup bases \cup {own} |->
              IF k = own THEN [extends |-> ExtendedBy(path), actions |-> Actions(r)]
              ELSE IF k \in DOMAIN controllers THEN controllers[k]
              ELSE [extends |-> ExtendedBy(k.path), actions |-> {}]]
    BY DEF WriteControllers, WithControllers, path, bases, own
  <2> QED
    BY <2>1
<1>4. /\ ran' \in Seq([resource : Requests, routed : BOOLEAN])
      /\ Len(ran) \in Nat /\ DOMAIN ran = 1..Len(ran)
      /\ Len(ran') = Len(ran) + 1 /\ DOMAIN ran' = 1..(Len(ran) + 1)
      /\ \A i \in 1..Len(ran) : ran'[i] = ran[i]
      /\ ran'[Len(ran) + 1].resource = r
  <2>1. ran \in Seq([resource : Requests, routed : BOOLEAN])
    BY DEF ControllersIInv
  <2>2. ran' = Append(ran, [resource |-> r, routed |-> routed])
    BY DEF WriteControllers
  <2>3. [resource |-> r, routed |-> routed] \in [resource : Requests, routed : BOOLEAN]
    OBVIOUS
  <2> QED
    BY <2>1, <2>2, <2>3
<1>5. Boilerplate \subseteq DOMAIN controllers'
  BY <1>3 DEF ControllersIInv
<1>6. ASSUME NEW n \in (depth + 1)..Len(path)
      PROVE  LET sub == SubSeq(path, 1, n) IN
             /\ ExtendedBy(sub) \in DOMAIN controllers'
             /\ OfItsLevel(BaseOf(sub), ExtendedBy(sub)) /\ OfItsLevel(ControllerOf(sub), ExtendedBy(sub))
  <2> DEFINE sub == SubSeq(path, 1, n)
  <2>1. /\ ExtendedBy(sub) =
              IF n = depth + 1 THEN Authed(Area(path)) ELSE BaseOf(SubSeq(path, 1, n - 1))
        /\ OfItsLevel(BaseOf(sub), ExtendedBy(sub)) /\ OfItsLevel(ControllerOf(sub), ExtendedBy(sub))
    BY <1>1, ExtendsByLevel
  <2>2. CASE n = depth + 1
    <3>1. Authed(Area(path)) \in Boilerplate
      BY <1>2 DEF Boilerplate
    <3> QED
      BY <1>5, <2>1, <2>2, <3>1
  <2>3. CASE n # depth + 1
    <3>1. n - 1 \in (depth + 1)..(Len(path) - 1)
      <4> HIDE DEF depth, path
      <4> QED
        BY <1>2, <1>6, <2>3
    <3>2. BaseOf(SubSeq(path, 1, n - 1)) \in bases
      BY <3>1
    <3> QED
      BY <1>3, <2>1, <2>3, <3>2
  <2> QED
    BY <2>1, <2>2, <2>3
<1>7. ASSUME NEW k \in DOMAIN controllers'
      PROVE  controllers'[k].extends \in DOMAIN controllers' /\ OfItsLevel(k, controllers'[k].extends)
  <2>1. CASE k = own
    <3>1. Len(path) \in (depth + 1)..Len(path)
      <4> HIDE DEF depth, path
      <4> QED
        BY <1>2
    <3>2. ExtendedBy(path) \in DOMAIN controllers' /\ OfItsLevel(own, ExtendedBy(path))
      BY <1>2, <1>6, <3>1
    <3> QED
      BY <1>3, <2>1, <3>2
  <2>2. CASE k \in DOMAIN controllers /\ k # own
    <3>1. controllers[k].extends \in DOMAIN controllers /\ OfItsLevel(k, controllers[k].extends)
      BY <2>2 DEF ControllersIInv, GeneratedControllersServe
    <3>2. controllers'[k] = controllers[k]
      BY <1>3, <2>2
    <3> QED
      BY <1>3, <3>1, <3>2
  <2>3. CASE k \in bases /\ k \notin DOMAIN controllers /\ k # own
    <3>1. PICK n \in (depth + 1)..(Len(path) - 1) : k = BaseOf(SubSeq(path, 1, n))
      BY <2>3
    <3>2. n \in (depth + 1)..Len(path) /\ k.path = SubSeq(path, 1, n)
      <4>1. k.path = SubSeq(path, 1, n)
        BY <3>1 DEF BaseOf
      <4> HIDE DEF depth, path
      <4> QED
        BY <1>2, <3>1, <4>1
    <3>3. controllers'[k].extends = ExtendedBy(k.path)
      <4> HIDE DEF own, bases, path
      <4>1. controllers'[k] = [extends |-> ExtendedBy(k.path), actions |-> {}]
        BY <1>3, <2>3
      <4> QED
        BY <4>1
    <3> QED
      BY <1>6, <3>1, <3>2, <3>3
  <2> QED
    BY <1>3, <2>1, <2>2, <2>3
<1>8. ASSUME NEW i \in DOMAIN ran'
      PROVE  LET k == ControllerOf(PathOf(ran'[i].resource)) IN
             /\ k \in DOMAIN controllers'
             /\ ~Overwritten(i)' => Actions(ran'[i].resource) \subseteq controllers'[k].actions
  <2> DEFINE last == Len(ran) + 1
  <2>1. CASE i = last
    BY <1>3, <1>4, <2>1
  <2>2. CASE i # last /\ PathOf(ran[i].resource) = path
    <3>1. i \in 1..Len(ran) /\ ran'[i] = ran[i] /\ last \in (i + 1)..Len(ran') /\ ran'[last].resource = r
      <4> HIDE DEF path
      <4> QED
        BY <1>4, <2>2
    <3>2. ~Overwritten(i)' => Actions(ran[i].resource) \subseteq Actions(r)
      <4> HIDE DEF last
      <4> QED
        BY <2>2, <3>1 DEF Overwritten, SameController
    <3> QED
      BY <1>3, <2>2, <3>1, <3>2
  <2>3. CASE i # last /\ PathOf(ran[i].resource) # path
    <3> DEFINE k == ControllerOf(PathOf(ran[i].resource))
    <3>1. i \in DOMAIN ran /\ ran'[i] = ran[i]
      <4> HIDE DEF path
      <4> QED
        BY <1>4, <2>3
    <3>2. /\ k \in DOMAIN controllers
          /\ ~Overwritten(i) => Actions(ran[i].resource) \subseteq controllers[k].actions
      BY <3>1 DEF ControllersIInv, GeneratedControllersServe
    <3>3. k # own
      BY <2>3 DEF ControllerOf
    <3>4. Overwritten(i) => Overwritten(i)'
      <4> HIDE DEF path
      <4> SUFFICES ASSUME NEW j \in (i + 1)..Len(ran), SameController(i, j),
                          ~(Actions(ran[i].resource) \subseteq Actions(ran[j].resource))
                   PROVE  Overwritten(i)'
        BY DEF Overwritten
      <4>1. j \in 1..Len(ran) /\ j \in (i + 1)..Len(ran')
        BY <1>4, <3>1
      <4>2. ran'[j] = ran[j]
        BY <1>4, <4>1
      <4> QED
        BY <3>1, <4>1, <4>2 DEF Overwritten, SameController
    <3> QED
      BY <1>3, <3>1, <3>2, <3>3, <3>4
  <2> QED
    BY <2>1, <2>2, <2>3
<1> HIDE DEF own, bases, depth, path
<1> QED
  BY <1>4, <1>5, <1>7, <1>8 DEF ControllersIInv, GeneratedControllersServe

\* However often resources are generated, for whatever nestings and controllers
\* that they share, the log of the runs says what the controllers have
\* (generate/controller.ts).
THEOREM ControllersInvariant == ControllersSpec => []ControllersIInv
<1>1. ControllersIInv /\ [ControllersNext]_controllerVars => ControllersIInv'
  <2> SUFFICES ASSUME ControllersIInv, [ControllersNext]_controllerVars PROVE ControllersIInv'
    OBVIOUS
  <2>1. CASE ControllersNext
    BY <2>1, WriteKeepsControllers DEF ControllersNext
  <2>2. CASE UNCHANGED controllerVars
    BY <2>2 DEF controllerVars, ControllersIInv, GeneratedControllersServe, Overwritten, SameController
  <2> QED
    BY <2>1, <2>2
<1> QED
  BY InitControllers, <1>1, PTL DEF ControllersSpec

\* For any resources in any order, a run of `g:resource` takes actions from no
\* generated controller but from the one that it is given: a resource keeps every
\* action until a run with the same controller overwrites it without one
\* (controller.ts:111), and the controllers follow the convention of the hierarchy.
THEOREM GeneratedControllersAlwaysServe == ControllersSpec => []GeneratedControllersServe
<1>1. ControllersIInv => GeneratedControllersServe
  BY DEF ControllersIInv
<1> QED
  BY <1>1, ControllersInvariant, PTL
=============================================================================
