------------------------------ MODULE WriteSet ------------------------------
(***************************************************************************)
(* applyConfirmedWriteSet and confirmOverwrite (src/src/cli/helpers): the  *)
(* setup commands of the CLI write a set of files that a developer may     *)
(* have customised.  All of them are compared with the disk, the developer *)
(* is asked once, and only then are they written, one after the other.     *)
(* Commands are run again with the same or other settings, writes fail     *)
(* halfway, and the developer goes on editing meanwhile.                   *)
(***************************************************************************)
EXTENDS Naturals, Sequences, SequencesExt

CONSTANTS Files,     \* the targets of the command
          Settings,  \* each one gives the targets other contents
          MaxTouches \* bound on the developer's edits

ASSUME SetAssumption == IsFiniteSet(Files) /\ Settings # {}

Absent == "absent"
Custom == "custom"
Contents == Settings \cup {Absent, Custom}

VARIABLES
    disk,      \* the contents of each file
    readable,  \* can the file, if it exists, be read?
    setting,   \* the settings of the command that runs
    overwrite, \* its --overwrite option
    tty,       \* is there somebody to ask?
    doing,     \* "idle", "reading", "asking", "writing"
    read,      \* what was found of each file, "unread" before
    writes,    \* targets not yet written, in order
    touches,   \* edits so far
    touched,   \* history: files edited since the command read them
    changed,   \* history: has this command written anything?
    asked,     \* history: did the developer consent to this command?
    lost,      \* history: was a file it had found replaced without consent?
    result     \* what the last command ended with

setVars == <<disk, readable, setting, overwrite, tty, doing, read, writes,
             touches, touched, changed, asked, lost, result>>

SetTypeOK ==
    /\ disk \in [Files -> Contents] /\ readable \in [Files -> BOOLEAN]
    /\ setting \in Settings /\ overwrite \in BOOLEAN /\ tty \in BOOLEAN
    /\ doing \in {"idle", "reading", "asking", "writing"}
    /\ read \in [Files -> Contents \cup {"unread"}]
    /\ writes \in Seq(Files) /\ Len(writes) <= Len(SetToSeq(Files))
    /\ touches \in 0..MaxTouches /\ touched \in SUBSET Files
    /\ changed \in BOOLEAN /\ asked \in BOOLEAN /\ lost \in BOOLEAN
    /\ result \in {"none", "applied", "declined", "threw"}

SetInit ==
    /\ disk \in [Files -> {Absent, Custom}] /\ readable = [f \in Files |-> TRUE]
    /\ setting = (CHOOSE c \in Settings : TRUE) /\ overwrite = FALSE /\ tty = TRUE
    /\ doing = "idle" /\ read = [f \in Files |-> "unread"] /\ writes = <<>>
    /\ touches = 0 /\ touched = {}
    /\ changed = FALSE /\ asked = FALSE /\ lost = FALSE /\ result = "none"

\* A command starts, with any settings and options, with or without a TTY.
Run ==
    /\ doing = "idle"
    /\ setting' \in Settings /\ overwrite' \in BOOLEAN /\ tty' \in BOOLEAN
    /\ doing' = "reading"
    /\ read' = [f \in Files |-> "unread"]
    /\ writes' = <<>> /\ touched' = {} /\ changed' = FALSE /\ asked' = FALSE
    /\ result' = "none"
    /\ UNCHANGED <<disk, readable, touches, lost>>

Settle(r) == doing' = "idle" /\ result' = r

\* Mutant: a file that cannot be read is taken to be missing.
ReadFileOrMissing(f) ==
    /\ doing = "reading" /\ read[f] = "unread"
    /\ read' = [read EXCEPT ![f] = IF readable[f] THEN disk[f] ELSE Absent]
    /\ UNCHANGED <<disk, readable, setting, overwrite, tty, doing, writes, touches, touched,
                   changed, asked, lost, result>>

\* The files are read at the same time.  Any failure but a missing file throws.
ReadFile(f) ==
    /\ doing = "reading" /\ read[f] = "unread"
    /\ IF disk[f] = Absent \/ readable[f]
       THEN read' = [read EXCEPT ![f] = disk[f]] /\ UNCHANGED <<doing, result>>
       ELSE Settle("threw") /\ UNCHANGED read
    /\ UNCHANGED <<disk, readable, setting, overwrite, tty, writes, touches, touched,
                   changed, asked, lost>>

Differing == {f \in Files : read[f] \notin {Absent, setting}}

\* All are read: if one differs the developer is asked, unless with --overwrite.
Compare ==
    /\ doing = "reading" /\ \A f \in Files : read[f] # "unread"
    /\ doing' = IF Differing # {} /\ ~overwrite THEN "asking" ELSE "writing"
    /\ writes' = SetToSeq({f \in Files : read[f] # setting})
    /\ UNCHANGED <<disk, readable, setting, overwrite, tty, read, touches, touched,
                   changed, asked, lost, result>>

\* confirmOverwrite: without a TTY, and on an empty answer, it throws; any
\* answer but yes declines.
Confirm ==
    /\ doing = "asking"
    /\ \/ /\ tty
          /\ doing' = "writing" /\ asked' = TRUE /\ UNCHANGED result
       \/ tty /\ Settle("declined") /\ UNCHANGED asked
       \/ Settle("threw") /\ UNCHANGED asked
    /\ UNCHANGED <<disk, readable, setting, overwrite, tty, read, writes, touches, touched,
                   changed, lost>>

\* The next file is written, or its writing fails and the command throws.
Write ==
    /\ doing = "writing" /\ writes # <<>>
    /\ LET f == Head(writes) IN
       \/ /\ disk' = [disk EXCEPT ![f] = setting]
          /\ writes' = Tail(writes)
          /\ changed' = TRUE
          /\ lost' = (lost \/ /\ f \notin touched /\ disk[f] \notin {Absent, setting}
                              /\ ~asked /\ ~overwrite)
          /\ UNCHANGED <<doing, result>>
       \/ Settle("threw") /\ UNCHANGED <<disk, writes, changed, lost>>
    /\ UNCHANGED <<readable, setting, overwrite, tty, read, touches, touched, asked>>

Applied ==
    /\ doing = "writing" /\ writes = <<>>
    /\ Settle("applied")
    /\ UNCHANGED <<disk, readable, setting, overwrite, tty, read, writes, touches, touched,
                   changed, asked, lost>>

\* External: the developer edits, removes or locks a file, at any moment.
Touch(f) ==
    /\ touches < MaxTouches
    /\ touches' = touches + 1
    /\ \/ disk' = [disk EXCEPT ![f] = Custom] /\ UNCHANGED readable
       \/ disk' = [disk EXCEPT ![f] = Absent] /\ UNCHANGED readable
       \/ readable' = [readable EXCEPT ![f] = ~@] /\ UNCHANGED disk
    /\ touched' = touched \cup {f}
    /\ UNCHANGED <<setting, overwrite, tty, doing, read, writes, changed, asked, lost, result>>

SetNext ==
    \/ Run \/ Compare \/ Confirm \/ Write \/ Applied
    \/ \E f \in Files : ReadFile(f) \/ Touch(f)

SetSpec == SetInit /\ [][SetNext]_setVars

(***************************************************************************)
(* Properties                                                              *)
(***************************************************************************)

\* Nothing that was on the disk when a command looked is ever replaced unless
\* the developer agreed to it, at the prompt or with --overwrite: not by a
\* command that could not read it, nor after commands that failed halfway.
\* "Declined -> no file is touched", nor is one when the question could not be
\* asked; and success means that every file has the contents of the settings,
\* but for those edited while the command ran.
WritesAsAgreed ==
    /\ ~lost
    /\ \/ result = "declined"
       \/ /\ result = "threw" /\ ~asked /\ ~overwrite /\ Differing # {}
          /\ \A f \in Files : read[f] # "unread"
       => ~changed
    /\ doing = "idle" /\ result = "applied" =>
          \A f \in Files \ touched : disk[f] = setting
=============================================================================
