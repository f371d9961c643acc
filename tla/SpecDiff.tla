------------------------------ MODULE SpecDiff ------------------------------
(***************************************************************************)
(* psy diff:openapi (src/src/bin/helpers/OpenApiSpecDiff.ts and its        *)
(* command in src/src/cli/index.ts): the checked OpenAPI documents of the  *)
(* working tree are compared, one after the other, with those of the head  *)
(* branch.  git and oasdiff are separate processes, each of which may      *)
(* fail; the command may be killed; and it is run again on another tree.   *)
(***************************************************************************)
EXTENDS Naturals

CONSTANT Specs \* documents of the app with checkDiffs

ASSUME DiffAssumption == "none" \notin Specs

Kinds == {"none", "additive", "breaking"}

VARIABLES
    tree,    \* of each document: is it there, how it differs from the head
             \* branch, is it in the index as it is in the tree?
    origin,  \* what `git remote show origin` says of the head branch
    ci,      \* is CI=1 set?
    gate,    \* --fail-on-breaking
    at,      \* "off", "exited", "config", "next", "content", "temp", "breaking", "changelog"
    head,    \* oasdiffConfig.headBranch, "" when nothing named it
    doc,     \* the document being compared, "none" between two
    temp,    \* documents whose temp_main_ file is on the disk
    found,   \* what `oasdiff breaking` said of doc
    results, \* of each document: "pending", an error, or the kind of change
    exit,    \* "none", 0 as "ok", 1 as "failed", "threw", "killed"
    verdict  \* the summary: "none", "breaking", "inconclusive", "changes", "identical"

diffVars == <<tree, origin, ci, gate, at, head, doc, temp, found, results, exit, verdict>>

\* A document that is missing, one as on the head branch, and those that
\* differ, in the index too or not yet.
Documents ==
    {d \in [there : BOOLEAN, diff : Kinds, staged : BOOLEAN] :
        /\ ~d.there => d.diff = "none"
        /\ d.diff = "none" => d.staged}
Origins == {"main", "ambiguous", "unknown", "unreachable"}

DiffTypeOK ==
    /\ tree \in [Specs -> Documents] /\ origin \in Origins
    /\ ci \in BOOLEAN /\ gate \in BOOLEAN
    /\ at \in {"off", "exited", "config", "next", "content", "temp", "breaking", "changelog"}
    /\ head \in {"", "main", "(unknown)"}
    /\ doc \in Specs \cup {"none"} /\ (doc = "none" <=> at \in {"off", "exited", "config", "next"})
    /\ temp \in SUBSET Specs /\ found \in {"none", "breaking"}
    /\ results \in [Specs -> Kinds \cup {"pending", "error"}]
    /\ exit \in {"none", "ok", "failed", "threw", "killed"}
    /\ verdict \in {"none", "breaking", "inconclusive", "changes", "identical"}

NoTree == [s \in Specs |-> [there |-> FALSE, diff |-> "none", staged |-> TRUE]]
Pending == [s \in Specs |-> "pending"]

DiffInit ==
    /\ tree = NoTree /\ origin = "main" /\ ci = FALSE /\ gate = FALSE /\ at = "off"
    /\ head = "" /\ doc = "none" /\ temp = {} /\ found = "none"
    /\ results = Pending /\ exit = "none" /\ verdict = "none"

\* External: the command is run, on whatever tree, with whatever remote.
Invoke ==
    /\ at = "off" /\ at' = "config"
    /\ tree' \in [Specs -> Documents] /\ origin' \in Origins
    /\ ci' \in BOOLEAN /\ gate' \in BOOLEAN
    /\ UNCHANGED <<head, doc, temp, found, results, exit, verdict>>

\* The process is gone, and only the disk is left of it.
Gone ==
    /\ at = "exited" /\ at' = "off"
    /\ tree' = NoTree /\ origin' = "main" /\ ci' = FALSE /\ gate' = FALSE
    /\ head' = "" /\ found' = "none"
    /\ results' = Pending /\ exit' = "none" /\ verdict' = "none"
    /\ UNCHANGED <<doc, temp>>

Exit(e) == at' = "exited" /\ doc' = "none" /\ exit' = e

\* getHeadBranch: the line "HEAD branch: <name>" of the remote, if there is
\* one; git has another wording for a remote whose HEAD is ambiguous.
HeadBranch == IF origin = "main" THEN "main" ELSE IF origin = "unknown" THEN "(unknown)" ELSE ""

\* getOasDiffConfig: git must answer and oasdiff be installed; else it throws
\* an error that the command passes on.
GetOasDiffConfig ==
    /\ at = "config"
    /\ \/ /\ origin # "unreachable"
          /\ head' = HeadBranch /\ at' = "next" /\ UNCHANGED <<doc, exit>>
       \/ Exit("threw") /\ UNCHANGED head
    /\ UNCHANGED <<tree, origin, ci, gate, temp, found, results, verdict>>

\* compareConfig: a document missing from the tree is an error of its own.
Take(s) ==
    /\ at = "next" /\ results[s] = "pending"
    /\ IF tree[s].there
       THEN at' = "content" /\ doc' = s /\ UNCHANGED results
       ELSE results' = [results EXCEPT ![s] = "error"] /\ UNCHANGED <<at, doc>>
    /\ found' = "none"
    /\ UNCHANGED <<tree, origin, ci, gate, head, temp, exit, verdict>>

Result(r) == results' = [results EXCEPT ![doc] = r] /\ at' = "next" /\ doc' = "none"

\* catch and finally: the failure becomes this document's error and the
\* temporary file goes.
Catch == Result("error") /\ temp' = temp \ {doc} /\ UNCHANGED found

\* getHeadBranchContent: without a head branch, `git show :path` reads the
\* index, and `git show origin/:path` (in CI) fails.
ReadsIndex == head = "" /\ ~ci
Base == IF ReadsIndex /\ tree[doc].staged THEN "none" ELSE tree[doc].diff

Content ==
    /\ at = "content"
    /\ \/ (head = "main" \/ ReadsIndex) /\ at' = "temp" /\ UNCHANGED <<doc, temp, found, results>>
       \/ Catch
    /\ UNCHANGED <<tree, origin, ci, gate, head, exit, verdict>>

WriteTemp ==
    /\ at = "temp"
    /\ \/ at' = "breaking" /\ temp' = temp \cup {doc} /\ UNCHANGED <<doc, found, results>>
       \/ Catch
    /\ UNCHANGED <<tree, origin, ci, gate, head, exit, verdict>>

\* Mutant: what a failed oasdiff printed is read as "no breaking changes".
OasDiffBreakingLenient ==
    /\ at = "breaking" /\ at' = "changelog"
    /\ found' \in {"none", IF Base = "breaking" THEN "breaking" ELSE "none"}
    /\ UNCHANGED <<tree, origin, ci, gate, head, doc, temp, results, exit, verdict>>

\* compareSpecs, first call of runOasDiffCommand: oasdiff answers or fails.
OasDiffBreaking ==
    /\ at = "breaking"
    /\ \/ /\ at' = "changelog"
          /\ found' = IF Base = "breaking" THEN "breaking" ELSE "none"
          /\ UNCHANGED <<doc, temp, results>>
       \/ Catch
    /\ UNCHANGED <<tree, origin, ci, gate, head, exit, verdict>>

\* Second call; then the finally removes the temporary file.
OasDiffChangelog ==
    /\ at = "changelog"
    /\ \/ /\ Result(IF found = "breaking" THEN "breaking"
                    ELSE IF Base = "none" THEN "none" ELSE "additive")
          /\ temp' = temp \ {doc} /\ UNCHANGED found
       \/ Catch
    /\ UNCHANGED <<tree, origin, ci, gate, head, exit, verdict>>

Some(r) == \E s \in Specs : results[s] = r

\* processResults and logSummary.
Verdict ==
    IF Some("breaking") THEN "breaking"
    ELSE IF Some("error") THEN "inconclusive"
    ELSE IF Some("additive") THEN "changes" ELSE "identical"

\* The summary throws, and the command turns what it throws into exit 1 when
\* it is the gate and into exit 0 when it only informs.
Summary ==
    /\ at = "next" /\ ~Some("pending")
    /\ verdict' = Verdict
    /\ Exit(IF Verdict \in {"breaking", "inconclusive"} /\ gate THEN "failed" ELSE "ok")
    /\ UNCHANGED <<tree, origin, ci, gate, head, temp, found, results>>

\* External: the process is killed, and no finally runs.
KilledMidway == at \notin {"off", "exited"} /\ Exit("killed")
        /\ UNCHANGED <<tree, origin, ci, gate, head, temp, found, results, verdict>>

DiffNext ==
    \/ Invoke \/ Gone \/ GetOasDiffConfig \/ Content \/ WriteTemp
    \/ OasDiffBreaking \/ OasDiffChangelog \/ Summary \/ KilledMidway
    \/ \E s \in Specs : Take(s)

DiffSpec == DiffInit /\ [][DiffNext]_diffVars

(***************************************************************************)
(* Properties                                                              *)
(***************************************************************************)

\* "An inconclusive diff must never pass a CI gate": with --fail-on-breaking
\* the command exits 0 only when each document was compared to the end and
\* none has a breaking change, for a remote that names its head branch.  The
\* failure of one document never hides the breaking change found in another;
\* and a document that was compared, however that ended, leaves no temporary
\* file, not even that of a run killed before.
GateIsConclusive ==
    /\ exit = "ok" /\ gate /\ origin # "ambiguous" =>
          \A s \in Specs : tree[s].there /\ tree[s].diff # "breaking" /\ results[s] = tree[s].diff
    /\ exit \in {"ok", "failed"} /\ Some("breaking") => verdict = "breaking"
    /\ \A s \in Specs : results[s] # "pending" /\ tree[s].there => s \notin temp

\* The comment at getHeadBranch: "default to main if not set".  Violated: with
\* a remote whose HEAD is ambiguous the head branch is the empty string and
\* the tree is compared with git's index, where the breaking change may be.
HeadBranchDefaults ==
    exit = "ok" /\ gate => \A s \in Specs : tree[s].diff # "breaking"
=============================================================================
