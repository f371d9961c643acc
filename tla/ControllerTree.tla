---------------------------- MODULE ControllerTree ----------------------------
(***************************************************************************)
(* The controllers of an application as `psy inspect:controller-hierarchy` *)
(* prints them, and as `psy check:controller-hierarchy` judges them        *)
(* (src/src/bin/helpers/printControllerHierarchy.ts).  Both look at the    *)
(* classes under a directory, each in its own way: one from the topmost    *)
(* down, the other one by one.                                             *)
(*                                                                         *)
(* A directory is a sequence of names; a class is its place in the         *)
(* registry, 0 that of PsychicController.  Columns and dashes are left out.*)
(***************************************************************************)
EXTENDS Naturals, Sequences, SequencesExt, FiniteSets

CONSTANTS
    Hierarchies,   \* registries: sequences of [dir, extends]
    Directories    \* what a command may be given; <<>> is the default

VARIABLES
    hierarchy,   \* the registry, once a command has run,
    directory,   \* the directory it was run for,
    walk,        \* the calls of collectTreeLines under way: [of, children],
                 \* the children that each has still to print
    printed,     \* the lines of inspect: [shows, depth, warns]
    checked      \* and the classes that check reports, with its exit code

treeVars == <<hierarchy, directory, walk, printed, checked>>

\* The classes above a class: the one it extends, the one that extends, and on.
Above(h, c) ==
    {a \in 0..Len(h) : \A S \in SUBSET (0..Len(h)) :
        (h[c].extends \in S /\ \A d \in S \ {0} : h[d].extends \in S) => a \in S}

\* A class extends another of the registry or PsychicController, and none extends
\* itself by way of others, which JavaScript sees to.
ASSUME TreeAssumption ==
    /\ <<>> \in Directories
    /\ \A h \in Hierarchies :
          /\ h \in Seq([dir : Seq(STRING), extends : Nat])
          /\ \A c \in DOMAIN h : h[c].extends <= Len(h) /\ c \notin Above(h, c)

\* globalPrefixFromPath: a path outside the controllers' is taken for theirs.
UnderDirectory(dir, class) == IsPrefix(dir, class.dir)
\* resolveControllerClasses.
Selected(h, dir) == {c \in DOMAIN h : UnderDirectory(dir, h[c])}

\* hierarchyViolation: a class extends one of its directory or of the one above.
Violates(dir, parentDir) == dir # parentDir /\ (dir = <<>> \/ Front(dir) # parentDir)
InViolation(h, c) ==
    h[c].extends # 0 /\ Violates(h[c].dir, h[h[c].extends].dir)

\* Mutant: the classes that extend PsychicController itself.
DirectRoots(h, classes) == {c \in classes : h[c].extends = 0}
\* controllerHierarchyLines: those that descend from none of the others.
TreeRoots(h, classes) == {c \in classes : Above(h, c) \cap classes = {}}

\* buildChildrenMap.
ChildrenOf(h, classes, parent) == {c \in classes : h[c].extends = parent}

TreeInit ==
    hierarchy = <<>> /\ directory = <<>> /\ walk = <<>> /\ printed = <<>> /\ checked = <<>>

\* printControllerHierarchy begins, with the roots for the children of none.
Inspect(h, dir) ==
    /\ hierarchy' = h /\ directory' = dir
    /\ walk' = <<[of |-> 0, children |-> TreeRoots(h, Selected(h, dir))]>>
    /\ UNCHANGED <<printed, checked>>

\* The children are visited in the order of the registry.
FirstOf(children, c) == c \in children /\ \A d \in children : c <= d

\* collectTreeLines is called for a class: a root is not warned of.
CollectTreeLine(c) ==
    LET depth == Len(walk) - 1 IN
    /\ FirstOf(Last(walk).children, c)
    /\ printed' = Append(printed,
          [shows |-> c, depth |-> depth, warns |-> depth > 0 /\ InViolation(hierarchy, c)])
    /\ walk' = Append([walk EXCEPT ![Len(walk)].children = @ \ {c}],
          [of |-> c, children |-> ChildrenOf(hierarchy, Selected(hierarchy, directory), c)])
    /\ UNCHANGED <<hierarchy, directory, checked>>

\* It returns.
TreeReturn ==
    /\ Last(walk).children = {}
    /\ walk' = Front(walk)
    /\ UNCHANGED <<hierarchy, directory, printed, checked>>

\* controllerHierarchyViolations, and the exit code of the command.
Check ==
    LET reported == {c \in Selected(hierarchy, directory) : InViolation(hierarchy, c)} IN
    /\ checked' = <<[reports |-> reported, code |-> IF reported = {} THEN 0 ELSE 1]>>
    /\ UNCHANGED <<hierarchy, directory, walk, printed>>

TreeNext ==
    \/ hierarchy = <<>> /\ walk = <<>> /\ \E h \in Hierarchies, dir \in Directories : Inspect(h, dir)
    \/ walk # <<>> /\ \E c \in Last(walk).children : CollectTreeLine(c)
    \/ walk # <<>> /\ TreeReturn
    \/ hierarchy # <<>> /\ walk = <<>> /\ checked = <<>> /\ Check

TreeSpec == TreeInit /\ [][TreeNext]_treeVars

Frame == [of : 0..Len(hierarchy), children : SUBSET (DOMAIN hierarchy)]
Line == [shows : DOMAIN hierarchy, depth : Nat, warns : BOOLEAN]
TreeTypeOK ==
    /\ hierarchy \in Hierarchies \cup {<<>>} /\ directory \in Directories
    /\ walk \in Seq(Frame) /\ printed \in Seq(Line)
    /\ Len(checked) <= 1
    /\ \A i \in DOMAIN checked :
          checked[i].reports \subseteq DOMAIN hierarchy /\ checked[i].code \in {0, 1}

\* Does the class hang from the tree's top by classes of the directory only?
Hangs(h, classes, c) ==
    \A a \in Above(h, c) \ {0} : a \in classes \/ Above(h, a) \cap classes = {}

\* The lines that show a class; and the line that each is below, of the class it
\* extends, with nothing between them that is not below that one as well.
LinesOf(c) == {i \in DOMAIN printed : printed[i].shows = c}
BelowItsParent(i) ==
    \E j \in 1..(i - 1) :
        /\ printed[j].shows = hierarchy[printed[i].shows].extends
        /\ printed[j].depth = printed[i].depth - 1
        /\ \A k \in (j + 1)..i : printed[k].depth > printed[j].depth

\* "Displays the inheritance hierarchy ... as a tree": each class of the directory
\* is on one line, below the line of its parent, unless its line of descent
\* leaves the directory and comes back, when it is on none; and the command that
\* checks the convention reports what the tree warns of, the roots of a
\* directory that is not the default, and the classes that are on no line.
TreeShowsWhatIsChecked ==
    LET classes == Selected(hierarchy, directory)
        shown == {printed[i].shows : i \in DOMAIN printed}
        warned == {printed[i].shows : i \in {j \in DOMAIN printed : printed[j].warns}}
    IN /\ walk = <<>> => \A c \in DOMAIN hierarchy :
             Cardinality(LinesOf(c)) = IF c \in classes /\ Hangs(hierarchy, classes, c) THEN 1 ELSE 0
       /\ \A i \in DOMAIN printed : printed[i].depth > 0 => BelowItsParent(i)
       /\ checked # <<>> =>
             /\ warned \subseteq checked[1].reports
             /\ \A c \in (checked[1].reports \cap shown) \ warned :
                   \E i \in LinesOf(c) : printed[i].depth = 0
             /\ directory = <<>> => checked[1].reports = warned
=============================================================================
