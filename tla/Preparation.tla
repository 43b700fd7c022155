---------------------------- MODULE Preparation ----------------------------
(***************************************************************************)
(* The preparation of a kernel tree for the analysis: which features are   *)
(* open (CompletePartialConfiguration), which files are analysed           *)
(* (genPCs.sh with CleanFileList) and under which condition (applyPCs.sh   *)
(* with GeneratePCFiles).  The tools are started by hand, one at a time,   *)
(* in any order, die anywhere, and are started again; they know of each    *)
(* other only by the files they leave.                                     *)
(***************************************************************************)
EXTENDS PresenceConditions, FiniteSets

CONSTANTS
    File,       \* C and assembler files of the tree
    Dimacs,     \* feature models genFMs.sh may have made
    Confs,      \* contents partialConf.h may have
    Pcrs,       \* lists KBuildMiner may have made
    Leftovers,  \* .pc files an earlier preparation may have left
    MaxRuns, MaxCrashes, MaxEdits

Line == [file : File, isC : BOOLEAN, expr : Expression]
\* What is on disk as the .pc file of a file: nothing, a file cut short by a
\* death, a condition.
NoFile == [is |-> "absent", cond |-> {}]
Cut == [is |-> "cut", cond |-> {}]
Written(cond) == [is |-> "condition", cond |-> cond]
PcFile == [is : {"absent", "cut", "condition"}, cond : SUBSET Config]

ASSUME PreparationAssumption ==
    /\ Dimacs \subseteq SUBSET Config /\ Confs \subseteq SUBSET Directive
    /\ Pcrs \subseteq Seq(Line)
    /\ \A p \in Pcrs : \A m, n \in 1 .. Len(p) : p[m].file = p[n].file => m = n
    /\ Leftovers \subseteq [File -> PcFile]
    /\ MaxRuns \in Nat /\ MaxCrashes \in Nat /\ MaxEdits \in Nat

VARIABLES
    dimacs, conf,       \* input files; conf is edited by its user
    pcr,                \* KBuildMiner's list
    completed, open,    \* completedConf.h and the open-feature list
    pcList, flist,      \* x86.pc and x86.flist
    disk,               \* .pc files of the tree
    tool,               \* what runs, and where it is
    fm, todo,           \* CompletePartialConfiguration's model, features to test
    openFeatures,       \* CleanFileList's copy of the list
    line,               \* next line of the list that is read
    runs, crashes, edits,
    basis, whole,       \* history: model behind the open list; whether it is complete
    made,               \* history: the same for x86.pc, the features it was made with,
                        \* the lines of pcr behind it, whether its tool was killed
    applied             \* history: x86.flist and .pc files are of one x86.pc

inputs == <<dimacs, conf>>
features == <<completed, open, basis, whole>>
lists == <<pcr, pcList, flist, made>>
pcs == <<disk, applied>>
locals == <<fm, todo, openFeatures, line>>
counters == <<runs, crashes, edits>>
vars == <<inputs, features, lists, pcs, tool, locals, counters>>

Init ==
    /\ dimacs \in Dimacs /\ conf \in Confs /\ pcr = <<>>
    /\ completed = [on |-> {}, off |-> {}] /\ open = {}
    /\ pcList = <<>> /\ flist = <<>> /\ disk \in Leftovers
    /\ tool = "idle" /\ fm = {} /\ todo = {} /\ openFeatures = {} /\ line = 1
    /\ runs = 0 /\ crashes = 0 /\ edits = 0
    /\ basis = {} /\ whole = FALSE
    /\ made = [basis |-> {}, whole |-> FALSE, open |-> {}, upto |-> 0, died |-> FALSE]
    /\ applied = "no"

\* A process ends: its variables are gone.
Stop ==
    /\ tool' = "idle"
    /\ fm' = {} /\ todo' = {} /\ openFeatures' = {} /\ line' = 1

Start(t) ==
    /\ tool = "idle" /\ runs < MaxRuns
    /\ tool' = t /\ runs' = runs + 1
    /\ UNCHANGED <<crashes, edits>>

-----------------------------------------------------------------------------
\* CompletePartialConfiguration: loads the model, creates one file and then
\* the other.
StartComplete ==
    /\ Start("create")
    /\ fm' = FullModel(dimacs, conf)
    /\ completed' = [on |-> {}, off |-> {}]
    /\ UNCHANGED <<inputs, open, basis, whole, lists, pcs, todo, openFeatures, line>>

\* Mutant: the list is opened for appending.
CreateOpen_Append ==
    /\ tool = "create"
    /\ tool' = "classify"
    /\ todo' = Feature \ Untested
    /\ basis' = fm /\ whole' = FALSE
    /\ UNCHANGED <<inputs, completed, open, lists, pcs, fm, openFeatures, line, counters>>

CreateOpen ==
    /\ tool = "create"
    /\ tool' = "classify"
    /\ open' = {}
    /\ todo' = Feature \ Untested
    /\ basis' = fm /\ whole' = FALSE
    /\ UNCHANGED <<inputs, completed, lists, pcs, fm, openFeatures, line, counters>>

\* Mutant: a mandatory feature can be on, and is taken for open.
Classify_Live ==
    /\ tool = "classify"
    /\ \E f \in todo :
        /\ todo' = todo \ {f}
        /\ \/ /\ Dead(f, fm) /\ completed' = [completed EXCEPT !.off = @ \union {f}]
              /\ UNCHANGED open
           \/ /\ ~Dead(f, fm) /\ open' = open \union {f}
              /\ UNCHANGED completed
    /\ UNCHANGED <<inputs, basis, whole, lists, pcs, tool, fm, openFeatures, line, counters>>

\* One round of the loop: a line in one of the files, flushed.
Classify ==
    /\ tool = "classify"
    /\ \E f \in todo :
        /\ todo' = todo \ {f}
        /\ \/ /\ Mandatory(f, fm) /\ completed' = [completed EXCEPT !.on = @ \union {f}]
              /\ UNCHANGED open
           \/ /\ ~Mandatory(f, fm) /\ Dead(f, fm)
              /\ completed' = [completed EXCEPT !.off = @ \union {f}]
              /\ UNCHANGED open
           \/ /\ ~Mandatory(f, fm) /\ ~Dead(f, fm) /\ open' = open \union {f}
              /\ UNCHANGED completed
    /\ UNCHANGED <<inputs, basis, whole, lists, pcs, tool, fm, openFeatures, line, counters>>

EndComplete ==
    /\ tool = "classify" /\ todo = {}
    /\ Stop /\ whole' = TRUE
    /\ UNCHANGED <<inputs, completed, open, basis, lists, pcs, counters>>

-----------------------------------------------------------------------------
\* genPCs.sh: KBuildMiner makes its list, the shell empties x86.pc, and
\* CleanFileList reads the open features.
StartGenPCs ==
    /\ Start("clean")
    /\ pcr' \in Pcrs
    /\ pcList' = <<>> /\ openFeatures' = open /\ line' = 1
    /\ made' = [basis |-> basis, whole |-> whole, open |-> open, upto |-> 0, died |-> FALSE]
    /\ applied' = "no"
    /\ UNCHANGED <<inputs, features, flist, disk, fm, todo>>

\* --featureModel is stored as the open-feature list, which the option
\* --openFeatureList then replaces: no model is left.
GivenModel == Config

\* One line of KBuildMiner's list.
CleanLine ==
    /\ tool = "clean" /\ line <= Len(pcr)
    /\ LET pc == Parse(pcr[line].expr, openFeatures)
       IN  /\ pcr[line].isC => pc.is # "exception"
           /\ pcList' = IF pcr[line].isC /\ pc.is = "condition" /\ pc.cond \intersect GivenModel # {}
                        THEN Append(pcList, [file |-> pcr[line].file, cond |-> pc.cond])
                        ELSE pcList
    /\ line' = line + 1
    /\ UNCHANGED <<inputs, features, pcr, flist, made, pcs, tool, fm, todo, openFeatures, counters>>

\* The end of the list, or an expression that makes the parser throw: the
\* shell goes on in both cases.
EndClean ==
    /\ tool = "clean"
    /\ line <= Len(pcr) => pcr[line].isC /\ Parse(pcr[line].expr, openFeatures).is = "exception"
    /\ tool' = "sed"
    /\ made' = [made EXCEPT !.upto = line - 1]
    /\ UNCHANGED <<inputs, features, pcr, pcList, flist, pcs, locals, counters>>

FilesOf(n) == [k \in 1 .. n |-> pcList[k].file]

Sed ==
    /\ tool = "sed"
    /\ flist' = FilesOf(Len(pcList)) /\ applied' = "listed"
    /\ Stop
    /\ UNCHANGED <<inputs, features, pcr, pcList, made, disk, counters>>

-----------------------------------------------------------------------------
\* applyPCs.sh: GeneratePCFiles reads x86.pc
StartApplyPCs ==
    /\ Start("apply")
    /\ line' = 1
    /\ applied' = IF applied = "applied" THEN "listed" ELSE applied
    /\ UNCHANGED <<inputs, features, lists, disk, fm, todo, openFeatures>>

More == line <= Len(pcList)

\* Mutant: nothing is done for a tautology.
ApplyTrue_Keep ==
    /\ tool = "apply" /\ More /\ pcList[line].cond = Config
    /\ line' = line + 1
    /\ UNCHANGED <<inputs, features, lists, pcs, tool, fm, todo, openFeatures, counters>>

\* A tautology needs no .pc file.
ApplyTrue ==
    /\ tool = "apply" /\ More /\ pcList[line].cond = Config
    /\ disk' = [disk EXCEPT ![pcList[line].file] = NoFile]
    /\ line' = line + 1
    /\ UNCHANGED <<inputs, features, lists, applied, tool, fm, todo, openFeatures, counters>>

\* new PrintWriter empties the file ...
CreatePc ==
    /\ tool = "apply" /\ More /\ pcList[line].cond # Config
    /\ disk' = [disk EXCEPT ![pcList[line].file] = Cut]
    /\ tool' = "write"
    /\ UNCHANGED <<inputs, features, lists, applied, locals, counters>>

\* Mutant: the loop stays on its line.
WritePc_Again ==
    /\ tool = "write"
    /\ disk' = [disk EXCEPT ![pcList[line].file] = Written(pcList[line].cond)]
    /\ tool' = "apply"
    /\ UNCHANGED <<inputs, features, lists, applied, locals, counters>>

\* Mutant: a line is skipped after one that is written.
WritePc_Two ==
    /\ tool = "write"
    /\ disk' = [disk EXCEPT ![pcList[line].file] = Written(pcList[line].cond)]
    /\ tool' = "apply" /\ line' = line + 2
    /\ UNCHANGED <<inputs, features, lists, applied, fm, todo, openFeatures, counters>>

\* ... and close writes the condition.
WritePc ==
    /\ tool = "write"
    /\ disk' = [disk EXCEPT ![pcList[line].file] = Written(pcList[line].cond)]
    /\ tool' = "apply" /\ line' = line + 1
    /\ UNCHANGED <<inputs, features, lists, applied, fm, todo, openFeatures, counters>>

EndApply ==
    /\ tool = "apply" /\ ~More
    /\ Stop
    /\ applied' = IF applied = "listed" THEN "applied" ELSE applied
    /\ UNCHANGED <<inputs, features, lists, disk, counters>>

-----------------------------------------------------------------------------
\* CleanFileList is killed, and the shell goes on with sed: there is no set -e.
CleanDies ==
    /\ tool = "clean" /\ crashes < MaxCrashes
    /\ tool' = "sed" /\ crashes' = crashes + 1
    /\ made' = [made EXCEPT !.upto = line - 1, !.died = TRUE]
    /\ UNCHANGED <<inputs, features, pcr, pcList, flist, pcs, locals, runs, edits>>

\* A tool dies with the script that started it, sed in the middle of its output.
Crash ==
    /\ tool # "idle" /\ crashes < MaxCrashes
    /\ Stop /\ crashes' = crashes + 1
    /\ \/ tool # "sed" /\ UNCHANGED flist
       \/ tool = "sed" /\ \E n \in 0 .. Len(pcList) : flist' = FilesOf(n)
    /\ UNCHANGED <<inputs, features, pcr, pcList, made, pcs, runs, edits>>

\* The user changes partialConf.h.
EditConf ==
    /\ edits < MaxEdits
    /\ conf' \in Confs \ {conf}
    /\ edits' = edits + 1
    /\ UNCHANGED <<dimacs, features, lists, pcs, tool, locals, runs, crashes>>

Work ==
    \/ CreateOpen \/ Classify \/ EndComplete
    \/ CleanLine \/ EndClean \/ Sed
    \/ ApplyTrue \/ CreatePc \/ WritePc \/ EndApply

Next ==
    \/ StartComplete \/ StartGenPCs \/ StartApplyPCs
    \/ Work \/ CleanDies \/ Crash \/ EditConf

Spec == Init /\ [][Next]_vars
\* A tool that is started goes on.
FairSpec == Spec /\ WF_vars(Work)

-----------------------------------------------------------------------------
Tools == {"idle", "create", "classify", "clean", "sed", "apply", "write"}
Listed == [file : File, cond : SUBSET Config]
Made == [basis : SUBSET Config, whole : BOOLEAN, open : SUBSET Feature, upto : Nat, died : BOOLEAN]

\* Files hold what their readers can read, and positions lie in their lists.
TypeOK ==
    /\ dimacs \in Dimacs /\ conf \in Confs /\ pcr \in Pcrs \union {<<>>}
    /\ completed \in [on : SUBSET Feature, off : SUBSET Feature] /\ open \subseteq Feature
    /\ pcList \in Seq(Listed) /\ flist \in Seq(File) /\ disk \in [File -> PcFile]
    /\ tool \in Tools
    /\ fm \subseteq Config /\ todo \subseteq Feature /\ openFeatures \subseteq Feature
    /\ line \in Nat \ {0}
    /\ tool = "clean" => line <= Len(pcr) + 1
    /\ tool = "apply" => line <= Len(pcList) + 1
    /\ tool = "write" => line <= Len(pcList)
    /\ runs \in 0 .. MaxRuns /\ crashes \in 0 .. MaxCrashes /\ edits \in 0 .. MaxEdits
    /\ basis \subseteq Config /\ whole \in BOOLEAN /\ made \in Made
    /\ applied \in {"no", "listed", "applied"}

\* No feature is ever both open and fixed, or fixed in both ways, whatever
\* died or changed between two runs of CompletePartialConfiguration.
ListsDisjoint ==
    /\ completed.on \intersect completed.off = {}
    /\ (completed.on \union completed.off) \intersect open = {}

\* What LinuxExclDeadModel makes of the list of a finished run, also if partialConf.h
\* has since been edited to allow less, so that list and model are of different files:
\* with one feature that was mandatory it has no configuration at all, as mandatory
\* features are not in the list; otherwise it loses nothing but the features that are
\* judged without having been tested.
ExclDeadExact ==
    LET now == FullModel(dimacs, conf)
    IN  whole /\ now \subseteq basis =>
          ExclDead(now, open) =
            IF \E f \in Feature \ Unjudged : Mandatory(f, basis)
            THEN {}
            ELSE {c \in now : c \intersect (Untested \ Unjudged) = {}}

\* The analysis takes the files of x86.flist, each under its .pc file.
Condition(file) == IF disk[file].is = "absent" THEN Config ELSE disk[file].cond

\* After genPCs.sh and applyPCs.sh have ended, every file to be analysed has
\* exactly the condition of the list, whatever .pc files were there before, and
\* whoever died while writing them.
PcFilesCurrent ==
    applied = "applied" =>
        \A n \in 1 .. Len(flist) :
            flist[n] = pcList[n].file /\ Condition(flist[n]) = pcList[n].cond

Analysed(file, c) == (\E n \in 1 .. Len(flist) : flist[n] = file) /\ c \in Condition(file)

\* CleanFileList got as far as line n: it ends with an expression that makes the
\* parser throw, or where it was killed, and no later file is in the list.
Reached(n) ==
    IF made.died THEN n <= made.upto
    ELSE \A m \in 1 .. n : pcr[m].isC => Parse(pcr[m].expr, made.open).is # "exception"

\* What the macros say of c is what the model says: the open-feature list is that of a
\* finished run and c one of its model's configurations, the expression has no
\* mandatory macro, which is not in the list, and none that was not tested, and what it
\* compares is no module coded with two variables.
Faithful(e, c) ==
    /\ made.whole /\ c \in made.basis /\ ModulesApart(e, c)
    /\ \A macro \in MacrosOf(e) : macro \notin Untested /\ ~Mandatory(macro, made.basis)

\* A file is analysed in exactly the configurations whose open macros compile it,
\* whatever list was read, finished or cut short, and only if the list was read as far
\* as the file.  With a finished list these are the configurations of the model that
\* compile the file, under the conditions of Faithful.  Nothing is said of files that
\* are no C files, of comparisons with strings and invalid expressions, which the parser
\* guesses at, and of configurations in which an option has both macros.
\* ModulesApart is not a condition the code was meant to need: the comment at
\* ProcessPCFile.scala:171-177 asks for another translation of X!="y"
\* (ModuleTakenForBuiltIn, in PresenceConditionsProofs, is the failure).
AnalysedAsCompiled ==
    applied = "applied" =>
        \A n \in 1 .. Len(pcr) :
            LET l == pcr[n]
                reached == Reached(n)
            IN  l.isC /\ ~Uses(l.expr, {"isStr", "notStr", "invalid"}) =>
                  \A c \in Config : Tristate(c) =>
                    /\ Analysed(l.file, c) <=> reached /\ Compiled(l.expr, Seen(c, made.open))
                    /\ Faithful(l.expr, c) =>
                         (Analysed(l.file, c) <=> reached /\ Compiled(l.expr, c))

\* A tool that runs ends or dies.
ToolsEnd == tool # "idle" ~> tool = "idle"

\* LinuxFullModel.scala:8: "full feature model, including the partial
\* configuration".  VIOLATED: the iterator over its lines is used up when the
\* #undef lines are looked for, and a feature they exclude is open.
UndefinedNotOpen ==
    whole /\ basis = FullModel(dimacs, conf) => Names(conf, "undef") \intersect open = {}

\* ProcessPCFile.scala:15-16: "removes all files with unsatisfiable presence
\* conditions".  VIOLATED: line 35 stores the feature model as the open-feature list,
\* and files are kept that no configuration of the model compiles.
ListedSatisfiable == \A n \in 1 .. Len(pcList) : pcList[n].cond \intersect dimacs # {}
=============================================================================
