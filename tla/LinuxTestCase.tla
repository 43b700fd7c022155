--------------------------- MODULE LinuxTestCase ---------------------------
(***************************************************************************)
(* The analysis loop of linux26333/linuxTestCase.sh, with the jcpp.sh it   *)
(* sources, run by several instances over one kernel tree, while someone   *)
(* may run cleanLinux.sh or cleanDbgWithoutAST.sh.  The instances share    *)
(* nothing but the file system: an instance takes a file when it finds no  *)
(* .dbg for it, and the .dbg is also the report that SummarizeResult       *)
(* reads.  Test, touch and truncation by tee are separate steps.           *)
(***************************************************************************)
EXTENDS Naturals, Sequences, FiniteSets

CONSTANTS
    Worker,       \* instances of linuxTestCase.sh
    OneShot,      \* those started with --one
    File,         \* C files of the kernel
    FileList,     \* pcs/x86.flist, the order every script walks the files in
    Report,       \* Report[f]: the lines TypeChef prints for f (external)
    Products,     \* Products[f]: the other outputs of a finished run (external)
    MaxKills,     \* bound: tools or instances killed in one behaviour
    MaxRestarts,  \* bound: instances started again
    MaxCleans     \* bound: clean scripts started

Kind == {"xml", "pi", "interface", "ast"}
Line == {"lexed", "parsed", "typed", "other"}

ASSUME InstancesAssumption == OneShot \subseteq Worker
ASSUME ListAssumption == FileList \in Seq(File)
ASSUME ToolAssumption == /\ Report \in [File -> Seq(Line)]
                         /\ Products \in [File -> SUBSET Kind]
ASSUME BoundAssumption == {MaxKills, MaxRestarts, MaxCleans} \subseteq Nat

VARIABLES
    pc,        \* where each instance is: see PC
    pos,       \* the line of FileList it is at
    off,       \* the report line its tee writes next
    att,       \* its tee's file is the one still named .dbg
    claimed,   \* files that have a .dbg
    written,   \* written[f]: report lines present in the .dbg of f
    art,       \* art[f]: the other outputs present for f
    cpc, cpos, \* the clean script: what it does next, at which line
    kills, restarts, cleans,   \* counters of the three bounds
    killed,    \* history: files whose report lost its writer since truncation
    openedBy,  \* history: who truncated the report of f since it was removed
    writers    \* history: who wrote to the report of f since its truncation

loopVars   == <<pc, pos, off, att>>
fileVars   == <<claimed, written, art>>
cleanVars  == <<cpc, cpos, cleans>>
histVars   == <<killed, openedBy, writers>>
budgetVars == <<kills, restarts>>
vars == <<loopVars, fileVars, cleanVars, histVars, budgetVars>>

PC  == {"loop", "touch", "open", "run", "done", "dead"}
CPC == {"idle", "rmDbg", "rmXml", "rmPi", "testAst", "rmNoAst"}

Cur(w) == FileList[pos[w]]
Lines(f) == DOMAIN Report[f]

Init ==
    /\ pc  = [w \in Worker |-> "loop"]
    /\ pos = [w \in Worker |-> 1]
    /\ off = [w \in Worker |-> 1]
    /\ att = [w \in Worker |-> FALSE]
    /\ claimed = {}
    /\ written = [f \in File |-> {}]
    /\ art = [f \in File |-> {}]
    /\ cpc = "idle" /\ cpos = 1
    /\ kills = 0 /\ restarts = 0 /\ cleans = 0
    /\ killed = {}
    /\ openedBy = [f \in File |-> {}]
    /\ writers = [f \in File |-> {}]

-----------------------------------------------------------------------------
(***************************************************************************)
(* linuxTestCase.sh                                                        *)
(***************************************************************************)

\* `read i` finds no more lines.
EndOfList(w) ==
    /\ pc[w] = "loop"
    /\ pos[w] \notin DOMAIN FileList
    /\ pc' = [pc EXCEPT ![w] = "done"]
    /\ UNCHANGED <<pos, off, att, fileVars, cleanVars, histVars, budgetVars>>

\* Mutant: the loop does not read the next line after skipping.
SkipFile_Stuck(w) ==
    /\ pc[w] = "loop"
    /\ pos[w] \in DOMAIN FileList
    /\ Cur(w) \in claimed
    /\ UNCHANGED vars

\* The file has a .dbg: "Skipping".
SkipFile(w) ==
    /\ pc[w] = "loop"
    /\ pos[w] \in DOMAIN FileList
    /\ Cur(w) \in claimed
    /\ pos' = [pos EXCEPT ![w] = @ + 1]
    /\ UNCHANGED <<pc, off, att, fileVars, cleanVars, histVars, budgetVars>>

\* Mutant: nothing tests for the .dbg.
SeeUnclaimed_NoTest(w) ==
    /\ pc[w] = "loop"
    /\ pos[w] \in DOMAIN FileList
    /\ pc' = [pc EXCEPT ![w] = "touch"]
    /\ UNCHANGED <<pos, off, att, fileVars, cleanVars, histVars, budgetVars>>

\* It has none: the flags of the file are computed before the touch.
SeeUnclaimed(w) ==
    /\ pc[w] = "loop"
    /\ pos[w] \in DOMAIN FileList
    /\ Cur(w) \notin claimed
    /\ pc' = [pc EXCEPT ![w] = "touch"]
    /\ UNCHANGED <<pos, off, att, fileVars, cleanVars, histVars, budgetVars>>

\* touch creates an empty .dbg and leaves an existing one as it is.
Touch(w) ==
    /\ pc[w] = "touch"
    /\ pc' = [pc EXCEPT ![w] = "open"]
    /\ claimed' = claimed \union {Cur(w)}
    /\ UNCHANGED <<pos, off, att, written, art, cleanVars, histVars, budgetVars>>

\* jcpp.sh starts the tool; tee creates the .dbg or truncates the one there,
\* whoever else is writing to it.
OpenReport(w) ==
    /\ pc[w] = "open"
    /\ pc'  = [pc EXCEPT ![w] = "run"]
    /\ off' = [off EXCEPT ![w] = 1]
    /\ att' = [att EXCEPT ![w] = TRUE]
    /\ claimed' = claimed \union {Cur(w)}
    /\ written' = [written EXCEPT ![Cur(w)] = {}]
    /\ killed' = killed \ {Cur(w)}
    /\ openedBy' = [openedBy EXCEPT ![Cur(w)] = @ \union {w}]
    /\ writers' = [writers EXCEPT ![Cur(w)] = {}]
    /\ UNCHANGED <<pos, art, cleanVars, budgetVars>>

\* tee writes the tool's next line at its own file offset; the line is lost
\* when the file was removed under it.
PrintLine(w) ==
    /\ pc[w] = "run"
    /\ off[w] \in Lines(Cur(w))
    /\ off' = [off EXCEPT ![w] = @ + 1]
    /\ IF att[w] THEN /\ written' = [written EXCEPT ![Cur(w)] = @ \union {off[w]}]
                      /\ writers' = [writers EXCEPT ![Cur(w)] = @ \union {w}]
                 ELSE UNCHANGED <<written, writers>>
    /\ UNCHANGED <<pc, pos, att, claimed, art, cleanVars, killed, openedBy, budgetVars>>

\* Mutant: every instance stops after one analysis.
NextFile_AlwaysExit(w) ==
    /\ pc' = [pc EXCEPT ![w] = "done"]
    /\ pos' = pos

\* Back in the loop: --one stops after the first analysis.
NextFile(w) ==
    IF w \in OneShot THEN /\ pc' = [pc EXCEPT ![w] = "done"]
                          /\ pos' = pos
                     ELSE /\ pc' = [pc EXCEPT ![w] = "loop"]
                          /\ pos' = [pos EXCEPT ![w] = @ + 1]

\* Mutant: the loop does not wait for the tool and its tee.
ToolExit_Early(w) ==
    /\ pc[w] = "run"
    /\ NextFile(w)
    /\ att' = [att EXCEPT ![w] = FALSE]
    /\ art' = [art EXCEPT ![Cur(w)] = @ \union Products[Cur(w)]]
    /\ UNCHANGED <<off, claimed, written, cleanVars, histVars, budgetVars>>

\* Mutant: the tool exits before its other outputs are written.
ToolExit_NoProducts(w) ==
    /\ pc[w] = "run"
    /\ off[w] \notin Lines(Cur(w))
    /\ NextFile(w)
    /\ att' = [att EXCEPT ![w] = FALSE]
    /\ UNCHANGED <<off, claimed, written, art, cleanVars, histVars, budgetVars>>

\* The tool has printed everything and written its other outputs.
ToolExit(w) ==
    /\ pc[w] = "run"
    /\ off[w] \notin Lines(Cur(w))
    /\ NextFile(w)
    /\ att' = [att EXCEPT ![w] = FALSE]
    /\ art' = [art EXCEPT ![Cur(w)] = @ \union Products[Cur(w)]]
    /\ UNCHANGED <<off, claimed, written, cleanVars, histVars, budgetVars>>

\* `timeout 4h`, or a crash of the tool: `|| true` keeps the loop going.
ToolKilled(w) ==
    /\ pc[w] = "run"
    /\ kills < MaxKills
    /\ kills' = kills + 1
    /\ NextFile(w)
    /\ att' = [att EXCEPT ![w] = FALSE]
    /\ killed' = IF att[w] THEN killed \union {Cur(w)} ELSE killed
    /\ UNCHANGED <<off, fileVars, cleanVars, restarts, openedBy, writers>>

\* The whole instance goes, with the tool it runs.
InstanceKilled(w) ==
    /\ pc[w] \in {"loop", "touch", "open", "run"}
    /\ kills < MaxKills
    /\ kills' = kills + 1
    /\ pc' = [pc EXCEPT ![w] = "dead"]
    /\ att' = [att EXCEPT ![w] = FALSE]
    /\ killed' = IF att[w] \/ (pc[w] = "open" /\ Cur(w) \in claimed)
                 THEN killed \union {Cur(w)} ELSE killed
    /\ UNCHANGED <<pos, off, fileVars, cleanVars, restarts, openedBy, writers>>

\* Someone starts the script again: it walks the list from the top.
Restart(w) ==
    /\ pc[w] \in {"done", "dead"}
    /\ restarts < MaxRestarts
    /\ restarts' = restarts + 1
    /\ pc'  = [pc EXCEPT ![w] = "loop"]
    /\ pos' = [pos EXCEPT ![w] = 1]
    /\ UNCHANGED <<off, att, fileVars, cleanVars, histVars, kills>>

-----------------------------------------------------------------------------
(***************************************************************************)
(* cleanLinux.sh (rmDbg, rmXml, rmPi) and cleanDbgWithoutAST.sh (testAst,  *)
(* rmNoAst).  Neither looks whether an instance is working on the file.    *)
(***************************************************************************)
CFile == FileList[cpos]

\* Mutant: the walk starts before the first line.
StartClean_Zero(first) ==
    /\ cpc = "idle"
    /\ cleans < MaxCleans
    /\ cleans' = cleans + 1
    /\ cpc' = first /\ cpos' = 0
    /\ UNCHANGED <<loopVars, fileVars, histVars, budgetVars>>

StartClean(first) ==
    /\ cpc = "idle"
    /\ cleans < MaxCleans
    /\ cleans' = cleans + 1
    /\ cpc' = first /\ cpos' = 1
    /\ UNCHANGED <<loopVars, fileVars, histVars, budgetVars>>

\* rm $i.dbg: the name goes, writers keep the nameless file.
RemoveReport ==
    /\ claimed' = claimed \ {CFile}
    /\ written' = [written EXCEPT ![CFile] = {}]
    /\ att' = [w \in Worker |-> att[w] /\ Cur(w) # CFile]
    /\ killed' = killed \ {CFile}
    /\ openedBy' = [openedBy EXCEPT ![CFile] = {}]
    /\ writers' = [writers EXCEPT ![CFile] = {}]

CleanDbg ==
    /\ cpc = "rmDbg" /\ cpos \in DOMAIN FileList
    /\ RemoveReport
    /\ cpc' = "rmXml"
    /\ UNCHANGED <<pc, pos, off, art, cpos, cleans, budgetVars>>

CleanXml ==
    /\ cpc = "rmXml"
    /\ art' = [art EXCEPT ![CFile] = @ \ {"xml"}]
    /\ cpc' = "rmPi"
    /\ UNCHANGED <<loopVars, claimed, written, cpos, cleans, histVars, budgetVars>>

CleanPi ==
    /\ cpc = "rmPi"
    /\ art' = [art EXCEPT ![CFile] = @ \ {"pi"}]
    /\ cpc' = "rmDbg" /\ cpos' = cpos + 1
    /\ UNCHANGED <<loopVars, claimed, written, cleans, histVars, budgetVars>>

TestAst ==
    /\ cpc = "testAst" /\ cpos \in DOMAIN FileList
    /\ IF "ast" \in art[CFile] THEN cpc' = cpc /\ cpos' = cpos + 1
                               ELSE cpc' = "rmNoAst" /\ cpos' = cpos
    /\ UNCHANGED <<loopVars, fileVars, cleans, histVars, budgetVars>>

CleanNoAst ==
    /\ cpc = "rmNoAst"
    /\ RemoveReport
    /\ cpc' = "testAst" /\ cpos' = cpos + 1
    /\ UNCHANGED <<pc, pos, off, art, cleans, budgetVars>>

CleanEnd ==
    /\ cpc \in {"rmDbg", "testAst"} /\ cpos \notin DOMAIN FileList
    /\ cpc' = "idle" /\ cpos' = 1
    /\ UNCHANGED <<loopVars, fileVars, cleans, histVars, budgetVars>>

-----------------------------------------------------------------------------
Step(w) == \/ EndOfList(w) \/ SkipFile(w) \/ SeeUnclaimed(w) \/ Touch(w)
           \/ OpenReport(w) \/ PrintLine(w) \/ ToolExit(w) \/ ToolKilled(w)

Clean == \/ \E first \in {"rmDbg", "testAst"} : StartClean(first)
         \/ CleanDbg \/ CleanXml \/ CleanPi \/ TestAst \/ CleanNoAst \/ CleanEnd

Next == \/ \E w \in Worker : Step(w) \/ InstanceKilled(w) \/ Restart(w)
        \/ Clean

Spec == Init /\ [][Next]_vars

\* A shell that is alive runs on, and `timeout 4h` ends a tool that does not
\* end by itself.  Nothing makes anyone kill, restart or clean.
FairSpec == Spec /\ \A w \in Worker : WF_vars(Step(w))

-----------------------------------------------------------------------------
(***************************************************************************)
(* SummarizeResult.scala                                                   *)
(***************************************************************************)

\* What the reporter can match of line k: after a hole left by a truncation
\* the line starts with the NULs of the hole and equals no expected line.
Seen(f) == {IF k = 1 \/ k - 1 \in written[f] THEN Report[f][k] ELSE "other" :
              k \in written[f]}

\* Mutant: a report in which nothing failed is taken for a success.
Verdict_NoFailure(lines) ==
    IF "other" \in lines THEN "type checking failed" ELSE "SUCCESS"

Verdict(lines) ==
    IF lines = {}             THEN "file empty"
    ELSE IF "lexed" \notin lines  THEN "lexing failed"
    ELSE IF "parsed" \notin lines THEN "parsing failed"
    ELSE IF "typed" \notin lines  THEN "type checking failed"
    ELSE "SUCCESS"

Summarize(f) == IF f \in claimed THEN Verdict(Seen(f)) ELSE "file does not exist"

-----------------------------------------------------------------------------
(***************************************************************************)
(* Properties                                                              *)
(***************************************************************************)

\* The variables hold what their comments say; the line an instance or a
\* clean script works on exists.
TypeOK ==
    /\ pc \in [Worker -> PC]
    /\ pos \in [Worker -> 1..(Len(FileList) + 1)]
    /\ \A w \in Worker : pc[w] \in {"touch", "open", "run"} => pos[w] \in DOMAIN FileList
    /\ off \in [Worker -> Nat \ {0}]
    /\ att \in [Worker -> BOOLEAN]
    /\ \A w \in Worker : att[w] => pc[w] = "run"
    /\ claimed \subseteq File
    /\ written \in [File -> SUBSET Nat]
    /\ \A f \in File : written[f] \subseteq Lines(f)
    /\ art \in [File -> SUBSET Kind]
    /\ cpc \in CPC
    /\ cpos \in 1..(Len(FileList) + 1)
    /\ cpc \in {"rmXml", "rmPi", "rmNoAst"} => cpos \in DOMAIN FileList
    /\ kills \in Nat /\ restarts \in Nat /\ cleans \in Nat
    /\ killed \subseteq File
    /\ openedBy \in [File -> SUBSET Worker]
    /\ writers \in [File -> SUBSET Worker]

\* w is still going to write line k of the report of f under its name.
WillWrite(w, f, k) ==
    /\ pc[w] \in {"open", "run"}
    /\ Cur(w) = f
    /\ pc[w] = "run" => att[w] /\ off[w] <= k

\* Whatever the instances and the clean scripts do to each other (double
\* claims, truncation under a writer, removal under a writer), a line that is
\* missing from an existing .dbg whose writers were not killed is one that a
\* live instance is still going to write.  It rests on the order test, touch,
\* truncate, write of linuxTestCase.sh and jcpp.sh.
NoLineLost ==
    \A f \in claimed \ killed : \A k \in Lines(f) \ written[f] :
        \E w \in Worker : WillWrite(w, f, k)

\* Nobody works on f any more.
Quiet(f) == \A w \in Worker : pc[w] \in {"touch", "open", "run"} => Cur(w) # f

\* SummarizeResult's line for a file nobody works on is the verdict of the
\* tool's full output, unless a writer was killed or two instances wrote into
\* one report (--recordTiming makes their lines differ in length, so that what
\* they leave behind together is anyone's guess).
SummaryExact ==
    \A f \in claimed \ killed : Quiet(f) /\ Cardinality(writers[f]) < 2 =>
        Summarize(f) = Verdict({Report[f][k] : k \in Lines(f)})

\* How far the tool got, by SummarizeResult's verdict.
Grade(verdict) == CASE verdict = "file empty"           -> 0
                    [] verdict = "lexing failed"        -> 1
                    [] verdict = "parsing failed"       -> 2
                    [] verdict = "type checking failed" -> 3
                    [] verdict = "SUCCESS"              -> 4

\* A report that is not the tool's full output (its tool or its instance was
\* killed, its writer is still at work, another tee truncated it under its
\* writer and left a hole) is skipped by the loop and read by SummarizeResult
\* like any other.  It never gets the file a better verdict than the full output
\* would: no cut report counts as a success.
NeverFlattered ==
    \A f \in claimed :
        Grade(Summarize(f)) <= Grade(Verdict({Report[f][k] : k \in Lines(f)}))

\* What the clean scripts remove besides the report.
Cleaned == IF cleans = 0 THEN {} ELSE {"xml", "pi"}

\* All outputs of a finished file are there, but for the .c.xml and .pi that a
\* clean script may remove after somebody took the file again: an instance that
\* took a file somebody else works on or worked on loses none of them, and an
\* .interface or .ast, which decide what is linked and what is cleaned, is never
\* missing.
ProductsComplete ==
    \A f \in claimed \ killed : Quiet(f) => Products[f] \ art[f] \subseteq Cleaned

\* An instance, started again or not, analyses a file a second time only
\* after its .dbg was removed.
OpensOnce == [][\A w \in Worker : OpenReport(w) => w \notin openedBy[Cur(w)]]_vars

\* When an instance without --one ends, every file of the list has been
\* taken by someone (no clean script ran).
DoneMeansAllClaimed ==
    cleans = 0 => \A w \in Worker \ OneShot : pc[w] = "done" =>
                      \A i \in DOMAIN FileList : FileList[i] \in claimed

\* Every instance ends its walk of the list.
LoopTerminates == \A w \in Worker : pc[w] = "loop" ~> pc[w] \in {"done", "dead"}

\* Removing the .dbg and starting the script again gets the file analysed:
\* a file without .dbg is taken by someone once an instance starts its walk.
RerunAfterClean ==
    \A w \in Worker \ OneShot : \A i \in DOMAIN FileList :
        (pc[w] = "loop" /\ pos[w] = 1 /\ FileList[i] \notin claimed)
            ~> (FileList[i] \in claimed \/ pc[w] = "dead")

\* README.md: the script "will run the analysis on all files that do not have
\* a .dbg file yet" and "several instances of this script can be executed in
\* parallel": the analysis is never started on a file whose report is complete.
OnlyUnreported ==
    [][\A w \in Worker : OpenReport(w) /\ Cur(w) \in claimed =>
           Lines(Cur(w)) \ written[Cur(w)] # {}]_vars

=============================================================================
