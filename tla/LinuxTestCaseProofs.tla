------------------------ MODULE LinuxTestCaseProofs ------------------------
(***************************************************************************)
(* Proofs about LinuxTestCase, for any number of instances, any list of    *)
(* files, any reports and any number of kills, restarts and clean scripts. *)
(***************************************************************************)
EXTENDS LinuxTestCase, TLAPS

\* Going on to the next file, or stopping after --one, keeps the instance's
\* place in the list well typed.
LEMMA NextTypes ==
  ASSUME NEW w \in Worker, TypeOK, NextFile(w), pos[w] \in 1..Len(FileList)
  PROVE  /\ pc' \in [Worker -> PC]
         /\ pos' \in [Worker -> 1..(Len(FileList) + 1)]
         /\ \A v \in Worker : pc'[v] \in {"touch", "open", "run"} =>
                pos'[v] \in DOMAIN FileList
         /\ \A v \in Worker \ {w} : pc'[v] = pc[v] /\ pos'[v] = pos[v]
<1> USE ListAssumption DEF TypeOK, PC
<1>1. CASE w \in OneShot
  BY <1>1 DEF NextFile
<1>2. CASE w \notin OneShot
  <2>1. /\ pc' = [pc EXCEPT ![w] = "loop"]
        /\ pos' = [pos EXCEPT ![w] = pos[w] + 1]
    BY <1>2 DEF NextFile
  <2>2. pos[w] + 1 \in 1..(Len(FileList) + 1)
    OBVIOUS
  <2>3. QED
    BY <2>1, <2>2
<1>3. QED
  BY <1>1, <1>2

\* Every action preserves the types: the first conjunct of IInv below.
LEMMA TypeStep == TypeOK /\ [Next]_vars => TypeOK'
<1> SUFFICES ASSUME TypeOK, [Next]_vars PROVE TypeOK'
  OBVIOUS
<1> USE ListAssumption, ToolAssumption, InstancesAssumption, BoundAssumption
    DEF TypeOK, PC, CPC, Kind, Lines, Cur, CFile,
        loopVars, fileVars, cleanVars, histVars, budgetVars
<1>a. ASSUME NEW i \in DOMAIN FileList
      PROVE  i \in 1..Len(FileList) /\ FileList[i] \in File
  OBVIOUS
<1>1. ASSUME NEW w \in Worker, EndOfList(w) PROVE TypeOK'
  BY <1>1 DEF EndOfList
<1>2. ASSUME NEW w \in Worker, SkipFile(w) PROVE TypeOK'
  BY <1>2, <1>a DEF SkipFile
<1>3. ASSUME NEW w \in Worker, SeeUnclaimed(w) PROVE TypeOK'
  BY <1>3 DEF SeeUnclaimed
<1>4. ASSUME NEW w \in Worker, Touch(w) PROVE TypeOK'
  BY <1>4, <1>a DEF Touch
<1>5. ASSUME NEW w \in Worker, OpenReport(w) PROVE TypeOK'
  BY <1>5, <1>a DEF OpenReport
<1>6. ASSUME NEW w \in Worker, PrintLine(w) PROVE TypeOK'
  <2>1. Cur(w) \in File /\ off[w] \in Nat
    BY <1>6, <1>a DEF PrintLine
  <2>2. off' \in [Worker -> Nat \ {0}]
    BY <1>6 DEF PrintLine
  <2>3. written' \in [File -> SUBSET Nat] /\ writers' \in [File -> SUBSET Worker]
    <3>1. CASE att[w]
      <4>1. /\ written' = [written EXCEPT ![Cur(w)] = written[Cur(w)] \union {off[w]}]
            /\ writers' = [writers EXCEPT ![Cur(w)] = writers[Cur(w)] \union {w}]
        BY <1>6, <3>1 DEF PrintLine
      <4>2. QED
        BY <2>1, <4>1
    <3>2. CASE ~att[w]
      BY <1>6, <3>2 DEF PrintLine
    <3>3. QED
      BY <3>1, <3>2
  <2>4. \A f \in File : written'[f] \subseteq Lines(f)
    <3>1. CASE att[w]
      <4>1. written' = [written EXCEPT ![Cur(w)] = written[Cur(w)] \union {off[w]}]
        BY <1>6, <3>1 DEF PrintLine
      <4>2. off[w] \in Lines(Cur(w))
        BY <1>6 DEF PrintLine
      <4>3. QED
        BY <2>1, <4>1, <4>2
    <3>2. CASE ~att[w]
      BY <1>6, <3>2 DEF PrintLine
    <3>3. QED
      BY <3>1, <3>2
  <2>5. QED
    BY <1>6, <2>2, <2>3, <2>4 DEF PrintLine
<1>7. ASSUME NEW w \in Worker, ToolExit(w) PROVE TypeOK'
  <2>1. Cur(w) \in File /\ pos[w] \in 1..Len(FileList)
    BY <1>7, <1>a DEF ToolExit
  <2>2. /\ pc' \in [Worker -> PC]
        /\ pos' \in [Worker -> 1..(Len(FileList) + 1)]
        /\ \A v \in Worker : pc'[v] \in {"touch", "open", "run"} =>
               pos'[v] \in DOMAIN FileList
    BY <1>7, <2>1, NextTypes DEF ToolExit
  <2>3. art' \in [File -> SUBSET Kind]
    BY <1>7, <2>1 DEF ToolExit
  <2>4. \A v \in Worker : att'[v] => pc'[v] = "run"
    BY <1>7, <2>1, NextTypes DEF ToolExit
  <2>5. QED
    BY <1>7, <2>2, <2>3, <2>4 DEF ToolExit
<1>8. ASSUME NEW w \in Worker, ToolKilled(w) PROVE TypeOK'
  <2>1. Cur(w) \in File /\ pos[w] \in 1..Len(FileList)
    BY <1>8, <1>a DEF ToolKilled
  <2>2. /\ pc' \in [Worker -> PC]
        /\ pos' \in [Worker -> 1..(Len(FileList) + 1)]
        /\ \A v \in Worker : pc'[v] \in {"touch", "open", "run"} =>
               pos'[v] \in DOMAIN FileList
    BY <1>8, <2>1, NextTypes DEF ToolKilled
  <2>3. killed' \subseteq File /\ att' \in [Worker -> BOOLEAN]
    BY <1>8, <2>1 DEF ToolKilled
  <2>4. \A v \in Worker : att'[v] => pc'[v] = "run"
    BY <1>8, <2>1, NextTypes DEF ToolKilled
  <2>5. QED
    BY <1>8, <2>2, <2>3, <2>4 DEF ToolKilled
<1>9. ASSUME NEW w \in Worker, InstanceKilled(w) PROVE TypeOK'
  <2>1. /\ pc' \in [Worker -> PC]
        /\ pos' \in [Worker -> 1..(Len(FileList) + 1)]
        /\ \A v \in Worker : pc'[v] \in {"touch", "open", "run"} =>
               pos'[v] \in DOMAIN FileList
    BY <1>9 DEF InstanceKilled
  <2>2. killed' \subseteq File /\ att' \in [Worker -> BOOLEAN]
    <3>1. (att[w] \/ pc[w] = "open") => Cur(w) \in File
      BY <1>9, <1>a DEF InstanceKilled
    <3>2. QED
      BY <1>9, <3>1 DEF InstanceKilled
  <2>3. QED
    BY <1>9, <2>1, <2>2 DEF InstanceKilled
<1>10. ASSUME NEW w \in Worker, Restart(w) PROVE TypeOK'
  BY <1>10 DEF Restart
<1>11. ASSUME NEW first \in {"rmDbg", "testAst"}, StartClean(first) PROVE TypeOK'
  BY <1>11 DEF StartClean
<1>12. CASE CleanDbg
  BY <1>12, <1>a DEF CleanDbg, RemoveReport
<1>13. CASE CleanXml
  BY <1>13, <1>a DEF CleanXml
<1>14. CASE CleanPi
  BY <1>14, <1>a DEF CleanPi
<1>15. CASE TestAst
  BY <1>15, <1>a DEF TestAst
<1>16. CASE CleanNoAst
  BY <1>16, <1>a DEF CleanNoAst, RemoveReport
<1>17. CASE CleanEnd
  BY <1>17 DEF CleanEnd
<1>18. CASE UNCHANGED vars
  BY <1>18 DEF vars
<1>19. QED
  BY <1>1, <1>2, <1>3, <1>4, <1>5, <1>6, <1>7, <1>8, <1>9, <1>10, <1>11,
     <1>12, <1>13, <1>14, <1>15, <1>16, <1>17, <1>18 DEF Next, Step, Clean

\* The variables always have the values their declarations promise.
THEOREM TypeCorrect == Spec => []TypeOK
<1>1. Init => TypeOK
  BY ListAssumption, ToolAssumption DEF Init, TypeOK, PC, CPC
<1>2. QED
  BY <1>1, TypeStep, PTL DEF Spec

-----------------------------------------------------------------------------
\* The writer of a missing line, once found, is still there when the step
\* leaves its place, its file and the report alone.
LEMMA WriterStays ==
  ASSUME NEW f \in File, NEW k \in Lines(f), NEW v \in Worker, WillWrite(v, f, k),
         pc'[v] = pc[v], pos'[v] = pos[v], off'[v] = off[v], att'[v] = att[v]
  PROVE  WillWrite(v, f, k)'
BY DEF WillWrite, Cur, Lines

\* Every action preserves NoLineLost.
LEMMA NoLineLostStep == TypeOK /\ NoLineLost /\ [Next]_vars => NoLineLost'
<1> SUFFICES ASSUME TypeOK, NoLineLost, [Next]_vars,
                    NEW f \in claimed' \ killed', NEW k \in Lines(f), k \notin written'[f]
             PROVE  \E v \in Worker : WillWrite(v, f, k)'
  BY DEF NoLineLost, Lines
<1> USE DEF PC, CPC, Cur, CFile, loopVars, fileVars, cleanVars, histVars, budgetVars
<1>f. claimed' \subseteq File /\ f \in File /\ k \in Nat \ {0}
  BY TypeStep, ToolAssumption DEF TypeOK, Lines
<1>w. ASSUME f \in claimed \ killed, k \notin written[f]
      PROVE  \E v \in Worker : WillWrite(v, f, k)
  BY <1>w DEF NoLineLost
<1>1. ASSUME NEW w \in Worker, EndOfList(w) \/ SkipFile(w) \/ SeeUnclaimed(w) \/ Restart(w)
      PROVE  \E v \in Worker : WillWrite(v, f, k)'
  <2>1. PICK v \in Worker : WillWrite(v, f, k)
    BY <1>1, <1>w DEF EndOfList, SkipFile, SeeUnclaimed, Restart
  <2>2. v # w
    BY <1>1, <2>1 DEF EndOfList, SkipFile, SeeUnclaimed, Restart, WillWrite
  <2>3. QED
    BY <1>1, <1>f, <2>1, <2>2, WriterStays
       DEF EndOfList, SkipFile, SeeUnclaimed, Restart, TypeOK
<1>2. ASSUME NEW w \in Worker, Touch(w)
      PROVE  \E v \in Worker : WillWrite(v, f, k)'
  <2>1. CASE f = Cur(w)
    BY <1>2, <2>1 DEF Touch, WillWrite, TypeOK
  <2>2. CASE f # Cur(w)
    <3>1. PICK v \in Worker : WillWrite(v, f, k)
      BY <1>2, <2>2, <1>w DEF Touch
    <3>2. v # w
      BY <2>2, <3>1 DEF WillWrite
    <3>3. QED
      BY <1>2, <1>f, <3>1, <3>2, WriterStays DEF Touch, TypeOK
  <2>3. QED
    BY <2>1, <2>2
<1>3. ASSUME NEW w \in Worker, OpenReport(w)
      PROVE  \E v \in Worker : WillWrite(v, f, k)'
  <2>1. CASE f = Cur(w)
    BY <1>3, <1>f, <2>1 DEF OpenReport, WillWrite, TypeOK
  <2>2. CASE f # Cur(w)
    <3>1. f \in claimed \ killed /\ k \notin written[f]
      BY <1>3, <1>f, <2>2 DEF OpenReport, TypeOK
    <3>2. PICK v \in Worker : WillWrite(v, f, k)
      BY <3>1, <1>w
    <3>3. v # w
      BY <2>2, <3>2 DEF WillWrite
    <3>4. QED
      BY <1>3, <1>f, <3>2, <3>3, WriterStays DEF OpenReport, TypeOK
  <2>3. QED
    BY <2>1, <2>2
<1>4. ASSUME NEW w \in Worker, PrintLine(w)
      PROVE  \E v \in Worker : WillWrite(v, f, k)'
  <2>1. f \in claimed \ killed /\ k \notin written[f]
    BY <1>4, <1>f DEF PrintLine, TypeOK
  <2>2. PICK v \in Worker : WillWrite(v, f, k)
    BY <2>1, <1>w
  <2>3. CASE v = w
    <3>1. Cur(w) = f /\ att[w] /\ off[w] <= k /\ off[w] \in Nat
      BY <1>4, <2>2, <2>3 DEF PrintLine, WillWrite, TypeOK
    <3>2. k # off[w]
      BY <1>4, <1>f, <3>1 DEF PrintLine, TypeOK
    <3>3. off'[w] <= k
      BY <1>4, <1>f, <3>1, <3>2 DEF PrintLine, TypeOK
    <3>4. QED
      BY <1>4, <3>1, <3>3 DEF PrintLine, WillWrite
  <2>4. CASE v # w
    BY <1>4, <1>f, <2>2, <2>4, WriterStays DEF PrintLine, TypeOK
  <2>5. QED
    BY <2>3, <2>4
<1>5. ASSUME NEW w \in Worker, ToolExit(w)
      PROVE  \E v \in Worker : WillWrite(v, f, k)'
  <2>1. PICK v \in Worker : WillWrite(v, f, k)
    BY <1>5, <1>w DEF ToolExit
  <2>2. v # w
    <3>1. SUFFICES ASSUME v = w PROVE FALSE
      OBVIOUS
    <3>2. Cur(w) = f /\ off[w] <= k /\ off[w] \in Nat \ {0} /\ off[w] \notin Lines(f)
      BY <1>5, <2>1, <3>1 DEF ToolExit, WillWrite, TypeOK
    <3>3. Lines(f) = 1..Len(Report[f]) /\ Len(Report[f]) \in Nat
      BY <1>f, ToolAssumption DEF Lines
    <3>4. QED
      BY <1>f, <3>2, <3>3
  <2>3. pc'[v] = pc[v] /\ pos'[v] = pos[v]
    BY <1>5, <2>2 DEF ToolExit, NextFile, TypeOK
  <2>4. QED
    BY <1>5, <1>f, <2>1, <2>2, <2>3, WriterStays DEF ToolExit, TypeOK
<1>6. ASSUME NEW w \in Worker, ToolKilled(w)
      PROVE  \E v \in Worker : WillWrite(v, f, k)'
  <2>1. PICK v \in Worker : WillWrite(v, f, k)
    BY <1>6, <1>w DEF ToolKilled
  <2>2. v # w
    BY <1>6, <2>1 DEF ToolKilled, WillWrite
  <2>3. pc'[v] = pc[v] /\ pos'[v] = pos[v]
    BY <1>6, <2>2 DEF ToolKilled, NextFile, TypeOK
  <2>4. QED
    BY <1>6, <1>f, <2>1, <2>2, <2>3, WriterStays DEF ToolKilled, TypeOK
<1>7. ASSUME NEW w \in Worker, InstanceKilled(w)
      PROVE  \E v \in Worker : WillWrite(v, f, k)'
  <2>1. f \in claimed \ killed /\ k \notin written[f]
    BY <1>7 DEF InstanceKilled
  <2>2. PICK v \in Worker : WillWrite(v, f, k)
    BY <2>1, <1>w
  <2>3. v # w
    BY <1>7, <2>1, <2>2 DEF InstanceKilled, WillWrite
  <2>4. QED
    BY <1>7, <1>f, <2>2, <2>3, WriterStays DEF InstanceKilled, TypeOK
<1>8. ASSUME \/ \E first \in {"rmDbg", "testAst"} : StartClean(first)
             \/ CleanXml \/ CleanPi \/ TestAst \/ CleanEnd \/ UNCHANGED vars
      PROVE  \E v \in Worker : WillWrite(v, f, k)'
  <2>1. UNCHANGED loopVars /\ UNCHANGED <<claimed, killed, written>>
    BY <1>8 DEF StartClean, CleanXml, CleanPi, TestAst, CleanEnd, vars
  <2>2. PICK v \in Worker : WillWrite(v, f, k)
    BY <2>1, <1>w
  <2>3. QED
    BY <1>f, <2>1, <2>2, WriterStays
<1>9. ASSUME CleanDbg \/ CleanNoAst
      PROVE  \E v \in Worker : WillWrite(v, f, k)'
  <2>1. RemoveReport /\ UNCHANGED <<pc, pos, off>>
    BY <1>9 DEF CleanDbg, CleanNoAst
  <2>2. f # CFile /\ f \in claimed \ killed /\ k \notin written[f]
    BY <2>1, <1>f DEF RemoveReport, TypeOK
  <2>3. PICK v \in Worker : WillWrite(v, f, k)
    BY <2>2, <1>w
  <2>4. QED
    BY <2>1, <2>2, <2>3 DEF RemoveReport, WillWrite
<1>10. QED
  BY <1>1, <1>2, <1>3, <1>4, <1>5, <1>6, <1>7, <1>8, <1>9 DEF Next, Step, Clean

\* A missing line of an existing report whose writers were not killed is one
\* that a live instance is still going to write.
THEOREM NoLineLostHolds == Spec => []NoLineLost
<1>1. Init => NoLineLost
  BY DEF Init, NoLineLost
<1>2. QED
  BY <1>1, TypeCorrect, NoLineLostStep, PTL DEF Spec

\* The reporter's verdict on a file nobody works on is that of the full
\* output of the tool.
THEOREM SummaryExactHolds == Spec => []SummaryExact
<1>1. TypeOK /\ NoLineLost => SummaryExact
  <2> SUFFICES ASSUME TypeOK, NoLineLost, NEW f \in claimed \ killed, Quiet(f)
               PROVE  Summarize(f) = Verdict({Report[f][k] : k \in Lines(f)})
    BY DEF SummaryExact
  <2>1. f \in File
    BY DEF TypeOK
  <2>2. written[f] = Lines(f)
    BY <2>1 DEF TypeOK, NoLineLost, Quiet, WillWrite
  <2>3. \A k \in Lines(f) : k = 1 \/ k - 1 \in Lines(f)
    BY <2>1, ToolAssumption DEF Lines
  <2>4. Seen(f) = {Report[f][k] : k \in Lines(f)}
    BY <2>2, <2>3 DEF Seen
  <2>5. QED
    BY <2>4 DEF Summarize
<1>2. QED
  BY <1>1, TypeCorrect, NoLineLostHolds, PTL

\* A verdict rests on lines that are there: whoever was killed, truncated or
\* overlapped, SummarizeResult says nothing better of a report than of the
\* tool's full output.
THEOREM NeverFlatteredHolds == Spec => []NeverFlattered
<1>1. TypeOK => NeverFlattered
  <2> SUFFICES ASSUME TypeOK, NEW f \in claimed
               PROVE  Grade(Summarize(f)) <= Grade(Verdict({Report[f][k] : k \in Lines(f)}))
    BY DEF NeverFlattered
  <2> DEFINE full == {Report[f][k] : k \in Lines(f)}
  <2>0. written[f] \subseteq Lines(f)
    BY DEF TypeOK
  <2>1. Seen(f) \subseteq full \union {"other"} /\ (full = {} => Seen(f) = {})
    <3>1. Seen(f) \subseteq full \union {"other"}
      BY <2>0 DEF Seen
    <3>2. \A k \in written[f] : Report[f][k] \in full
      BY <2>0
    <3>3. full = {} => Seen(f) = {}
      BY <3>2 DEF Seen
    <3> QED
      BY <3>1, <3>3
  <2>2. \A line \in Seen(f) : line # "other" => line \in full
    BY <2>1
  <2>3. Grade(Verdict(Seen(f))) <= Grade(Verdict(full))
    <3> HIDE DEF full
    <3> QED
      BY <2>1, <2>2 DEF Verdict, Grade
  <2> QED
    BY <2>3 DEF Summarize
<1>2. QED
  BY <1>1, TypeCorrect, PTL

-----------------------------------------------------------------------------
\* What makes OpensOnce inductive: nobody has opened a report that does not
\* exist, and whoever is about to open one found none.
OpenedOK ==
    /\ \A f \in File \ claimed : openedBy[f] = {}
    /\ \A w \in Worker : pc[w] \in {"touch", "open"} => w \notin openedBy[Cur(w)]

LEMMA OpenedStep == TypeOK /\ OpenedOK /\ [Next]_vars => OpenedOK'
<1> SUFFICES ASSUME TypeOK, OpenedOK, [Next]_vars PROVE OpenedOK'
  OBVIOUS
<1> USE ListAssumption
    DEF OpenedOK, PC, Cur, CFile, loopVars, fileVars, cleanVars, histVars, budgetVars
<1>1. ASSUME NEW w \in Worker, EndOfList(w) \/ SkipFile(w) \/ Restart(w)
      PROVE  OpenedOK'
  BY <1>1 DEF EndOfList, SkipFile, Restart, TypeOK
<1>2. ASSUME NEW w \in Worker, SeeUnclaimed(w) PROVE OpenedOK'
  <2>1. openedBy[Cur(w)] = {}
    BY <1>2 DEF SeeUnclaimed
  <2>2. QED
    BY <1>2, <2>1 DEF SeeUnclaimed, TypeOK
<1>3. ASSUME NEW w \in Worker, Touch(w) PROVE OpenedOK'
  BY <1>3 DEF Touch, TypeOK
<1>4. ASSUME NEW w \in Worker, OpenReport(w) PROVE OpenedOK'
  <2>1. Cur(w) \in File
    BY <1>4 DEF OpenReport, TypeOK
  <2>2. \A f \in File : openedBy'[f] = IF f = Cur(w) THEN openedBy[f] \union {w}
                                                      ELSE openedBy[f]
    BY <1>4, <2>1 DEF OpenReport, TypeOK
  <2>3. \A v \in Worker : pc'[v] \in {"touch", "open"} => v # w /\ Cur(v) \in File
    BY <1>4 DEF OpenReport, TypeOK
  <2>4. QED
    BY <1>4, <2>2, <2>3 DEF OpenReport, TypeOK
<1>5. ASSUME NEW w \in Worker, PrintLine(w) \/ InstanceKilled(w) PROVE OpenedOK'
  BY <1>5 DEF PrintLine, InstanceKilled, TypeOK
<1>6. ASSUME NEW w \in Worker, ToolExit(w) \/ ToolKilled(w) PROVE OpenedOK'
  BY <1>6 DEF ToolExit, ToolKilled, NextFile, TypeOK
<1>7. ASSUME CleanDbg \/ CleanNoAst PROVE OpenedOK'
  <2>1. RemoveReport /\ UNCHANGED <<pc, pos>>
    BY <1>7 DEF CleanDbg, CleanNoAst
  <2>2. \A f \in File : openedBy'[f] \subseteq openedBy[f]
    BY <2>1 DEF RemoveReport, TypeOK
  <2>3. \A v \in Worker : pc[v] \in {"touch", "open"} => Cur(v) \in File
    BY DEF TypeOK
  <2>4. \A f \in File \ claimed' : openedBy'[f] = {}
    BY <2>1 DEF RemoveReport, TypeOK
  <2>5. QED
    BY <2>1, <2>2, <2>3, <2>4
<1>8. ASSUME \/ \E first \in {"rmDbg", "testAst"} : StartClean(first)
             \/ CleanXml \/ CleanPi \/ TestAst \/ CleanEnd \/ UNCHANGED vars
      PROVE  OpenedOK'
  BY <1>8 DEF StartClean, CleanXml, CleanPi, TestAst, CleanEnd, vars
<1>9. QED
  BY <1>1, <1>2, <1>3, <1>4, <1>5, <1>6, <1>7, <1>8 DEF Next, Step, Clean

\* An instance analyses a file again only after its .dbg was removed, also
\* when it was killed and started again.
THEOREM OpensOnceHolds == Spec => OpensOnce
<1>1. Init => OpenedOK
  BY DEF Init, OpenedOK
<1>2. Spec => []OpenedOK
  BY <1>1, TypeCorrect, OpenedStep, PTL DEF Spec
<1>3. OpenedOK => [\A w \in Worker : OpenReport(w) => w \notin openedBy[Cur(w)]]_vars
  BY DEF OpenedOK, OpenReport
<1>4. QED
  BY <1>2, <1>3, PTL DEF OpensOnce

-----------------------------------------------------------------------------
\* What makes DoneMeansAllClaimed inductive: what lies behind an instance is
\* taken, and only --one stops before the end of the list.
WalkOK ==
    cleans = 0 =>
      /\ cpc = "idle"
      /\ \A w \in Worker :
          /\ \A i \in DOMAIN FileList : i < pos[w] => FileList[i] \in claimed
          /\ pc[w] \in {"open", "run"} => Cur(w) \in claimed
          /\ pc[w] = "done" /\ w \notin OneShot => pos[w] \notin DOMAIN FileList

LEMMA WalkStep == TypeOK /\ WalkOK /\ [Next]_vars => WalkOK'
<1> SUFFICES ASSUME TypeOK, WalkOK, [Next]_vars, cleans' = 0 PROVE WalkOK'
  BY DEF WalkOK
<1> USE ListAssumption
    DEF PC, CPC, Cur, loopVars, fileVars, cleanVars, histVars, budgetVars
<1>c. cleans = 0
  <2>1. cleans' = cleans \/ cleans' = cleans + 1
    BY DEF Next, Step, Clean, EndOfList, SkipFile, SeeUnclaimed, Touch, OpenReport,
           PrintLine, ToolExit, ToolKilled, InstanceKilled, Restart, StartClean,
           CleanDbg, CleanXml, CleanPi, TestAst, CleanNoAst, CleanEnd, vars
  <2>2. QED
    BY <2>1 DEF TypeOK
<1>i. cpc = "idle" /\ \A w \in Worker :
        /\ \A i \in DOMAIN FileList : i < pos[w] => FileList[i] \in claimed
        /\ pc[w] \in {"open", "run"} => Cur(w) \in claimed
        /\ pc[w] = "done" /\ w \notin OneShot => pos[w] \notin DOMAIN FileList
  BY <1>c DEF WalkOK
<1>1. ASSUME NEW w \in Worker, EndOfList(w) \/ SeeUnclaimed(w) \/ InstanceKilled(w)
      PROVE  WalkOK'
  BY <1>1, <1>i DEF EndOfList, SeeUnclaimed, InstanceKilled, TypeOK, WalkOK
<1>2. ASSUME NEW w \in Worker, SkipFile(w) PROVE WalkOK'
  <2>1. pos' = [pos EXCEPT ![w] = pos[w] + 1] /\ UNCHANGED <<pc, claimed, cpc>>
    BY <1>2 DEF SkipFile
  <2>2. pc[w] = "loop" /\ FileList[pos[w]] \in claimed
    BY <1>2 DEF SkipFile
  <2>3. \A i \in DOMAIN FileList : i < pos[w] + 1 => i < pos[w] \/ i = pos[w]
    BY DEF TypeOK
  <2>4. QED
    BY <1>i, <2>1, <2>2, <2>3 DEF TypeOK, WalkOK
<1>3. ASSUME NEW w \in Worker, Touch(w) \/ OpenReport(w) PROVE WalkOK'
  BY <1>3, <1>i DEF Touch, OpenReport, TypeOK, WalkOK
<1>4. ASSUME NEW w \in Worker, PrintLine(w) PROVE WalkOK'
  BY <1>4, <1>i DEF PrintLine, WalkOK
<1>5. ASSUME NEW w \in Worker, ToolExit(w) \/ ToolKilled(w) PROVE WalkOK'
  <2>1. NextFile(w) /\ UNCHANGED <<claimed, cpc>> /\ FileList[pos[w]] \in claimed
    BY <1>5, <1>i DEF ToolExit, ToolKilled
  <2>2. \A i \in DOMAIN FileList : i < pos[w] + 1 => i < pos[w] \/ i = pos[w]
    BY DEF TypeOK
  <2>3. CASE w \in OneShot
    BY <1>i, <2>1, <2>3 DEF NextFile, TypeOK, WalkOK
  <2>4. CASE w \notin OneShot
    <3>1. /\ pc' = [pc EXCEPT ![w] = "loop"]
          /\ pos' = [pos EXCEPT ![w] = pos[w] + 1]
      BY <2>1, <2>4 DEF NextFile
    <3>2. QED
      BY <1>i, <2>1, <2>2, <3>1 DEF TypeOK, WalkOK
  <2>5. QED
    BY <2>3, <2>4
<1>6. ASSUME NEW w \in Worker, Restart(w) PROVE WalkOK'
  BY <1>6, <1>i DEF Restart, TypeOK, WalkOK
<1>7. CASE Clean
  <2>1. \E first \in {"rmDbg", "testAst"} : StartClean(first)
    BY <1>7, <1>i DEF Clean, CleanDbg, CleanXml, CleanPi, TestAst, CleanNoAst, CleanEnd
  <2>2. QED
    BY <2>1, <1>c DEF StartClean
<1>8. CASE UNCHANGED vars
  BY <1>8, <1>i DEF vars, WalkOK
<1>9. QED
  BY <1>1, <1>2, <1>3, <1>4, <1>5, <1>6, <1>7, <1>8 DEF Next, Step

\* When an instance without --one ends, every file of the list is taken.
THEOREM DoneMeansAllClaimedHolds == Spec => []DoneMeansAllClaimed
<1>1. Init => WalkOK
  BY ListAssumption DEF Init, WalkOK
<1>2. TypeOK /\ WalkOK => DoneMeansAllClaimed
  <2> SUFFICES ASSUME TypeOK, WalkOK, cleans = 0, NEW w \in Worker \ OneShot,
                      pc[w] = "done", NEW i \in DOMAIN FileList
               PROVE  FileList[i] \in claimed
    BY DEF DoneMeansAllClaimed
  <2>1. i < pos[w]
    BY ListAssumption DEF TypeOK, WalkOK
  <2>2. QED
    BY <2>1 DEF WalkOK
<1>3. QED
  BY <1>1, <1>2, TypeCorrect, WalkStep, PTL DEF Spec

-----------------------------------------------------------------------------
\* What makes ProductsComplete inductive: while outputs of a claimed file are
\* missing, someone is about to open its report or writes to it, and whoever kills
\* the last of them kills the report.
Owes(w, f) == Cur(w) = f /\ (pc[w] = "open" \/ (pc[w] = "run" /\ att[w]))

ProductsOK ==
    \A f \in claimed \ killed :
        Products[f] \ art[f] \subseteq Cleaned \/ \E w \in Worker : Owes(w, f)

LEMMA ProductsStep == TypeOK /\ WalkOK /\ ProductsOK /\ [Next]_vars => ProductsOK'
<1> SUFFICES ASSUME TypeOK, WalkOK, ProductsOK, [Next]_vars
             PROVE  ProductsOK'
  OBVIOUS
<1> USE DEF PC, Cur, loopVars, fileVars, cleanVars, histVars, budgetVars
<1>1. ASSUME NEW w \in Worker, EndOfList(w) \/ SkipFile(w) \/ SeeUnclaimed(w) \/ Restart(w)
      PROVE  ProductsOK'
  <2>1. UNCHANGED <<att, claimed, killed, art, cleans>> /\ pc[w] \notin {"open", "run"}
    BY <1>1 DEF EndOfList, SkipFile, SeeUnclaimed, Restart
  <2>2. \A v \in Worker : v # w => pc'[v] = pc[v] /\ pos'[v] = pos[v]
    BY <1>1 DEF EndOfList, SkipFile, SeeUnclaimed, Restart, TypeOK
  <2>3. QED
    BY <2>1, <2>2 DEF ProductsOK, Owes, Cleaned
<1>2. ASSUME NEW w \in Worker, Touch(w) \/ OpenReport(w) PROVE ProductsOK'
  <2>1. UNCHANGED <<pos, art, cleans>> /\ claimed' = claimed \union {Cur(w)}
    BY <1>2 DEF Touch, OpenReport
  <2>2. \A f \in claimed' \ killed' : f = Cur(w) \/ f \in claimed \ killed
    BY <1>2, <2>1 DEF Touch, OpenReport
  <2>3. Owes(w, Cur(w))'
    BY <1>2 DEF Touch, OpenReport, TypeOK, Owes
  <2>4. \A v \in Worker : v # w => pc'[v] = pc[v] /\ att'[v] = att[v]
    BY <1>2 DEF Touch, OpenReport, TypeOK
  <2>5. \A f \in File : (\E v \in Worker : Owes(v, f)) => f = Cur(w) \/ \E v \in Worker : Owes(v, f)'
    BY <2>1, <2>4 DEF Owes
  <2>6. claimed \subseteq File
    BY DEF TypeOK
  <2>7. ASSUME NEW f \in claimed', f \notin killed'
        PROVE  Products[f] \ art'[f] \subseteq Cleaned' \/ \E v \in Worker : Owes(v, f)'
    <3>1. CASE f = Cur(w)
      BY <2>1, <2>3, <3>1 DEF Owes
    <3>2. CASE f # Cur(w)
      BY <2>1, <2>2, <2>5, <2>6, <2>7, <3>2 DEF ProductsOK, Cleaned
    <3>3. QED
      BY <3>1, <3>2
  <2>8. QED
    BY <2>7 DEF ProductsOK
<1>3. ASSUME NEW w \in Worker, PrintLine(w) PROVE ProductsOK'
  BY <1>3 DEF PrintLine, ProductsOK, Owes, Cleaned
<1>4. ASSUME NEW w \in Worker, ToolExit(w) PROVE ProductsOK'
  <2>1. \A v \in Worker : v # w => /\ pc'[v] = pc[v] /\ pos'[v] = pos[v]
                                  /\ att'[v] = att[v]
    BY <1>4 DEF ToolExit, NextFile, TypeOK
  <2>2. /\ Products[Cur(w)] \subseteq art'[Cur(w)]
        /\ \A f \in File : art[f] \subseteq art'[f]
    <3>1. Cur(w) \in File
      BY <1>4, ListAssumption DEF ToolExit, TypeOK
    <3>2. \A f \in File : art'[f] = IF f = Cur(w) THEN art[f] \union Products[f]
                                                 ELSE art[f]
      BY <1>4, <3>1 DEF ToolExit, TypeOK
    <3>3. QED
      BY <3>1, <3>2
  <2>3. claimed' = claimed /\ killed' = killed /\ claimed \subseteq File /\ cleans' = cleans
    BY <1>4 DEF ToolExit, TypeOK
  <2>4. QED
    BY <2>1, <2>2, <2>3 DEF ProductsOK, Owes, Cleaned
<1>5. ASSUME NEW w \in Worker, ToolKilled(w) \/ InstanceKilled(w) PROVE ProductsOK'
  <2>1. \A v \in Worker : v # w => /\ pc'[v] = pc[v] /\ pos'[v] = pos[v]
                                  /\ att'[v] = att[v]
    BY <1>5 DEF ToolKilled, InstanceKilled, NextFile, TypeOK
  <2>2. UNCHANGED <<claimed, art, cleans>> /\ killed \subseteq killed'
    BY <1>5 DEF ToolKilled, InstanceKilled
  <2>3. \A f \in claimed : Owes(w, f) => f \in killed'
    BY <1>5 DEF ToolKilled, InstanceKilled, Owes
  <2>4. QED
    BY <2>1, <2>2, <2>3 DEF ProductsOK, Owes, Cleaned
<1>6. CASE Clean
  <2>1. CASE \E first \in {"rmDbg", "testAst"} : StartClean(first)
    <3>1. UNCHANGED <<pc, pos, att, claimed, art, killed>> /\ Cleaned \subseteq Cleaned'
      BY <2>1 DEF StartClean, Cleaned, TypeOK
    <3>2. QED
      BY <3>1 DEF ProductsOK, Owes
  <2>2. CASE CleanDbg \/ CleanNoAst
    <3>1. /\ UNCHANGED <<pc, pos, art, cleans>> /\ claimed' = claimed \ {CFile}
          /\ killed' = killed \ {CFile}
          /\ \A w \in Worker : att[w] /\ Cur(w) # CFile => att'[w]
      BY <2>2 DEF CleanDbg, CleanNoAst, RemoveReport
    <3>2. QED
      BY <3>1 DEF ProductsOK, Owes, Cleaned
  <2>3. CASE CleanXml \/ CleanPi
    <3>1. /\ UNCHANGED <<pc, pos, att, claimed, killed, cleans>>
          /\ \A f \in File : art[f] \ {"xml", "pi"} \subseteq art'[f]
      BY <2>3 DEF CleanXml, CleanPi, TypeOK
    <3>2. Cleaned = {"xml", "pi"}
      BY <2>3 DEF WalkOK, CleanXml, CleanPi, Cleaned
    <3>3. claimed \subseteq File
      BY DEF TypeOK
    <3>4. QED
      BY <3>1, <3>2, <3>3 DEF ProductsOK, Owes, Cleaned
  <2>4. CASE TestAst \/ CleanEnd
    BY <2>4 DEF TestAst, CleanEnd, ProductsOK, Owes, Cleaned
  <2>5. QED
    BY <1>6, <2>1, <2>2, <2>3, <2>4 DEF Clean
<1>7. CASE UNCHANGED vars
  BY <1>7 DEF vars, ProductsOK, Owes, Cleaned
<1>8. QED
  BY <1>1, <1>2, <1>3, <1>4, <1>5, <1>6, <1>7 DEF Next, Step

\* A file taken by racing instances, or again after a clean script, loses none of
\* its outputs but what the script removes.
THEOREM ProductsCompleteHolds == Spec => []ProductsComplete
<1>1. Init => WalkOK /\ ProductsOK
  BY ListAssumption DEF Init, WalkOK, ProductsOK
<1>2. TypeOK /\ ProductsOK => ProductsComplete
  BY DEF ProductsOK, Owes, ProductsComplete, Quiet, TypeOK
<1>3. QED
  BY <1>1, <1>2, TypeCorrect, WalkStep, ProductsStep, PTL DEF Spec

-----------------------------------------------------------------------------
\* What an instance has before it: lines of the list, steps with the file it
\* is at, report lines to write.
LinesLeft(w) == Len(FileList) + 1 - pos[w]
StepsLeft(w) ==
    CASE pc[w] = "loop" -> 4 [] pc[w] = "touch" -> 3 [] pc[w] = "open" -> 2 [] pc[w] = "run" -> 1
      [] OTHER -> 0
ReportLeft(w) ==
    IF pc[w] = "run" /\ off[w] \in Lines(Cur(w)) THEN Len(Report[Cur(w)]) + 1 - off[w] ELSE 0

\* w is further, w is where it was.
Further(w) ==
    \/ LinesLeft(w)' < LinesLeft(w)
    \/ LinesLeft(w)' = LinesLeft(w) /\ StepsLeft(w)' < StepsLeft(w)
    \/ LinesLeft(w)' = LinesLeft(w) /\ StepsLeft(w)' = StepsLeft(w) /\ ReportLeft(w)' < ReportLeft(w)
Stays(w) == UNCHANGED <<pc[w], pos[w], off[w]>>

LEMMA StepGoesOn == ASSUME TypeOK, NEW w \in Worker, Step(w) PROVE Further(w)
<1> USE ListAssumption DEF Further, LinesLeft, StepsLeft, fileVars, cleanVars, histVars, budgetVars
<1>1. pos[w] \in 1 .. (Len(FileList) + 1) /\ Len(FileList) \in Nat
  BY DEF TypeOK
<1>p. ASSUME NEW p, pos' = [pos EXCEPT ![w] = p] PROVE pos'[w] = p
  BY <1>p DEF TypeOK
<1>l. ASSUME NEW p, pc' = [pc EXCEPT ![w] = p] PROVE pc'[w] = p
  BY <1>l DEF TypeOK
<1>n. ASSUME pc[w] = "run", NextFile(w) PROVE Further(w)
  <2>1. \/ pc'[w] = "done" /\ pos'[w] = pos[w]
        \/ pos'[w] = pos[w] + 1
    BY <1>n, <1>p, <1>l DEF NextFile
  <2> QED
    BY <1>n, <1>1, <2>1
<1>2. CASE EndOfList(w)
  <2>1. pc[w] = "loop" /\ pc'[w] = "done" /\ pos' = pos
    BY <1>2, <1>l DEF EndOfList
  <2> QED
    BY <1>1, <2>1
<1>3. CASE SkipFile(w)
  <2>1. pos'[w] = pos[w] + 1
    BY <1>3, <1>p DEF SkipFile
  <2> QED
    BY <1>1, <2>1
<1>4. CASE SeeUnclaimed(w)
  <2>1. pc[w] = "loop" /\ pc'[w] = "touch" /\ pos' = pos
    BY <1>4, <1>l DEF SeeUnclaimed
  <2> QED
    BY <1>1, <2>1
<1>5. CASE Touch(w)
  <2>1. pc[w] = "touch" /\ pc'[w] = "open" /\ pos' = pos
    BY <1>5, <1>l DEF Touch
  <2> QED
    BY <1>1, <2>1
<1>6. CASE OpenReport(w)
  <2>1. pc[w] = "open" /\ pc'[w] = "run" /\ pos' = pos
    BY <1>6, <1>l DEF OpenReport
  <2> QED
    BY <1>1, <2>1
<1>7. CASE PrintLine(w)
  <2>1. /\ pc[w] = "run" /\ off[w] \in Lines(Cur(w)) /\ off'[w] = off[w] + 1
        /\ pc' = pc /\ pos' = pos
    BY <1>7 DEF PrintLine, TypeOK
  <2>2. Cur(w) \in File
    BY <2>1 DEF TypeOK, Cur
  <2>3. Report[Cur(w)] \in Seq(Line)
    BY <2>2, ToolAssumption
  <2>4. Len(Report[Cur(w)]) \in Nat /\ Lines(Cur(w)) = 1 .. Len(Report[Cur(w)])
    BY <2>3 DEF Lines
  <2>5. Cur(w)' = Cur(w) /\ Lines(Cur(w))' = Lines(Cur(w))
    BY <2>1 DEF Cur, Lines
  <2>6. ReportLeft(w)' < ReportLeft(w)
    BY <2>1, <2>4, <2>5 DEF ReportLeft
  <2> QED
    BY <1>1, <2>1, <2>6
<1>8. CASE ToolExit(w)
  BY <1>8, <1>n DEF ToolExit
<1>9. CASE ToolKilled(w)
  BY <1>9, <1>n DEF ToolKilled
<1> QED
  BY <1>2, <1>3, <1>4, <1>5, <1>6, <1>7, <1>8, <1>9 DEF Step

\* The walk of an instance ends if it goes on: each of its steps leaves less to
\* do, for lists and reports of any length, and no other instance and no clean
\* script ever sends it back.  With the fairness of FairSpec this is
\* LoopTerminates.
THEOREM WalkGoesOn ==
    Spec => [][\A w \in Worker : /\ Step(w) => Further(w)
                                 /\ Stays(w) \/ Step(w) \/ InstanceKilled(w) \/ Restart(w)]_vars
<1>1. ASSUME TypeOK, Next, NEW w \in Worker
      PROVE  Stays(w) \/ Step(w) \/ InstanceKilled(w) \/ Restart(w)
  <2> USE DEF Stays, fileVars, cleanVars, histVars, budgetVars, loopVars
  <2>t. /\ \A v, p : pc' = [pc EXCEPT ![v] = p] /\ v # w => pc'[w] = pc[w]
        /\ \A v, p : pos' = [pos EXCEPT ![v] = p] /\ v # w => pos'[w] = pos[w]
        /\ \A v, p : off' = [off EXCEPT ![v] = p] /\ v # w => off'[w] = off[w]
    BY <1>1 DEF TypeOK
  <2>1. ASSUME NEW v \in Worker, v # w, Step(v) \/ InstanceKilled(v) \/ Restart(v) PROVE Stays(w)
    <3>1. CASE EndOfList(v) \/ SkipFile(v) \/ SeeUnclaimed(v) \/ Touch(v) \/ OpenReport(v) \/ PrintLine(v)
      BY <2>1, <2>t, <3>1 DEF EndOfList, SkipFile, SeeUnclaimed, Touch, OpenReport, PrintLine
    <3>2. CASE ToolExit(v) \/ ToolKilled(v)
      BY <2>1, <2>t, <3>2 DEF ToolExit, ToolKilled, NextFile
    <3>3. CASE InstanceKilled(v) \/ Restart(v)
      BY <2>1, <2>t, <3>3 DEF InstanceKilled, Restart
    <3> QED
      BY <2>1, <3>1, <3>2, <3>3 DEF Step
  <2>2. CASE Clean
    BY <2>2 DEF Clean, StartClean, RemoveReport, CleanDbg, CleanXml, CleanPi, TestAst, CleanNoAst,
       CleanEnd
  <2> QED
    BY <1>1, <2>1, <2>2 DEF Next
<1>2. TypeOK /\ [Next]_vars =>
        [\A w \in Worker : /\ Step(w) => Further(w)
                           /\ Stays(w) \/ Step(w) \/ InstanceKilled(w) \/ Restart(w)]_vars
  BY <1>1, StepGoesOn
<1> QED
  BY TypeCorrect, <1>2, PTL DEF Spec
=============================================================================
