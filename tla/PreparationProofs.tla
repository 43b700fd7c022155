------------------------- MODULE PreparationProofs -------------------------
(***************************************************************************)
(* Proofs about Preparation, for any features, models, lists and bounds.   *)
(***************************************************************************)
EXTENDS Preparation, PresenceConditionsProofs, FiniteSetTheorems, TLAPS

-----------------------------------------------------------------------------
\* Types.

LEMMA CountersType ==
    ASSUME TypeOK, [Next]_vars
    PROVE  runs' \in 0 .. MaxRuns /\ crashes' \in 0 .. MaxCrashes /\ edits' \in 0 .. MaxEdits
<1> USE PreparationAssumption
<1>1. CASE Work
  BY <1>1 DEF Work, CreateOpen, Classify, EndComplete, CleanLine, EndClean, Sed, ApplyTrue,
     CreatePc, WritePc, EndApply, counters, TypeOK
<1>2. CASE StartComplete \/ StartGenPCs \/ StartApplyPCs
  BY <1>2 DEF StartComplete, StartGenPCs, StartApplyPCs, Start, TypeOK
<1>3. CASE CleanDies \/ Crash \/ EditConf
  BY <1>3 DEF CleanDies, Crash, EditConf, TypeOK
<1>4. CASE UNCHANGED vars
  BY <1>4 DEF vars, counters, TypeOK
<1> QED BY <1>1, <1>2, <1>3, <1>4 DEF Next

\* A prefix of the list's files is a sequence of files.
LEMMA FilesOfType ==
    ASSUME TypeOK, NEW n \in 0 .. Len(pcList)
    PROVE  FilesOf(n) \in Seq(File)
<1>1. Len(pcList) \in Nat /\ \A k \in 1 .. Len(pcList) : pcList[k] \in Listed
  BY DEF TypeOK
<1> QED BY <1>1 DEF FilesOf, Listed

LEMMA TypeStep == ASSUME TypeOK, [Next]_vars PROVE TypeOK'
<1> USE DEF inputs, features, lists, pcs, locals, counters
<1>c. runs' \in 0 .. MaxRuns /\ crashes' \in 0 .. MaxCrashes /\ edits' \in 0 .. MaxEdits
  BY CountersType
<1> HIDE DEF counters
<1>l. Len(pcList) \in Nat BY DEF TypeOK
<1>1. CASE StartComplete
  <2>1. FullModel(dimacs, conf) \subseteq Config BY DEF FullModel, PartialConf
  <2> QED BY <1>1, <1>c, <2>1 DEF StartComplete, Start, TypeOK, Tools
<1>2. CASE StartGenPCs
  <2>1. made' \in Made BY <1>2 DEF StartGenPCs, TypeOK, Made
  <2>2. Len(pcr') \in Nat BY <1>2, PreparationAssumption DEF StartGenPCs
  <2> QED BY <1>2, <1>c, <2>1, <2>2 DEF StartGenPCs, Start, TypeOK, Tools
<1>3. CASE StartApplyPCs BY <1>3, <1>c, <1>l DEF StartApplyPCs, Start, TypeOK, Tools
<1>4. CASE CreateOpen BY <1>4, <1>c DEF CreateOpen, TypeOK, Tools
<1>5. CASE Classify BY <1>5, <1>c DEF Classify, TypeOK, Tools
<1>6. CASE EndComplete BY <1>6, <1>c DEF EndComplete, Stop, TypeOK, Tools
<1>7. CASE CleanLine
  <2>1. pcr \in Seq(Line)
    <3>1. <<>> \in Seq(Line) OBVIOUS
    <3> QED BY <3>1, PreparationAssumption DEF TypeOK
  <2>2. Len(pcr) \in Nat /\ line \in 1 .. Len(pcr) BY <1>7, <2>1 DEF CleanLine, TypeOK
  <2>3. pcr[line].file \in File
    <3>1. pcr[line] \in Line BY <2>1, <2>2
    <3> QED BY <3>1 DEF Line
  <2>4. pcList' \in Seq(Listed)
    <3> DEFINE pc == Parse(pcr[line].expr, openFeatures)
               new == [file |-> pcr[line].file, cond |-> pc.cond]
    <3>1. pc.cond \subseteq Config BY DEF Parse
    <3>2. new \in Listed BY <2>3, <3>1 DEF Listed
    <3>3. pcList' = pcList \/ pcList' = Append(pcList, new) BY <1>7 DEF CleanLine
    <3>4. pcList \in Seq(Listed) BY DEF TypeOK
    <3> HIDE DEF new, pc
    <3>5. Append(pcList, new) \in Seq(Listed) BY <3>2, <3>4
    <3> QED BY <3>3, <3>4, <3>5
  <2> QED BY <1>7, <1>c, <2>2, <2>4 DEF CleanLine, TypeOK, Tools
<1>8. CASE EndClean
  <2>1. line - 1 \in Nat BY DEF TypeOK
  <2>2. made' = [made EXCEPT !.upto = line - 1] BY <1>8 DEF EndClean
  <2>3. made' \in Made BY <2>1, <2>2 DEF TypeOK, Made
  <2> QED BY <1>8, <1>c, <2>3 DEF EndClean, TypeOK, Tools
<1>9. CASE Sed
  <2>1. flist' \in Seq(File) BY <1>9, <1>l, FilesOfType DEF Sed
  <2> QED BY <1>9, <1>c, <2>1 DEF Sed, Stop, TypeOK, Tools
<1>10. CASE ApplyTrue
  <2>1. disk' \in [File -> PcFile]
    BY <1>10 DEF ApplyTrue, TypeOK, PcFile, NoFile
  <2> QED BY <1>10, <1>c, <1>l, <2>1 DEF ApplyTrue, More, TypeOK, Tools
<1>11. CASE CreatePc
  <2>1. disk' \in [File -> PcFile]
    BY <1>11 DEF CreatePc, TypeOK, PcFile, Cut
  <2> QED BY <1>11, <1>c, <1>l, <2>1 DEF CreatePc, More, TypeOK, Tools
<1>12. CASE WritePc
  <2>1. line \in 1 .. Len(pcList) BY <1>12, <1>l DEF WritePc, TypeOK
  <2>2. pcList[line].cond \subseteq Config
    <3>1. pcList[line] \in Listed BY <2>1 DEF TypeOK
    <3> QED BY <3>1 DEF Listed
  <2>3. disk' \in [File -> PcFile]
    BY <1>12, <2>2 DEF WritePc, TypeOK, PcFile, Written
  <2> QED BY <1>12, <1>c, <1>l, <2>1, <2>3 DEF WritePc, TypeOK, Tools
<1>13. CASE EndApply BY <1>13, <1>c DEF EndApply, Stop, TypeOK, Tools
<1>14. CASE Crash
  <2>1. flist' \in Seq(File) BY <1>14, FilesOfType DEF Crash, TypeOK
  <2> QED BY <1>14, <1>c, <2>1 DEF Crash, Stop, TypeOK, Tools
<1>15. CASE EditConf BY <1>15, <1>c DEF EditConf, TypeOK, Tools
<1>17. CASE CleanDies
  <2>1. line - 1 \in Nat BY DEF TypeOK
  <2>2. made' = [made EXCEPT !.upto = line - 1, !.died = TRUE] BY <1>17 DEF CleanDies
  <2>3. made' \in Made BY <2>1, <2>2 DEF TypeOK, Made
  <2> QED BY <1>17, <1>c, <2>3 DEF CleanDies, TypeOK, Tools
<1>16. CASE UNCHANGED vars BY <1>16, <1>c DEF vars, TypeOK, Tools
<1> QED BY <1>1, <1>2, <1>3, <1>4, <1>5, <1>6, <1>7, <1>8, <1>9, <1>10, <1>11, <1>12, <1>13,
           <1>14, <1>15, <1>16, <1>17 DEF Next, Work

LEMMA InitType == Init => TypeOK
<1> SUFFICES ASSUME Init PROVE TypeOK OBVIOUS
<1>1. disk \in [File -> PcFile] BY PreparationAssumption DEF Init
<1>2. made \in Made BY DEF Init, Made
<1>3. pcList \in Seq(Listed) /\ flist \in Seq(File) BY DEF Init
<1>4. completed \in [on : SUBSET Feature, off : SUBSET Feature] BY DEF Init
<1>5. runs \in 0 .. MaxRuns /\ crashes \in 0 .. MaxCrashes /\ edits \in 0 .. MaxEdits
  BY PreparationAssumption DEF Init
<1>6. /\ tool \in Tools /\ tool \notin {"clean", "apply", "write"}
      /\ line \in Nat \ {0} /\ applied \in {"no", "listed", "applied"}
  BY DEF Init, Tools
<1> QED BY <1>1, <1>2, <1>3, <1>4, <1>5, <1>6 DEF Init, TypeOK

\* Type correctness: no tool reads past the end of a list, whatever was
\* written before and by whom.
THEOREM TypeCorrect == Spec => []TypeOK
<1>1. TypeOK /\ [Next]_vars => TypeOK' BY TypeStep
<1> QED BY InitType, <1>1, PTL DEF Spec

-----------------------------------------------------------------------------
\* The open-feature list.

\* What the lists hold while and after CompletePartialConfiguration runs: a
\* feature is in none of them as long as it is to be tested, and then in the
\* one that its place in the model asks for.
Open(f) == ~Mandatory(f, basis) /\ ~Dead(f, basis)
Sorted(rest) ==
    /\ open \subseteq Feature \ Untested
    /\ \A f \in Feature \ Untested : f \in open <=> f \notin rest /\ Open(f)

FeaturesOK ==
    /\ ListsDisjoint
    /\ tool = "create" => completed.on = {} /\ completed.off = {}
    /\ tool = "classify" =>
         /\ todo \intersect (completed.on \union completed.off \union open) = {}
         /\ todo \subseteq Feature \ Untested
         /\ basis = fm /\ whole = FALSE /\ Sorted(todo)
    /\ whole => Sorted({})

LEMMA FeaturesStep == ASSUME TypeOK, FeaturesOK, [Next]_vars PROVE FeaturesOK'
<1> USE DEF features, locals
<1>1. CASE StartComplete
  BY <1>1 DEF StartComplete, Start, FeaturesOK, ListsDisjoint, Sorted, Open
<1>2. CASE StartGenPCs \/ StartApplyPCs
  BY <1>2 DEF StartGenPCs, StartApplyPCs, Start, FeaturesOK, ListsDisjoint, Sorted, Open
<1>3. CASE CreateOpen
  <2>1. open' = {} /\ todo' = Feature \ Untested /\ completed' = completed
        /\ basis' = fm' /\ whole' = FALSE /\ tool' = "classify"
    BY <1>3 DEF CreateOpen
  <2>2. completed.on = {} /\ completed.off = {} BY <1>3 DEF CreateOpen, FeaturesOK
  <2> QED BY <2>1, <2>2 DEF FeaturesOK, ListsDisjoint, Sorted
<1>4. CASE Classify
  <2>1. tool = "classify" /\ tool' = tool /\ fm' = fm /\ basis' = basis /\ whole' = whole
    BY <1>4 DEF Classify
  <2>2. PICK f \in todo :
          /\ todo' = todo \ {f}
          /\ \/ /\ Mandatory(f, fm) /\ completed' = [completed EXCEPT !.on = @ \union {f}]
                /\ UNCHANGED open
             \/ /\ ~Mandatory(f, fm) /\ Dead(f, fm)
                /\ completed' = [completed EXCEPT !.off = @ \union {f}]
                /\ UNCHANGED open
             \/ /\ ~Mandatory(f, fm) /\ ~Dead(f, fm) /\ open' = open \union {f}
                /\ UNCHANGED completed
    BY <1>4 DEF Classify
  <2>3. /\ todo \intersect (completed.on \union completed.off \union open) = {}
        /\ todo \subseteq Feature \ Untested
        /\ basis = fm /\ whole = FALSE /\ Sorted(todo) /\ ListsDisjoint
    BY <2>1 DEF FeaturesOK
  <2>4. completed \in [on : SUBSET Feature, off : SUBSET Feature] BY DEF TypeOK
  <2>5. CASE Mandatory(f, fm)
    <3>1. completed'.on = completed.on \union {f} /\ completed'.off = completed.off /\ open' = open
      BY <2>2, <2>4, <2>5
    <3>2. Sorted(todo)'
      BY <2>1, <2>2, <2>3, <2>5, <3>1 DEF Sorted, Open, Mandatory, Dead
    <3> QED BY <2>1, <2>2, <2>3, <3>1, <3>2 DEF FeaturesOK, ListsDisjoint
  <2>6. CASE ~Mandatory(f, fm) /\ Dead(f, fm)
    <3>1. completed'.on = completed.on /\ completed'.off = completed.off \union {f} /\ open' = open
      BY <2>2, <2>4, <2>6
    <3>2. Sorted(todo)'
      BY <2>1, <2>2, <2>3, <2>6, <3>1 DEF Sorted, Open, Mandatory, Dead
    <3> QED BY <2>1, <2>2, <2>3, <3>1, <3>2 DEF FeaturesOK, ListsDisjoint
  <2>7. CASE ~Mandatory(f, fm) /\ ~Dead(f, fm)
    <3>1. completed' = completed /\ open' = open \union {f} BY <2>2, <2>7
    <3>2. f \in Feature \ Untested BY <2>3
    <3>3. Sorted(todo)'
      BY <2>1, <2>2, <2>3, <2>7, <3>1, <3>2 DEF Sorted, Open, Mandatory, Dead
    <3> QED BY <2>1, <2>2, <2>3, <3>1, <3>3 DEF FeaturesOK, ListsDisjoint
  <2> QED BY <2>5, <2>6, <2>7
<1>5. CASE EndComplete
  <2>1. Sorted(todo) /\ todo = {} BY <1>5 DEF EndComplete, FeaturesOK
  <2>2. open' = open /\ basis' = basis /\ completed' = completed /\ tool' = "idle"
    BY <1>5 DEF EndComplete, Stop
  <2> QED BY <2>1, <2>2 DEF FeaturesOK, ListsDisjoint, Sorted, Open
<1>6. CASE CleanLine \/ EndClean \/ Sed \/ ApplyTrue \/ CreatePc \/ WritePc \/ EndApply
  BY <1>6 DEF CleanLine, EndClean, Sed, ApplyTrue, CreatePc, WritePc, EndApply, Stop,
     FeaturesOK, ListsDisjoint, Sorted, Open
<1>7. CASE CleanDies \/ Crash
  BY <1>7 DEF CleanDies, Crash, Stop, FeaturesOK, ListsDisjoint, Sorted, Open
<1>8. CASE EditConf
  BY <1>8 DEF EditConf, FeaturesOK, ListsDisjoint, Sorted, Open
<1>9. CASE UNCHANGED vars
  BY <1>9 DEF vars, FeaturesOK, ListsDisjoint, Sorted, Open
<1> QED BY <1>1, <1>2, <1>3, <1>4, <1>5, <1>6, <1>7, <1>8, <1>9 DEF Next, Work

LEMMA InitFeatures == Init => FeaturesOK
BY DEF Init, FeaturesOK, ListsDisjoint

THEOREM FeaturesInvariant == Spec => [](TypeOK /\ FeaturesOK)
<1>1. Init => TypeOK /\ FeaturesOK BY InitType, InitFeatures
<1>2. (TypeOK /\ FeaturesOK) /\ [Next]_vars => (TypeOK /\ FeaturesOK)' BY TypeStep, FeaturesStep
<1> QED BY <1>1, <1>2, PTL DEF Spec

\* The two files of CompletePartialConfiguration never contradict each other,
\* after any deaths and any edits between runs.
THEOREM ListsDisjointHolds == Spec => []ListsDisjoint
<1>1. FeaturesOK => ListsDisjoint BY DEF FeaturesOK
<1> QED BY FeaturesInvariant, <1>1, PTL

\* A complete list switches off what is dead or was not tested, and everything
\* as soon as one feature is mandatory, also in a narrower model.
LEMMA ExclDeadOfSorted ==
    ASSUME Sorted({}), basis \subseteq Config, NEW now, now \subseteq basis
    PROVE  ExclDead(now, open) =
             IF \E f \in Feature \ Unjudged : Mandatory(f, basis)
             THEN {}
             ELSE {c \in now : c \intersect (Untested \ Unjudged) = {}}
<1>0. \A c \in now : c \in basis /\ c \subseteq Feature BY DEF Config
<1>1. CASE \E f \in Feature \ Unjudged : Mandatory(f, basis)
  <2>1. PICK f \in Feature \ Unjudged : Mandatory(f, basis) BY <1>1
  <2>2. f \notin open BY <2>1 DEF Sorted, Open
  <2>3. \A c \in now : f \in c BY <1>0, <2>1 DEF Mandatory
  <2>4. ExclDead(now, open) = {} BY <2>1, <2>2, <2>3 DEF ExclDead
  <2> QED BY <1>1, <2>4
<1>2. CASE ~\E f \in Feature \ Unjudged : Mandatory(f, basis)
  <2>1. ASSUME NEW c \in now
        PROVE  c \subseteq Unjudged \union open <=> c \intersect (Untested \ Unjudged) = {}
    <3>1. ASSUME NEW f \in c
          PROVE  f \in Unjudged \union open <=> f \notin Untested \ Unjudged
      <4>1. f \in Feature BY <1>0, <3>1
      <4>2. ~Dead(f, basis) BY <1>0, <2>1, <3>1 DEF Dead
      <4>3. f \in Unjudged \/ ~Mandatory(f, basis) BY <1>2, <4>1
      <4> QED BY <4>1, <4>2, <4>3 DEF Sorted, Open
    <3> QED BY <3>1
  <2>2. ExclDead(now, open) = {c \in now : c \intersect (Untested \ Unjudged) = {}}
    BY <2>1 DEF ExclDead
  <2> QED BY <1>2, <2>2
<1> QED BY <1>1, <1>2

\* The list of a finished run makes LinuxExclDeadModel lose nothing but dead and
\* untested features, or everything, also after an edit that allows less.
THEOREM ExclDeadExactHolds == Spec => []ExclDeadExact
<1>1. TypeOK /\ FeaturesOK => ExclDeadExact
  <2> SUFFICES ASSUME TypeOK, FeaturesOK, whole, FullModel(dimacs, conf) \subseteq basis
               PROVE  ExclDead(FullModel(dimacs, conf), open) =
                        IF \E f \in Feature \ Unjudged : Mandatory(f, basis)
                        THEN {}
                        ELSE {c \in FullModel(dimacs, conf) : c \intersect (Untested \ Unjudged) = {}}
    BY DEF ExclDeadExact
  <2>1. Sorted({}) /\ basis \subseteq Config BY DEF FeaturesOK, TypeOK
  <2> QED BY <2>1, ExclDeadOfSorted
<1> QED BY FeaturesInvariant, <1>1, PTL

-----------------------------------------------------------------------------
\* The .pc files.

\* The first n lines of the list are on disk.
OnDisk(n) == \A k \in 1 .. Len(pcList) : k <= n => Condition(pcList[k].file) = pcList[k].cond

\* Files come from KBuildMiner's list, in its order, so that none is there
\* twice.
FromPcr ==
    \A m, n \in 1 .. Len(pcList) : pcList[m].file = pcList[n].file => m = n
Before(k) ==
    \A n \in 1 .. Len(pcList) : \E m \in 1 .. Len(pcr) : m < k /\ pcList[n].file = pcr[m].file

PcsOK ==
    /\ FromPcr
    /\ tool = "clean" => Before(line)
    /\ tool \in {"clean", "sed"} => applied = "no"
    /\ tool \in {"apply", "write"} => applied # "applied" /\ OnDisk(line - 1)
    /\ applied # "no" =>
         /\ Len(flist) = Len(pcList)
         /\ \A n \in 1 .. Len(pcList) : flist[n] = pcList[n].file
    /\ applied = "applied" => OnDisk(Len(pcList))

LEMMA PcsStep == ASSUME TypeOK, PcsOK, [Next]_vars PROVE PcsOK'
<1> USE DEF inputs, lists, pcs, locals
<1>l. Len(pcList) \in Nat /\ \A n \in 1 .. Len(pcList) : pcList[n] \in Listed BY DEF TypeOK
<1>n. line \in Nat \ {0} BY DEF TypeOK
<1>1. CASE StartComplete
  BY <1>1 DEF StartComplete, Start, PcsOK, FromPcr, OnDisk, Condition
<1>2. CASE StartGenPCs
  <2>1. Len(pcList') = 0 BY <1>2 DEF StartGenPCs
  <2> QED BY <1>2, <2>1 DEF StartGenPCs, Start, PcsOK, FromPcr, Before
<1>3. CASE StartApplyPCs
  <2>1. OnDisk(line - 1)' BY <1>3, <1>l DEF StartApplyPCs, OnDisk
  <2>2. /\ tool' = "apply" /\ applied' # "applied" /\ (applied' # "no" <=> applied # "no")
        /\ UNCHANGED lists
    BY <1>3 DEF StartApplyPCs, Start, TypeOK
  <2> QED BY <2>1, <2>2 DEF PcsOK, FromPcr
<1>4. CASE CreateOpen \/ Classify \/ EndComplete \/ EditConf
  BY <1>4 DEF CreateOpen, Classify, EndComplete, EditConf, Stop, PcsOK, FromPcr, OnDisk, Condition, Before
<1>5. CASE CleanLine
  <2> DEFINE pc == Parse(pcr[line].expr, openFeatures)
             new == [file |-> pcr[line].file, cond |-> pc.cond]
  <2>1. /\ pcList' = pcList \/ pcList' = Append(pcList, new)
        /\ tool = "clean" /\ tool' = "clean" /\ line' = line + 1 /\ line <= Len(pcr)
        /\ applied' = applied /\ pcr' = pcr
    BY <1>5 DEF CleanLine
  <2>2. Before(line) /\ FromPcr /\ applied = "no" BY <2>1 DEF PcsOK
  <2>3. Len(pcr) \in Nat /\ line \in 1 .. Len(pcr)
    <3>1. <<>> \in Seq(Line) OBVIOUS
    <3> QED BY <1>n, <2>1, <3>1, PreparationAssumption DEF TypeOK
  <2>4. \A m, n \in 1 .. Len(pcr) : pcr[m].file = pcr[n].file => m = n
    BY <2>3, PreparationAssumption DEF TypeOK
  <2>5. CASE pcList' = pcList
    BY <2>1, <2>2, <2>3, <2>5 DEF PcsOK, FromPcr, Before
  <2>6. CASE pcList' = Append(pcList, new)
    <3>1. /\ Len(pcList') = Len(pcList) + 1
          /\ \A n \in 1 .. Len(pcList) : pcList'[n] = pcList[n]
          /\ pcList'[Len(pcList) + 1] = new
      <4> HIDE DEF new
      <4> QED BY <1>l, <2>6 DEF TypeOK
    <3>2. Before(line)'
      <4> SUFFICES ASSUME NEW n \in 1 .. Len(pcList')
                   PROVE  \E m \in 1 .. Len(pcr) : m < line + 1 /\ pcList'[n].file = pcr[m].file
        BY <2>1 DEF Before
      <4>1. CASE n \in 1 .. Len(pcList)
        <5>1. PICK m \in 1 .. Len(pcr) : m < line /\ pcList[n].file = pcr[m].file
          BY <2>2, <4>1 DEF Before
        <5>2. m < line + 1 BY <1>n, <2>3, <5>1
        <5> QED BY <3>1, <4>1, <5>1, <5>2
      <4>2. CASE n = Len(pcList) + 1
        <5>1. pcList'[n].file = pcr[line].file /\ line < line + 1 BY <1>n, <3>1, <4>2
        <5> QED BY <2>3, <5>1
      <4> QED BY <1>l, <3>1, <4>1, <4>2
    <3>3. FromPcr'
      <4>1. ASSUME NEW n \in 1 .. Len(pcList)
            PROVE  pcList[n].file # pcr[line].file
        <5>1. PICK m \in 1 .. Len(pcr) : m < line /\ pcList[n].file = pcr[m].file
          BY <2>2 DEF Before
        <5> QED BY <2>3, <2>4, <5>1
      <4>2. pcList'[Len(pcList) + 1].file = pcr[line].file BY <3>1
      <4> SUFFICES ASSUME NEW m \in 1 .. Len(pcList'), NEW n \in 1 .. Len(pcList'),
                          pcList'[m].file = pcList'[n].file
                   PROVE  m = n
        BY DEF FromPcr
      <4>3. /\ m \in 1 .. Len(pcList) \/ m = Len(pcList) + 1
            /\ n \in 1 .. Len(pcList) \/ n = Len(pcList) + 1
        BY <1>l, <3>1
      <4> QED BY <2>2, <3>1, <4>1, <4>2, <4>3 DEF FromPcr
    <3> QED BY <2>1, <2>2, <3>2, <3>3 DEF PcsOK
  <2> QED BY <2>1, <2>5, <2>6
<1>6. CASE EndClean
  BY <1>6 DEF EndClean, PcsOK, FromPcr
<1>13. CASE CleanDies
  BY <1>13 DEF CleanDies, PcsOK, FromPcr
<1>7. CASE Sed
  <2>1. /\ Len(flist') = Len(pcList)
        /\ \A n \in 1 .. Len(pcList) : flist'[n] = pcList[n].file
    BY <1>7, <1>l DEF Sed, FilesOf
  <2>2. pcList' = pcList /\ applied' = "listed" /\ tool' = "idle" BY <1>7 DEF Sed, Stop
  <2> QED BY <2>1, <2>2 DEF PcsOK, FromPcr
<1>8. CASE ApplyTrue \/ WritePc
  <2> DEFINE f == pcList[line].file
  <2>1. /\ line \in 1 .. Len(pcList) /\ tool \in {"apply", "write"} /\ tool' = "apply"
        /\ UNCHANGED <<lists, applied>> /\ line' = line + 1
    BY <1>8, <1>l, <1>n DEF ApplyTrue, WritePc, More, TypeOK
  <2>2. f \in File BY <1>l, <2>1 DEF Listed
  <2>3. /\ \A g \in File \ {f} : disk'[g] = disk[g]
        /\ \/ disk'[f] = NoFile /\ pcList[line].cond = Config
           \/ disk'[f] = Written(pcList[line].cond)
    BY <1>8, <2>2 DEF ApplyTrue, WritePc, TypeOK
  <2>c. (IF disk'[f].is = "absent" THEN Config ELSE disk'[f].cond) = pcList[line].cond
    BY <2>3 DEF NoFile, Written
  <2>4. OnDisk(line - 1) /\ FromPcr /\ applied # "applied" BY <2>1 DEF PcsOK
  <2>5. ASSUME NEW k \in 1 .. Len(pcList), k <= line
        PROVE  Condition(pcList[k].file)' = pcList[k].cond
    <3>1. CASE k = line BY <2>1, <2>c, <3>1 DEF Condition
    <3>2. CASE k # line
      <4>1. pcList[k].file # f BY <2>1, <2>4, <3>2 DEF FromPcr
      <4>2. pcList[k].file \in File BY <1>l DEF Listed
      <4>3. Condition(pcList[k].file)' = Condition(pcList[k].file)
        BY <2>1, <2>3, <4>1, <4>2 DEF Condition
      <4>4. k <= line - 1 BY <1>n, <2>5, <3>2
      <4> QED BY <2>4, <4>3, <4>4 DEF OnDisk
    <3> QED BY <3>1, <3>2
  <2>6. OnDisk(line - 1)'
    <3>1. line' - 1 = line BY <1>n, <2>1
    <3> QED BY <2>1, <2>5, <3>1 DEF OnDisk
  <2> QED BY <2>1, <2>4, <2>6 DEF PcsOK, FromPcr
<1>9. CASE CreatePc
  <2> DEFINE f == pcList[line].file
  <2>1. /\ line \in 1 .. Len(pcList) /\ tool = "apply" /\ tool' = "write"
        /\ UNCHANGED <<lists, applied, line>>
    BY <1>9, <1>l, <1>n DEF CreatePc, More
  <2>2. f \in File BY <1>l, <2>1 DEF Listed
  <2>3. \A g \in File \ {f} : disk'[g] = disk[g] BY <1>9, <2>2 DEF CreatePc, TypeOK
  <2>4. OnDisk(line - 1) /\ FromPcr /\ applied # "applied" BY <2>1 DEF PcsOK
  <2>5. ASSUME NEW k \in 1 .. Len(pcList), k <= line - 1
        PROVE  Condition(pcList[k].file)' = pcList[k].cond
    <3>1. k # line BY <1>n, <2>5
    <3>2. pcList[k].file # f BY <2>1, <2>4, <3>1 DEF FromPcr
    <3>3. pcList[k].file \in File BY <1>l DEF Listed
    <3>4. Condition(pcList[k].file)' = Condition(pcList[k].file)
      BY <2>1, <2>3, <3>2, <3>3 DEF Condition
    <3> QED BY <2>4, <2>5, <3>4 DEF OnDisk
  <2>6. OnDisk(line - 1)' BY <2>1, <2>5 DEF OnDisk
  <2> QED BY <2>1, <2>4, <2>6 DEF PcsOK, FromPcr
<1>10. CASE EndApply
  <2>1. /\ tool = "apply" /\ line > Len(pcList) /\ tool' = "idle" /\ UNCHANGED <<lists, disk>>
        /\ applied' # "no" => applied # "no"
    BY <1>10, <1>l, <1>n DEF EndApply, Stop, More
  <2>2. OnDisk(line - 1) BY <2>1 DEF PcsOK
  <2>3. OnDisk(Len(pcList))' BY <1>l, <1>n, <2>1, <2>2 DEF OnDisk, Condition
  <2> QED BY <2>1, <2>3 DEF PcsOK, FromPcr
<1>11. CASE Crash
  <2>1. /\ tool' = "idle" /\ UNCHANGED <<pcList, pcr, disk, applied>>
        /\ tool # "sed" => flist' = flist
    BY <1>11 DEF Crash, Stop
  <2> QED BY <2>1 DEF PcsOK, FromPcr, OnDisk, Condition
<1>12. CASE UNCHANGED vars
  BY <1>12 DEF vars, PcsOK, FromPcr, OnDisk, Condition, Before
<1> QED BY <1>1, <1>2, <1>3, <1>4, <1>5, <1>6, <1>7, <1>8, <1>9, <1>10, <1>11, <1>12, <1>13 DEF Next, Work

THEOREM PcsInvariant == Spec => [](TypeOK /\ PcsOK)
<1>1. Init => PcsOK BY DEF Init, PcsOK, FromPcr
<1>2. (TypeOK /\ PcsOK) /\ [Next]_vars => (TypeOK /\ PcsOK)' BY TypeStep, PcsStep
<1> QED BY InitType, <1>1, <1>2, PTL DEF Spec

\* Every file that is analysed has the condition of the list that named it,
\* for any lists, any .pc files left from before, any deaths.
THEOREM PcFilesCurrentHolds == Spec => []PcFilesCurrent
<1>1. TypeOK /\ PcsOK => PcFilesCurrent
  BY DEF PcsOK, PcFilesCurrent, OnDisk, TypeOK
<1> QED BY PcsInvariant, <1>1, PTL

-----------------------------------------------------------------------------
\* The list CleanFileList makes.

\* The features a complete list of a model names.
OpenOf(model) == {f \in Feature \ Untested : ~Mandatory(f, model) /\ ~Dead(f, model)}

\* Line n of KBuildMiner's list, as CleanFileList reads it.
PcOf(n) == Parse(pcr[n].expr, made.open)
Kept(n) == pcr[n].isC /\ PcOf(n).is = "condition" /\ PcOf(n).cond # {}

\* x86.pc has what the first m lines ask for, and no more.
Cleaned(m) ==
    /\ m \in 0 .. Len(pcr)
    /\ \A n \in 1 .. m : pcr[n].isC => PcOf(n).is # "exception"
    /\ \A k \in 1 .. Len(pcList) : \E n \in 1 .. m :
         Kept(n) /\ pcList[k] = [file |-> pcr[n].file, cond |-> PcOf(n).cond]
    /\ \A n \in 1 .. m : Kept(n) => \E k \in 1 .. Len(pcList) : pcList[k].file = pcr[n].file

\* CleanFileList has come to its end by itself: the list's, or an exception.
Ended == made.upto < Len(pcr) => pcr[made.upto + 1].isC /\ PcOf(made.upto + 1).is = "exception"

CleanOK ==
    /\ made.whole => made.open = OpenOf(made.basis)
    /\ tool = "clean" => openFeatures = made.open /\ Cleaned(line - 1) /\ ~made.died
    /\ tool = "sed" \/ applied # "no" => Cleaned(made.upto) /\ (made.died \/ Ended)

\* The lines that can be read.
LEMMA PcrType ==
    ASSUME TypeOK
    PROVE  /\ Len(pcr) \in Nat
           /\ \A n \in 1 .. Len(pcr) : pcr[n].file \in File /\ pcr[n].expr \in Expression
           /\ \A m, n \in 1 .. Len(pcr) : pcr[m].file = pcr[n].file => m = n
<1>1. pcr \in Seq(Line)
  <2>1. <<>> \in Seq(Line) OBVIOUS
  <2> QED BY <2>1, PreparationAssumption DEF TypeOK
<1>2. Len(pcr) \in Nat /\ \A n \in 1 .. Len(pcr) : pcr[n] \in Line BY <1>1
<1>3. \A n \in 1 .. Len(pcr) : pcr[n].file \in File /\ pcr[n].expr \in Expression
  BY <1>2 DEF Line
<1>4. pcr \in Pcrs \/ Len(pcr) = 0 BY DEF TypeOK
<1> QED BY <1>2, <1>3, <1>4, PreparationAssumption

LEMMA CleanStep == ASSUME TypeOK, FeaturesOK, PcsOK, CleanOK, [Next]_vars PROVE CleanOK'
<1> USE DEF inputs, features, lists, pcs, locals
<1>l. Len(pcList) \in Nat /\ line \in Nat \ {0} BY DEF TypeOK
<1>1. CASE StartGenPCs
  <2>1. /\ tool' = "clean" /\ applied' = "no" /\ openFeatures' = open /\ line' = 1
        /\ made'.basis = basis /\ made'.whole = whole /\ made'.open = open /\ ~made'.died
        /\ Len(pcList') = 0
    BY <1>1 DEF StartGenPCs, Start
  <2>2. whole => open = OpenOf(basis)
    BY DEF FeaturesOK, Sorted, Open, OpenOf
  <2>3. Len(pcr') \in Nat BY <1>1, PreparationAssumption DEF StartGenPCs
  <2>4. Cleaned(0)' BY <2>1, <2>3 DEF Cleaned
  <2> QED BY <2>1, <2>2, <2>4 DEF CleanOK, OpenOf
<1>2. CASE CleanLine
  <2> DEFINE pc == Parse(pcr[line].expr, openFeatures)
             new == [file |-> pcr[line].file, cond |-> pc.cond]
  <2>1. /\ tool = "clean" /\ tool' = "clean" /\ line' = line + 1 /\ line <= Len(pcr)
        /\ UNCHANGED <<pcr, made, applied, openFeatures>>
        /\ pcr[line].isC => pc.is # "exception"
        /\ pcList' = IF pcr[line].isC /\ pc.is = "condition" /\ pc.cond \intersect GivenModel # {}
                     THEN Append(pcList, new) ELSE pcList
    BY <1>2 DEF CleanLine
  <2>2. applied = "no" BY <2>1 DEF PcsOK
  <2>3. line \in 1 .. Len(pcr) /\ Len(pcr) \in Nat BY <1>l, <2>1, PcrType
  <2>r. line' - 1 = line BY <1>l, <2>1
  <2> SUFFICES Cleaned(line - 1)'
    BY <2>1, <2>2 DEF CleanOK, OpenOf
  <2>4. openFeatures = made.open /\ Cleaned(line - 1) BY <2>1 DEF CleanOK
  <2>5. pc = PcOf(line) /\ \A n : PcOf(n)' = PcOf(n) /\ (Kept(n)' <=> Kept(n))
    BY <2>1, <2>4 DEF PcOf, Kept
  <2>6. pc.cond \intersect GivenModel = pc.cond BY DEF Parse, GivenModel
  <2>7. pcList' = IF Kept(line) THEN Append(pcList, new) ELSE pcList
    BY <2>1, <2>5, <2>6 DEF Kept
  <2>8. new = [file |-> pcr[line].file, cond |-> PcOf(line).cond] BY <2>5
  <2>9. pcList \in Seq(Listed) BY DEF TypeOK
  <2> HIDE DEF pc, new
  <2>10. \A n \in 1 .. line : n \in 1 .. line - 1 \/ n = line BY <1>l
  <2>11. /\ \A n \in 1 .. line - 1 : pcr[n].isC => PcOf(n).is # "exception"
         /\ \A k \in 1 .. Len(pcList) : \E n \in 1 .. line - 1 :
              Kept(n) /\ pcList[k] = [file |-> pcr[n].file, cond |-> PcOf(n).cond]
         /\ \A n \in 1 .. line - 1 : Kept(n) => \E k \in 1 .. Len(pcList) : pcList[k].file = pcr[n].file
    BY <2>4 DEF Cleaned
  <2>12. line \in 1 .. line /\ \A n \in 1 .. line - 1 : n \in 1 .. line BY <1>l
  <2>13. \A n \in 1 .. line : pcr[n].isC => PcOf(n).is # "exception"
    BY <2>1, <2>5, <2>10, <2>11
  <2>f. ASSUME \A k \in 1 .. Len(pcList') : \E n \in 1 .. line :
                 Kept(n) /\ pcList'[k] = [file |-> pcr[n].file, cond |-> PcOf(n).cond],
               \A n \in 1 .. line : Kept(n) => \E k \in 1 .. Len(pcList') : pcList'[k].file = pcr[n].file
        PROVE  Cleaned(line - 1)'
    <3>1. line \in 0 .. Len(pcr') BY <2>1, <2>3
    <3>2. \A n \in 1 .. line : pcr'[n].isC => PcOf(n)'.is # "exception" BY <2>1, <2>5, <2>13
    <3>3. \A k \in 1 .. Len(pcList') : \E n \in 1 .. line :
            Kept(n)' /\ pcList'[k] = [file |-> pcr'[n].file, cond |-> PcOf(n)'.cond]
      BY <2>1, <2>5, <2>f
    <3>4. \A n \in 1 .. line : Kept(n)' => \E k \in 1 .. Len(pcList') : pcList'[k].file = pcr'[n].file
      BY <2>1, <2>5, <2>f
    <3> QED BY <2>r, <3>1, <3>2, <3>3, <3>4 DEF Cleaned
  <2>14. CASE ~Kept(line)
    <3>1. pcList' = pcList BY <2>7, <2>14
    <3>2. \A k \in 1 .. Len(pcList') : \E n \in 1 .. line :
            Kept(n) /\ pcList'[k] = [file |-> pcr[n].file, cond |-> PcOf(n).cond]
      BY <2>11, <2>12, <3>1
    <3>3. \A n \in 1 .. line : Kept(n) => \E k \in 1 .. Len(pcList') : pcList'[k].file = pcr[n].file
      BY <2>10, <2>11, <2>14, <3>1
    <3> QED BY <2>4, <2>f, <3>2, <3>3
  <2>15. CASE Kept(line)
    <3>1. /\ Len(pcList') = Len(pcList) + 1
          /\ \A k \in 1 .. Len(pcList) : pcList'[k] = pcList[k]
          /\ pcList'[Len(pcList) + 1] = new
      BY <1>l, <2>7, <2>9, <2>15
    <3>2. \A k \in 1 .. Len(pcList') : k \in 1 .. Len(pcList) \/ k = Len(pcList) + 1
      BY <1>l, <3>1
    <3>3. /\ \A k \in 1 .. Len(pcList) : k \in 1 .. Len(pcList')
          /\ Len(pcList) + 1 \in 1 .. Len(pcList')
      BY <1>l, <3>1
    <3>4. \A k \in 1 .. Len(pcList') : \E n \in 1 .. line :
            Kept(n) /\ pcList'[k] = [file |-> pcr[n].file, cond |-> PcOf(n).cond]
      <4> SUFFICES ASSUME NEW k \in 1 .. Len(pcList')
                   PROVE  \E n \in 1 .. line :
                            Kept(n) /\ pcList'[k] = [file |-> pcr[n].file, cond |-> PcOf(n).cond]
        OBVIOUS
      <4>1. CASE k \in 1 .. Len(pcList)
        <5>1. PICK n \in 1 .. line - 1 :
                Kept(n) /\ pcList[k] = [file |-> pcr[n].file, cond |-> PcOf(n).cond]
          BY <2>11, <4>1
        <5> QED BY <2>12, <3>1, <4>1, <5>1
      <4>2. CASE k = Len(pcList) + 1 BY <2>8, <2>12, <2>15, <3>1, <4>2
      <4> QED BY <3>2, <4>1, <4>2
    <3>5. \A n \in 1 .. line : Kept(n) => \E k \in 1 .. Len(pcList') : pcList'[k].file = pcr[n].file
      <4>1. pcList'[Len(pcList) + 1].file = pcr[line].file BY <2>8, <3>1
      <4> QED BY <2>10, <2>11, <3>1, <3>3, <4>1
    <3> QED BY <2>4, <2>f, <3>4, <3>5
  <2> QED BY <2>4, <2>14, <2>15
<1>3. CASE EndClean
  <2>1. /\ tool = "clean" /\ tool' = "sed" /\ UNCHANGED <<pcr, pcList, applied>>
        /\ made' = [made EXCEPT !.upto = line - 1]
        /\ line <= Len(pcr) => pcr[line].isC /\ Parse(pcr[line].expr, openFeatures).is = "exception"
    BY <1>3 DEF EndClean
  <2>2. applied = "no" /\ openFeatures = made.open /\ Cleaned(line - 1) BY <2>1 DEF PcsOK, CleanOK
  <2>3. /\ made'.whole = made.whole /\ made'.basis = made.basis /\ made'.open = made.open
        /\ made'.upto = line - 1
    BY <2>1 DEF TypeOK, Made
  <2>4. /\ \A n : PcOf(n)' = PcOf(n)
        /\ \A n : Kept(n)' <=> Kept(n)
    BY <2>1, <2>3 DEF Kept, PcOf
  <2>5. Cleaned(made.upto)' BY <2>1, <2>2, <2>3, <2>4 DEF Cleaned
  <2>6. Ended'
    <3>1. Len(pcr) \in Nat BY PcrType
    <3>2. line - 1 < Len(pcr) => line <= Len(pcr) BY <1>l, <3>1
    <3>3. line - 1 + 1 = line BY <1>l
    <3>4. made'.upto < Len(pcr') => line <= Len(pcr) BY <2>1, <2>3, <3>2
    <3>5. made'.upto + 1 = line BY <2>3, <3>3
    <3>6. PcOf(made.upto + 1)' = Parse(pcr[line].expr, openFeatures) BY <2>1, <2>2, <2>3, <3>5 DEF PcOf
    <3> QED BY <2>1, <3>4, <3>5, <3>6 DEF Ended
  <2>7. made'.whole => made'.open = OpenOf(made'.basis) BY <2>3 DEF CleanOK
  <2> QED BY <2>1, <2>2, <2>5, <2>6, <2>7 DEF CleanOK, OpenOf
<1>9. CASE CleanDies
  <2>1. /\ tool = "clean" /\ tool' = "sed" /\ UNCHANGED <<pcr, pcList, applied>>
        /\ made' = [made EXCEPT !.upto = line - 1, !.died = TRUE]
    BY <1>9 DEF CleanDies
  <2>2. applied = "no" /\ Cleaned(line - 1) BY <2>1 DEF PcsOK, CleanOK
  <2>3. /\ made'.whole = made.whole /\ made'.basis = made.basis /\ made'.open = made.open
        /\ made'.upto = line - 1 /\ made'.died
    BY <2>1 DEF TypeOK, Made
  <2>4. /\ \A n : PcOf(n)' = PcOf(n)
        /\ \A n : Kept(n)' <=> Kept(n)
    BY <2>1, <2>3 DEF Kept, PcOf
  <2>5. Cleaned(made.upto)' BY <2>1, <2>2, <2>3, <2>4 DEF Cleaned
  <2>7. made'.whole => made'.open = OpenOf(made'.basis) BY <2>3 DEF CleanOK
  <2> QED BY <2>1, <2>2, <2>3, <2>5, <2>7 DEF CleanOK, OpenOf
<1>s. ASSUME UNCHANGED <<pcr, pcList, made>>
      PROVE  /\ Cleaned(made.upto)' <=> Cleaned(made.upto)
             /\ Ended' <=> Ended
             /\ (made.whole => made.open = OpenOf(made.basis)) => (made.whole => made.open = OpenOf(made.basis))'
  BY <1>s DEF Cleaned, Kept, PcOf, Ended, OpenOf
<1>4. CASE Sed
  <2>1. tool = "sed" /\ tool' = "idle" /\ UNCHANGED <<pcr, pcList, made>>
    BY <1>4 DEF Sed, Stop
  <2> QED BY <2>1, <1>s DEF CleanOK
<1>5. CASE StartApplyPCs \/ EndApply
  <2>1. /\ tool \in {"idle", "apply"} /\ tool' \in {"idle", "apply"}
        /\ UNCHANGED <<pcr, pcList, made>>
        /\ applied' # "no" => applied # "no"
    BY <1>5 DEF StartApplyPCs, Start, EndApply, Stop
  <2> QED BY <2>1, <1>s DEF CleanOK
<1>6. CASE Crash
  <2>1. tool' = "idle" /\ UNCHANGED <<pcr, pcList, made, applied>> BY <1>6 DEF Crash, Stop
  <2> QED BY <2>1, <1>s DEF CleanOK
<1>7. CASE \/ StartComplete \/ CreateOpen \/ Classify \/ EndComplete
           \/ ApplyTrue \/ CreatePc \/ WritePc
  <2>1. tool' \notin {"clean", "sed"} /\ UNCHANGED <<pcr, pcList, made, applied>>
    BY <1>7 DEF StartComplete, Start, CreateOpen, Classify, EndComplete, Stop, ApplyTrue, CreatePc,
       WritePc
  <2> QED BY <2>1, <1>s DEF CleanOK
<1>8. CASE EditConf \/ UNCHANGED vars
  <2>1. UNCHANGED <<tool, pcr, pcList, made, applied, openFeatures, line>>
    BY <1>8 DEF EditConf, vars
  <2>2. Cleaned(line - 1)' <=> Cleaned(line - 1)
    BY <2>1 DEF Cleaned, Kept, PcOf
  <2> QED BY <2>1, <2>2, <1>s DEF CleanOK
<1> QED BY <1>1, <1>2, <1>3, <1>4, <1>5, <1>6, <1>7, <1>8, <1>9 DEF Next, Work

THEOREM CleanInvariant == Spec => [](TypeOK /\ FeaturesOK /\ PcsOK /\ CleanOK)
<1>1. Init => PcsOK /\ CleanOK BY DEF Init, PcsOK, FromPcr, CleanOK
<1>2. (TypeOK /\ FeaturesOK /\ PcsOK /\ CleanOK) /\ [Next]_vars
        => (TypeOK /\ FeaturesOK /\ PcsOK /\ CleanOK)'
  BY TypeStep, FeaturesStep, PcsStep, CleanStep
<1> QED BY InitType, InitFeatures, <1>1, <1>2, PTL DEF Spec

\* What CleanFileList got to is what it kept a line of or judged.
LEMMA ReachedUpto ==
    ASSUME TypeOK, Cleaned(made.upto), made.died \/ Ended, NEW n \in 1 .. Len(pcr)
    PROVE  Reached(n) <=> n <= made.upto
<1>1. Len(pcr) \in Nat /\ made.upto \in 0 .. Len(pcr) BY PcrType DEF Cleaned
<1>2. CASE made.died BY <1>2 DEF Reached
<1>3. CASE ~made.died
  <2>1. CASE n <= made.upto
    <3>1. \A m \in 1 .. n : m \in 1 .. made.upto BY <1>1, <2>1
    <3>2. \A m \in 1 .. n : pcr[m].isC => PcOf(m).is # "exception" BY <3>1 DEF Cleaned
    <3> QED BY <1>3, <2>1, <3>2 DEF Reached, PcOf
  <2>2. CASE ~(n <= made.upto)
    <3>1. made.upto < Len(pcr) /\ made.upto + 1 \in 1 .. n BY <1>1, <2>2
    <3>2. pcr[made.upto + 1].isC /\ PcOf(made.upto + 1).is = "exception" BY <1>3, <3>1 DEF Ended
    <3> QED BY <1>3, <2>2, <3>1, <3>2 DEF Reached, PcOf
  <2> QED BY <2>1, <2>2
<1> QED BY <1>2, <1>3

\* A file is analysed where its line of the list was read and kept, under the condition
\* of that line.
LEMMA AnalysedKept ==
    ASSUME TypeOK, PcsOK, CleanOK, applied = "applied",
           NEW n \in 1 .. Len(pcr), pcr[n].isC, NEW c \in Config,
           PcOf(n).is \in {"condition", "exception"}
    PROVE  Analysed(pcr[n].file, c) <=> Reached(n) /\ PcOf(n).is = "condition" /\ c \in PcOf(n).cond
<1>1. /\ Cleaned(made.upto) /\ (made.died \/ Ended) /\ PcFilesCurrent
      /\ Len(flist) = Len(pcList)
  BY DEF CleanOK, PcsOK, PcFilesCurrent, OnDisk, TypeOK
<1>2. Reached(n) <=> n <= made.upto BY <1>1, ReachedUpto
<1>3. Len(pcr) \in Nat /\ made.upto \in 0 .. Len(pcr) BY <1>1, PcrType DEF Cleaned
<1>4. \A m \in 1 .. Len(flist) :
        flist[m] = pcList[m].file /\ Condition(flist[m]) = pcList[m].cond
  BY <1>1 DEF PcFilesCurrent
<1>5. CASE n <= made.upto /\ Kept(n)
  <2>0. n \in 1 .. made.upto BY <1>3, <1>5
  <2>1. PICK k \in 1 .. Len(pcList) : pcList[k].file = pcr[n].file BY <1>1, <1>5, <2>0 DEF Cleaned
  <2>2. PICK m \in 1 .. made.upto :
          pcList[k] = [file |-> pcr[m].file, cond |-> PcOf(m).cond]
    BY <1>1 DEF Cleaned
  <2>3. m = n
    <3>1. m \in 1 .. Len(pcr) BY <1>3
    <3>2. pcr[m].file = pcr[n].file BY <2>1, <2>2
    <3> QED BY <3>1, <3>2, PcrType
  <2>4. flist[k] = pcr[n].file /\ Condition(pcr[n].file) = PcOf(n).cond
    BY <1>1, <1>4, <2>1, <2>2, <2>3
  <2>5. Analysed(pcr[n].file, c) <=> c \in PcOf(n).cond BY <1>1, <2>1, <2>4 DEF Analysed
  <2> QED BY <1>2, <1>5, <2>5 DEF Kept
<1>6. CASE ~(n <= made.upto /\ Kept(n))
  <2>1. ASSUME NEW m \in 1 .. Len(flist), flist[m] = pcr[n].file PROVE FALSE
    <3>0. PICK k \in 1 .. made.upto :
            Kept(k) /\ pcList[m] = [file |-> pcr[k].file, cond |-> PcOf(k).cond]
      BY <1>1 DEF Cleaned
    <3>1. Kept(k) /\ pcList[m].file = pcr[k].file /\ k <= made.upto BY <1>3, <3>0
    <3>2. k \in 1 .. Len(pcr) BY <1>3
    <3>3. pcr[k].file = pcr[n].file BY <1>4, <2>1, <3>1
    <3>4. k = n BY <3>2, <3>3, PcrType
    <3> QED BY <1>6, <3>1, <3>4
  <2>2. ~Analysed(pcr[n].file, c) BY <2>1 DEF Analysed
  <2>3. ~(Reached(n) /\ PcOf(n).is = "condition" /\ c \in PcOf(n).cond) BY <1>2, <1>6 DEF Kept
  <2> QED BY <2>2, <2>3
<1> QED BY <1>5, <1>6

\* A file is analysed in the configurations whose open macros compile it, if the list was
\* read as far as the file, from the feature list, finished or cut short, over
\* KBuildMiner's expressions to the .pc files; with the list of a finished run, in the
\* configurations of the model that compile it, under the conditions of Faithful.
THEOREM AnalysedAsCompiledHolds == Spec => []AnalysedAsCompiled
<1>1. TypeOK /\ PcsOK /\ CleanOK => AnalysedAsCompiled
  <2> SUFFICES ASSUME TypeOK, PcsOK, CleanOK, applied = "applied",
                      NEW n \in 1 .. Len(pcr), pcr[n].isC,
                      ~Uses(pcr[n].expr, {"isStr", "notStr", "invalid"}),
                      NEW c \in Config, Tristate(c)
               PROVE  /\ Analysed(pcr[n].file, c)
                            <=> Reached(n) /\ Compiled(pcr[n].expr, Seen(c, made.open))
                      /\ Faithful(pcr[n].expr, c) =>
                            (Analysed(pcr[n].file, c) <=> Reached(n) /\ Compiled(pcr[n].expr, c))
    BY DEF AnalysedAsCompiled
  <2> DEFINE e == pcr[n].expr
  <2>1. e \in Expression BY PcrType
  <2>2. /\ PcOf(n).is \in {"condition", "exception"}
        /\ PcOf(n).is = "condition" => (c \in PcOf(n).cond <=> Compiled(e, Seen(c, made.open)))
    BY <2>1, ParseMeansSeen DEF PcOf
  <2>3. Reached(n) => PcOf(n).is # "exception"
    <3>1. Cleaned(made.upto) /\ (made.died \/ Ended) BY DEF CleanOK
    <3>2. Reached(n) => n \in 1 .. made.upto
      <4>1. Reached(n) <=> n <= made.upto BY <3>1, ReachedUpto
      <4>2. made.upto \in Nat /\ n \in Nat /\ 1 <= n BY PcrType DEF TypeOK, Made
      <4> QED BY <4>1, <4>2
    <3> QED BY <3>1, <3>2 DEF Cleaned
  <2>4. Analysed(pcr[n].file, c)
          <=> Reached(n) /\ PcOf(n).is = "condition" /\ c \in PcOf(n).cond
    BY <2>2, AnalysedKept
  <2>5. ASSUME Faithful(e, c)
        PROVE  PcOf(n).is = "condition" => (c \in PcOf(n).cond <=> Compiled(e, c))
    <3>1. made.open = OpenOf(made.basis) /\ c \in made.basis BY <2>5 DEF CleanOK, Faithful
    <3>2. \A macro \in MacrosOf(e) : macro \in c => macro \in made.open
      BY <2>5, <3>1 DEF Faithful, OpenOf, Dead, Config
    <3>3. ModulesApart(e, c) BY <2>5 DEF Faithful
    <3> HIDE DEF e
    <3>4. Parse(e, made.open).is = "condition" => (c \in Parse(e, made.open).cond <=> Compiled(e, c))
      BY <2>1, <3>2, <3>3, ParseMeansCompiled DEF e
    <3> QED BY <3>4 DEF PcOf, e
  <2> QED BY <2>2, <2>3, <2>4, <2>5
<1> QED BY CleanInvariant, <1>1, PTL

-----------------------------------------------------------------------------
\* Termination, as far as it is a safety property.

\* What a tool has still to do: the stages after the one it is in, and the rounds
\* of that stage, two for a .pc file that is to be written.
Stages ==
    CASE tool \in {"create", "clean"} -> 2
      [] tool \in {"classify", "sed", "apply", "write"} -> 1
      [] OTHER -> 0
Rounds ==
    CASE tool = "classify" -> Cardinality(todo)
      [] tool = "clean" -> Len(pcr) + 1 - line
      [] tool = "apply" -> 2 * (Len(pcList) + 1 - line)
      [] tool = "write" -> 2 * (Len(pcList) + 1 - line) - 1
      [] OTHER -> 0
Less == Stages' < Stages \/ (Stages' = Stages /\ Rounds' < Rounds)

LEMMA LeftType ==
    ASSUME IsFiniteSet(Feature), TypeOK PROVE Stages \in Nat /\ Rounds \in Nat
<1>1. IsFiniteSet(todo) BY FS_Subset DEF TypeOK
<1>2. Cardinality(todo) \in Nat BY <1>1, FS_CardinalityType
<1>3. Len(pcr) \in Nat /\ Len(pcList) \in Nat BY PcrType DEF TypeOK
<1>4. Stages \in Nat BY DEF Stages
<1>5. Rounds \in Nat
  <2> USE DEF Rounds
  <2>0. line \in Nat BY DEF TypeOK
  <2>1. CASE tool = "classify" BY <1>2, <2>1
  <2>2. CASE tool = "clean"
    <3>1. line <= Len(pcr) + 1 BY <2>2 DEF TypeOK
    <3> QED BY <1>3, <2>0, <2>2, <3>1
  <2>3. CASE tool = "apply"
    <3>1. line <= Len(pcList) + 1 BY <2>3 DEF TypeOK
    <3> QED BY <1>3, <2>0, <2>3, <3>1
  <2>4. CASE tool = "write"
    <3>1. line <= Len(pcList) BY <2>4 DEF TypeOK
    <3> QED BY <1>3, <2>0, <2>4, <3>1
  <2> QED BY <2>1, <2>2, <2>3, <2>4
<1> QED BY <1>4, <1>5

LEMMA WorkLess == ASSUME IsFiniteSet(Feature), TypeOK, Work PROVE Less
<1> USE DEF Less, Stages, Rounds
<1>l. Len(pcr) \in Nat /\ Len(pcList) \in Nat /\ line \in Nat BY PcrType DEF TypeOK
<1>1. CASE CreateOpen
  BY <1>1 DEF CreateOpen
<1>2. CASE Classify
  <2>1. PICK f \in todo : todo' = todo \ {f} BY <1>2 DEF Classify
  <2>2. IsFiniteSet(todo) BY FS_Subset DEF TypeOK
  <2>3. Cardinality(todo') = Cardinality(todo) - 1 /\ Cardinality(todo) \in Nat
    BY <2>1, <2>2, FS_RemoveElement, FS_CardinalityType
  <2>4. tool = "classify" /\ tool' = "classify" BY <1>2 DEF Classify
  <2> QED BY <2>3, <2>4
<1>3. CASE EndComplete \/ Sed \/ EndApply
  BY <1>3 DEF EndComplete, Sed, EndApply, Stop
<1>4. CASE CleanLine
  BY <1>4, <1>l DEF CleanLine, lists
<1>5. CASE EndClean
  BY <1>5 DEF EndClean
<1>6. CASE ApplyTrue
  BY <1>6, <1>l DEF ApplyTrue, lists
<1>7. CASE CreatePc
  BY <1>7, <1>l DEF CreatePc, lists, locals
<1>8. CASE WritePc
  BY <1>8, <1>l DEF WritePc, lists
<1> QED BY <1>1, <1>2, <1>3, <1>4, <1>5, <1>6, <1>7, <1>8 DEF Work

\* A tool that runs is never sent back, whatever the user edits meanwhile and
\* whatever the other tools have left on disk: each of its steps leaves less to do,
\* and until its end nobody else touches what is left.  With the fairness of FairSpec
\* this is ToolsEnd.
THEOREM ToolsGoOn ==
  ASSUME IsFiniteSet(Feature)
  PROVE  Spec => /\ [](Stages \in Nat /\ Rounds \in Nat)
                 /\ [][tool # "idle" => Less \/ Crash \/ UNCHANGED <<Stages, Rounds>>]_vars
                 /\ [][Work => Less]_vars
<1>1. TypeOK => Stages \in Nat /\ Rounds \in Nat
  BY LeftType
<1>2. TypeOK /\ [Next]_vars =>
        [(tool # "idle" => Less \/ Crash \/ UNCHANGED <<Stages, Rounds>>) /\ (Work => Less)]_vars
  <2> SUFFICES ASSUME TypeOK, Next, tool # "idle"
               PROVE  Less \/ Crash \/ UNCHANGED <<Stages, Rounds>>
    BY WorkLess
  <2>1. CASE Work BY <2>1, WorkLess
  <2>2. CASE EditConf
    BY <2>2 DEF EditConf, lists, locals, Stages, Rounds
  <2>3. CASE CleanDies
    BY <2>3 DEF CleanDies, Less, Stages
  <2> QED
    BY <2>1, <2>2, <2>3 DEF Next, StartComplete, StartGenPCs, StartApplyPCs, Start
<1> QED BY TypeCorrect, <1>1, <1>2, PTL DEF Spec
=============================================================================
