------------------------- MODULE SetupAndRunProofs -------------------------
(***************************************************************************)
(* Proofs about SetupAndRun, for any set of jobs and any number of         *)
(* failures, kills and resubmissions.                                      *)
(***************************************************************************)
EXTENDS SetupAndRun, SequenceTheorems, TLAPS

\* A job is always at a label of the script.
LabelOK == pc \in [Job -> PC]

LEMMA LabelStep == LabelOK /\ [Next]_vars => LabelOK'
<1> SUFFICES ASSUME LabelOK, [Next]_vars PROVE LabelOK'
  OBVIOUS
<1> USE DEF LabelOK, Goto, PC, SetupPC
<1>1. ASSUME NEW j \in Job, Step(j) PROVE LabelOK'
  BY <1>1 DEF Step, EnterStudy, TakeLock, FindLock, CloneTypeChef, BuildTypeChef,
              CloneAnalysis, Prepare, TouchDone, EndWait, RunTypeChef
<1>2. ASSUME NEW j \in Job, Die(j) \/ Resubmit(j) PROVE LabelOK'
  BY <1>2 DEF Die, Resubmit
<1>3. CASE UNCHANGED vars
  BY <1>3 DEF vars, jobVars
<1>4. QED
  BY <1>1, <1>2, <1>3 DEF Next

\* What makes OneLeader inductive: before setup.init exists nobody leads.
LeaderOK == OneLeader /\ (~locked => leaders = {})

\* Every action preserves LeaderOK; only TakeLock adds a leader.
LEMMA LeaderStep == LabelOK /\ LeaderOK /\ [Next]_vars => LeaderOK'
<1> SUFFICES ASSUME LabelOK, LeaderOK, [Next]_vars PROVE LeaderOK'
  OBVIOUS
<1> USE DEF LabelOK, LeaderOK, OneLeader, SetupPC, PC, Goto, treeVars, budgetVars
<1>1. ASSUME NEW j \in Job, TakeLock(j) PROVE LeaderOK'
  BY <1>1 DEF TakeLock
<1>2. ASSUME NEW j \in Job, EnterStudy(j) \/ FindLock(j) \/ EndWait(j) \/ RunTypeChef(j)
      PROVE  LeaderOK'
  BY <1>2 DEF EnterStudy, FindLock, EndWait, RunTypeChef
<1>3. ASSUME NEW j \in Job, CloneTypeChef(j) \/ BuildTypeChef(j) \/ CloneAnalysis(j)
                            \/ Prepare(j) \/ TouchDone(j)
      PROVE  LeaderOK'
  BY <1>3 DEF CloneTypeChef, BuildTypeChef, CloneAnalysis, Prepare, TouchDone
<1>4. ASSUME NEW j \in Job, Die(j) \/ Resubmit(j) PROVE LeaderOK'
  BY <1>4 DEF Die, Resubmit
<1>5. CASE UNCHANGED vars
  BY <1>5 DEF vars, jobVars
<1>6. QED
  BY <1>1, <1>2, <1>3, <1>4, <1>5 DEF Next, Step

\* The setup is run once, by one job, whatever fails, dies or comes back.
THEOREM OneLeaderHolds == Spec => []OneLeader
<1>1. Init => LabelOK /\ LeaderOK
  BY DEF Init, LabelOK, LeaderOK, OneLeader, PC, SetupPC
<1>2. LeaderOK => OneLeader
  BY DEF LeaderOK
<1>3. QED
  BY <1>1, <1>2, LabelStep, LeaderStep, PTL DEF Spec

-----------------------------------------------------------------------------
\* What makes NobodyRunsDuringSetup inductive: there is no setup.done anywhere
\* before a setup or during it, and whoever runs has found one.
QuietSetupOK ==
    /\ ~locked => doneIn = {}
    /\ \A j \in Job : pc[j] \in SetupPC => doneIn = {}
    /\ \A j \in Job : pc[j] \in {"run", "ran", "failed"} => doneIn # {}

LEMMA QuietSetupStep ==
    LabelOK /\ LeaderOK /\ QuietSetupOK /\ [Next]_vars => QuietSetupOK'
<1> SUFFICES ASSUME LabelOK, LeaderOK, QuietSetupOK, [Next]_vars
             PROVE  QuietSetupOK'
  OBVIOUS
<1> USE DEF LabelOK, QuietSetupOK, SetupPC, PC, Goto, treeVars, budgetVars
<1>1. ASSUME NEW j \in Job, TouchDone(j) PROVE QuietSetupOK'
  <2>1. \A i \in Job : pc[i] \in SetupPC => i = j
    BY <1>1 DEF TouchDone, LeaderOK, OneLeader
  <2>2. locked
    BY <1>1 DEF TouchDone, LeaderOK, OneLeader
  <2>3. QED
    BY <1>1, <2>1, <2>2 DEF TouchDone
<1>2. ASSUME NEW j \in Job, EnterStudy(j) \/ TakeLock(j) \/ FindLock(j) \/ EndWait(j)
                            \/ RunTypeChef(j)
      PROVE  QuietSetupOK'
  BY <1>2 DEF EnterStudy, TakeLock, FindLock, EndWait, RunTypeChef
<1>3. ASSUME NEW j \in Job, CloneTypeChef(j) \/ BuildTypeChef(j) \/ CloneAnalysis(j)
                            \/ Prepare(j)
      PROVE  QuietSetupOK'
  BY <1>3 DEF CloneTypeChef, BuildTypeChef, CloneAnalysis, Prepare
<1>4. ASSUME NEW j \in Job, Die(j) \/ Resubmit(j) PROVE QuietSetupOK'
  BY <1>4 DEF Die, Resubmit
<1>5. CASE UNCHANGED vars
  BY <1>5 DEF vars, jobVars
<1>6. QED
  BY <1>1, <1>2, <1>3, <1>4, <1>5 DEF Next, Step

\* No job is past the wait while the setup is going on.
THEOREM NobodyRunsDuringSetupHolds == Spec => []NobodyRunsDuringSetup
<1>1. Init => LabelOK /\ LeaderOK /\ QuietSetupOK
  BY DEF Init, LabelOK, LeaderOK, OneLeader, QuietSetupOK, PC, SetupPC
<1>2. QuietSetupOK => NobodyRunsDuringSetup
  BY DEF QuietSetupOK, NobodyRunsDuringSetup
<1>3. QED
  BY <1>1, <1>2, LabelStep, LeaderStep, QuietSetupStep, PTL DEF Spec

-----------------------------------------------------------------------------
\* cd .. undoes cd into a subdirectory.
LEMMA UpAppend ==
  ASSUME NEW S, NEW d \in Seq(S), NEW n \in S
  PROVE  /\ Append(d, n) \in Seq(S)
         /\ Len(Append(d, n)) = Len(d) + 1
         /\ Up(Append(d, n)) = d
<1>1. /\ Append(d, n) \in Seq(S) /\ Append(d, n) # Root
      /\ Len(Append(d, n)) = Len(d) + 1
      /\ \A i \in 1..Len(d) : Append(d, n)[i] = d[i]
  BY AppendProperties DEF Root
<1>2. SubSeq(Append(d, n), 1, Len(d)) = d
  <2> DEFINE s == SubSeq(Append(d, n), 1, Len(d))
  <2>1. \A i \in 1..Len(d) : Append(d, n)[i] \in S
    BY <1>1
  <2>2. /\ s \in Seq(S)
        /\ Len(s) = IF 1 <= Len(d) THEN Len(d) - 1 + 1 ELSE 0
        /\ \A i \in 1..(Len(d) - 1 + 1) : s[i] = Append(d, n)[1 + i - 1]
    BY <2>1, SubSeqProperties, 1 \in Int, Len(d) \in Int
  <2> HIDE DEF s
  <2>3. Len(s) = Len(d) /\ \A i \in 1..Len(s) : s[i] = d[i]
    BY <1>1, <2>2
  <2>4. s = d
    BY <2>2, <2>3, SeqEqual
  <2>5. QED
    BY <2>4 DEF s
<1>3. QED
  BY <1>1, <1>2 DEF Up

\* Where the cds of the script lead.
LEMMA Places ==
  /\ Up(TypeChef(Study)) = Study /\ Up(Study) = Home
  /\ Up(Up(Linux26333(Study))) = Study /\ Up(Up(Linux26333(Home))) = Home
  /\ Up(Up(Home)) = Root /\ Up(Up(Study)) = Local
  /\ Study \notin {Home, Local, Root, TypeChef(Study)}
<1>0. ASSUME NEW d \in Seq(Name), NEW n \in Name
      PROVE  /\ Append(d, n) \in Seq(Name) /\ Len(Append(d, n)) = Len(d) + 1
             /\ Up(Append(d, n)) = d
  BY UpAppend
<1>n. /\ "local" \in Name /\ "janker" \in Name /\ "linux" \in Name
      /\ "TypeChef" \in Name /\ "TypeChef-LinuxAnalysis" \in Name
      /\ "linux26333" \in Name
  BY DEF Name
<1>1. Root \in Seq(Name) /\ Len(Root) = 0
  BY DEF Root
<1>2. Local \in Seq(Name) /\ Len(Local) = 1 /\ Up(Local) = Root
  <2>1. Local \in Seq(Name) /\ Len(Local) = Len(Root) + 1 /\ Up(Local) = Root
    BY <1>0, <1>n, <1>1, Zenon DEF Local
  <2>2. QED
    BY <1>1, <2>1
<1>3. Home \in Seq(Name) /\ Len(Home) = 2 /\ Up(Home) = Local
  <2>1. Home \in Seq(Name) /\ Len(Home) = Len(Local) + 1 /\ Up(Home) = Local
    BY <1>0, <1>n, <1>2, Zenon DEF Home
  <2>2. QED
    BY <1>2, <2>1
<1>4. Study \in Seq(Name) /\ Len(Study) = 3 /\ Up(Study) = Home
  <2>1. Study \in Seq(Name) /\ Len(Study) = Len(Home) + 1 /\ Up(Study) = Home
    BY <1>0, <1>n, <1>3, Zenon DEF Study
  <2>2. QED
    BY <1>3, <2>1
<1>5. Len(TypeChef(Study)) = 4 /\ Up(TypeChef(Study)) = Study
  <2>1. Len(TypeChef(Study)) = Len(Study) + 1 /\ Up(TypeChef(Study)) = Study
    BY <1>0, <1>n, <1>4, Zenon DEF TypeChef
  <2>2. QED
    BY <1>4, <2>1
<1>6. ASSUME NEW d \in Seq(Name) PROVE Up(Up(Linux26333(d))) = d
  <2>1. Analysis(d) \in Seq(Name) /\ Up(Analysis(d)) = d
    BY <1>0, <1>n DEF Analysis
  <2>2. QED
    BY <1>0, <1>n, <2>1 DEF Linux26333
<1>7. Study \notin {Home, Local, Root, TypeChef(Study)}
  BY <1>1, <1>2, <1>3, <1>4, <1>5
<1>8. QED
  BY <1>2, <1>3, <1>4, <1>5, <1>6, <1>7

\* What makes DoneMeansCloned inductive: the directory the setup is in at
\* each label tells which clones succeeded.
PlaceOK ==
    /\ cwd = [j \in Job |-> cwd[j]]
    /\ DoneMeansCloned
    /\ \A j \in Job :
        /\ pc[j] \in {"lock", "clone1"} => cwd[j] = Study
        /\ pc[j] = "build" =>
              cwd[j] = Study \/ (cwd[j] = TypeChef(Study) /\ TypeChef(Study) \in dirs)
        /\ pc[j] = "clone2" =>
              cwd[j] = Home \/ (cwd[j] = Study /\ TypeChef(Study) \in dirs)
        /\ pc[j] = "prepare" =>
              \/ cwd[j] \in {Study, Home, Linux26333(Home)}
              \/ cwd[j] = Linux26333(Study) /\ Cloned
        /\ pc[j] = "touch" =>
              \/ cwd[j] \in {Local, Root, Home}
              \/ Cloned

LEMMA PlaceStep == LabelOK /\ PlaceOK /\ [Next]_vars => PlaceOK'
<1> SUFFICES ASSUME LabelOK, PlaceOK, [Next]_vars PROVE PlaceOK'
  OBVIOUS
<1> USE DEF LabelOK, Goto, Cd, MayFail, Cloned, treeVars, budgetVars
<1>p. dirs \subseteq dirs'
  BY DEF Next, Step, EnterStudy, TakeLock, FindLock, CloneTypeChef, BuildTypeChef,
         CloneAnalysis, Prepare, TouchDone, EndWait, RunTypeChef, Die, Resubmit, vars
<1>1. ASSUME NEW j \in Job, EnterStudy(j) PROVE PlaceOK'
  BY <1>1 DEF EnterStudy, PlaceOK, DoneMeansCloned
<1>2. ASSUME NEW j \in Job, TakeLock(j) \/ FindLock(j) \/ RunTypeChef(j) PROVE PlaceOK'
  BY <1>2 DEF TakeLock, FindLock, RunTypeChef, PlaceOK, DoneMeansCloned
<1>3. ASSUME NEW j \in Job, CloneTypeChef(j) PROVE PlaceOK'
  BY <1>3, <1>p DEF CloneTypeChef, PlaceOK, DoneMeansCloned
<1>4. ASSUME NEW j \in Job, BuildTypeChef(j) PROVE PlaceOK'
  BY <1>4, Places DEF BuildTypeChef, PlaceOK, DoneMeansCloned
<1>5. ASSUME NEW j \in Job, CloneAnalysis(j) PROVE PlaceOK'
  BY <1>5, <1>p DEF CloneAnalysis, PlaceOK, DoneMeansCloned
<1>6. ASSUME NEW j \in Job, Prepare(j) PROVE PlaceOK'
  BY <1>6, Places DEF Prepare, PlaceOK, DoneMeansCloned
<1>7. ASSUME NEW j \in Job, TouchDone(j) PROVE PlaceOK'
  BY <1>7, Places DEF TouchDone, PlaceOK, DoneMeansCloned
<1>8. ASSUME NEW j \in Job, EndWait(j) PROVE PlaceOK'
  BY <1>8 DEF EndWait, PlaceOK, DoneMeansCloned
<1>9. ASSUME NEW j \in Job, Die(j) \/ Resubmit(j) PROVE PlaceOK'
  BY <1>9 DEF Die, Resubmit, PlaceOK, DoneMeansCloned
<1>10. CASE UNCHANGED vars
  BY <1>10 DEF vars, jobVars, PlaceOK, DoneMeansCloned
<1>11. QED
  BY <1>1, <1>2, <1>3, <1>4, <1>5, <1>6, <1>7, <1>8, <1>9, <1>10 DEF Next, Step

\* setup.done where the jobs look for it means that both clones succeeded.
THEOREM DoneMeansClonedHolds == Spec => []DoneMeansCloned
<1>1. Init => LabelOK /\ PlaceOK
  BY DEF Init, LabelOK, PlaceOK, DoneMeansCloned, Cloned, PC
<1>2. PlaceOK => DoneMeansCloned
  BY DEF PlaceOK
<1>3. QED
  BY <1>1, <1>2, LabelStep, PlaceStep, PTL DEF Spec

-----------------------------------------------------------------------------
\* What makes TypeOK inductive: cd .. never leaves the tree, as every directory
\* that is made is made in an existing one, and /local/janker stays.
TreeOK == TypeOK /\ Home \in dirs /\ \A d \in dirs : Up(d) \in dirs

\* The directories the script makes, seen from the one it is in.
LEMMA Made ==
  ASSUME NEW d \in Seq(Name)
  PROVE  /\ TypeChef(d) \in Seq(Name) /\ Up(TypeChef(d)) = d
         /\ Analysis(d) \in Seq(Name) /\ Up(Analysis(d)) = d
         /\ Linux26333(d) \in Seq(Name) /\ Up(Linux26333(d)) = Analysis(d)
<1>1. ASSUME NEW e \in Seq(Name), NEW n \in Name
      PROVE  Append(e, n) \in Seq(Name) /\ Up(Append(e, n)) = e
  BY UpAppend
<1>2. "TypeChef" \in Name /\ "TypeChef-LinuxAnalysis" \in Name /\ "linux26333" \in Name
  BY DEF Name
<1>3. TypeChef(d) \in Seq(Name) /\ Up(TypeChef(d)) = d
  BY <1>1, <1>2 DEF TypeChef
<1>4. Analysis(d) \in Seq(Name) /\ Up(Analysis(d)) = d
  BY <1>1, <1>2 DEF Analysis
<1>5. Linux26333(d) \in Seq(Name) /\ Up(Linux26333(d)) = Analysis(d)
  BY <1>1, <1>2, <1>4 DEF Linux26333
<1> QED BY <1>3, <1>4, <1>5

\* The directories that exist at the start, and the one that is made first.
LEMMA FirstDirs ==
  /\ {Root, Local, Home, Study} \subseteq Seq(Name)
  /\ Up(Root) = Root /\ Up(Local) = Root /\ Up(Home) = Local /\ Up(Study) = Home
<1>1. ASSUME NEW e \in Seq(Name), NEW n \in Name
      PROVE  Append(e, n) \in Seq(Name) /\ Up(Append(e, n)) = e
  BY UpAppend
<1>2. "local" \in Name /\ "janker" \in Name /\ "linux" \in Name
  BY DEF Name
<1>3. Root \in Seq(Name) /\ Up(Root) = Root
  BY DEF Root, Up
<1>4. Local \in Seq(Name) /\ Up(Local) = Root
  BY <1>1, <1>2, <1>3 DEF Local
<1>5. Home \in Seq(Name) /\ Up(Home) = Local
  BY <1>1, <1>2, <1>4 DEF Home
<1>6. Study \in Seq(Name) /\ Up(Study) = Home
  BY <1>1, <1>2, <1>5 DEF Study
<1> QED BY <1>3, <1>4, <1>5, <1>6

LEMMA TreeStep == LabelOK /\ TreeOK /\ [Next]_vars => TreeOK'
<1> SUFFICES ASSUME LabelOK, TreeOK, [Next]_vars PROVE TreeOK'
  OBVIOUS
<1> USE DEF Goto, treeVars, budgetVars
<1>t. pc' \in [Job -> PC]
  BY LabelStep DEF LabelOK
<1>c. ASSUME NEW j \in Job
      PROVE  cwd[j] \in dirs /\ cwd[j] \in Seq(Name) /\ Up(cwd[j]) \in dirs
  BY DEF TreeOK, TypeOK
<1>1. ASSUME NEW j \in Job, EnterStudy(j) PROVE TreeOK'
  BY <1>1, <1>t, <1>c, FirstDirs DEF EnterStudy, Cd, TreeOK, TypeOK
<1>2. ASSUME NEW j \in Job, TakeLock(j) \/ FindLock(j) \/ RunTypeChef(j) PROVE TreeOK'
  BY <1>2, <1>t DEF TakeLock, FindLock, RunTypeChef, TreeOK, TypeOK
<1>3. ASSUME NEW j \in Job, CloneTypeChef(j) PROVE TreeOK'
  <2>1. TypeChef(cwd[j]) \in Seq(Name) /\ Up(TypeChef(cwd[j])) = cwd[j]
    BY <1>c, Made
  <2>2. dirs' = dirs \/ dirs' = dirs \union {TypeChef(cwd[j])}
    BY <1>3 DEF CloneTypeChef
  <2>3. Home \in dirs' /\ dirs' \subseteq Seq(Name) /\ dirs \subseteq dirs'
        /\ \A d \in dirs' : Up(d) \in dirs'
    BY <1>c, <2>1, <2>2 DEF TreeOK, TypeOK
  <2>4. cwd' \in [Job -> dirs'] /\ fails' \in Nat
    BY <1>3, <2>3 DEF CloneTypeChef, Cd, MayFail, TreeOK, TypeOK
  <2> QED BY <1>3, <1>t, <2>3, <2>4 DEF CloneTypeChef, TreeOK, TypeOK
<1>4. ASSUME NEW j \in Job, BuildTypeChef(j) PROVE TreeOK'
  <2>1. fails' \in Nat /\ built' \subseteq dirs
    BY <1>4, <1>c DEF BuildTypeChef, MayFail, TreeOK, TypeOK
  <2>2. cwd' \in [Job -> dirs]
    BY <1>4, <1>c DEF BuildTypeChef, TreeOK, TypeOK
  <2> QED BY <1>4, <1>t, <2>1, <2>2 DEF BuildTypeChef, TreeOK, TypeOK
<1>5. ASSUME NEW j \in Job, CloneAnalysis(j) PROVE TreeOK'
  <2>1. /\ Analysis(cwd[j]) \in Seq(Name) /\ Up(Analysis(cwd[j])) = cwd[j]
        /\ Linux26333(cwd[j]) \in Seq(Name)
        /\ Up(Linux26333(cwd[j])) = Analysis(cwd[j])
    BY <1>c, Made
  <2>2. dirs' = dirs \/ dirs' = dirs \union {Analysis(cwd[j]), Linux26333(cwd[j])}
    BY <1>5 DEF CloneAnalysis
  <2>3. Home \in dirs' /\ dirs' \subseteq Seq(Name) /\ dirs \subseteq dirs'
        /\ \A d \in dirs' : Up(d) \in dirs'
    BY <1>c, <2>1, <2>2 DEF TreeOK, TypeOK
  <2>4. cwd' \in [Job -> dirs'] /\ fails' \in Nat
    BY <1>5, <2>3 DEF CloneAnalysis, Cd, MayFail, TreeOK, TypeOK
  <2> QED BY <1>5, <1>t, <2>3, <2>4 DEF CloneAnalysis, TreeOK, TypeOK
<1>6. ASSUME NEW j \in Job, Prepare(j) PROVE TreeOK'
  <2>1. fails' \in Nat /\ prepared' \subseteq dirs
    BY <1>6, <1>c DEF Prepare, MayFail, TreeOK, TypeOK
  <2>2. Up(Up(cwd[j])) \in dirs
    BY <1>c DEF TreeOK
  <2>3. cwd' \in [Job -> dirs]
    BY <1>6, <2>2 DEF Prepare, TreeOK, TypeOK
  <2> QED BY <1>6, <1>t, <2>1, <2>3 DEF Prepare, TreeOK, TypeOK
<1>7. ASSUME NEW j \in Job, TouchDone(j) PROVE TreeOK'
  BY <1>7, <1>t, <1>c DEF TouchDone, TreeOK, TypeOK
<1>8. ASSUME NEW j \in Job, EndWait(j) PROVE TreeOK'
  BY <1>8, <1>t DEF EndWait, Cd, TreeOK, TypeOK
<1>9. ASSUME NEW j \in Job, Die(j) \/ Resubmit(j) PROVE TreeOK'
  <2>1. deaths' \in Nat /\ restarts' \in Nat
    BY <1>9 DEF Die, Resubmit, TreeOK, TypeOK
  <2>2. cwd' \in [Job -> dirs]
    BY <1>9 DEF Die, Resubmit, TreeOK, TypeOK
  <2> QED BY <1>9, <1>t, <2>1, <2>2 DEF Die, Resubmit, TreeOK, TypeOK
<1>10. CASE UNCHANGED vars
  BY <1>10, <1>t DEF vars, jobVars, TreeOK, TypeOK
<1>11. QED
  BY <1>1, <1>2, <1>3, <1>4, <1>5, <1>6, <1>7, <1>8, <1>9, <1>10 DEF Next, Step

LEMMA FirstTree == Init => TreeOK
<1> SUFFICES ASSUME Init PROVE TreeOK
  OBVIOUS
<1>1. Home \in dirs /\ dirs \subseteq Seq(Name) /\ \A d \in dirs : Up(d) \in dirs
  BY FirstDirs DEF Init
<1>2. cwd \in [Job -> dirs] /\ pc \in [Job -> PC]
  BY <1>1 DEF Init, PC
<1> QED BY <1>1, <1>2 DEF Init, TreeOK, TypeOK

\* The script is always in a directory that exists, wherever failed commands
\* and their cd .. have taken it.
THEOREM TypeCorrect == Spec => []TypeOK
<1>1. Init => LabelOK
  BY DEF Init, LabelOK, PC
<1>2. Init => TreeOK
  BY FirstTree
<1>3. TreeOK => TypeOK
  BY DEF TreeOK
<1>4. QED
  BY <1>1, <1>2, <1>3, LabelStep, TreeStep, PTL DEF Spec

-----------------------------------------------------------------------------
\* The two clones are made in different directories, none of which is there when the
\* first job enters Study; nor does a clone made in Home make them.
LEMMA Apart ==
  /\ TypeChef(Study) \notin {Analysis(Study), Linux26333(Study)}
  /\ {TypeChef(Study), Analysis(Study), Linux26333(Study)} \cap {Root, Local, Home, Study} = {}
  /\ Linux26333(Study) \notin {Analysis(Home), Linux26333(Home)}
<1>1. ASSUME NEW e \in Seq(Name), NEW n \in Name
      PROVE  /\ Append(e, n) \in Seq(Name) /\ Len(Append(e, n)) = Len(e) + 1
             /\ Append(e, n)[Len(e) + 1] = n
  BY AppendProperties
<1>2. /\ "local" \in Name /\ "janker" \in Name /\ "linux" \in Name
      /\ "TypeChef" \in Name /\ "TypeChef-LinuxAnalysis" \in Name
      /\ "linux26333" \in Name /\ {Root, Local, Home, Study} \subseteq Seq(Name)
  BY FirstDirs DEF Name
<1>3. Len(Root) = 0 /\ Len(Local) = 1 /\ Len(Home) = 2 /\ Len(Study) = 3
  <2>1. Len(Root) = 0
    BY DEF Root
  <2>2. Len(Local) = Len(Root) + 1
    BY <1>1, <1>2, Zenon DEF Local
  <2>3. Len(Home) = Len(Local) + 1
    BY <1>1, <1>2, Zenon DEF Home
  <2>4. Len(Study) = Len(Home) + 1
    BY <1>1, <1>2, Zenon DEF Study
  <2> QED BY <2>1, <2>2, <2>3, <2>4
<1>4. ASSUME NEW d \in Seq(Name)
      PROVE  /\ Len(TypeChef(d)) = Len(d) + 1 /\ TypeChef(d)[Len(d) + 1] = "TypeChef"
             /\ Len(Analysis(d)) = Len(d) + 1
             /\ Analysis(d)[Len(d) + 1] = "TypeChef-LinuxAnalysis"
             /\ Len(Linux26333(d)) = Len(d) + 2
  <2>1. Len(TypeChef(d)) = Len(d) + 1 /\ TypeChef(d)[Len(d) + 1] = "TypeChef"
    BY <1>1, <1>2 DEF TypeChef
  <2>2. /\ Analysis(d) \in Seq(Name) /\ Len(Analysis(d)) = Len(d) + 1
        /\ Analysis(d)[Len(d) + 1] = "TypeChef-LinuxAnalysis"
    BY <1>1, <1>2 DEF Analysis
  <2>3. Len(Linux26333(d)) = Len(Analysis(d)) + 1
    BY <1>1, <1>2, <2>2 DEF Linux26333
  <2>4. Len(d) \in Nat
    BY LenProperties
  <2> QED BY <2>1, <2>2, <2>3, <2>4
<1>5. /\ Len(TypeChef(Study)) = 4 /\ TypeChef(Study)[4] = "TypeChef"
      /\ Len(Analysis(Study)) = 4 /\ Analysis(Study)[4] = "TypeChef-LinuxAnalysis"
      /\ Len(Linux26333(Study)) = 5
      /\ Len(Analysis(Home)) = 3 /\ Len(Linux26333(Home)) = 4
  <2>1. Len(Study) + 1 = 4 /\ Len(Study) + 2 = 5 /\ Len(Home) + 1 = 3 /\ Len(Home) + 2 = 4
    BY <1>3
  <2> QED BY <1>2, <1>4, <2>1, Zenon
<1>6. TypeChef(Study) # Analysis(Study)
  BY <1>5
<1>7. TypeChef(Study) # Linux26333(Study)
  BY <1>5
<1>8. ASSUME NEW d \in {TypeChef(Study), Analysis(Study), Linux26333(Study)}
      PROVE  d \notin {Root, Local, Home, Study}
  <2>1. \A e \in {Root, Local, Home, Study} : Len(e) \in {0, 1, 2, 3}
    BY <1>3, Zenon
  <2>2. Len(d) \in {4, 5}
    BY <1>5, Zenon
  <2>3. {0, 1, 2, 3} \cap {4, 5} = {}
    OBVIOUS
  <2> QED BY <2>1, <2>2, <2>3, Zenon
<1>9. Linux26333(Study) # Analysis(Home) /\ Linux26333(Study) # Linux26333(Home)
  BY <1>5
<1> QED BY <1>6, <1>7, <1>8, <1>9

\* What makes ReadyUnlessFailed inductive: as long as no command has failed, the
\* directory and the tree at each label are those of a setup that works.
ReadyOK == fails = 0 =>
    /\ doneIn \subseteq {Study}
    /\ Study \in doneIn => TypeChef(Study) \in built /\ Linux26333(Study) \in prepared
    /\ ~locked => {TypeChef(Study), Analysis(Study)} \cap dirs = {}
    /\ \A j \in Job :
        /\ pc[j] = "clone1" => {TypeChef(Study), Analysis(Study)} \cap dirs = {}
        /\ pc[j] = "build" => cwd[j] = TypeChef(Study) /\ Analysis(Study) \notin dirs
        /\ pc[j] = "clone2" =>
              cwd[j] = Study /\ TypeChef(Study) \in built /\ Analysis(Study) \notin dirs
        /\ pc[j] = "prepare" => cwd[j] = Linux26333(Study) /\ TypeChef(Study) \in built
        /\ pc[j] = "touch" =>
              cwd[j] = Study /\ TypeChef(Study) \in built /\ Linux26333(Study) \in prepared
        /\ pc[j] = "wait" => cwd[j] = Study
        /\ pc[j] = "run" => cwd[j] = TypeChef(Study) /\ Study \in doneIn

SetupOK == LabelOK /\ LeaderOK /\ PlaceOK /\ TreeOK

LEMMA ReadyStep == SetupOK /\ ReadyOK /\ [Next]_vars => ReadyOK'
<1> SUFFICES ASSUME SetupOK, ReadyOK, [Next]_vars, fails' = 0 PROVE ReadyOK'
  BY DEF ReadyOK
<1>f. fails = 0 /\ fails \in Nat
  BY DEF SetupOK, TreeOK, TypeOK, Next, Step, EnterStudy, TakeLock, FindLock,
         CloneTypeChef, BuildTypeChef, CloneAnalysis, Prepare, TouchDone, EndWait,
         RunTypeChef, Die, Resubmit, vars, budgetVars, MayFail
<1>t. /\ pc \in [Job -> PC] /\ cwd \in [Job -> dirs] /\ dirs \subseteq Seq(Name)
      /\ built \subseteq dirs
  BY DEF SetupOK, TreeOK, TypeOK
<1>l. \A i, j \in Job : pc[i] \in SetupPC /\ pc[j] \in SetupPC => i = j
  BY DEF SetupOK, LeaderOK, OneLeader
<1>k. \A j \in Job : pc[j] \in SetupPC => locked
  BY DEF SetupOK, LeaderOK, OneLeader
<1>s. \A j \in Job : pc[j] \in {"lock", "clone1"} => cwd[j] = Study
  BY DEF SetupOK, PlaceOK
<1>w. Study \in Writable
  BY HomeAssumption
<1>u. /\ Up(TypeChef(Study)) = Study /\ Up(Up(Linux26333(Study))) = Study
      /\ Study \notin {Home, TypeChef(Study)}
  BY Places
<1>r. \A j \in Job : pc[j] \in SetupPC /\ cwd[j] = Linux26333(Study) => Study \in dirs
  BY <1>t, <1>u DEF SetupOK, TreeOK
<1> USE DEF Goto, PC, SetupPC, treeVars, budgetVars
<1>1. ASSUME NEW j \in Job, EnterStudy(j) PROVE ReadyOK'
  <2>1. \A d \in {TypeChef(Study), Analysis(Study)} : d \in dirs' => d \in dirs
    BY <1>1, Apart DEF EnterStudy
  <2>2. /\ pc' = [pc EXCEPT ![j] = "lock"]
        /\ \A i \in Job : i # j => cwd'[i] = cwd[i]
        /\ UNCHANGED <<locked, doneIn, built, prepared>>
    BY <1>1, <1>t DEF EnterStudy, Cd
  <2> QED BY <2>1, <2>2, <1>f, <1>t DEF ReadyOK
<1>2. ASSUME NEW j \in Job, TakeLock(j) \/ FindLock(j) PROVE ReadyOK'
  BY <1>2, <1>f, <1>t, <1>s DEF TakeLock, FindLock, ReadyOK
<1>3. ASSUME NEW j \in Job, CloneTypeChef(j) PROVE ReadyOK'
  <2>1. /\ dirs' = dirs \union {TypeChef(Study)}
        /\ cwd' = [cwd EXCEPT ![j] = TypeChef(Study)]
        /\ UNCHANGED <<locked, doneIn, built, prepared>> /\ pc[j] = "clone1"
        /\ pc' = [pc EXCEPT ![j] = "build"]
    <3>1. pc[j] = "clone1" /\ cwd[j] = Study /\ TypeChef(Study) \notin dirs
      BY <1>3, <1>f, <1>s DEF CloneTypeChef, ReadyOK
    <3>2. dirs' = dirs \union {TypeChef(cwd[j])}
      BY <1>3, <3>1, <1>f, <1>w DEF CloneTypeChef, MayFail
    <3> QED BY <1>3, <3>1, <3>2 DEF CloneTypeChef, Cd
  <2> QED BY <2>1, <1>f, <1>t, <1>l, <1>k, Apart DEF ReadyOK
<1>4. ASSUME NEW j \in Job, BuildTypeChef(j) PROVE ReadyOK'
  <2>1. /\ built' = built \union {TypeChef(Study)}
        /\ cwd' = [cwd EXCEPT ![j] = Study]
        /\ UNCHANGED <<dirs, locked, doneIn, prepared>> /\ pc[j] = "build"
        /\ pc' = [pc EXCEPT ![j] = "clone2"]
    <3>1. pc[j] = "build" /\ cwd[j] = TypeChef(Study)
      BY <1>4, <1>f DEF BuildTypeChef, ReadyOK
    <3>2. built' = built \union {cwd[j]}
      BY <1>4, <3>1, <1>f DEF BuildTypeChef, MayFail
    <3> QED BY <1>4, <3>1, <3>2, <1>u DEF BuildTypeChef
  <2> QED BY <2>1, <1>f, <1>t, <1>l, <1>k DEF ReadyOK
<1>5. ASSUME NEW j \in Job, CloneAnalysis(j) PROVE ReadyOK'
  <2>1. /\ dirs' = dirs \union {Analysis(Study), Linux26333(Study)}
        /\ cwd' = [cwd EXCEPT ![j] = Linux26333(Study)]
        /\ UNCHANGED <<locked, doneIn, built, prepared>> /\ pc[j] = "clone2"
        /\ pc' = [pc EXCEPT ![j] = "prepare"]
    <3>1. pc[j] = "clone2" /\ cwd[j] = Study /\ Analysis(Study) \notin dirs
      BY <1>5, <1>f DEF CloneAnalysis, ReadyOK
    <3>2. dirs' = dirs \union {Analysis(cwd[j]), Linux26333(cwd[j])}
      BY <1>5, <3>1, <1>f, <1>w DEF CloneAnalysis, MayFail
    <3> QED BY <1>5, <3>1, <3>2 DEF CloneAnalysis, Cd
  <2> QED BY <2>1, <1>f, <1>t, <1>l, <1>k DEF ReadyOK
<1>6. ASSUME NEW j \in Job, Prepare(j) PROVE ReadyOK'
  <2>1. /\ prepared' = prepared \union {Linux26333(Study)}
        /\ cwd' = [cwd EXCEPT ![j] = Study]
        /\ UNCHANGED <<dirs, locked, doneIn, built>> /\ pc[j] = "prepare"
        /\ pc' = [pc EXCEPT ![j] = "touch"]
    <3>1. pc[j] = "prepare" /\ cwd[j] = Linux26333(Study) /\ Study \in dirs
      BY <1>6, <1>f, <1>r DEF Prepare, ReadyOK
    <3>2. prepared' = prepared \union {cwd[j]}
      BY <1>6, <3>1, <1>f DEF Prepare, MayFail
    <3> QED BY <1>6, <3>1, <3>2, <1>u DEF Prepare
  <2> QED BY <2>1, <1>f, <1>t, <1>l, <1>k DEF ReadyOK
<1>7. ASSUME NEW j \in Job, TouchDone(j) PROVE ReadyOK'
  BY <1>7, <1>f, <1>t, <1>w DEF TouchDone, ReadyOK
<1>8. ASSUME NEW j \in Job, EndWait(j) PROVE ReadyOK'
  BY <1>8, <1>f, <1>t DEF EndWait, Cd, ReadyOK
<1>9. ASSUME NEW j \in Job, RunTypeChef(j) PROVE ReadyOK'
  BY <1>9, <1>f, <1>t DEF RunTypeChef, ReadyOK
<1>10. ASSUME NEW j \in Job, Die(j) \/ Resubmit(j) PROVE ReadyOK'
  BY <1>10, <1>f, <1>t DEF Die, Resubmit, ReadyOK
<1>11. CASE UNCHANGED vars
  BY <1>11 DEF vars, jobVars, ReadyOK
<1>12. QED
  BY <1>1, <1>2, <1>3, <1>4, <1>5, <1>6, <1>7, <1>8, <1>9, <1>10, <1>11 DEF Next, Step

LEMMA SetupInvariant == Spec => []SetupOK
<1>1. Init => LabelOK /\ LeaderOK /\ PlaceOK
  BY DEF Init, LabelOK, LeaderOK, OneLeader, PlaceOK, DoneMeansCloned, Cloned, PC, SetupPC
<1>2. Init => TreeOK
  BY FirstTree
<1>3. SetupOK <=> LabelOK /\ LeaderOK /\ PlaceOK /\ TreeOK
  BY DEF SetupOK
<1>4. QED
  BY <1>1, <1>2, <1>3, LabelStep, LeaderStep, PlaceStep, TreeStep, PTL DEF Spec

\* setup.done is made for a finished setup unless one of its commands failed.
THEOREM ReadyUnlessFailedHolds == Spec => []ReadyUnlessFailed
<1>1. Init => ReadyOK
  <2> SUFFICES ASSUME Init PROVE ReadyOK
    OBVIOUS
  <2>1. {TypeChef(Study), Analysis(Study)} \cap dirs = {}
    BY Apart DEF Init
  <2> QED BY <2>1 DEF Init, ReadyOK
<1>2. SetupOK /\ ReadyOK => ReadyUnlessFailed
  BY Places DEF SetupOK, ReadyOK, ReadyUnlessFailed, Ready
<1>3. QED
  BY <1>1, <1>2, SetupInvariant, ReadyStep, PTL DEF Spec

-----------------------------------------------------------------------------
\* What makes NobodyWaitsInVain inductive: only a setup whose second clone goes
\* right comes back to the directory in which the others wait.
VainOK ==
    /\ ~locked => Linux26333(Study) \notin dirs
    /\ \A j \in Job :
        /\ pc[j] \in {"clone1", "build", "clone2"} => Linux26333(Study) \notin dirs
        /\ pc[j] = "prepare" /\ Cloned => cwd[j] = Linux26333(Study)
        /\ pc[j] = "touch" /\ Cloned => cwd[j] = Study
        /\ pc[j] = "wait" => cwd[j] = Study \/ (j \in leaders /\ (deaths = 0 => ~Cloned))
    /\ deaths = 0 /\ Cloned =>
        Study \in doneIn \/ \E i \in Job : pc[i] \in {"prepare", "touch"}

LEMMA VainStep == SetupOK /\ VainOK /\ [Next]_vars => VainOK'
<1> SUFFICES ASSUME SetupOK, VainOK, [Next]_vars PROVE VainOK'
  OBVIOUS
<1>t. pc \in [Job -> PC] /\ cwd \in [Job -> dirs] /\ deaths \in Nat
  BY DEF SetupOK, TreeOK, TypeOK
<1>l. \A i, j \in Job : pc[i] \in SetupPC => i \in leaders /\ (j \in leaders => i = j)
  BY DEF SetupOK, LeaderOK, OneLeader
<1>k. locked \/ leaders = {}
  BY DEF SetupOK, LeaderOK
<1>p. \A j \in Job :
        /\ pc[j] \in {"lock", "clone1"} => cwd[j] = Study
        /\ pc[j] = "build" => cwd[j] \in {Study, TypeChef(Study)}
        /\ pc[j] = "clone2" => cwd[j] \in {Study, Home}
  BY DEF SetupOK, PlaceOK
<1>w. Study \in Writable
  BY HomeAssumption
<1>u. Up(Up(Linux26333(Study))) = Study
  BY Places
<1> USE DEF Goto, PC, SetupPC, treeVars, budgetVars
<1>1. ASSUME NEW j \in Job, EnterStudy(j) PROVE VainOK'
  <2>1. Linux26333(Study) \in dirs' => Linux26333(Study) \in dirs
    BY <1>1, Apart DEF EnterStudy
  <2>2. Cloned' <=> Cloned
    BY <1>1, Apart DEF EnterStudy, Cloned
  <2>3. /\ pc[j] = "start" /\ pc' = [pc EXCEPT ![j] = "lock"]
        /\ \A i \in Job : i # j => cwd'[i] = cwd[i]
        /\ UNCHANGED <<locked, doneIn, deaths, leaders>>
    BY <1>1, <1>t DEF EnterStudy, Cd
  <2> QED BY <2>1, <2>2, <2>3, <1>t DEF VainOK
<1>2. ASSUME NEW j \in Job, TakeLock(j) PROVE VainOK'
  <2>1. Cloned' <=> Cloned
    BY <1>2 DEF TakeLock, Cloned
  <2> QED BY <2>1, <1>2, <1>t DEF TakeLock, VainOK
<1>3. ASSUME NEW j \in Job, FindLock(j) PROVE VainOK'
  <2>1. Cloned' <=> Cloned
    BY <1>3 DEF FindLock, Cloned
  <2> QED BY <2>1, <1>3, <1>t, <1>p DEF FindLock, VainOK
<1>4. ASSUME NEW j \in Job, CloneTypeChef(j) PROVE VainOK'
  <2>1. pc[j] = "clone1" /\ cwd[j] = Study /\ Linux26333(Study) \notin dirs
    BY <1>4, <1>p DEF CloneTypeChef, VainOK
  <2>2. Linux26333(Study) \notin dirs' /\ ~Cloned'
    BY <1>4, <2>1, Apart DEF CloneTypeChef, Cloned
  <2>3. /\ pc' = [pc EXCEPT ![j] = "build"]
        /\ \A i \in Job : i # j => cwd'[i] = cwd[i]
        /\ leaders' = leaders /\ deaths' = deaths
    BY <1>4, <1>t DEF CloneTypeChef, Cd
  <2>4. ~Cloned
    BY <2>1 DEF Cloned
  <2> QED BY <2>1, <2>2, <2>3, <2>4, <1>t DEF VainOK
<1>5. ASSUME NEW j \in Job, BuildTypeChef(j) PROVE VainOK'
  <2>1. Linux26333(Study) \notin dirs' /\ ~Cloned' /\ ~Cloned
    BY <1>5 DEF BuildTypeChef, Cloned, VainOK
  <2>2. /\ pc[j] = "build" /\ pc' = [pc EXCEPT ![j] = "clone2"]
        /\ \A i \in Job : i # j => cwd'[i] = cwd[i]
        /\ leaders' = leaders /\ deaths' = deaths
    BY <1>5, <1>t DEF BuildTypeChef
  <2> QED BY <2>1, <2>2, <1>t DEF VainOK
<1>6. ASSUME NEW j \in Job, CloneAnalysis(j) PROVE VainOK'
  <2>1. /\ pc[j] = "clone2" /\ Linux26333(Study) \notin dirs /\ ~Cloned
        /\ cwd[j] \in {Study, Home}
    BY <1>6, <1>p DEF CloneAnalysis, Cloned, VainOK
  <2>2. Linux26333(Study) \in dirs' => cwd[j] = Study /\ cwd'[j] = Linux26333(Study)
    BY <1>6, <2>1, <1>t, Apart DEF CloneAnalysis, Cd
  <2>3. /\ pc' = [pc EXCEPT ![j] = "prepare"]
        /\ \A i \in Job : i # j => cwd'[i] = cwd[i]
        /\ leaders' = leaders /\ deaths' = deaths /\ locked' = locked
    BY <1>6, <1>t DEF CloneAnalysis, Cd
  <2>4. locked /\ \A i \in Job : pc[i] \in SetupPC \/ i \in leaders => i = j
    BY <2>1, <1>l, <1>k
  <2>5. Cloned' => Linux26333(Study) \in dirs'
    BY DEF Cloned
  <2> QED BY <2>1, <2>2, <2>3, <2>4, <2>5, <1>t DEF VainOK
<1>7. ASSUME NEW j \in Job, Prepare(j) PROVE VainOK'
  <2>1. (Cloned' <=> Cloned) /\ (Cloned => cwd'[j] = Study) /\ pc[j] = "prepare"
    BY <1>7, <1>u, <1>t DEF Prepare, Cloned, VainOK
  <2>2. /\ pc' = [pc EXCEPT ![j] = "touch"]
        /\ \A i \in Job : i # j => cwd'[i] = cwd[i]
        /\ UNCHANGED <<dirs, locked, doneIn, deaths, leaders>>
    BY <1>7, <1>t DEF Prepare
  <2> QED BY <2>1, <2>2, <1>t DEF VainOK
<1>8. ASSUME NEW j \in Job, TouchDone(j) PROVE VainOK'
  <2>1. (Cloned' <=> Cloned) /\ (Cloned => cwd[j] = Study) /\ pc[j] = "touch"
    BY <1>8 DEF TouchDone, Cloned, VainOK
  <2>2. j \in leaders
    BY <2>1, <1>l
  <2>3. Cloned => Study \in doneIn'
    BY <1>8, <2>1, <1>w DEF TouchDone
  <2> QED BY <1>8, <2>1, <2>2, <2>3, <1>t DEF TouchDone, VainOK
<1>9. ASSUME NEW j \in Job, EndWait(j) \/ RunTypeChef(j) PROVE VainOK'
  <2>1. (Cloned' <=> Cloned)
    BY <1>9 DEF EndWait, RunTypeChef, Cloned
  <2>2. /\ pc[j] \in {"wait", "run"} /\ pc'[j] \in {"run", "ran", "failed"}
        /\ \A i \in Job : i # j => cwd'[i] = cwd[i] /\ pc'[i] = pc[i]
        /\ UNCHANGED <<dirs, locked, doneIn, deaths, leaders>>
    BY <1>9, <1>t DEF EndWait, RunTypeChef, Cd
  <2> QED BY <2>1, <2>2, <1>t DEF VainOK
<1>10. ASSUME NEW j \in Job, Die(j) PROVE VainOK'
  <2>1. (Cloned' <=> Cloned) /\ deaths' # 0
    BY <1>10, <1>t DEF Die, Cloned
  <2> QED BY <1>10, <2>1, <1>t DEF Die, VainOK
<1>11. ASSUME NEW j \in Job, Resubmit(j) PROVE VainOK'
  <2>1. Cloned' <=> Cloned
    BY <1>11 DEF Resubmit, Cloned
  <2> QED BY <1>11, <2>1, <1>t DEF Resubmit, VainOK
<1>12. CASE UNCHANGED vars
  BY <1>12 DEF vars, jobVars, VainOK, Cloned
<1>13. QED
  BY <1>1, <1>2, <1>3, <1>4, <1>5, <1>6, <1>7, <1>8, <1>9, <1>10, <1>11, <1>12
     DEF Next, Step

\* Once the clones are there and nobody was killed, whoever waits waits for a
\* setup that is still going on.
THEOREM NobodyWaitsInVainHolds == Spec => []NobodyWaitsInVain
<1>1. Init => VainOK
  <2> SUFFICES ASSUME Init PROVE VainOK
    OBVIOUS
  <2>1. Linux26333(Study) \notin dirs
    BY Apart DEF Init
  <2> QED BY <2>1 DEF Init, VainOK, Cloned
<1>2. SetupOK /\ VainOK => NobodyWaitsInVain
  BY DEF VainOK, NobodyWaitsInVain, SetupPC
<1>3. QED
  BY <1>1, <1>2, SetupInvariant, VainStep, PTL DEF Spec
=============================================================================
