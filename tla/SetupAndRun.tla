---------------------------- MODULE SetupAndRun ----------------------------
(***************************************************************************)
(* linux26333/setupAndRunLinux.sh, started as many cluster jobs on one     *)
(* node.  The job whose `mkdir setup.init` succeeds clones and builds what *)
(* all of them need and touches setup.done; everybody waits for that file. *)
(* The script has no `set -e`: when a command fails the next one runs in   *)
(* whatever directory the script is in by then, so directories are paths   *)
(* here and every cd is modelled.                                          *)
(***************************************************************************)
EXTENDS Naturals, Sequences, FiniteSets

CONSTANTS
    Job,         \* the cluster jobs of one node
    Writable,    \* directories in which the user may create something
    MaxFails,    \* bound: commands that fail by themselves
    MaxDeaths,   \* bound: jobs the scheduler kills
    MaxRestarts  \* bound: jobs submitted again

\* The names in the paths the script uses.
Name == {"local", "janker", "linux", "TypeChef", "TypeChef-LinuxAnalysis", "linux26333"}
Root  == <<>>
Local == Append(Root, "local")
Home  == Append(Local, "janker")
Study == Append(Home, "linux")
TypeChef(d)   == Append(d, "TypeChef")
Analysis(d)   == Append(d, "TypeChef-LinuxAnalysis")
Linux26333(d) == Append(Analysis(d), "linux26333")
Up(d) == IF d = Root THEN Root ELSE SubSeq(d, 1, Len(d) - 1)   \* cd ..

ASSUME HomeAssumption == {Home, Study} \subseteq Writable
ASSUME BoundAssumption == {MaxFails, MaxDeaths, MaxRestarts} \subseteq Nat

VARIABLES
    pc, cwd,      \* where each job is in the script, and its directory
    dirs,         \* directories that exist
    locked,       \* setup.init exists in the study directory
    doneIn,       \* directories with a setup.done
    built,        \* TypeChef directories with a typechef.sh
    prepared,     \* linux26333 directories whose preparation succeeded
    fails, deaths, restarts,
    leaders       \* history: jobs that made setup.init

jobVars == <<pc, cwd>>
treeVars == <<dirs, locked, doneIn, built, prepared>>
budgetVars == <<fails, deaths, restarts>>
vars == <<jobVars, treeVars, budgetVars, leaders>>

SetupPC == {"clone1", "build", "clone2", "prepare", "touch"}
PC == {"start", "lock", "wait", "run", "ran", "failed", "dead"} \union SetupPC

Init ==
    /\ pc  = [j \in Job |-> "start"]
    /\ cwd = [j \in Job |-> Home]
    /\ dirs = {Root, Local, Home}
    /\ locked = FALSE
    /\ doneIn = {} /\ built = {} /\ prepared = {}
    /\ fails = 0 /\ deaths = 0 /\ restarts = 0
    /\ leaders = {}

Goto(j, label) == pc' = [pc EXCEPT ![j] = label]

\* A command of the setup: it succeeds, or it fails by itself (network, disk,
\* compiler), which nothing in the script looks at.
MayFail(ok) == \/ ok /\ fails' = fails
               \/ ~ok /\ fails < MaxFails /\ fails' = fails + 1

\* Mutant: cd goes to a directory that is not there.
Cd_Anyway(j, d, existing) == cwd' = [cwd EXCEPT ![j] = d]

\* cd d, which leaves the script where it is when d does not exist.
Cd(j, d, existing) == cwd' = [cwd EXCEPT ![j] = IF d \in existing THEN d ELSE @]

-----------------------------------------------------------------------------
\* cd /local/janker; mkdir linux; cd linux
EnterStudy(j) ==
    /\ pc[j] = "start"
    /\ dirs' = dirs \union {Study}
    /\ Cd(j, Study, dirs')
    /\ Goto(j, "lock")
    /\ UNCHANGED <<locked, doneIn, built, prepared, budgetVars, leaders>>

\* Mutant: test and creation of the lock are not one step.
TakeLock_NoTest(j) ==
    /\ pc[j] = "lock"
    /\ locked' = TRUE
    /\ leaders' = leaders \union {j}
    /\ Goto(j, "clone1")
    /\ UNCHANGED <<cwd, dirs, doneIn, built, prepared, budgetVars>>

\* if mkdir setup.init
TakeLock(j) ==
    /\ pc[j] = "lock"
    /\ ~locked
    /\ locked' = TRUE
    /\ leaders' = leaders \union {j}
    /\ Goto(j, "clone1")
    /\ UNCHANGED <<cwd, dirs, doneIn, built, prepared, budgetVars>>

FindLock(j) ==
    /\ pc[j] = "lock"
    /\ locked
    /\ Goto(j, "wait")
    /\ UNCHANGED <<cwd, treeVars, budgetVars, leaders>>

\* git clone .../TypeChef; cd TypeChef
CloneTypeChef(j) ==
    /\ pc[j] = "clone1"
    /\ \E ok \in BOOLEAN :
        /\ MayFail(ok)
        /\ dirs' = IF ok /\ cwd[j] \in Writable /\ TypeChef(cwd[j]) \notin dirs
                   THEN dirs \union {TypeChef(cwd[j])} ELSE dirs
    /\ Cd(j, TypeChef(cwd[j]), dirs')
    /\ Goto(j, "build")
    /\ UNCHANGED <<locked, doneIn, built, prepared, deaths, restarts, leaders>>

\* git checkout StaticAnalysis; java -jar sbt-launch.jar ... mkrun; cd ..
\* There is something to build only inside the clone.
BuildTypeChef(j) ==
    /\ pc[j] = "build"
    /\ \E ok \in BOOLEAN :
        /\ MayFail(ok)
        /\ built' = IF ok /\ cwd[j] = TypeChef(Study) THEN built \union {cwd[j]} ELSE built
    /\ cwd' = [cwd EXCEPT ![j] = Up(@)]
    /\ Goto(j, "clone2")
    /\ UNCHANGED <<dirs, locked, doneIn, prepared, deaths, restarts, leaders>>

\* git clone .../TypeChef-LinuxAnalysis; cd TypeChef-LinuxAnalysis/linux26333/
CloneAnalysis(j) ==
    /\ pc[j] = "clone2"
    /\ \E ok \in BOOLEAN :
        /\ MayFail(ok)
        /\ dirs' = IF ok /\ cwd[j] \in Writable /\ Analysis(cwd[j]) \notin dirs
                   THEN dirs \union {Analysis(cwd[j]), Linux26333(cwd[j])} ELSE dirs
    /\ Cd(j, Linux26333(cwd[j]), dirs')
    /\ Goto(j, "prepare")
    /\ UNCHANGED <<locked, doneIn, built, prepared, deaths, restarts, leaders>>

\* Mutant: cd ../../ only behind a successful cd.
Prepare_Cd(j) ==
    /\ pc[j] = "prepare"
    /\ prepared' = prepared /\ fails' = fails
    /\ cwd' = [cwd EXCEPT ![j] = IF @ = Linux26333(Up(Up(@))) THEN Up(Up(@)) ELSE @]
    /\ Goto(j, "touch")
    /\ UNCHANGED <<dirs, locked, doneIn, built, deaths, restarts, leaders>>

\* ./prepareLinuxTestCase.sh; cd ../../
Prepare(j) ==
    /\ pc[j] = "prepare"
    /\ \E ok \in BOOLEAN :
        /\ MayFail(ok)
        /\ prepared' = IF ok /\ cwd[j] \in {Linux26333(d) : d \in dirs}
                       THEN prepared \union {cwd[j]} ELSE prepared
    /\ cwd' = [cwd EXCEPT ![j] = Up(Up(@))]
    /\ Goto(j, "touch")
    /\ UNCHANGED <<dirs, locked, doneIn, built, deaths, restarts, leaders>>

\* Mutant: setup.done is never made.
TouchDone_Skip(j) ==
    /\ pc[j] = "touch"
    /\ Goto(j, "wait")
    /\ UNCHANGED <<cwd, treeVars, budgetVars, leaders>>

\* touch setup.done
TouchDone(j) ==
    /\ pc[j] = "touch"
    /\ doneIn' = IF cwd[j] \in Writable THEN doneIn \union {cwd[j]} ELSE doneIn
    /\ Goto(j, "wait")
    /\ UNCHANGED <<cwd, dirs, locked, built, prepared, budgetVars, leaders>>

\* Mutant: the test is the wrong way round.
EndWait_Not(j) ==
    /\ pc[j] = "wait"
    /\ cwd[j] \notin doneIn
    /\ Cd(j, TypeChef(cwd[j]), dirs)
    /\ Goto(j, "run")
    /\ UNCHANGED <<treeVars, budgetVars, leaders>>

\* while [ ! -f setup.done ]: sleeping changes nothing; then cd TypeChef
EndWait(j) ==
    /\ pc[j] = "wait"
    /\ cwd[j] \in doneIn
    /\ Cd(j, TypeChef(cwd[j]), dirs)
    /\ Goto(j, "run")
    /\ UNCHANGED <<treeVars, budgetVars, leaders>>

\* timeout 3h ./typechef.sh, which there is only in a built TypeChef
RunTypeChef(j) ==
    /\ pc[j] = "run"
    /\ Goto(j, IF cwd[j] \in built THEN "ran" ELSE "failed")
    /\ UNCHANGED <<cwd, treeVars, budgetVars, leaders>>

\* The scheduler kills the job; nothing removes setup.init.
Die(j) ==
    /\ pc[j] \notin {"ran", "failed", "dead"}
    /\ deaths < MaxDeaths
    /\ deaths' = deaths + 1
    /\ Goto(j, "dead")
    /\ UNCHANGED <<cwd, treeVars, fails, restarts, leaders>>

\* The job is submitted again; setup.init and setup.done are still there.
Resubmit(j) ==
    /\ pc[j] \in {"ran", "failed", "dead"}
    /\ restarts < MaxRestarts
    /\ restarts' = restarts + 1
    /\ Goto(j, "start")
    /\ cwd' = [cwd EXCEPT ![j] = Home]
    /\ UNCHANGED <<treeVars, fails, deaths, leaders>>

Step(j) == \/ EnterStudy(j) \/ TakeLock(j) \/ FindLock(j) \/ CloneTypeChef(j)
           \/ BuildTypeChef(j) \/ CloneAnalysis(j) \/ Prepare(j) \/ TouchDone(j)
           \/ EndWait(j) \/ RunTypeChef(j)

Next == \E j \in Job : Step(j) \/ Die(j) \/ Resubmit(j)

Spec == Init /\ [][Next]_vars

\* A job that is not killed runs on; git, sbt and prepareLinuxTestCase.sh end.
FairSpec == Spec /\ \A j \in Job : WF_vars(Step(j))

-----------------------------------------------------------------------------
\* The variables hold what their comments say, and every job is in an
\* existing directory.
TypeOK ==
    /\ pc \in [Job -> PC]
    /\ cwd \in [Job -> dirs]
    /\ dirs \subseteq Seq(Name)
    /\ locked \in BOOLEAN
    /\ doneIn \subseteq dirs /\ built \subseteq dirs /\ prepared \subseteq dirs
    /\ fails \in Nat /\ deaths \in Nat /\ restarts \in Nat
    /\ leaders \subseteq Job

\* One job at most ever sets up, and not again after it was killed and
\* submitted again: two setups would write into each other's clones.
OneLeader ==
    /\ \A i, j \in leaders : i = j
    /\ \A j \in Job : pc[j] \in SetupPC => j \in leaders

\* Nobody is past the wait while a setup is going on: setup.done appears, in
\* whatever directory, only as the last effect of the setup.
NobodyRunsDuringSetup ==
    \A i, j \in Job : pc[i] \in SetupPC => pc[j] \notin {"run", "ran", "failed"}

\* Both clones are there.
Cloned == {TypeChef(Study), Linux26333(Study)} \subseteq dirs

\* A setup.done where the other jobs look for it means that both clones are
\* there: a failed clone makes the script end up in another directory.
DoneMeansCloned == Study \in doneIn => Cloned

\* The job has gone into a built TypeChef, next to a prepared analysis.
Ready(j) == cwd[j] \in built /\ Linux26333(Up(cwd[j])) \in prepared

\* setupAndRunLinux.sh:31 "#wait until atomic setup is ready": a job that found the
\* lock, waited and found setup.done with both clones there starts TypeChef in a
\* finished setup.  VIOLATED: setup.done is made whatever became of the build and of
\* the preparation.
RunsOnReadySetup ==
    Cloned => \A j \in Job \ leaders : pc[j] = "run" => Ready(j)

\* What that comment promises is true of every job, the one that set up included, while
\* no command has failed, also when any job is killed and submitted again at any moment.
ReadyUnlessFailed == fails = 0 => \A j \in Job : pc[j] = "run" => Ready(j)

\* Once both clones are there and nobody was killed, a job that waits finds setup.done
\* where it looks, or somebody is still setting up: the directory the setup ends in
\* is the one the others wait in, whichever commands fail after the clones.
NobodyWaitsInVain ==
    deaths = 0 /\ Cloned =>
        \A j \in Job : pc[j] = "wait" =>
            cwd[j] \in doneIn \/ \E i \in Job : pc[i] \in SetupPC

\* As long as no command fails and no job is killed, every job gets to run
\* TypeChef.
EveryJobRuns ==
    \A j \in Job : pc[j] = "start" ~> (pc[j] = "ran" \/ fails + deaths > 0)

\* Nobody waits for ever once both clones are there and nobody is killed: a build or
\* a preparation that fails, in whatever order with the waiting jobs, does not keep
\* setup.done from being made where they look for it.
WaitEnds == \A j \in Job :
    (pc[j] = "wait" /\ Cloned) ~> (pc[j] # "wait" \/ deaths > 0)
=============================================================================
