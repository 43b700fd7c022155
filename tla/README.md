# Verification of the TypeChef Linux analysis

TLA+ models of TypeChef-LinuxAnalysis: the scripts that run TypeChef over a kernel
tree from several processes at once, the cluster setup they rely on, the tools that prepare
the tree (open features, presence conditions), the linker that checks the interfaces found,
the comparison of preprocessed files and the tool that judges formulas under an undertaker
feature model. TLC checks small instances; TLAPS proves every safety property they find to hold,
for all values of the constants. Paths are relative to the
repository; Scala files without a path are in `src/main/scala/de/fosd/typechef/linux/`.

## The system

The project holds no server and no library: it is a set of bash scripts and Scala mains
that talk through files of one kernel tree. Its own code is some 5000 lines; the other
99% of the repository are header copies of a distribution, generated feature models and
checked-in configurations.

| part | keeps | operations | correct when |
|---|---|---|---|
| analysis loop: `linux26333/linuxTestCase.sh`, `jcpp.sh` | `.dbg` (claim and report), `.c.xml`, `.pi`, `.interface`, `.ast` per C file | walk the list, take files without `.dbg`, run TypeChef into `tee` | no line of a report is lost, no file is left out or done twice by one instance |
| clean scripts: `cleanLinux.sh`, `cleanDbgWithoutAST.sh` | nothing | remove `.dbg` and other outputs | a removed report leads to a new analysis, no existing one is damaged |
| `SummarizeResult` | nothing | one verdict per report | the verdict is that of the tool's complete output |
| cluster setup: `setupAndRunLinux.sh` | `setup.init`, `setup.done`, two clones | lock, clone, build, prepare, release, run | one setup; nobody runs before its end; `setup.done` means a setup |
| formula checking: `CheckFeatureExpr`, `UndertakerFMParser` | clauses, known and open features | close the always-on features, slice, judge | the slice answers as the whole model does |
| linker: `LinuxLinker`, `LinuxDirLinker` | `_dir.interface`, `final.interface` | link interfaces per directory, then directories | every conflict is reported whatever the order |
| presence conditions: `ProcessPCFile`, `genPCs.sh`, `applyPCs.sh` | `.pc` files, file lists | translate KBuildMiner's list | a file's condition is the build system's |
| feature models: `featuremodel/`, `genFMs.sh` | DIMACS, approximation, partial configuration | read and conjoin | no valid configuration is excluded |
| `CompletePartialConfiguration` | `completedConf.h`, `openFeaturesList.txt` | classify every feature as mandatory, dead or open | the two files partition the features |
| `TokenStreamDiff` | two token positions | compare under conditions | "done." means equivalent streams |
| `RunConfig` | a log per task | configure and build the tasks without log | a log is a finished task |
| sampling scripts (`*sampling*.sh`, `bdd*.sh`) | outputs per task id | pick the file of a task id, run one TypeChef | every file once |
| reporters (`Stats`, `ErrorList`, ...) | nothing | count and print | - |

**Interactions.** `prepareLinuxTestCase.sh` (presence conditions, then `make` steps) runs
before the loop, under `setupAndRunLinux.sh` on a cluster. The loop calls TypeChef through
`jcpp.sh`; its reports feed `SummarizeResult` and `ErrorList`, its `.interface` files the
linker. Feature models feed the loop's options and the linker. There is no message and no
shared memory: tests, creations, truncations and removals of files are the only
communication, and nothing is locked except `setup.init`.

**Hard behaviours.** Steps of several shells between a test and the action it guards;
truncation or removal of a file that another process writes; killed jobs whose marker
files stay; `timeout 4h ... || true`, which hides a failure; scripts without `set -e`,
which go on in the wrong directory; loops over hash sets whose order decides what is
visited. `PROJECT.json` lists each at its line, with the properties that cover it.

## Modules

| module | models |
|---|---|
| `LinuxTestCase` | the analysis loop, the clean scripts, `SummarizeResult` |
| `SetupAndRun` | `setupAndRunLinux.sh` |
| `UndertakerFM` | `UndertakerFMParser` and its use by `CheckFeatureExpr` |
| `LinuxLinker` | `LinuxLinker` and `LinuxDirLinker` over the files both write |
| `FeatureModels` | the models of `featuremodel/` as sets of configurations |
| `PresenceConditions` | the grammar of `ProcessPCFile`: from options to conditions over macros |
| `Preparation` | `CompletePartialConfiguration`, `genPCs.sh`, `applyPCs.sh` over the files they share; extends the two above |
| `TokenStreamDiff` | `TokenStreamDiff` |
| `ModelPromise` | abstract specification of `UndertakerFM`: one verdict, computed from all configurations of the model |
| `LinkPromise` | abstract specification of `LinuxLinker`: messages are true, written interfaces are whole files with their clashes reported |
| `MC...` | constant values for TLC |
| `...Proofs` | theorems and proofs of the module they are named after; `LinuxLinkerEndsProofs`: termination of `LinuxLinker` |

Definitions whose comment starts with "Mutant:" are faulty variants of the definition that
follows them. They belong to no specification; each shows which property notices the fault.

### LinuxTestCase

`pc[w]` is the place of instance `w`: `loop` (138), `touch` (after the test, while
`flags()` runs), `open` (after 142), `run` (TypeChef piped into `tee`, jcpp.sh:45-48).
`claimed` is the set of files with a `.dbg`, `written[f]` the numbers of the report lines
present in it, `art[f]` the other outputs. `off[w]` and `att[w]` are the file offset of the
instance's `tee` and whether its file still has the name. This is POSIX behaviour:
a truncation by one `tee` leaves the others at their offset, so that their next line
follows a hole; a removal leaves them writing into a nameless file.

A tool prints the same lines for the same file each time (`Report[f]`), abstracted to what
`SummarizeResult` looks for. The exception is the timing line of `--recordTiming`, whose
length varies: what two writers leave behind together need not be the union of their lines,
byte for byte, and `SummaryExact` makes no claim for such reports. `killed`, `openedBy` and
`writers` are history variables; no guard reads them. `ToolKilled` is the timeout as well
as a crash; `InstanceKilled` takes the tool along, as a scheduler does with a process group.
Each `rm` and each test of the clean scripts is a step. The `.comment` files of
`SummarizeResult` change only a word of its output and are left out.

### SetupAndRun

`pc[j]` and `cwd[j]` are a job's place and directory; directories are sequences of names.
Each clone, build or preparation succeeds or fails (`MayFail`), each `cd` succeeds only if
its target exists (`Cd`), and the script goes on in any case, as there is no `set -e`.
`Writable` says where the user may create files: under `/local/janker`, and in some
instances in `/local`, where the script ends up after a failed clone. A killed job leaves
its `setup.init`. A resubmitted job starts at the top. `/local/janker` exists, and is
local to one node, so that jobs of other nodes do not appear.

### UndertakerFM

A formula is the set of configurations that satisfy it, with the features that
`collectDistinctFeatures` returns (`deps`): these include every feature the formula depends
on (`DepsAssumption`) and may include others. The actions are the loop bodies of the
constructor (197-204 `AddAlways`, 208-231 `Close`), the expressions between them, and the
loop of `sliceModel` (250-264 `Slice`); the common part of the two loops is `Visit`.
`openFeatures.head` is any open feature. The features of the conjunction in line 206 are
any set that it depends on, since the library simplifies. `pc` ends as `answered`,
`assertFailed` (203, 229), `lateAssertFailed` (238, 87) or `exception` (206, `reduce` on an
empty list). One query is one behaviour: a parser is built for each (85), so queries share
nothing. `verdictBar` maps the state to `ModelPromise`.

### LinuxLinker

`linkTreewise` is a recursion over lists of interfaces. Its call stack is explicit, so that
the proofs can speak of every list: `call` is the call that is due or the result that is
returned, `stack` the outer calls with what they still hold (the right half, or the left
result). `pc` tells whose call it is: `processDir`'s (`dirTree`), the merge of a directory
into `finalInterface` (`merge`) or that of `LinuxDirLinker` (`dirLink`). An interface is the set
of its exports, each with its file (`replacePosition`), name and condition; conditions are
sets of configurations. `getConflicts` and `link` belong to TypeChef: `Problems` and the union
of exports model them from lines 110-116. Whichever order hash maps and lists have, `Orders`
and the choice of `d` allow all. The analysis may add `.interface` files at any time
(`Analyze`), since nothing locks them. `due` and `printed` are history variables. What `link`
infers for the feature model and the imports do not take part in the messages and are left
out. `LinkPromise` has the files and the messages only, no calls, halves or stacks; `LinuxLinker`
implements it with its own variables of the same names. `Valid` differs between the two linkers (44 and 201), and `NothingLinkedSilently` says
what that leaves of `final.interface`.

### FeatureModels, PresenceConditions, Preparation

A configuration is the set of variables that are on, a model or a condition the set of
configurations it admits, so that "satisfiable", "tautology" and "and" are operations on
sets. Variables are the two macros of every option (`CONFIG_X`, `CONFIG_X_MODULE`) and what
a DIMACS file has besides (`Extra`). What a model does not have is off in all its
configurations. A model may say "X is m" in one of two ways: with `CONFIG_X_MODULE` on, as
`autoconf.h` does, or, as the comment at ProcessPCFile.scala:171-177 has it, with `CONFIG_X` and
a second variable `CONFIG_X_2` on (`Second[X]`); `Value` reads both. `PartialConf` reads the directives the way the iterator
of `LinuxFullModel` does: what comes after its first use finds it `Drained`.

An expression of KBuildMiner's list is a sequence of nodes that refer to earlier nodes;
`Parse` gives a condition (`ParseLeaf` and `Combine` are the alternatives of the grammar), an
error (`NoSuccess`) or an exception (178). `Value`, `Chosen` and `Compiled` are not code of this
repository: they are what kbuild makes of the expression, and the reference that
`AnalysedAsCompiled` compares with.

In `Preparation`, `tool` is what runs, and where: `create` lies between the creation of
the two output files of `CompletePartialConfiguration` (37, 38), `classify` is its loop,
`clean` and `sed` are the two commands of `genPCs.sh`, `apply` and `write` the loop of `GeneratePCFiles`
before and after `new PrintWriter`. Everything else is a file or a copy of one that a
running tool holds. The tools are started by hand, in any order, any number of times;
each may die at every step, and the user may edit `partialConf.h` at any time. A flushed
line is written whole. Exceptions and failures do not stop `genPCs.sh`, which has no `set -e`: after
an exception (`EndClean`) and after a death of `CleanFileList` alone (`CleanDies`) it goes on with
`sed`, while `Crash` takes the script along.
`basis`, `whole`, `made` and `applied` are history variables: which model the open-feature
list was made from, whether its run ended; for `x86.pc` the same, the open features that were
read, how many lines of KBuildMiner's list are behind it (`upto`) and whether its tool was killed
(`died`); and whether `.pc` files and `x86.flist` are of one `x86.pc`.

Two identifications are made. One model stands for `2.6.33.3-2var.dimacs` (LinuxSettings)
and `pcs/x86.dimacs`; the `openFeaturesList.txt` of `CompletePartialConfiguration` stands for the
`pcs/x86.open` that kconfigreader writes today, whose equivalent it is by its own comment (20).
Neither `.dimacs` file is in the repository. The first codes modules with two variables, by its name
and by the comment at 171-177; the checked-in `pcs/x86.open` has some 3000 `..._MODULE` names, so
that the second has the macros themselves. The instance has models of both kinds, and the theorems
hold for any.

`AnalysedAsCompiled` has two parts. The first holds for every list of open features, finished, cut
short by a death or of another model: a C file is analysed in exactly the configurations whose open
macros compile it (`Seen`: all that is not open looks off), provided that `CleanFileList` got as far
as its line (`Reached`), and in none otherwise; a line with `!= m` ends the list (178), as does a death.
The second is about the options' values in the model, and needs the conditions of `Faithful`: a finished list
and a configuration of its model; no macro in the expression that is mandatory, since these are not in
the open list and are replaced by False like dead ones, as the comment at 19-20 says ("all features
not on that list"), or that the classification skips (`Untested`); and no comparison (`==` or `!=`) of an option
that is m by its second variable (`ModulesApart`). The last is a weakness of the code, see below. Both leave out
comparisons with strings (the code says so at 184), `InvalidExpression()`, and configurations with both
macros of one option.

### TokenStreamDiff

`i` and `j` are the positions of `r` and `s`, `pc` is `loop` (38), `features` (in `compareFeatures`,
46), `text` (66) or an end. The recursion of `compareFeatures` is a tail call: each call is a
step. Tokens have a text, a sequence of atoms, so that the concatenation in the workaround
(68) means something, and a condition. `seenL` and `seenR` are history variables: what has been
left behind of each stream, per configuration; `glued` holds the configurations that have
only one of two glued tokens, for which the workaround does not look (it ignores the
second condition). The model is any of `Models`, as `LinuxExclDeadModel` makes it.

## Runs

| run | instance | shows |
|---|---|---|
| `Loop` | 2 instances, one with `--one`, 2 files, 1 kill, 1 restart, 1 clean script, fair | `NoLineLost`, `SummaryExact`, `ProductsComplete`, `DoneMeansAllClaimed`, `OpensOnce`: no schedule loses a line, an output or a file unless a writer was killed or the clean script took it; `NeverFlattered`: no cut or overlapped report, of killed writers too, gets a better verdict than the full one; `LoopTerminates`: every instance ends its walk; `RerunAfterClean`: a removed `.dbg` is taken again by the next walk |
| `LoopOverlap` | 2 instances without kills, longer reports | **violated**: see below |
| `SetupJobs` | 3 jobs, 3 failures, 1 death, 2 resubmissions, fair | `OneLeader`, `NobodyRunsDuringSetup`, `DoneMeansCloned`, `ReadyUnlessFailed` (the wait is for a finished setup as long as no command failed, whoever is killed), `NobodyWaitsInVain` (who waits has `setup.done` or a setup going on, once the clones are there and nobody was killed); `EveryJobRuns`, `WaitEnds` |
| `SetupUnready` | 3 jobs, 1 failure | **violated**: see below |
| `ModelSlice` | 3 features, 6 conditions per feature, every always-on set, 4 formulas, fair | `SliceExact`, `AssertExact`, `SliceIsLeastClosure`; `Ends`, `Promised` (implements `ModelPromise`) |
| `ModelTautology` | the same | **violated**: see below |
| `Linker` | directories of three files, one and none (excluded), 2 runs, 1 crash, fair | `NothingLinkedSilently`, `ReportsReal`, `AllLinked`: clashes are reported before they are linked, messages have clashes behind them, nothing is lost; `LinkerEnds`; `Promised` (implements `LinkPromise`) |
| `Prepare` | 2 options, 3 models (macros, two variables for a module, a dependency with a dead module), 2 partial configurations, 4 lists, 4 tool runs, 1 death, 1 edit, fair | `ListsDisjoint`, `ExclDeadExact`, `PcFilesCurrent`, `AnalysedAsCompiled`: files and conditions are what the lists read make them, and the configurations analysed those that are compiled; `ToolsEnd` |
| `PrepareUndef` | the same | **violated**: see below |
| `PrepareUnsat` | the same | **violated**: see below |
| `TokenDiff` | all streams of up to 3 and 2 tokens, 3 texts, 3 conditions, 3 models, fair | `ComparedAgree`, `AcceptsEquivalent`; `Ends` |
| `TokenDiffDone` | the same | **violated**: see below |

**Bounds.** Two instances and two files are the least where one instance overtakes another
on a file and where a truncation meets a writer; a kill leaves a cut report that the other
instance or the restarted one walks over (two deaths of writers of one report are left to
the proofs). Two lines per report allow a truncation before, between and after lines. Three jobs give a holder of the lock, a waiting
job and a late one, three failures a failure of both clones and of the build. Three
features with the conditions of `MCUndertakerFM` give chains, cycles, self reference,
contradictions and conditions that vanish by simplification. Three files are the shortest
list that is halved, into halves of one and two, and give a clash that only the comparison
of the halves can see; of the choices of exports those are taken in which both directories
export something; two runs let `LinuxDirLinker` read what a linker left that died;
`DirLimit` 2 is below the number of directories, as 50 is. Four tool runs are the chain
of three and one that goes before or between; two options, one without module, give every form of
expression, with options that are free, mandatory, dead or depend on another; one death is enough to cut any one
of the files, to end `CleanFileList` alone or to leave an open-feature list unfinished. Streams of
three and two tokens give two dead tokens in a row, a glued text with a neighbour, and an
end of either stream first. The bounds on kills, restarts,
cleans, failures, deaths, tool runs and edits are guards, named as constants; the proofs hold for every bound.

**Deadlock** is not checked: scripts and program end, and then nothing happens.

**Fairness.** An instance that is alive is scheduled, and `timeout 4h` ends a tool that does
not end by itself, hence `WF_vars(Step(w))`; kills, restarts and clean scripts are never
required. For the setup, `git`, `sbt` and the preparation are taken to end (they have no
timeout), hence `WF_vars(Step(j))`; deaths and resubmissions are not required. `UndertakerFM`
is a sequential program: `WF_vars(Next)`. A linker is one process without waits,
`WF_vars(Linker)`; that it is started, that files appear and that it dies are not required.
The same holds for the tools of `Preparation`, `WF_vars(Work)`: a tool that runs goes on,
starts, deaths and edits are not required. `TokenStreamDiff` is sequential, `WF_vars(Next)`.

### Where code and documents differ

- **`LoopOverlap`.** README.md:61-62 allows several instances, and README.md:68-69 says the
  script analyses files "that do not have a `.dbg` file yet". Test (138) and touch (142) are
  separate, and touch succeeds on an existing file: an instance that tested early truncates
  a report completed since. By `NoLineLost` and `ProductsComplete` the second analysis
  restores everything unless it is killed.
- **`SetupUnready`.** setupAndRunLinux.sh:31 says "wait until atomic setup is ready". A
  failed build or preparation is followed by `touch setup.done` as well. The run shows it with both
  clones in place: a build fails, and another job, which only waited for `setup.done` in the study
  directory, starts TypeChef. (After a failed *clone* `setup.done` may be made elsewhere; `Cloned`
  leaves that case out.) `ReadyUnlessFailed` shows that failed commands are the only cause, not deaths.
- **`ModelTautology`.** README.md:86-87 says that CheckExpr tells whether a formula is a
  tautology. Under an undertaker model line 88 asks whether *slice and formula* is one with
  no model, which it never is. `SliceExact` shows that "contradiction" is right.

- **`PrepareUndef`.** LinuxFullModel.scala:8 promises the model "including the partial
  configuration". The iterator over its lines (20) is used up by the `#define`s (24, 27), so
  that `#undef` lines have no effect: an undefined feature is classified as open.
- **`PrepareUnsat`.** ProcessPCFile.scala:15-16 promises to remove "all files with
  unsatisfiable presence conditions". `--featureModel` is stored as the open-feature list (35)
  and overwritten by `--openFeatureList`; conditions are judged without a model.
- **`X!="y"` and modules coded with two variables** (a theorem, no run). The comment at
  ProcessPCFile.scala:171-177 says that `X!="y"` "should be probably translated" otherwise, as the SAT
  solver has "X is m" as `CONFIG_X` and `CONFIG_X_2`. `ModuleTakenForBuiltIn` shows that it should: in a
  configuration coded so, the conditions of `X!="y"` and of `X=="y"` say the opposite of what the
  build does. The comment names the weakness itself, so that it is no disagreement. `AnalysedAsCompiled`
  is about everything else (`ModulesApart`): with a model that has `CONFIG_X_MODULE`, and for the plain `X`
  under either, the translation is right.
- **`TokenDiffDone`.** TokenStreamDiff.scala:11 compares whether files "have equivalent token
  streams". The loop ends with the first stream; what is left of the second is not looked at.

`ExclDeadExact` shows a further trap that no document speaks of: `LinuxExclDeadModel`
switches off every feature that is not in the open list, mandatory ones included, so that
with the list of `CompletePartialConfiguration` and one mandatory feature it has no
configuration at all.

## Proofs

All theorems but those of `PresenceConditionsProofs`, which are about the parser alone, are `Spec => ...` for every value of the constants that meets the named
assumptions of the module, for `RoundsDecrease` and `ToolsGoOn` also that there are finitely many
features (instances, list, reports and bounds have the right types;
`/local/janker` is writable; `deps` covers the features a formula depends on; the file lists of
directories are disjoint and there are finitely many files).

- **LinuxTestCaseProofs.** `TypeCorrect`, then `NoLineLostHolds`. `NoLineLost` is inductive
  with `TypeOK`, because `WillWrite` names the instance that owes a line in each place of
  the loop: in `open` every line, in `run` those from `off` on. A kill puts the file into
  `killed`, a truncation takes it out again and owes all lines. `SummaryExactHolds` follows:
  no one owes a line of a quiet file, so all are there, and a single writer leaves no hole.
  `NeverFlatteredHolds` is for the reports `SummaryExact` leaves out, and rests on what a verdict needs: the
  lines that are missing or behind a hole only ever take away from it.
  `OpensOnceHolds` needs that nobody has opened a report that is not there, and that
  whoever is about to open one has not done so since its removal (`OpenedOK`), `DoneMeansAllClaimedHolds` that everything
  before its position is claimed (`WalkOK`), `ProductsCompleteHolds` that a claimed file
  whose outputs are missing has an instance at work on it (`Owes`), but for the `.c.xml` and `.pi`
  that a clean script may remove after its `.dbg` was made again (`ProductsOK`). `WalkGoesOn`:
  each step of an instance takes it further along the list, through the places of the loop or
  through the report, and nothing but its own steps, its death and its restart moves it.
- **SetupAndRunProofs.** `TypeCorrect` needs that a script never leaves the tree: with every
  directory its parent is there, and `/local/janker` stays, whatever job cleans up (`TreeOK`).
  `OneLeaderHolds` from "no leader before `setup.init` exists" (`LeaderOK`).
  `NobodyRunsDuringSetupHolds` from "no `setup.done` anywhere before the setup's end"
  (`QuietSetupOK`). `DoneMeansClonedHolds` needs where a script is after each failed `cd`
  (`PlaceOK`): if the setup reaches `touch` in the study directory, both `cd`s succeeded.
  `ReadyUnlessFailedHolds` follows the directory and the tree through a setup without failures
  (`ReadyOK`): a clone succeeds only if its directory is not there, which holds because the lock
  outlives whoever is killed. `NobodyWaitsInVainHolds` needs that a setup whose second clone was
  made in the study directory comes back to it (`VainOK`), so that its `setup.done` is where
  the others look.
- **UndertakerFMProofs.** One inductive invariant `IInv` says for each loop what has been
  conjoined: exactly the conditions of the features known. `SliceIsLeastClosureHolds` adds
  that whatever is known or open lies in every closed set around the formula's features.
  For `SliceExactHolds` and `AssertExactHolds`, the lemma `SwitchOff` turns a configuration
  of a closed part into one of the whole model by switching everything else off; it is here
  that `DepsAssumption` is needed. `Refinement` proves the safety half of `Promised`.
  `RoundsDecrease`: each round of a loop of the constructor or of `sliceModel` leaves fewer
  rounds, and no loop is run again, if there are finitely many features.

- **LinuxLinkerProofs.** `NothingLinkedSilentlyHolds` needs that every interface on the stack,
  in the call and in the files is reported already: `CallReported` under the model of the
  linker that runs, and the resting part under the models of `NothingLinkedSilently`. The
  step is `LinkReported`: two reported interfaces give a reported union once their conflicts
  are printed. `AllLinkedHolds` follows one export from `due` through the recursion: it is in
  hand (in the call or on the stack), in `final`, or in a directory that is still to do
  (`DueOK`); `HalvesOK` says that the halves have all elements of a list of any length.
  `ReportsRealHolds` needs that the exports of a file are at one place only of what is in hand
  (`HandApart`), which halving and linking keep, and that what comes from different
  directories, or was linked to `final` before, shares no file with it (`RealOK`).
  `PromiseKept` is the refinement of `LinkPromise`: `WrittenOK` says that a finished link is of whole
  files that were on disk, and that `final` is a union of directory interfaces; with it each step
  of the code is a step of the abstract specification or leaves its variables alone.
- **LinuxLinkerEndsProofs.** `LinkersGoOn`: a linker has directories left, then places on its way
  through the one it is at, then steps of `linkTreewise`, and goes down in that order. The steps
  that a stack of calls still owes are a finite sum over it: a call of `n` interfaces owes at most
  `4n - 3`, a frame in its left half what its right half owes and two more (`CallSteps`,
  `FrameSteps`). The sum is the size of a set of tokens, one heap for each frame, numbered from the
  outermost call so that a new call leaves the other heaps as they are (`Heap`, `LinkLess`).

- **PreparationProofs.** `TypeCorrect`; `ListsDisjointHolds` and `ExclDeadExactHolds` from
  `FeaturesInvariant`: what is in the two files and what is still to be tested is divided by what
  the model behind the list says of each feature, also in the lists a death has left; `ExclDeadExact` holds as well after an edit of `partialConf.h` that allows less.
  `PcFilesCurrentHolds` from `PcsInvariant`: lines before the current one are
  already right on disk, which needs that no file is listed twice (`PreparationAssumption`),
  as a later line would undo an earlier one. `AnalysedAsCompiledHolds` from `CleanInvariant`
  (each line of `x86.pc` is the parser's condition of a line of the list, with the options that were
  read, each such line up to where `CleanFileList` ended is in `x86.pc`) and the lemma `ReachedUpto` (that
  is where `Reached` says); then `ParseMeansSeen` and `ParseMeansCompiled`, for which a macro that is on and neither
  mandatory nor skipped is open, if the list is of a finished run. `ToolsGoOn`: no tool is ever sent back to an earlier place or line,
  also if `partialConf.h` is edited while it runs.
- **PresenceConditionsProofs.** `ParseMeansSeen`: the parser's condition holds in exactly
  the configurations whose open macros compile the file, for expressions of any size;
  `ParseMeansCompiled`: these are the configurations in which kbuild compiles it, if the macros that are on
  are open and no module compared is coded with two variables; `ModuleTakenForBuiltIn`: the last
  condition is needed. All rest on `ParseAsCompiled`: a condition that is right for leaves is right for expressions. The
  library's induction theorems are out of reach, so the argument takes the least node
  at which parser and build disagree (`LeastElement`): its operands are earlier nodes, on
  which they agree.
- **TokenStreamDiffProofs.** `ComparedAgreeHolds`: a dead token adds no text in any
  configuration of the model, so skips keep the two histories equal, and at `text` with no
  mismatch the two conditions are the same under the model. `AcceptsEquivalentHolds` takes any
  order-preserving matching of the live tokens of both streams and shows that it matches the two
  positions whenever both tokens are alive (`StepsMatched`): at a mismatch, or where a stream is
  at its end too early, there is none. `WorkDecreases`: every step uses up a token or a place.

Only model-checked: liveness (`LoopTerminates`, `RerunAfterClean`, `EveryJobRuns`, `WaitEnds`,
`Ends` of both sequential programs, `LinkerEnds`, `ToolsEnd`, the liveness of `UndertakerFM`'s `Promised`).
It rests on fairness, hence on ENABLED, which the prover does not have. For the analysis loop,
the slice, the linkers, the preparation tools and the token streams the part of the argument that
is a safety property is proved: each step leaves less to do, in an order without infinite descent
(`WalkGoesOn`, `RoundsDecrease`, `LinkersGoOn`, `ToolsGoOn`, `WorkDecreases`); for `WaitEnds` it is `NobodyWaitsInVain`.

## Not modelled, and the plan

1. `RunConfig`: a crash between the creation and the end of a log, which the next start takes
   for a finished task. It runs `ssh` to a remote machine and `make` in a tree that the
   repository does not describe.
2. The steps of `prepareLinuxTestCase.sh` and `genFMs.sh`, as a refinement of the step
   `Prepare` of `SetupAndRun`. Apart from `applyPCs.sh` they are `git`, `make` and kconfigreader.
3. Sources that change between two analyses, with the `.interface` files of the earlier one.
4. The task-id selection of the sampling scripts: each task has its own file and
   its own output names, so nothing is shared but the list, which is only read.
5. The first-match rules of `flags()`, which change no state. `master/` and ARM have the loop
   of `LinuxTestCase` with other lists, without timeout and, for ARM, without `--one`.

Left out for good: reporters (they print TypeChef's formats), the option parsers (but for
the two options of `CleanFileList` that matter), the syntax of formulas, `LinuxApproxModel` and
`LinuxDimacsModel` (they load a file), header copies, checked-in models, jars and the build.
