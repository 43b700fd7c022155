---------------------------- MODULE LinuxLinker ----------------------------
(***************************************************************************)
(* LinuxLinker.scala: LinuxLinker links the .interface files of each       *)
(* directory, writes a _dir.interface per directory and links these too;   *)
(* LinuxDirLinker starts from the _dir.interface files of earlier runs.    *)
(* Both print the conflicts they meet and link all the same.  Meanwhile    *)
(* the analysis loop may add .interface files.                             *)
(*                                                                         *)
(* linkTreewise is a recursion over halves of a list; its call stack is    *)
(* explicit here.                                                          *)
(***************************************************************************)
EXTENDS Naturals, Sequences, FiniteSets

CONSTANTS
    Dir, File,
    FilesIn,      \* FilesIn[d]: the file list's files of directory d
    Excluded,     \* excludeDirs
    Selections,   \* the directories that --prefix and --dirOnly can leave
    Symbol,       \* names of functions
    Marker,       \* "foodfafe"
    Config,       \* configurations
    VM, Approx,   \* those of the DIMACS model, those of approx.fm
    Sources,      \* [File -> exported names and conditions], what may be analysed
    DirLimit,     \* the 50 of directories.take(50)
    MaxRuns,      \* bound: linker runs
    MaxCrashes    \* bound: linkers that die

ASSUME DirAssumption ==
    /\ IsFiniteSet(Dir) /\ IsFiniteSet(File) /\ Excluded \subseteq Dir
    /\ FilesIn \in [Dir -> SUBSET File]
    /\ \A d, e \in Dir : d # e => FilesIn[d] \intersect FilesIn[e] = {}
    /\ Selections \subseteq SUBSET Dir
ASSUME SourceAssumption ==
    /\ Sources \subseteq [File -> SUBSET [name : Symbol, cond : SUBSET Config]]
    /\ VM \subseteq Config /\ Approx \subseteq Config
ASSUME BoundAssumption == {DirLimit, MaxRuns, MaxCrashes} \subseteq Nat

Export == [file : File, name : Symbol, cond : SUBSET Config]
Interface == SUBSET Export
Frame == [half : {"left", "right"}, l : Seq(Interface)]
Problem == [name : Symbol, files : SUBSET File]

VARIABLES
    pc,        \* what runs: see PC
    todo, cur, \* directories left, the one that is processed
    call,      \* what linkTreewise is called with, or the one it returns
    stack,     \* frames of outer calls: the half that is being linked, and the
               \* right half to do or the left result
    final,     \* finalInterface
    onDisk,    \* files that have a .interface
    dirFiles,  \* directories that have a _dir.interface
    dirFile,   \* their contents
    finalFile, \* contents of final.interface
    exports,   \* what the files export: never changed
    runs, crashes,
    printed,   \* history: the problems printed, by all runs
    due        \* history: what the run found on disk when it started

linkVars == <<call, stack, printed>>
dirVars == <<todo, cur, final>>
diskVars == <<onDisk, dirFiles, dirFile, finalFile, exports>>
countVars == <<runs, crashes>>
vars == <<pc, linkVars, dirVars, diskVars, countVars, due>>

NoCall == [op |-> "none", l |-> <<>>]
PC == {"idle", "dirs", "dirTree", "merge", "dirLink"}

\* The feature model of the linker that runs.
Valid == IF pc = "dirLink" THEN VM \intersect Approx ELSE VM

Init ==
    /\ pc = "idle"
    /\ todo = {} /\ cur \in Dir /\ final = {}
    /\ call = NoCall /\ stack = <<>>
    /\ onDisk = {}
    /\ dirFiles = {} /\ dirFile = [d \in Dir |-> {}] /\ finalFile = {}
    /\ exports \in Sources
    /\ runs = 0 /\ crashes = 0
    /\ printed = {} /\ due = {}

-----------------------------------------------------------------------------
(***************************************************************************)
(* linkTreewise                                                            *)
(***************************************************************************)

\* A set as a list, in any order.
Orders(S) ==
    {s \in [1..Cardinality(S) -> S] : \A x \in S : \E k \in DOMAIN s : s[k] = x}

\* linkTreewise(l) is called, linkTreewise returns I.
Call(l) == call' = [op |-> "call", l |-> l]
Return(I) == call' = [op |-> "return", l |-> <<I>>]
Called == call.op = "call"
Returned == call.op = "return"

\* left getConflicts right, as far as it is printed: names that both sides
\* export in one configuration of the feature model, with all signatures.
CondOf(I, n) == UNION {e.cond : e \in {x \in I : x.name = n}}
Problems(left, right, valid) ==
    {[name |-> n, files |-> {e.file : e \in {x \in left \union right : x.name = n}}] :
        n \in {m \in Symbol : valid \intersect CondOf(left, m) \intersect CondOf(right, m) # {}}}

\* The conflicts are printed, the two are linked.
LinkTwo(left, right) ==
    /\ printed' = printed \union Problems(left, right, Valid)
    /\ Return(left \union right)

\* Mutant: the right half misses an interface.
Halves_Off(l) == LET m == Len(l) \div 2 IN <<SubSeq(l, 1, m), SubSeq(l, m + 2, Len(l))>>

\* Mutant: one interface is in both halves.
Halves_Overlap(l) == LET m == Len(l) \div 2 IN <<SubSeq(l, 1, m + 1), SubSeq(l, m + 1, Len(l))>>

Halves(l) == LET m == Len(l) \div 2 IN <<SubSeq(l, 1, m), SubSeq(l, m + 1, Len(l))>>

\* l.size > 2: the call for the left half.
Split ==
    /\ Called /\ Len(call.l) > 2
    /\ Call(Halves(call.l)[1])
    /\ stack' = <<[half |-> "left", l |-> Halves(call.l)[2]]>> \o stack
    /\ UNCHANGED <<pc, printed, dirVars, diskVars, countVars, due>>

\* l.size == 2
LinkPair ==
    /\ Called /\ Len(call.l) = 2
    /\ LinkTwo(call.l[1], call.l[2])
    /\ UNCHANGED <<pc, stack, dirVars, diskVars, countVars, due>>

\* The only interface, or EmptyInterface.
TakeOne ==
    /\ Called /\ Len(call.l) < 2
    /\ Return(IF call.l = <<>> THEN {} ELSE call.l[1])
    /\ UNCHANGED <<pc, stack, printed, dirVars, diskVars, countVars, due>>

\* Mutant: the left result is not kept.
GoRight_Lost ==
    /\ Returned /\ stack # <<>> /\ Head(stack).half = "left"
    /\ Call(Head(stack).l)
    /\ stack' = <<[half |-> "right", l |-> Head(stack).l]>> \o Tail(stack)
    /\ UNCHANGED <<pc, printed, dirVars, diskVars, countVars, due>>

\* The left half is linked: the call for the right half.
GoRight ==
    /\ Returned /\ stack # <<>> /\ Head(stack).half = "left"
    /\ Call(Head(stack).l)
    /\ stack' = <<[half |-> "right", l |-> call.l]>> \o Tail(stack)
    /\ UNCHANGED <<pc, printed, dirVars, diskVars, countVars, due>>

\* Mutant: the results of the halves are linked without a comparison.
LinkHalves_Silent ==
    /\ Returned /\ stack # <<>> /\ Head(stack).half = "right"
    /\ Return(Head(stack).l[1] \union call.l[1])
    /\ stack' = Tail(stack)
    /\ UNCHANGED <<pc, printed, dirVars, diskVars, countVars, due>>

\* Both halves are linked: the outer call links the results.
LinkHalves ==
    /\ Returned /\ stack # <<>> /\ Head(stack).half = "right"
    /\ LinkTwo(Head(stack).l[1], call.l[1])
    /\ stack' = Tail(stack)
    /\ UNCHANGED <<pc, dirVars, diskVars, countVars, due>>

\* The outermost call has returned.
Linked == Returned /\ stack = <<>>

Link == Split \/ LinkPair \/ TakeOne \/ GoRight \/ LinkHalves

-----------------------------------------------------------------------------
(***************************************************************************)
(* LinuxLinker                                                             *)
(***************************************************************************)

\* loadInterface, simplifyInterface: every signature gets its file's name,
\* and the marker is dropped.
Load(f) == {[file |-> f, name |-> e.name, cond |-> e.cond] :
              e \in {x \in exports[f] : x.name # Marker}}

Start(selection) ==
    /\ pc = "idle" /\ runs < MaxRuns
    /\ runs' = runs + 1
    /\ pc' = "dirs"
    /\ todo' = selection \ Excluded
    /\ final' = {}
    /\ due' = UNION {Load(f) : f \in onDisk \intersect UNION {FilesIn[d] : d \in todo'}}
    /\ UNCHANGED <<linkVars, cur, diskVars, crashes>>

\* processDir: the files that have no .interface yet are left out.
ProcessDir(d) ==
    /\ pc = "dirs" /\ d \in todo
    /\ \E fs \in Orders(FilesIn[d] \intersect onDisk) : Call([k \in DOMAIN fs |-> Load(fs[k])])
    /\ cur' = d
    /\ pc' = "dirTree"
    /\ UNCHANGED <<stack, printed, todo, final, diskVars, countVars, due>>

\* Mutant: _dir.interface is written after the link to what there is so far.
WriteDir_Late ==
    /\ pc = "dirTree" /\ Linked
    /\ dirFile' = [dirFile EXCEPT ![cur] = final \union call.l[1]]
    /\ dirFiles' = dirFiles \union {cur}
    /\ Call(<<final, call.l[1]>>)
    /\ pc' = "merge"
    /\ UNCHANGED <<stack, printed, dirVars, onDisk, finalFile, exports, countVars, due>>

\* _dir.interface is written, then linked to what there is so far.
WriteDir ==
    /\ pc = "dirTree" /\ Linked
    /\ dirFile' = [dirFile EXCEPT ![cur] = call.l[1]]
    /\ dirFiles' = dirFiles \union {cur}
    /\ Call(<<final, call.l[1]>>)
    /\ pc' = "merge"
    /\ UNCHANGED <<stack, printed, dirVars, onDisk, finalFile, exports, countVars, due>>

\* Mutant: the directory is not taken off the list.
NextDir_Again ==
    /\ pc = "merge" /\ Linked
    /\ final' = call.l[1]
    /\ pc' = "dirs"
    /\ call' = NoCall
    /\ UNCHANGED <<stack, printed, todo, cur, diskVars, countVars, due>>

NextDir ==
    /\ pc = "merge" /\ Linked
    /\ final' = call.l[1]
    /\ todo' = todo \ {cur}
    /\ pc' = "dirs"
    /\ call' = NoCall
    /\ UNCHANGED <<stack, printed, cur, diskVars, countVars, due>>

WriteFinal ==
    /\ pc = "dirs" /\ todo = {}
    /\ finalFile' = final
    /\ pc' = "idle"
    /\ UNCHANGED <<linkVars, dirVars, onDisk, dirFiles, dirFile, exports, countVars, due>>

-----------------------------------------------------------------------------
(***************************************************************************)
(* LinuxDirLinker                                                          *)
(***************************************************************************)

\* directories.take(50), before the excluded ones are left out.
Taken == {S \ Excluded : S \in {T \in SUBSET Dir :
            Cardinality(T) = IF Cardinality(Dir) < DirLimit THEN Cardinality(Dir) ELSE DirLimit}}

\* The yield over a set is a set: equal interfaces become one.
StartDirLinker(ds) ==
    /\ pc = "idle" /\ runs < MaxRuns
    /\ runs' = runs + 1
    /\ ds \subseteq dirFiles
    /\ pc' = "dirLink"
    /\ \E l \in Orders({dirFile[d] : d \in ds}) : Call(l)
    /\ due' = UNION {dirFile[d] : d \in ds}
    /\ UNCHANGED <<stack, printed, dirVars, diskVars, crashes>>

\* readInterface throws: a directory has no _dir.interface.
DirLinkerFails(ds) ==
    /\ pc = "idle" /\ runs < MaxRuns
    /\ runs' = runs + 1
    /\ ~(ds \subseteq dirFiles)
    /\ UNCHANGED <<pc, linkVars, dirVars, diskVars, crashes, due>>

EndDirLinker ==
    /\ pc = "dirLink" /\ Linked
    /\ finalFile' = call.l[1]
    /\ pc' = "idle"
    /\ call' = NoCall
    /\ UNCHANGED <<stack, printed, dirVars, onDisk, dirFiles, dirFile, exports, countVars, due>>

-----------------------------------------------------------------------------
\* The analysis loop finishes a file.
Analyze(f) ==
    /\ f \notin onDisk
    /\ onDisk' = onDisk \union {f}
    /\ UNCHANGED <<pc, linkVars, dirVars, dirFiles, dirFile, finalFile, exports, countVars, due>>

\* The linker dies (heap, user); what it has written stays.
Crash ==
    /\ pc # "idle" /\ crashes < MaxCrashes
    /\ crashes' = crashes + 1
    /\ pc' = "idle"
    /\ call' = NoCall /\ stack' = <<>>
    /\ UNCHANGED <<printed, dirVars, diskVars, runs, due>>

Linker == \/ Link \/ (\E d \in Dir : ProcessDir(d)) \/ WriteDir \/ NextDir \/ WriteFinal
          \/ EndDirLinker

Next == \/ Linker
        \/ \E selection \in Selections : Start(selection)
        \/ \E ds \in Taken : StartDirLinker(ds) \/ DirLinkerFails(ds)
        \/ \E f \in File : Analyze(f)
        \/ Crash

Spec == Init /\ [][Next]_vars

\* A linker that was started and does not die goes on.
FairSpec == Spec /\ WF_vars(Linker)

-----------------------------------------------------------------------------
\* The variables hold what their comments say.
TypeOK ==
    /\ pc \in PC
    /\ todo \subseteq Dir /\ cur \in Dir
    /\ call \in [op : {"none", "call", "return"}, l : Seq(Interface)]
    /\ stack \in Seq(Frame)
    /\ Returned => Len(call.l) = 1
    /\ \A k \in DOMAIN stack : stack[k].half = "right" => Len(stack[k].l) = 1
    /\ final \in Interface /\ finalFile \in Interface
    /\ dirFile \in [Dir -> Interface] /\ dirFiles \subseteq Dir
    /\ onDisk \subseteq File /\ exports \in Sources
    /\ runs \in Nat /\ crashes \in Nat
    /\ printed \subseteq Problem /\ due \in Interface

\* Two files export a name in one configuration of valid.
Clash(e, x, valid) ==
    e.file # x.file /\ e.name = x.name /\ valid \intersect e.cond \intersect x.cond # {}
Reported(e, x) == \E p \in printed : p.name = e.name /\ {e.file, x.file} \subseteq p.files
AllReported(I, valid) == \A e, x \in I : Clash(e, x, valid) => Reported(e, x)

\* However the lists are halved and the directories ordered, whichever runs
\* died: two files that clash are not together in an interface that was
\* written unless a message named both.  LinuxDirLinker, which also assumes
\* approx.fm, owes this only for the configurations of both models.
NothingLinkedSilently ==
    /\ \A d \in Dir : AllReported(dirFile[d], VM)
    /\ AllReported(final, VM)
    /\ AllReported(finalFile, VM \intersect Approx)

\* A message always has two files behind it that clash: no file is linked
\* with itself.
ReportsReal ==
    \A p \in printed : \E f, g \in p.files : \E e \in Load(f), x \in Load(g) :
        e.name = p.name /\ Clash(e, x, VM)

\* What is about to be written as final.interface holds every export that was
\* on disk when the linker started, in the directories it was asked for.
AllLinked ==
    /\ pc = "dirs" /\ todo = {} => due \subseteq final
    /\ pc = "dirLink" /\ Linked => call.l = <<due>>

\* Whatever runs, dies and is analysed meanwhile, what is on disk and what is
\* printed comes about as LinkPromise says: no interface holds half a file or one
\* of another directory, final.interface is the union of _dir.interface files as
\* they are on disk, and both are written after the messages they call for.
Promise == INSTANCE LinkPromise
Promised == Promise!Spec

\* Linking ends, whatever is analysed meanwhile.
LinkerEnds == pc # "idle" ~> pc = "idle"
=============================================================================
