---------------------------- MODULE LinkPromise ----------------------------
(***************************************************************************)
(* What the linkers promise about the files they leave and the messages    *)
(* they print, without saying in which order they link: an interface that  *)
(* is written is made of whole files, and the pairs in it that clash have  *)
(* been reported.                                                          *)
(***************************************************************************)
CONSTANTS Dir, File, FilesIn, Excluded, Marker, VM, Approx, Sources

VARIABLES onDisk, exports, dirFiles, dirFile, finalFile, printed
vars == <<onDisk, exports, dirFiles, dirFile, finalFile, printed>>

\* The exports of files, without the marker.
Load(f) == {[file |-> f, name |-> e.name, cond |-> e.cond] :
              e \in {x \in exports[f] : x.name # Marker}}
Whole(files) == UNION {Load(f) : f \in files}
United(dirs) == UNION {dirFile[d] : d \in dirs}

Clash(e, x, valid) ==
    e.file # x.file /\ e.name = x.name /\ valid \intersect e.cond \intersect x.cond # {}
Told(I, valid) ==
    \A e, x \in I : Clash(e, x, valid) =>
        \E p \in printed : p.name = e.name /\ {e.file, x.file} \subseteq p.files
Real(p) ==
    \E f, g \in p.files : \E e \in Load(f), x \in Load(g) : e.name = p.name /\ Clash(e, x, VM)

Init ==
    /\ onDisk = {} /\ exports \in Sources
    /\ dirFiles = {} /\ dirFile = [d \in Dir |-> {}] /\ finalFile = {}
    /\ printed = {}

Analyze ==
    /\ \E f \in File \ onDisk : onDisk' = onDisk \union {f}
    /\ UNCHANGED <<exports, dirFiles, dirFile, finalFile, printed>>

\* Messages are true, and stay.
Report ==
    /\ printed \subseteq printed' /\ \A p \in printed' \ printed : Real(p)
    /\ UNCHANGED <<onDisk, exports, dirFiles, dirFile, finalFile>>

\* The interface of a directory: some of its files, each with all its exports.
WriteDir ==
    /\ \E d \in Dir \ Excluded : \E files \in SUBSET (FilesIn[d] \intersect onDisk) :
         /\ Told(Whole(files), VM)
         /\ dirFile' = [dirFile EXCEPT ![d] = Whole(files)]
         /\ dirFiles' = dirFiles \union {d}
    /\ UNCHANGED <<onDisk, exports, finalFile, printed>>

\* final.interface: what some directories have on disk, united.
WriteFinal ==
    /\ \E dirs \in SUBSET (dirFiles \ Excluded) :
         /\ Told(United(dirs), VM \intersect Approx)
         /\ finalFile' = United(dirs)
    /\ UNCHANGED <<onDisk, exports, dirFiles, dirFile, printed>>

Next == Analyze \/ Report \/ WriteDir \/ WriteFinal

Spec == Init /\ [][Next]_vars
=============================================================================
