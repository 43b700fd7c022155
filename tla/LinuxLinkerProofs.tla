------------------------- MODULE LinuxLinkerProofs -------------------------
(***************************************************************************)
(* Theorems of LinuxLinker, for any directories, files, exports, feature   *)
(* models and bounds.                                                      *)
(***************************************************************************)
EXTENDS LinuxLinker, FiniteSetTheorems, SequenceTheorems, TLAPS

\* The order of a finite set is a sequence of its elements, all of them.
LEMMA OrdersSeq ==
  ASSUME NEW S, IsFiniteSet(S), NEW s \in Orders(S)
  PROVE  s \in Seq(S) /\ {s[k] : k \in DOMAIN s} = S
<1>1. Cardinality(S) \in Nat
  BY FS_CardinalityType
<1>2. s \in [1..Cardinality(S) -> S] /\ \A x \in S : \E k \in DOMAIN s : s[k] = x
  BY DEF Orders
<1> QED
  BY <1>1, <1>2

\* What the exports of a file are, once loaded.
LEMMA LoadType ==
  ASSUME TypeOK, NEW f \in File
  PROVE  Load(f) \in Interface /\ \A e \in Load(f) : e.file = f
<1>1. exports \in [File -> SUBSET [name : Symbol, cond : SUBSET Config]]
  BY SourceAssumption DEF TypeOK
<1> QED
  BY <1>1 DEF Load, Interface, Export

\* The list processDir hands to linkTreewise.
LEMMA LoadList ==
  ASSUME TypeOK, NEW d \in Dir, NEW fs \in Orders(FilesIn[d] \intersect onDisk)
  PROVE  LET l == [k \in DOMAIN fs |-> Load(fs[k])]
         IN  /\ l \in Seq(Interface)
             /\ {l[k] : k \in DOMAIN l} = {Load(f) : f \in FilesIn[d] \intersect onDisk}
<1> DEFINE S == FilesIn[d] \intersect onDisk
<1> DEFINE l == [k \in DOMAIN fs |-> Load(fs[k])]
<1>1. S \subseteq File /\ IsFiniteSet(S)
  BY DirAssumption, FS_Subset DEF TypeOK
<1>2. fs \in Seq(S) /\ {fs[k] : k \in DOMAIN fs} = S
  BY <1>1, OrdersSeq
<1>3. DOMAIN l = DOMAIN fs /\ \A k \in DOMAIN fs : l[k] = Load(fs[k]) /\ fs[k] \in S
  BY <1>2
<1>4. l \in Seq(Interface)
  BY <1>1, <1>2, <1>3, LoadType
<1>5. {l[k] : k \in DOMAIN l} = {Load(f) : f \in S}
  <2> HIDE DEF l, S
  <2> QED BY <1>2, <1>3
<1> QED
  BY <1>4, <1>5

\* Where the elements of a list go when it is halved.
LEMMA HalvesAt ==
  ASSUME NEW T, NEW l \in Seq(T), Len(l) > 2, NEW m, m = Len(l) \div 2
  PROVE  /\ m \in Nat /\ m < Len(l) /\ Len(l) \in Nat /\ DOMAIN l = 1..Len(l)
         /\ Halves(l)[1] \in Seq(T) /\ DOMAIN Halves(l)[1] = 1..m
         /\ Halves(l)[2] \in Seq(T) /\ DOMAIN Halves(l)[2] = 1..(Len(l) - m)
         /\ \A i \in 1..m : Halves(l)[1][i] = l[i]
         /\ \A i \in 1..(Len(l) - m) : Halves(l)[2][i] = l[m + i]
<1>1. m \in Nat /\ m < Len(l) /\ Len(l) \in Nat
  OBVIOUS
<1> DEFINE a == SubSeq(l, 1, m)
           b == SubSeq(l, m + 1, Len(l))
<1>2. a \in Seq(T) /\ Len(a) = m /\ \A i \in 1..m : a[i] = l[i]
  BY <1>1
<1>3. b \in Seq(T) /\ Len(b) = Len(l) - m /\ \A i \in 1..(Len(l) - m) : b[i] = l[m + i]
  <2>1. \A i \in (m + 1)..Len(l) : l[i] \in T
    BY <1>1
  <2>2. /\ b \in Seq(T)
        /\ Len(b) = IF m + 1 <= Len(l) THEN Len(l) - (m + 1) + 1 ELSE 0
        /\ \A i \in 1..(Len(l) - (m + 1) + 1) : b[i] = l[(m + 1) + i - 1]
    <3> DEFINE lo == m + 1
               hi == Len(l)
    <3>1. lo \in Int /\ hi \in Int /\ \A i \in lo..hi : l[i] \in T
      BY <1>1, <2>1
    <3> SUFFICES /\ SubSeq(l, lo, hi) \in Seq(T)
                 /\ Len(SubSeq(l, lo, hi)) = IF lo <= hi THEN hi - lo + 1 ELSE 0
                 /\ \A i \in 1..(hi - lo + 1) : SubSeq(l, lo, hi)[i] = l[lo + i - 1]
      OBVIOUS
    <3> HIDE DEF lo, hi
    <3> QED
      BY <3>1, SubSeqProperties
  <2>3. Len(l) - (m + 1) + 1 = Len(l) - m /\ m + 1 <= Len(l)
    BY <1>1
  <2>4. \A i \in 1..(Len(l) - m) : (m + 1) + i - 1 = m + i
    BY <1>1
  <2> HIDE DEF b
  <2> QED
    BY <2>2, <2>3, <2>4
<1>h. Halves(l) = <<a, b>>
  BY DEF Halves
<1>4. Halves(l)[1] = a /\ Halves(l)[2] = b
  <2> HIDE DEF a, b
  <2> QED BY <1>h
<1> HIDE DEF a, b
<1>5. DOMAIN l = 1..Len(l) /\ DOMAIN a = 1..m /\ DOMAIN b = 1..(Len(l) - m)
  BY <1>1, <1>2, <1>3
<1> QED
  BY <1>1, <1>2, <1>3, <1>4, <1>5

\* The halves of a list hold its elements, no others, and all of them.
LEMMA HalvesOK ==
  ASSUME NEW T, NEW l \in Seq(T), Len(l) > 2
  PROVE  /\ Halves(l)[1] \in Seq(T) /\ Halves(l)[2] \in Seq(T)
         /\ \A i \in DOMAIN Halves(l)[1] : \E k \in DOMAIN l : Halves(l)[1][i] = l[k]
         /\ \A i \in DOMAIN Halves(l)[2] : \E k \in DOMAIN l : Halves(l)[2][i] = l[k]
         /\ \A k \in DOMAIN l : \/ \E i \in DOMAIN Halves(l)[1] : Halves(l)[1][i] = l[k]
                                \/ \E i \in DOMAIN Halves(l)[2] : Halves(l)[2][i] = l[k]
<1> DEFINE m == Len(l) \div 2
           a == Halves(l)[1]
           b == Halves(l)[2]
<1>1. m \in Nat /\ m < Len(l) /\ Len(l) \in Nat
  BY HalvesAt
<1>2. a \in Seq(T) /\ \A i \in 1..m : a[i] = l[i]
  BY HalvesAt
<1>3. b \in Seq(T) /\ \A i \in 1..(Len(l) - m) : b[i] = l[m + i]
  BY HalvesAt
<1>5. DOMAIN l = 1..Len(l) /\ DOMAIN a = 1..m /\ DOMAIN b = 1..(Len(l) - m)
  BY HalvesAt
<1> HIDE DEF a, b, m
<1>6. \A i \in DOMAIN a : \E k \in DOMAIN l : a[i] = l[k]
  BY <1>1, <1>2, <1>5
<1>7. \A i \in DOMAIN b : \E k \in DOMAIN l : b[i] = l[k]
  <2> SUFFICES ASSUME NEW i \in DOMAIN b PROVE \E k \in DOMAIN l : b[i] = l[k]
    OBVIOUS
  <2>1. m + i \in DOMAIN l /\ b[i] = l[m + i]
    BY <1>1, <1>3, <1>5
  <2> QED
    BY <2>1
<1>8. ASSUME NEW k \in DOMAIN l
      PROVE  (\E i \in DOMAIN a : a[i] = l[k]) \/ (\E i \in DOMAIN b : b[i] = l[k])
  <2>1. CASE k <= m
    BY <2>1, <1>1, <1>2, <1>5
  <2>2. CASE k > m
    <3>1. k - m \in DOMAIN b /\ b[k - m] = l[m + (k - m)] /\ m + (k - m) = k
      BY <2>2, <1>1, <1>3, <1>5
    <3> QED
      BY <3>1
  <2> QED
    BY <2>1, <2>2, <1>1, <1>5
<1> QED
  BY <1>2, <1>3, <1>6, <1>7, <1>8 DEF a, b

\* The stack below its top.
LEMMA TailStack ==
  ASSUME stack \in Seq(Frame), stack # <<>>
  PROVE  /\ Head(stack) = stack[1] /\ 1 \in DOMAIN stack /\ Head(stack) \in Frame
         /\ Tail(stack) \in Seq(Frame)
         /\ \A k \in DOMAIN Tail(stack) : k + 1 \in DOMAIN stack /\ Tail(stack)[k] = stack[k + 1]
OBVIOUS

\* A frame put on a stack.
LEMMA PushFrame ==
  ASSUME NEW st \in Seq(Frame), NEW fr \in Frame
  PROVE  /\ <<fr>> \o st \in Seq(Frame)
         /\ (<<fr>> \o st)[1] = fr
         /\ \A k \in DOMAIN (<<fr>> \o st) :
              \/ k = 1
              \/ k - 1 \in DOMAIN st /\ (<<fr>> \o st)[k] = st[k - 1]
         /\ 1 \in DOMAIN (<<fr>> \o st)
         /\ \A k \in DOMAIN st : k + 1 \in DOMAIN (<<fr>> \o st) /\ (<<fr>> \o st)[k + 1] = st[k]
OBVIOUS

-----------------------------------------------------------------------------
LEMMA ProblemsType ==
  ASSUME NEW left \in Interface, NEW right \in Interface, NEW valid
  PROVE  Problems(left, right, valid) \subseteq Problem
BY DEF Problems, Problem, Interface, Export

\* The parts of TypeOK that speak of linkTreewise.
CallOK ==
  /\ call \in [op : {"none", "call", "return"}, l : Seq(Interface)]
  /\ stack \in Seq(Frame)
  /\ Returned => Len(call.l) = 1
  /\ \A k \in DOMAIN stack : stack[k].half = "right" => Len(stack[k].l) = 1
  /\ printed \subseteq Problem

LEMMA CallType ==
  ASSUME NEW l \in Seq(Interface), Call(l) PROVE
    /\ call' \in [op : {"none", "call", "return"}, l : Seq(Interface)]
    /\ ~Returned' /\ call'.op = "call" /\ call'.l = l
BY DEF Call, Returned

LEMMA ReturnType ==
  ASSUME NEW I \in Interface, Return(I) PROVE
    /\ call' \in [op : {"none", "call", "return"}, l : Seq(Interface)]
    /\ Len(call'.l) = 1 /\ call'.op = "return" /\ call'.l = <<I>>
<1>1. <<I>> \in Seq(Interface) /\ Len(<<I>>) = 1
  OBVIOUS
<1> QED
  BY <1>1 DEF Return

LEMMA LinkTwoType ==
  ASSUME NEW left \in Interface, NEW right \in Interface, LinkTwo(left, right),
         printed \subseteq Problem
  PROVE  /\ call' \in [op : {"none", "call", "return"}, l : Seq(Interface)]
         /\ Len(call'.l) = 1 /\ call'.op = "return" /\ call'.l = <<left \union right>>
         /\ printed' \subseteq Problem
<1>1. left \union right \in Interface
  BY DEF Interface
<1>2. Return(left \union right)
  BY DEF LinkTwo
<1>3. printed' \subseteq Problem
  BY ProblemsType DEF LinkTwo
<1> QED
  BY <1>1, <1>2, <1>3, ReturnType

\* linkTreewise keeps its call and its stack in shape.
LEMMA LinkCallOK == CallOK /\ Link => CallOK'
<1> SUFFICES ASSUME CallOK, Link PROVE CallOK'
  OBVIOUS
<1>1. CASE Split
  <2> DEFINE a == Halves(call.l)[1]
             b == Halves(call.l)[2]
  <2>1. a \in Seq(Interface) /\ b \in Seq(Interface)
    BY <1>1, HalvesOK DEF Split, CallOK
  <2>2. Call(a) /\ stack' = <<[half |-> "left", l |-> b]>> \o stack /\ printed' = printed
    BY <1>1 DEF Split
  <2> HIDE DEF a, b
  <2>3. [half |-> "left", l |-> b] \in Frame
    BY <2>1 DEF Frame
  <2>4. /\ stack' \in Seq(Frame)
        /\ \A k \in DOMAIN stack' :
             stack'[k].half = "left" \/ (k - 1 \in DOMAIN stack /\ stack'[k] = stack[k - 1])
    BY <2>2, <2>3, PushFrame DEF CallOK
  <2>5. call' \in [op : {"none", "call", "return"}, l : Seq(Interface)] /\ ~Returned'
    BY <2>1, <2>2, CallType
  <2> QED
    BY <2>2, <2>4, <2>5 DEF CallOK
<1>2. CASE LinkPair
  <2>1. call.l[1] \in Interface /\ call.l[2] \in Interface
    BY <1>2 DEF LinkPair, CallOK
  <2>2. LinkTwo(call.l[1], call.l[2]) /\ stack' = stack
    BY <1>2 DEF LinkPair
  <2> QED
    BY <2>1, <2>2, LinkTwoType DEF CallOK
<1>3. CASE TakeOne
  <2> DEFINE I == IF call.l = <<>> THEN {} ELSE call.l[1]
  <2>1. I \in Interface
    BY <1>3 DEF TakeOne, CallOK, Interface
  <2>2. Return(I) /\ stack' = stack /\ printed' = printed
    BY <1>3 DEF TakeOne
  <2> HIDE DEF I
  <2> QED
    BY <2>1, <2>2, ReturnType DEF CallOK
<1>4. CASE GoRight
  <2>1. stack \in Seq(Frame) /\ stack # <<>> /\ call.l \in Seq(Interface) /\ Len(call.l) = 1
    BY <1>4 DEF GoRight, CallOK
  <2>2. /\ Head(stack).l \in Seq(Interface) /\ Tail(stack) \in Seq(Frame)
        /\ \A k \in DOMAIN Tail(stack) : k + 1 \in DOMAIN stack /\ Tail(stack)[k] = stack[k + 1]
    BY <2>1, TailStack DEF Frame
  <2> DEFINE fr == [half |-> "right", l |-> call.l]
  <2>3. fr \in Frame /\ Len(fr.l) = 1
    BY <2>1 DEF Frame
  <2>4. Call(Head(stack).l) /\ stack' = <<fr>> \o Tail(stack) /\ printed' = printed
    BY <1>4 DEF GoRight
  <2> HIDE DEF fr
  <2>5. /\ stack' \in Seq(Frame)
        /\ stack'[1] = fr
        /\ \A k \in DOMAIN stack' :
             k = 1 \/ (k - 1 \in DOMAIN Tail(stack) /\ stack'[k] = Tail(stack)[k - 1])
    BY <2>2, <2>3, <2>4, PushFrame
  <2>6. \A k \in DOMAIN stack' : k = 1 \/ \E i \in DOMAIN stack : stack'[k] = stack[i]
    BY <2>2, <2>5
  <2>7. call' \in [op : {"none", "call", "return"}, l : Seq(Interface)] /\ ~Returned'
    BY <2>2, <2>4, CallType
  <2> QED
    BY <2>3, <2>4, <2>5, <2>6, <2>7 DEF CallOK
<1>5. CASE LinkHalves
  <2>1. stack \in Seq(Frame) /\ stack # <<>> /\ call.l \in Seq(Interface) /\ Len(call.l) = 1
    BY <1>5 DEF LinkHalves, CallOK
  <2>2. /\ Head(stack) = stack[1] /\ 1 \in DOMAIN stack
        /\ Head(stack).l \in Seq(Interface) /\ Tail(stack) \in Seq(Frame)
        /\ \A k \in DOMAIN Tail(stack) : k + 1 \in DOMAIN stack /\ Tail(stack)[k] = stack[k + 1]
    BY <2>1, TailStack DEF Frame
  <2>3. Len(Head(stack).l) = 1
    BY <1>5, <2>2 DEF LinkHalves, CallOK
  <2>4. Head(stack).l[1] \in Interface /\ call.l[1] \in Interface
    BY <2>1, <2>2, <2>3
  <2>5. LinkTwo(Head(stack).l[1], call.l[1]) /\ stack' = Tail(stack)
    BY <1>5 DEF LinkHalves
  <2> QED
    BY <2>2, <2>4, <2>5, LinkTwoType DEF CallOK
<1> QED
  BY <1>1, <1>2, <1>3, <1>4, <1>5 DEF Link

LEMMA TypeParts == TypeOK => CallOK
BY DEF TypeOK, CallOK

\* An interface that linkTreewise has returned.
LEMMA LinkedType == TypeOK /\ Linked => call.l[1] \in Interface /\ stack = <<>>
BY DEF TypeOK, Linked

LEMMA DirFilesFinite ==
  ASSUME TypeOK, NEW ds, ds \subseteq Dir, IsFiniteSet(ds)
  PROVE  /\ IsFiniteSet({dirFile[d] : d \in ds})
         /\ {dirFile[d] : d \in ds} \subseteq Interface
<1> DEFINE S == {dirFile[d] : d \in ds}
           g == [d \in ds |-> dirFile[d]]
<1>1. g \in Surjection(ds, S)
  BY DEF Surjection
<1>2. IsFiniteSet(S)
  <2> HIDE DEF g, S
  <2> QED BY <1>1, FS_Surjection
<1> QED
  BY <1>2 DEF TypeOK

LEMMA TypeStep == TypeOK /\ [Next]_vars => TypeOK'
<1> SUFFICES ASSUME TypeOK, [Next]_vars PROVE TypeOK'
  OBVIOUS
<1> USE DEF linkVars, dirVars, diskVars, countVars, PC
<1>c. CallOK
  BY TypeParts
<1>1. CASE Link
  <2>1. CallOK'
    BY <1>c, <1>1, LinkCallOK
  <2>2. UNCHANGED <<pc, dirVars, diskVars, countVars, due>>
    BY <1>1 DEF Link, Split, LinkPair, TakeOne, GoRight, LinkHalves
  <2> QED
    BY <2>1, <2>2 DEF TypeOK, CallOK
<1>2. ASSUME NEW d \in Dir, ProcessDir(d) PROVE TypeOK'
  <2> PICK fs \in Orders(FilesIn[d] \intersect onDisk) : Call([k \in DOMAIN fs |-> Load(fs[k])])
    BY <1>2 DEF ProcessDir
  <2> DEFINE l == [k \in DOMAIN fs |-> Load(fs[k])]
  <2>1. l \in Seq(Interface)
    BY LoadList
  <2>2. Call(l)
    OBVIOUS
  <2> HIDE DEF l
  <2> QED
    BY <1>2, <2>1, <2>2, CallType DEF ProcessDir, TypeOK
<1>3. CASE WriteDir
  <2>1. call.l[1] \in Interface
    BY <1>3, LinkedType DEF WriteDir
  <2>2. <<final, call.l[1]>> \in Seq(Interface)
    BY <2>1 DEF TypeOK
  <2>3. Call(<<final, call.l[1]>>)
    BY <1>3 DEF WriteDir
  <2>4. dirFile' \in [Dir -> Interface]
    BY <1>3, <2>1 DEF WriteDir, TypeOK
  <2> QED
    BY <1>3, <2>2, <2>3, <2>4, CallType DEF WriteDir, TypeOK
<1>n. NoCall \in [op : {"none", "call", "return"}, l : Seq(Interface)] /\ NoCall.op # "return"
  BY DEF NoCall
<1>4. CASE NextDir
  <2>1. call.l[1] \in Interface
    BY <1>4, LinkedType DEF NextDir
  <2> QED
    BY <1>4, <2>1, <1>n DEF NextDir, TypeOK, Returned
<1>5. CASE WriteFinal
  BY <1>5 DEF WriteFinal, TypeOK, Returned
<1>6. CASE EndDirLinker
  <2>1. call.l[1] \in Interface
    BY <1>6, LinkedType DEF EndDirLinker
  <2> QED
    BY <1>6, <2>1, <1>n DEF EndDirLinker, TypeOK, Returned
<1>7. ASSUME NEW selection \in Selections, Start(selection) PROVE TypeOK'
  <2>1. todo' \subseteq Dir
    BY <1>7, DirAssumption DEF Start
  <2>2. \A f \in File : Load(f) \in Interface
    BY LoadType
  <2>3. due' \in Interface
    BY <1>7, <2>2 DEF Start, Interface, TypeOK
  <2> QED
    BY <1>7, <2>1, <2>3 DEF Start, TypeOK, Returned, Interface
<1>8. ASSUME NEW ds \in Taken, StartDirLinker(ds) PROVE TypeOK'
  <2> DEFINE S == {dirFile[d] : d \in ds}
  <2>1. ds \subseteq Dir /\ IsFiniteSet(ds)
    BY DirAssumption, FS_Subset DEF Taken
  <2>2. IsFiniteSet(S) /\ S \subseteq Interface
    BY <2>1, DirFilesFinite
  <2> PICK l \in Orders(S) : Call(l)
    BY <1>8 DEF StartDirLinker
  <2>3. l \in Seq(S)
    BY <2>2, OrdersSeq
  <2>4. l \in Seq(Interface)
    BY <2>2, <2>3
  <2>5. due' \in Interface
    BY <1>8, <2>1 DEF StartDirLinker, TypeOK, Interface
  <2> HIDE DEF S
  <2> QED
    BY <1>8, <2>4, <2>5, CallType DEF StartDirLinker, TypeOK
<1>9. ASSUME NEW ds \in Taken, DirLinkerFails(ds) PROVE TypeOK'
  BY <1>9 DEF DirLinkerFails, TypeOK, Returned
<1>10. ASSUME NEW f \in File, Analyze(f) PROVE TypeOK'
  BY <1>10 DEF Analyze, TypeOK, Returned
<1>11. CASE Crash
  BY <1>11, <1>n DEF Crash, TypeOK, Returned
<1>12. CASE UNCHANGED vars
  BY <1>12 DEF vars, TypeOK, Returned
<1> QED
  BY <1>1, <1>2, <1>3, <1>4, <1>5, <1>6, <1>7, <1>8, <1>9, <1>10, <1>11, <1>12 DEF Next, Linker

LEMMA TypeInit == Init => TypeOK
BY DEF Init, TypeOK, NoCall, PC, Returned, Interface, Frame

\* linkTreewise's call stack, the interfaces and the files written keep their
\* shape, for lists of any length.
THEOREM TypeCorrect == Spec => []TypeOK
<1>1. Init => TypeOK
  BY TypeInit
<1>2. TypeOK /\ [Next]_vars => TypeOK'
  BY TypeStep
<1> QED
  BY <1>1, <1>2, PTL DEF Spec

-----------------------------------------------------------------------------
\* AllReported with the messages as a parameter.
Rep(I, valid, msgs) ==
  \A e, x \in I : Clash(e, x, valid) =>
      \E p \in msgs : p.name = e.name /\ {e.file, x.file} \subseteq p.files

LEMMA RepIs == \A I, valid : AllReported(I, valid) <=> Rep(I, valid, printed)
BY DEF AllReported, Rep, Reported

LEMMA RepMono ==
  ASSUME NEW I, NEW v, NEW w, NEW P, NEW Q, Rep(I, v, P), P \subseteq Q, w \subseteq v
  PROVE  Rep(I, w, Q)
BY DEF Rep, Clash

LEMMA RepEmpty == \A v, P : Rep({}, v, P)
BY DEF Rep

\* Linking two interfaces prints the clashes between them.
LEMMA RepUnion ==
  ASSUME NEW left \in Interface, NEW right \in Interface, NEW v, NEW P,
         Rep(left, v, P), Rep(right, v, P)
  PROVE  Rep(left \union right, v, P \union Problems(left, right, v))
<1> DEFINE Q == P \union Problems(left, right, v)
<1>1. ASSUME NEW e \in left, NEW x \in right, e.name = x.name,
             v \intersect e.cond \intersect x.cond # {}
      PROVE  \E p \in Q : p.name = e.name /\ {e.file, x.file} \subseteq p.files
  <2> DEFINE n == e.name
             p == [name |-> n, files |-> {y.file : y \in {z \in left \union right : z.name = n}}]
  <2>1. n \in Symbol
    BY DEF Interface, Export
  <2>2. v \intersect CondOf(left, n) \intersect CondOf(right, n) # {}
    BY <1>1 DEF CondOf
  <2>3. p \in Problems(left, right, v)
    BY <2>1, <2>2 DEF Problems
  <2>4. p.name = e.name /\ {e.file, x.file} \subseteq p.files
    BY <1>1
  <2> HIDE DEF p, n
  <2> QED
    BY <2>3, <2>4
<1> HIDE DEF Q
<1>2. P \subseteq Q
  BY DEF Q
<1>3. ASSUME NEW e \in left \union right, NEW x \in left \union right, Clash(e, x, v)
      PROVE  \E p \in Q : p.name = e.name /\ {e.file, x.file} \subseteq p.files
  <2>1. e.name = x.name /\ v \intersect e.cond \intersect x.cond # {}
        /\ v \intersect x.cond \intersect e.cond # {}
    BY <1>3 DEF Clash
  <2>2. CASE (e \in left /\ x \in left) \/ (e \in right /\ x \in right)
    BY <2>2, <1>2, <1>3 DEF Rep
  <2>3. CASE e \in left /\ x \in right
    BY <2>1, <2>3, <1>1
  <2>4. CASE x \in left /\ e \in right
    <3>1. \E p \in Q : p.name = x.name /\ {x.file, e.file} \subseteq p.files
      BY <2>1, <2>4, <1>1
    <3> QED
      BY <3>1, <2>1
  <2> QED
    BY <2>2, <2>3, <2>4
<1> QED
  BY <1>3 DEF Rep, Q

\* A file does not clash with itself.
LEMMA RepLoad ==
  ASSUME TypeOK, NEW f \in File, NEW v, NEW P
  PROVE  Rep(Load(f), v, P)
BY LoadType DEF Rep, Clash

\* What makes NothingLinkedSilently inductive: it holds of every interface
\* that linkTreewise has still to link.
CallReported ==
  /\ \A i \in DOMAIN call.l : Rep(call.l[i], Valid, printed)
  /\ \A k \in DOMAIN stack : \A i \in DOMAIN stack[k].l : Rep(stack[k].l[i], Valid, printed)

LEMMA LinkReported == TypeOK /\ CallReported /\ Link => CallReported' /\ printed \subseteq printed'
<1> SUFFICES ASSUME TypeOK, CallReported, Link PROVE CallReported' /\ printed \subseteq printed'
  OBVIOUS
<1>c. CallOK
  BY TypeParts
<1>p. pc' = pc /\ Valid' = Valid
  BY DEF Link, Split, LinkPair, TakeOne, GoRight, LinkHalves, Valid
<1>1. CASE Split
  <2> DEFINE a == Halves(call.l)[1]
             b == Halves(call.l)[2]
             fr == [half |-> "left", l |-> b]
  <2>1. /\ a \in Seq(Interface) /\ b \in Seq(Interface)
        /\ \A i \in DOMAIN a : \E k \in DOMAIN call.l : a[i] = call.l[k]
        /\ \A i \in DOMAIN b : \E k \in DOMAIN call.l : b[i] = call.l[k]
    BY <1>1, <1>c, HalvesOK DEF Split, CallOK
  <2>2. Call(a) /\ stack' = <<fr>> \o stack /\ printed' = printed
    BY <1>1 DEF Split
  <2> HIDE DEF a, b
  <2>3. fr \in Frame /\ fr.l = b
    BY <2>1 DEF Frame
  <2> HIDE DEF fr
  <2>4. \A k \in DOMAIN stack' :
          stack'[k] = fr \/ (k - 1 \in DOMAIN stack /\ stack'[k] = stack[k - 1])
    BY <2>2, <2>3, <1>c, PushFrame DEF CallOK
  <2>5. call'.l = a
    BY <2>1, <2>2, CallType
  <2>6. \A i \in DOMAIN a : Rep(a[i], Valid, printed)
    BY <2>1 DEF CallReported
  <2>7. \A i \in DOMAIN b : Rep(b[i], Valid, printed)
    BY <2>1 DEF CallReported
  <2> QED
    BY <1>p, <2>2, <2>3, <2>4, <2>5, <2>6, <2>7 DEF CallReported
<1>2. CASE LinkPair
  <2>1. call.l[1] \in Interface /\ call.l[2] \in Interface /\ {1, 2} \subseteq DOMAIN call.l
    BY <1>2, <1>c DEF LinkPair, CallOK
  <2>2. LinkTwo(call.l[1], call.l[2]) /\ stack' = stack
    BY <1>2 DEF LinkPair
  <2>3. call'.l = <<call.l[1] \union call.l[2]>>
    BY <2>1, <2>2, <1>c, LinkTwoType DEF CallOK
  <2>4. Rep(call.l[1], Valid, printed) /\ Rep(call.l[2], Valid, printed)
    BY <2>1 DEF CallReported
  <2>5. printed' = printed \union Problems(call.l[1], call.l[2], Valid)
    BY <2>2 DEF LinkTwo
  <2>6. Rep(call.l[1] \union call.l[2], Valid, printed')
    BY <2>1, <2>4, <2>5, RepUnion
  <2>7. \A i \in DOMAIN call'.l : Rep(call'.l[i], Valid, printed')
    <3> DEFINE U == call.l[1] \union call.l[2]
    <3>1. call'.l = <<U>> /\ Rep(U, Valid, printed')
      BY <2>3, <2>6
    <3> HIDE DEF U
    <3> QED
      BY <3>1
  <2>8. printed \subseteq printed'
    BY <2>5
  <2>9. \A k \in DOMAIN stack : \A i \in DOMAIN stack[k].l : Rep(stack[k].l[i], Valid, printed')
    BY <2>8, RepMono DEF CallReported
  <2> QED
    BY <1>p, <2>2, <2>7, <2>8, <2>9 DEF CallReported
<1>3. CASE TakeOne
  <2> DEFINE I == IF call.l = <<>> THEN {} ELSE call.l[1]
  <2>1. I \in Interface /\ (I = {} \/ \E k \in DOMAIN call.l : I = call.l[k])
    <3>1. call.l = <<>> \/ 1 \in DOMAIN call.l
      BY <1>c DEF CallOK
    <3> QED
      BY <3>1, <1>c DEF CallOK, Interface
  <2>2. Return(I) /\ stack' = stack /\ printed' = printed
    BY <1>3 DEF TakeOne
  <2> HIDE DEF I
  <2>3. call'.l = <<I>>
    BY <2>1, <2>2, ReturnType
  <2>4. Rep(I, Valid, printed)
    BY <2>1, RepEmpty DEF CallReported
  <2> QED
    BY <1>p, <2>2, <2>3, <2>4 DEF CallReported
<1>4. CASE GoRight
  <2>1. stack \in Seq(Frame) /\ stack # <<>> /\ call.l \in Seq(Interface)
    BY <1>4, <1>c DEF GoRight, CallOK
  <2>2. /\ Head(stack) = stack[1] /\ 1 \in DOMAIN stack
        /\ Head(stack).l \in Seq(Interface) /\ Tail(stack) \in Seq(Frame)
        /\ \A k \in DOMAIN Tail(stack) : k + 1 \in DOMAIN stack /\ Tail(stack)[k] = stack[k + 1]
    BY <2>1, TailStack DEF Frame
  <2> DEFINE fr == [half |-> "right", l |-> call.l]
  <2>3. fr \in Frame /\ fr.l = call.l
    BY <2>1 DEF Frame
  <2>4. Call(Head(stack).l) /\ stack' = <<fr>> \o Tail(stack) /\ printed' = printed
    BY <1>4 DEF GoRight
  <2> HIDE DEF fr
  <2>5. \A k \in DOMAIN stack' :
             stack'[k] = fr \/ (k - 1 \in DOMAIN Tail(stack) /\ stack'[k] = Tail(stack)[k - 1])
    BY <2>2, <2>3, <2>4, PushFrame
  <2>6. \A k \in DOMAIN stack' : stack'[k] = fr \/ \E i \in DOMAIN stack : stack'[k] = stack[i]
    BY <2>2, <2>5
  <2>7. call'.l = stack[1].l
    BY <2>2, <2>4, CallType
  <2> QED
    BY <1>p, <2>2, <2>3, <2>4, <2>6, <2>7 DEF CallReported
<1>5. CASE LinkHalves
  <2>1. stack \in Seq(Frame) /\ stack # <<>> /\ call.l \in Seq(Interface) /\ Len(call.l) = 1
    BY <1>5, <1>c DEF LinkHalves, CallOK
  <2>2. /\ Head(stack) = stack[1] /\ 1 \in DOMAIN stack
        /\ Head(stack).l \in Seq(Interface) /\ Tail(stack) \in Seq(Frame)
        /\ \A k \in DOMAIN Tail(stack) : k + 1 \in DOMAIN stack /\ Tail(stack)[k] = stack[k + 1]
    BY <2>1, TailStack DEF Frame
  <2>3. Len(stack[1].l) = 1
    BY <1>5, <1>c, <2>2 DEF LinkHalves, CallOK
  <2> DEFINE left == stack[1].l[1]
             right == call.l[1]
  <2>4. left \in Interface /\ right \in Interface /\ 1 \in DOMAIN stack[1].l /\ 1 \in DOMAIN call.l
    BY <2>1, <2>2, <2>3
  <2>5. LinkTwo(left, right) /\ stack' = Tail(stack)
    BY <1>5, <2>2 DEF LinkHalves
  <2>6. Rep(left, Valid, printed) /\ Rep(right, Valid, printed)
    BY <2>2, <2>4 DEF CallReported
  <2> HIDE DEF left, right
  <2>7. call'.l = <<left \union right>>
    BY <2>4, <2>5, <1>c, LinkTwoType DEF CallOK
  <2>8. printed' = printed \union Problems(left, right, Valid)
    BY <2>5 DEF LinkTwo
  <2>9. Rep(left \union right, Valid, printed')
    BY <2>4, <2>6, <2>8, RepUnion
  <2>10. printed \subseteq printed'
    BY <2>8
  <2>11. \A k \in DOMAIN stack : \A i \in DOMAIN stack[k].l : Rep(stack[k].l[i], Valid, printed')
    BY <2>10, RepMono DEF CallReported
  <2>12. \A k \in DOMAIN stack' : \E j \in DOMAIN stack : stack'[k] = stack[j]
    BY <2>2, <2>5
  <2>13. \A i \in DOMAIN call'.l : Rep(call'.l[i], Valid, printed')
    BY <2>7, <2>9
  <2> QED
    BY <1>p, <2>10, <2>11, <2>12, <2>13 DEF CallReported
<1> QED
  BY <1>1, <1>2, <1>3, <1>4, <1>5 DEF Link

\* linkTreewise runs only when a linker does.
Resting == pc \in {"idle", "dirs"} => call = NoCall /\ stack = <<>>

LEMMA RestingStep == TypeOK /\ Resting /\ [Next]_vars => Resting'
<1> SUFFICES ASSUME TypeOK, Resting, [Next]_vars, pc' \in {"idle", "dirs"}
             PROVE  call' = NoCall /\ stack' = <<>>
  BY DEF Resting
<1> USE DEF linkVars, dirVars, diskVars, countVars
<1>1. CASE Link
  BY <1>1 DEF Resting, NoCall, Called, Returned, Link, Split, LinkPair, TakeOne, GoRight, LinkHalves
<1>2. CASE NextDir \/ EndDirLinker
  BY <1>2 DEF NextDir, EndDirLinker, Linked
<1>3. ASSUME NEW d \in Dir, ProcessDir(d) PROVE FALSE
  BY <1>3 DEF ProcessDir
<1>4. CASE WriteDir \/ WriteFinal
  BY <1>4 DEF WriteDir, WriteFinal, Resting
<1>5. ASSUME NEW selection \in Selections, Start(selection) PROVE call' = NoCall /\ stack' = <<>>
  BY <1>5 DEF Start, Resting
<1>6. ASSUME NEW ds \in Taken, StartDirLinker(ds) \/ DirLinkerFails(ds)
      PROVE call' = NoCall /\ stack' = <<>>
  BY <1>6 DEF StartDirLinker, DirLinkerFails, Resting
<1>7. ASSUME NEW f \in File, Analyze(f) PROVE call' = NoCall /\ stack' = <<>>
  BY <1>7 DEF Analyze, Resting
<1>8. CASE Crash
  BY <1>8 DEF Crash
<1>9. CASE UNCHANGED vars
  BY <1>9 DEF vars, Resting
<1> QED
  BY <1>1, <1>2, <1>3, <1>4, <1>5, <1>6, <1>7, <1>8, <1>9 DEF Next, Linker

ReportedOK == CallReported /\ NothingLinkedSilently

LEMMA ReportedStep == TypeOK /\ Resting /\ ReportedOK /\ [Next]_vars => ReportedOK'
<1> SUFFICES ASSUME TypeOK, Resting, ReportedOK, [Next]_vars PROVE ReportedOK'
  OBVIOUS
<1> USE DEF linkVars, dirVars, diskVars, countVars
\* The reports of what is on disk and in finalInterface outlive any step that
\* changes neither and forgets no message.
<1> DEFINE Written ==
      /\ \A d \in Dir : Rep(dirFile[d], VM, printed)
      /\ Rep(final, VM, printed)
      /\ Rep(finalFile, VM \intersect Approx, printed)
<1>w. Written /\ (Written' => NothingLinkedSilently')
  BY RepIs DEF ReportedOK, NothingLinkedSilently, AllReported, Rep, Reported
<1>r. CallReported
  BY DEF ReportedOK
<1>1. CASE Link
  <2>1. CallReported' /\ printed \subseteq printed'
    BY <1>1, <1>r, LinkReported
  <2>2. dirFile' = dirFile /\ final' = final /\ finalFile' = finalFile
    BY <1>1 DEF Link, Split, LinkPair, TakeOne, GoRight, LinkHalves
  <2>3. Written'
    BY <1>w, <2>1, <2>2, RepMono
  <2> QED
    BY <1>w, <2>1, <2>3 DEF ReportedOK
<1>2. ASSUME NEW d \in Dir, ProcessDir(d) PROVE ReportedOK'
  <2> PICK fs \in Orders(FilesIn[d] \intersect onDisk) : Call([k \in DOMAIN fs |-> Load(fs[k])])
    BY <1>2 DEF ProcessDir
  <2> DEFINE l == [k \in DOMAIN fs |-> Load(fs[k])]
  <2>1. l \in Seq(Interface) /\ {l[k] : k \in DOMAIN l} = {Load(f) : f \in FilesIn[d] \intersect onDisk}
    BY LoadList
  <2>2. Call(l)
    OBVIOUS
  <2>3. stack = <<>>
    BY <1>2 DEF ProcessDir, Resting
  <2> HIDE DEF l
  <2>4. \A i \in DOMAIN l : \E f \in File : l[i] = Load(f)
    BY <2>1 DEF TypeOK
  <2>5. \A i \in DOMAIN l : Rep(l[i], Valid', printed')
    BY <2>4, RepLoad
  <2>6. call'.l = l /\ stack' = stack
    BY <1>2, <2>1, <2>2, CallType DEF ProcessDir
  <2>7. CallReported'
    BY <2>3, <2>5, <2>6 DEF CallReported
  <2>8. Written'
    BY <1>2, <1>w DEF ProcessDir
  <2> QED
    BY <1>w, <2>7, <2>8 DEF ReportedOK
<1>3. CASE WriteDir
  <2>1. call.l[1] \in Interface /\ stack = <<>> /\ 1 \in DOMAIN call.l
    BY <1>3, LinkedType DEF WriteDir, TypeOK, Linked
  <2>2. Rep(call.l[1], VM, printed)
    BY <1>3, <1>r, <2>1 DEF WriteDir, CallReported, Valid
  <2> DEFINE l == <<final, call.l[1]>>
  <2>3. l \in Seq(Interface) /\ \A i \in DOMAIN l : Rep(l[i], VM, printed)
    <3>1. l \in Seq(Interface)
      BY <2>1 DEF TypeOK
    <3> QED
      BY <3>1, <1>w, <2>2
  <2>4. Call(l)
    BY <1>3 DEF WriteDir
  <2> HIDE DEF l
  <2>5. call'.l = l
    BY <2>3, <2>4, CallType
  <2>6. stack' = <<>> /\ printed' = printed /\ Valid' = VM
    BY <1>3, <2>1 DEF WriteDir, Valid
  <2>7. CallReported'
    BY <2>3, <2>5, <2>6 DEF CallReported
  <2>8. dirFile' = [dirFile EXCEPT ![cur] = call.l[1]] /\ final' = final /\ finalFile' = finalFile
    BY <1>3 DEF WriteDir
  <2>9. \A d \in Dir : dirFile'[d] = dirFile[d] \/ dirFile'[d] = call.l[1]
    BY <2>8 DEF TypeOK
  <2>10. Written'
    BY <1>w, <2>2, <2>6, <2>8, <2>9
  <2> QED
    BY <1>w, <2>7, <2>10 DEF ReportedOK
<1>n. ASSUME call' = NoCall, stack' = <<>> PROVE CallReported'
  BY <1>n DEF CallReported, NoCall
<1>4. CASE NextDir
  <2>1. Rep(call.l[1], VM, printed)
    BY <1>4, <1>r DEF NextDir, CallReported, Valid, Linked, TypeOK
  <2>2. call' = NoCall /\ stack' = <<>>
    BY <1>4 DEF NextDir, Linked
  <2>3. Written'
    BY <1>4, <1>w, <2>1 DEF NextDir
  <2> QED
    BY <1>w, <1>n, <2>2, <2>3 DEF ReportedOK
<1>5. CASE WriteFinal
  <2>1. call' = NoCall /\ stack' = <<>>
    BY <1>5 DEF WriteFinal, Resting
  <2>2. Rep(final, VM \intersect Approx, printed)
    BY <1>w, RepMono
  <2>3. Written'
    BY <1>5, <1>w, <2>2 DEF WriteFinal
  <2> QED
    BY <1>w, <1>n, <2>1, <2>3 DEF ReportedOK
<1>6. CASE EndDirLinker
  <2>0. 1 \in DOMAIN call.l /\ Valid = VM \intersect Approx
    BY <1>6 DEF EndDirLinker, Linked, TypeOK, Valid
  <2>1. Rep(call.l[1], VM \intersect Approx, printed)
    <3>1. Rep(call.l[1], Valid, printed)
      BY <1>r, <2>0 DEF CallReported
    <3> QED
      BY <3>1, <2>0
  <2>2. call' = NoCall /\ stack' = <<>>
    BY <1>6 DEF EndDirLinker, Linked
  <2>3. Written'
    BY <1>6, <1>w, <2>1 DEF EndDirLinker
  <2> QED
    BY <1>w, <1>n, <2>2, <2>3 DEF ReportedOK
<1>7. ASSUME NEW selection \in Selections, Start(selection) PROVE ReportedOK'
  <2>1. call' = NoCall /\ stack' = <<>>
    BY <1>7 DEF Start, Resting
  <2>2. Written'
    BY <1>7, <1>w, RepEmpty DEF Start
  <2> QED
    BY <1>w, <1>n, <2>1, <2>2 DEF ReportedOK
<1>8. ASSUME NEW ds \in Taken, StartDirLinker(ds) PROVE ReportedOK'
  <2> DEFINE S == {dirFile[d] : d \in ds}
  <2>1. ds \subseteq Dir /\ IsFiniteSet(ds)
    BY DirAssumption, FS_Subset DEF Taken
  <2>2. IsFiniteSet(S) /\ S \subseteq Interface
    BY <2>1, DirFilesFinite
  <2> PICK l \in Orders(S) : Call(l)
    BY <1>8 DEF StartDirLinker
  <2>3. l \in Seq(S)
    BY <2>2, OrdersSeq
  <2>4. l \in Seq(Interface)
    BY <2>2, <2>3
  <2> DEFINE W == VM \intersect Approx
  <2>5. \A I \in S : Rep(I, W, printed)
    BY <1>w, <2>1, RepMono
  <2>8. Valid' = W
    BY <1>8 DEF StartDirLinker, Valid
  <2>10. Written'
    BY <1>8, <1>w DEF StartDirLinker
  <2> HIDE DEF S, W
  <2>6. \A i \in DOMAIN l : Rep(l[i], W, printed)
    BY <2>3, <2>5
  <2>7. call'.l = l /\ stack' = <<>> /\ printed' = printed
    BY <1>8, <2>4, CallType DEF StartDirLinker, Resting
  <2>9. CallReported'
    BY <2>6, <2>7, <2>8 DEF CallReported
  <2> QED
    BY <1>w, <2>9, <2>10 DEF ReportedOK
<1>9. ASSUME NEW ds \in Taken, DirLinkerFails(ds) PROVE ReportedOK'
  BY <1>9, <1>w, <1>r DEF DirLinkerFails, ReportedOK, CallReported, Valid
<1>10. ASSUME NEW f \in File, Analyze(f) PROVE ReportedOK'
  BY <1>10, <1>w, <1>r DEF Analyze, ReportedOK, CallReported, Valid
<1>11. CASE Crash
  BY <1>11, <1>w, <1>n DEF Crash, ReportedOK
<1>12. CASE UNCHANGED vars
  BY <1>12, <1>w, <1>r DEF vars, ReportedOK, CallReported, Valid
<1> QED
  BY <1>1, <1>2, <1>3, <1>4, <1>5, <1>6, <1>7, <1>8, <1>9, <1>10, <1>11, <1>12 DEF Next, Linker

LEMMA InitReported == Init => Resting /\ ReportedOK
<1> SUFFICES ASSUME Init PROVE Resting /\ ReportedOK
  OBVIOUS
<1>1. Resting
  BY DEF Init, Resting
<1>2. CallReported
  BY DEF Init, CallReported, NoCall
<1>3. NothingLinkedSilently
  BY RepEmpty, RepIs DEF Init, NothingLinkedSilently
<1> QED
  BY <1>1, <1>2, <1>3 DEF ReportedOK

\* No two clashing files get into a written interface without a message that
\* names both, in whatever order directories and lists are linked, over any
\* number of runs and crashes.
THEOREM NothingLinkedSilentlyHolds == Spec => []NothingLinkedSilently
<1>1. Init => TypeOK /\ Resting /\ ReportedOK
  BY TypeInit, InitReported
<1>2. TypeOK /\ Resting /\ ReportedOK /\ [Next]_vars => (TypeOK /\ Resting /\ ReportedOK)'
  BY TypeStep, RestingStep, ReportedStep
<1>3. ReportedOK => NothingLinkedSilently
  BY DEF ReportedOK
<1> QED
  BY <1>1, <1>2, <1>3, PTL DEF Spec

-----------------------------------------------------------------------------
\* An export that linkTreewise has in hand: in the list or the result at the
\* top, or in one that an outer call keeps.
InCall(e)  == \E i \in DOMAIN call.l : e \in call.l[i]
InStack(e) == \E k \in DOMAIN stack : \E i \in DOMAIN stack[k].l : e \in stack[k].l[i]
InHand(e)  == InCall(e) \/ InStack(e)

\* A list with one interface less or more than one frame.
LEMMA InStackSplit ==
  ASSUME TypeOK, stack # <<>>
  PROVE  \A e : InStack(e) <=> \/ \E i \in DOMAIN stack[1].l : e \in stack[1].l[i]
                              \/ \E k \in DOMAIN Tail(stack) :
                                    \E i \in DOMAIN Tail(stack)[k].l : e \in Tail(stack)[k].l[i]
<1>1. stack \in Seq(Frame)
  BY DEF TypeOK
<1>2. \A k \in DOMAIN stack : k = 1 \/ (k - 1 \in DOMAIN Tail(stack) /\ Tail(stack)[k - 1] = stack[k])
  BY <1>1
<1>3. \A k \in DOMAIN Tail(stack) : k + 1 \in DOMAIN stack /\ Tail(stack)[k] = stack[k + 1]
  BY <1>1
<1>4. 1 \in DOMAIN stack
  BY <1>1
<1> QED
  BY <1>2, <1>3, <1>4 DEF InStack

\* linkTreewise loses no export and makes none up.
LEMMA LinkKeeps == TypeOK /\ Link => \A e : InHand(e)' <=> InHand(e)
<1> SUFFICES ASSUME TypeOK, Link, NEW e PROVE InHand(e)' <=> InHand(e)
  OBVIOUS
<1>c. CallOK
  BY TypeParts
<1>1. CASE Split
  <2> DEFINE a == Halves(call.l)[1]
             b == Halves(call.l)[2]
             fr == [half |-> "left", l |-> b]
  <2>1. /\ a \in Seq(Interface) /\ b \in Seq(Interface)
        /\ \A i \in DOMAIN a : \E k \in DOMAIN call.l : a[i] = call.l[k]
        /\ \A i \in DOMAIN b : \E k \in DOMAIN call.l : b[i] = call.l[k]
        /\ \A k \in DOMAIN call.l : \/ \E i \in DOMAIN a : a[i] = call.l[k]
                                    \/ \E i \in DOMAIN b : b[i] = call.l[k]
    BY <1>1, <1>c, HalvesOK DEF Split, CallOK
  <2>2. Call(a) /\ stack' = <<fr>> \o stack
    BY <1>1 DEF Split
  <2> HIDE DEF a, b
  <2>3. fr \in Frame /\ fr.l = b
    BY <2>1 DEF Frame
  <2> HIDE DEF fr
  <2>4. /\ \A k \in DOMAIN stack' :
             stack'[k] = fr \/ (k - 1 \in DOMAIN stack /\ stack'[k] = stack[k - 1])
        /\ 1 \in DOMAIN stack' /\ stack'[1] = fr
        /\ \A k \in DOMAIN stack : k + 1 \in DOMAIN stack' /\ stack'[k + 1] = stack[k]
    BY <2>2, <2>3, <1>c, PushFrame DEF CallOK
  <2>5. call'.l = a
    BY <2>1, <2>2, CallType
  <2>6. InCall(e) <=> InCall(e)' \/ \E i \in DOMAIN b : e \in b[i]
    BY <2>1, <2>5 DEF InCall
  <2>7. InStack(e)' <=> InStack(e) \/ \E i \in DOMAIN b : e \in b[i]
    BY <2>3, <2>4 DEF InStack
  <2> QED
    BY <2>6, <2>7 DEF InHand
<1>2. CASE LinkPair
  <2>1. call.l[1] \in Interface /\ call.l[2] \in Interface /\ DOMAIN call.l = {1, 2}
    BY <1>2, <1>c DEF LinkPair, CallOK
  <2>2. LinkTwo(call.l[1], call.l[2]) /\ stack' = stack
    BY <1>2 DEF LinkPair
  <2> DEFINE U == call.l[1] \union call.l[2]
  <2>3. call'.l = <<U>>
    BY <2>1, <2>2, <1>c, LinkTwoType DEF CallOK
  <2>4. InCall(e) <=> e \in U
    BY <2>1 DEF InCall
  <2> HIDE DEF U
  <2>5. InCall(e)' <=> e \in U
    BY <2>3 DEF InCall
  <2> QED
    BY <2>2, <2>4, <2>5 DEF InHand, InStack
<1>3. CASE TakeOne
  <2> DEFINE I == IF call.l = <<>> THEN {} ELSE call.l[1]
  <2>1. I \in Interface
    BY <1>3, <1>c DEF TakeOne, CallOK, Interface
  <2>2. Return(I) /\ stack' = stack
    BY <1>3 DEF TakeOne
  <2>3. InCall(e) <=> e \in I
    <3>1. call.l \in Seq(Interface) /\ Len(call.l) < 2
      BY <1>3, <1>c DEF TakeOne, CallOK
    <3>2. call.l = <<>> \/ DOMAIN call.l = {1}
      BY <3>1
    <3> QED
      BY <3>2 DEF InCall
  <2> HIDE DEF I
  <2>4. call'.l = <<I>>
    BY <2>1, <2>2, ReturnType
  <2>5. InCall(e)' <=> e \in I
    BY <2>4 DEF InCall
  <2> QED
    BY <2>2, <2>3, <2>5 DEF InHand, InStack
<1>4. CASE GoRight
  <2>1. stack \in Seq(Frame) /\ stack # <<>> /\ call.l \in Seq(Interface)
    BY <1>4, <1>c DEF GoRight, CallOK
  <2>2. Head(stack) = stack[1] /\ Head(stack).l \in Seq(Interface) /\ Tail(stack) \in Seq(Frame)
    BY <2>1, TailStack DEF Frame
  <2> DEFINE fr == [half |-> "right", l |-> call.l]
             st == Tail(stack)
  <2>3. fr \in Frame /\ fr.l = call.l
    BY <2>1 DEF Frame
  <2>4. Call(Head(stack).l) /\ stack' = <<fr>> \o st
    BY <1>4 DEF GoRight
  <2>5. InStack(e) <=> \/ \E i \in DOMAIN stack[1].l : e \in stack[1].l[i]
                       \/ \E k \in DOMAIN st : \E i \in DOMAIN st[k].l : e \in st[k].l[i]
    BY <2>1, InStackSplit
  <2>6. call'.l = stack[1].l
    BY <2>2, <2>4, CallType
  <2> HIDE DEF fr, st
  <2>7. /\ \A k \in DOMAIN stack' : stack'[k] = fr \/ (k - 1 \in DOMAIN st /\ stack'[k] = st[k - 1])
        /\ 1 \in DOMAIN stack' /\ stack'[1] = fr
        /\ \A k \in DOMAIN st : k + 1 \in DOMAIN stack' /\ stack'[k + 1] = st[k]
    BY <2>2, <2>3, <2>4, PushFrame DEF st
  <2>8. InStack(e)' <=> InCall(e) \/ \E k \in DOMAIN st : \E i \in DOMAIN st[k].l : e \in st[k].l[i]
    BY <2>3, <2>7 DEF InStack, InCall
  <2>9. InCall(e)' <=> \E i \in DOMAIN stack[1].l : e \in stack[1].l[i]
    BY <2>6 DEF InCall
  <2> QED
    BY <2>5, <2>8, <2>9 DEF InHand
<1>5. CASE LinkHalves
  <2>1. stack \in Seq(Frame) /\ stack # <<>> /\ call.l \in Seq(Interface) /\ Len(call.l) = 1
    BY <1>5, <1>c DEF LinkHalves, CallOK
  <2>2. Head(stack) = stack[1] /\ 1 \in DOMAIN stack /\ Head(stack).l \in Seq(Interface)
    BY <2>1, TailStack DEF Frame
  <2>3. Len(stack[1].l) = 1
    BY <1>5, <1>c, <2>2 DEF LinkHalves, CallOK
  <2> DEFINE left == stack[1].l[1]
             right == call.l[1]
             st == Tail(stack)
  <2>4. left \in Interface /\ right \in Interface /\ DOMAIN stack[1].l = {1} /\ DOMAIN call.l = {1}
    BY <2>1, <2>2, <2>3
  <2>5. LinkTwo(left, right) /\ stack' = st
    BY <1>5, <2>2 DEF LinkHalves
  <2>6. InStack(e) <=> \/ e \in left
                       \/ \E k \in DOMAIN st : \E i \in DOMAIN st[k].l : e \in st[k].l[i]
    BY <2>1, <2>4, InStackSplit
  <2>7. InCall(e) <=> e \in right
    BY <2>4 DEF InCall
  <2> HIDE DEF left, right, st
  <2>8. call'.l = <<left \union right>>
    BY <2>4, <2>5, <1>c, LinkTwoType DEF CallOK
  <2>9. InCall(e)' <=> e \in left \union right
    <3> DEFINE U == left \union right
    <3>1. call'.l = <<U>>
      BY <2>8
    <3> HIDE DEF U
    <3>2. InCall(e)' <=> e \in U
      BY <3>1 DEF InCall
    <3> QED
      BY <3>2 DEF U
  <2>10. InStack(e)' <=> \E k \in DOMAIN st : \E i \in DOMAIN st[k].l : e \in st[k].l[i]
    BY <2>5 DEF InStack
  <2> QED
    BY <2>6, <2>7, <2>9, <2>10 DEF InHand
<1> QED
  BY <1>1, <1>2, <1>3, <1>4, <1>5 DEF Link

\* e is an export of a file of one of the directories ds.
Of(e, ds) == \E d \in ds : e.file \in FilesIn[d]

\* What makes AllLinked inductive: what is due is in the directories left, in
\* linkTreewise's hands or in finalInterface.
DueOK ==
  /\ pc \in {"dirs", "dirTree", "merge"} =>
        \A e \in due : e.file \in onDisk /\ e \in Load(e.file)
  /\ pc \in {"dirTree", "merge"} => cur \in Dir
  /\ pc \in {"dirs", "dirTree"} => \A e \in due : Of(e, todo) \/ e \in final
  /\ pc = "dirTree" => \A e \in due : Of(e, {cur}) => InHand(e)
  /\ pc = "merge" => \A e \in due : Of(e, todo \ {cur}) \/ InHand(e)
  /\ pc = "dirLink" => \A e : InHand(e) <=> e \in due

\* What linkTreewise returns is all it had in hand.
LEMMA LinkedAll == TypeOK /\ Linked => \A e : InHand(e) <=> e \in call.l[1]
<1> SUFFICES ASSUME TypeOK, Linked, NEW e PROVE InHand(e) <=> e \in call.l[1]
  OBVIOUS
<1>1. DOMAIN call.l = {1} /\ stack = <<>>
  BY DEF TypeOK, Linked
<1> QED
  BY <1>1 DEF InHand, InCall, InStack

LEMMA DueStep == TypeOK /\ Resting /\ DueOK /\ [Next]_vars => DueOK'
<1> SUFFICES ASSUME TypeOK, Resting, DueOK, [Next]_vars PROVE DueOK'
  OBVIOUS
<1> USE DEF linkVars, dirVars, diskVars, countVars
<1>1. CASE Link
  <2>1. \A e : InHand(e)' <=> InHand(e)
    BY <1>1, LinkKeeps
  <2>2. UNCHANGED <<pc, dirVars, diskVars, due>>
    BY <1>1 DEF Link, Split, LinkPair, TakeOne, GoRight, LinkHalves
  <2> QED
    BY <2>1, <2>2 DEF DueOK, Of, Load
<1>2. ASSUME NEW d \in Dir, ProcessDir(d) PROVE DueOK'
  <2> PICK fs \in Orders(FilesIn[d] \intersect onDisk) : Call([k \in DOMAIN fs |-> Load(fs[k])])
    BY <1>2 DEF ProcessDir
  <2> DEFINE l == [k \in DOMAIN fs |-> Load(fs[k])]
  <2>1. l \in Seq(Interface) /\ {l[k] : k \in DOMAIN l} = {Load(f) : f \in FilesIn[d] \intersect onDisk}
    BY LoadList
  <2>2. Call(l)
    OBVIOUS
  <2> HIDE DEF l
  <2>3. call'.l = l
    BY <2>1, <2>2, CallType
  <2>4. pc = "dirs" /\ pc' = "dirTree" /\ cur' = d /\ UNCHANGED <<todo, final, onDisk, exports, due>>
    BY <1>2 DEF ProcessDir
  <2>5. ASSUME NEW e \in due, Of(e, {d}) PROVE InHand(e)'
    <3>1. e.file \in FilesIn[d] \intersect onDisk /\ e \in Load(e.file)
      BY <2>4, <2>5 DEF DueOK, Of
    <3>2. \E k \in DOMAIN l : l[k] = Load(e.file)
      BY <2>1, <3>1
    <3> QED
      BY <2>3, <3>1, <3>2 DEF InHand, InCall
  <2>6. \A e \in due' : (e.file \in onDisk /\ e \in Load(e.file))'
    BY <2>4 DEF DueOK, Load
  <2>7. \A e \in due' : Of(e, todo)' \/ e \in final'
    BY <2>4 DEF DueOK, Of
  <2> QED
    BY <2>4, <2>5, <2>6, <2>7 DEF DueOK, Of
<1>3. CASE WriteDir
  <2>1. call.l[1] \in Interface /\ stack = <<>>
    BY <1>3, LinkedType DEF WriteDir
  <2> DEFINE l == <<final, call.l[1]>>
  <2>2. l \in Seq(Interface) /\ DOMAIN l = {1, 2} /\ l[1] = final /\ l[2] = call.l[1]
    BY <2>1 DEF TypeOK
  <2>3. Call(l)
    BY <1>3 DEF WriteDir
  <2> HIDE DEF l
  <2>4. call'.l = l
    BY <2>2, <2>3, CallType
  <2>5. pc = "dirTree" /\ pc' = "merge" /\ UNCHANGED <<todo, cur, final, onDisk, exports, due>>
    BY <1>3 DEF WriteDir
  <2>6. \A e : InHand(e) => e \in call.l[1]
    BY <1>3, LinkedAll DEF WriteDir
  <2>7. \A e : e \in final \/ e \in call.l[1] => InHand(e)'
    BY <2>2, <2>4 DEF InHand, InCall
  <2>8. \A e \in due : Of(e, todo \ {cur}) \/ InHand(e)'
    <3> SUFFICES ASSUME NEW e \in due, ~Of(e, todo \ {cur}) PROVE InHand(e)'
      OBVIOUS
    <3>1. Of(e, {cur}) \/ e \in final
      BY <2>5 DEF DueOK, Of
    <3>2. Of(e, {cur}) => InHand(e)
      BY <2>5 DEF DueOK
    <3> QED
      BY <2>6, <2>7, <3>1, <3>2
  <2>9. \A e \in due' : (e.file \in onDisk /\ e \in Load(e.file))'
    BY <2>5 DEF DueOK, Load
  <2>10. \A e : Of(e, todo \ {cur})' <=> Of(e, todo \ {cur})
    BY <2>5 DEF Of
  <2> QED
    BY <2>5, <2>8, <2>9, <2>10 DEF DueOK
<1>4. CASE NextDir
  <2>1. pc = "merge" /\ pc' = "dirs" /\ final' = call.l[1] /\ todo' = todo \ {cur}
        /\ UNCHANGED <<onDisk, exports, due>>
    BY <1>4 DEF NextDir
  <2>2. \A e : InHand(e) <=> e \in call.l[1]
    BY <1>4, LinkedAll DEF NextDir
  <2>3. \A e \in due' : (e.file \in onDisk /\ e \in Load(e.file))'
    BY <2>1 DEF DueOK, Load
  <2>4. \A e \in due' : Of(e, todo)' \/ e \in final'
    BY <2>1, <2>2 DEF DueOK, Of
  <2> QED
    BY <2>1, <2>3, <2>4 DEF DueOK
<1>5. CASE WriteFinal \/ EndDirLinker \/ Crash
  <2>1. pc' = "idle"
    BY <1>5 DEF WriteFinal, EndDirLinker, Crash
  <2> QED
    BY <2>1 DEF DueOK
<1>6. ASSUME NEW selection \in Selections, Start(selection) PROVE DueOK'
  <2>1. pc' = "dirs" /\ UNCHANGED <<onDisk, exports>>
        /\ due' = UNION {Load(f) : f \in onDisk \intersect UNION {FilesIn[d] : d \in todo'}}
    BY <1>6 DEF Start
  <2>2. ASSUME NEW e \in due'
        PROVE  e.file \in onDisk /\ e \in Load(e.file) /\ \E d \in todo' : e.file \in FilesIn[d]
    <3> PICK f \in onDisk \intersect UNION {FilesIn[d] : d \in todo'} : e \in Load(f)
      BY <2>1
    <3>1. f \in File
      BY DEF TypeOK
    <3>2. e.file = f
      BY <3>1, LoadType
    <3> QED
      BY <3>2
  <2>3. \A e : (e.file \in onDisk /\ e \in Load(e.file))' <=> e.file \in onDisk /\ e \in Load(e.file)
    BY <2>1 DEF Load
  <2> QED
    BY <2>1, <2>2, <2>3 DEF DueOK, Of
<1>7. ASSUME NEW ds \in Taken, StartDirLinker(ds) PROVE DueOK'
  <2> DEFINE S == {dirFile[d] : d \in ds}
  <2>1. ds \subseteq Dir /\ IsFiniteSet(ds)
    BY DirAssumption, FS_Subset DEF Taken
  <2>2. IsFiniteSet(S) /\ S \subseteq Interface
    BY <2>1, DirFilesFinite
  <2> PICK l \in Orders(S) : Call(l)
    BY <1>7 DEF StartDirLinker
  <2>3. l \in Seq(S) /\ {l[k] : k \in DOMAIN l} = S
    BY <2>2, OrdersSeq
  <2>4. l \in Seq(Interface)
    BY <2>2, <2>3
  <2>5. pc' = "dirLink" /\ due' = UNION S /\ stack' = <<>>
    BY <1>7 DEF StartDirLinker, Resting
  <2> HIDE DEF S
  <2>6. call'.l = l
    BY <2>4, CallType
  <2>7. \A e : InHand(e)' <=> \E k \in DOMAIN l : e \in l[k]
    BY <2>5, <2>6 DEF InHand, InCall, InStack
  <2>8. \A e : (\E k \in DOMAIN l : e \in l[k]) <=> e \in UNION S
    BY <2>3
  <2> QED
    BY <2>5, <2>7, <2>8 DEF DueOK
<1>8. ASSUME NEW ds \in Taken, DirLinkerFails(ds) PROVE DueOK'
  BY <1>8 DEF DirLinkerFails, DueOK, Of, Load, InHand, InCall, InStack
<1>9. ASSUME NEW f \in File, Analyze(f) PROVE DueOK'
  BY <1>9 DEF Analyze, DueOK, Of, Load, InHand, InCall, InStack
<1>10. CASE UNCHANGED vars
  BY <1>10 DEF vars, DueOK, Of, Load, InHand, InCall, InStack
<1> QED
  BY <1>1, <1>2, <1>3, <1>4, <1>5, <1>6, <1>7, <1>8, <1>9, <1>10 DEF Next, Linker

\* final.interface gets every export that was on disk in the directories the
\* run was asked for: halving lists loses none, and neither does the merge of
\* the directories, or LinuxDirLinker.
THEOREM AllLinkedHolds == Spec => []AllLinked
<1>1. Init => TypeOK /\ Resting /\ DueOK
  <2> SUFFICES ASSUME Init PROVE Resting /\ DueOK
    BY TypeInit
  <2> QED
    BY DEF Init, Resting, DueOK
<1>2. TypeOK /\ Resting /\ DueOK /\ [Next]_vars => (TypeOK /\ Resting /\ DueOK)'
  BY TypeStep, RestingStep, DueStep
<1>3. TypeOK /\ DueOK => AllLinked
  <2> SUFFICES ASSUME TypeOK, DueOK PROVE AllLinked
    OBVIOUS
  <2>1. ASSUME pc = "dirs", todo = {} PROVE due \subseteq final
    BY <2>1 DEF DueOK, Of
  <2>2. ASSUME pc = "dirLink", Linked PROVE call.l = <<due>>
    <3>1. \A e : e \in call.l[1] <=> e \in due
      BY <2>2, LinkedAll DEF DueOK
    <3>2. call.l[1] = due
      BY <3>1
    <3>3. call.l \in Seq(Interface) /\ Len(call.l) = 1
      BY <2>2 DEF TypeOK, Linked
    <3> QED
      BY <3>2, <3>3
  <2> QED
    BY <2>1, <2>2 DEF AllLinked
<1> QED
  BY <1>1, <1>2, <1>3, PTL DEF Spec

-----------------------------------------------------------------------------
\* e is in an interface at a place that linkTreewise has in hand: place i of
\* the list at the top (k = 0) or of the k-th frame.
At(e, k, i) ==
  \/ k = 0 /\ i \in DOMAIN call.l /\ e \in call.l[i]
  \/ k \in DOMAIN stack /\ i \in DOMAIN stack[k].l /\ e \in stack[k].l[i]

\* The exports of a file are all at one place.
HandApart ==
  \A e, x, k, i, m, j : At(e, k, i) /\ At(x, m, j) /\ e.file = x.file => k = m /\ i = j

LEMMA HandAt == TypeOK => \A e : InHand(e) <=> \E k, i : At(e, k, i)
BY DEF InHand, InCall, InStack, At

\* The top of the stack and what is below.
LEMMA AtTail ==
  ASSUME TypeOK, stack # <<>>
  PROVE  /\ \A e, i : At(e, 1, i) <=> i \in DOMAIN stack[1].l /\ e \in stack[1].l[i]
         /\ \A e, k, i : k \in DOMAIN Tail(stack) =>
              (At(e, k + 1, i) <=> i \in DOMAIN Tail(stack)[k].l /\ e \in Tail(stack)[k].l[i])
<1>1. stack \in Seq(Frame)
  BY DEF TypeOK
<1>2. \A k \in DOMAIN Tail(stack) :
        k \in Nat \ {0} /\ k + 1 \in DOMAIN stack /\ Tail(stack)[k] = stack[k + 1]
  BY <1>1
<1>3. 1 \in DOMAIN stack
  BY <1>1
<1>4. \A k \in DOMAIN Tail(stack) : k + 1 # 0
  BY <1>2
<1> QED
  BY <1>2, <1>3, <1>4 DEF At

\* The right half, by its places in the list.
LEMMA HalvesRight ==
  ASSUME NEW T, NEW l \in Seq(T), Len(l) > 2
  PROVE  \A i \in 1..(Len(l) - (Len(l) \div 2)) : Halves(l)[2][i] = l[(Len(l) \div 2) + i]
<1> DEFINE m == Len(l) \div 2
           b == Halves(l)[2]
<1>1. b \in Seq(T) /\ \A i \in 1..(Len(l) - m) : b[i] = l[m + i]
  BY HalvesAt
<1> QED
  BY <1>1

\* Halving a list, and linking two interfaces, keep the exports of a file
\* together.
LEMMA LinkApart == TypeOK /\ HandApart /\ Link => HandApart'
<1> SUFFICES ASSUME TypeOK, HandApart, Link,
                    NEW e, NEW x, NEW k, NEW i, NEW m, NEW j,
                    At(e, k, i)', At(x, m, j)', e.file = x.file
             PROVE  k = m /\ i = j
  BY DEF HandApart
<1>c. CallOK
  BY TypeParts
<1>d. stack \in Seq(Frame) /\ call.l \in Seq(Interface)
  BY <1>c DEF CallOK
<1>e. \A n \in DOMAIN stack : n \in Nat \ {0}
  BY <1>d
<1>1. CASE Split
  <2> DEFINE L == call.l
             h == Len(L) \div 2
             a == Halves(L)[1]
             b == Halves(L)[2]
             fr == [half |-> "left", l |-> b]
  <2>0. L \in Seq(Interface) /\ Len(L) > 2
    BY <1>1, <1>d DEF Split
  <2>1. /\ a \in Seq(Interface) /\ b \in Seq(Interface) /\ h \in Nat /\ Len(L) \in Nat
        /\ h < Len(L) /\ DOMAIN L = 1..Len(L)
        /\ DOMAIN a = 1..h /\ DOMAIN b = 1..(Len(L) - h)
        /\ \A n \in 1..h : a[n] = L[n]
        /\ \A n \in 1..(Len(L) - h) : b[n] = L[h + n]
    <3> HIDE DEF L
    <3>1. h \in Nat /\ h < Len(L) /\ Len(L) \in Nat
      BY <2>0, HalvesAt
    <3>2. a \in Seq(Interface) /\ \A n \in 1..h : a[n] = L[n]
      BY <2>0, HalvesAt
    <3>3. b \in Seq(Interface)
      BY <2>0, HalvesAt
    <3>4. \A n \in 1..(Len(L) - h) : b[n] = L[h + n]
      BY <2>0, HalvesRight
    <3>5. DOMAIN L = 1..Len(L) /\ DOMAIN a = 1..h /\ DOMAIN b = 1..(Len(L) - h)
      BY <2>0, HalvesAt
    <3> QED
      BY <3>1, <3>2, <3>3, <3>4, <3>5
  <2>2. Call(a) /\ stack' = <<fr>> \o stack
    BY <1>1 DEF Split
  <2> HIDE DEF a, b, h, L
  <2>3. fr \in Frame /\ fr.l = b
    BY <2>1 DEF Frame
  <2> HIDE DEF fr
  <2>4. /\ \A n \in DOMAIN stack' : n = 1 \/ (n - 1 \in DOMAIN stack /\ stack'[n] = stack[n - 1])
        /\ stack'[1] = fr
    <3> USE <2>3, <1>d
    <3> DEFINE new == <<fr>> \o stack
    <3>1. new[1] = fr
      BY PushFrame
    <3>2. \A n \in DOMAIN new : n = 1 \/ (n - 1 \in DOMAIN stack /\ new[n] = stack[n - 1])
      BY PushFrame
    <3>3. stack' = new
      BY <2>2
    <3> HIDE DEF new
    <3> QED
      BY <3>1, <3>2, <3>3
  <2>5. call'.l = a
    BY <2>1, <2>2, CallType
  <2> DEFINE From(y, n, p) ==
               \/ n = 0 /\ p \in 1..h /\ At(y, 0, p)
               \/ n = 1 /\ p \in Nat \ {0} /\ At(y, 0, h + p)
               \/ n - 1 \in Nat \ {0} /\ n \in Int /\ At(y, n - 1, p)
  <2>6. ASSUME NEW y, NEW n, NEW p, At(y, n, p)' PROVE From(y, n, p)
    <3>1. CASE n = 0 /\ p \in DOMAIN a /\ y \in a[p]
      <4>1. p \in 1..h /\ p \in DOMAIN L /\ y \in L[p]
        BY <3>1, <2>1
      <4> QED
        BY <4>1, <3>1 DEF At, L
    <3>2. CASE n \in DOMAIN stack' /\ p \in DOMAIN stack'[n].l /\ y \in stack'[n].l[p]
      <4>1. CASE n = 1
        <5>1. p \in 1..(Len(L) - h) /\ y \in L[h + p]
          BY <4>1, <3>2, <2>4, <2>3, <2>1
        <5>2. h + p \in DOMAIN L /\ p \in Nat \ {0}
          BY <5>1, <2>1
        <5> QED
          BY <4>1, <5>1, <5>2 DEF At, L
      <4>2. CASE n # 1
        <5>1. n - 1 \in DOMAIN stack /\ stack'[n] = stack[n - 1]
          BY <4>2, <3>2, <2>4
        <5>2. n \in Int
          BY <3>2, <2>2, <2>3, <1>d, PushFrame
        <5> QED
          BY <5>1, <5>2, <3>2, <1>e DEF At
      <4> QED
        BY <4>1, <4>2
    <3> QED
      BY <2>6, <3>1, <3>2, <2>5 DEF At
  <2>7. From(e, k, i) /\ From(x, m, j)
    BY <2>6
  <2>8. \A n, p, q, r : At(e, n, p) /\ At(x, q, r) => n = q /\ p = r
    BY DEF HandApart
  <2> QED
    BY <2>1, <2>7, <2>8
<1>2. CASE LinkPair
  <2>1. call.l[1] \in Interface /\ call.l[2] \in Interface /\ DOMAIN call.l = {1, 2}
    BY <1>2, <1>d DEF LinkPair
  <2>2. LinkTwo(call.l[1], call.l[2]) /\ stack' = stack
    BY <1>2 DEF LinkPair
  <2> DEFINE U == call.l[1] \union call.l[2]
  <2>3. call'.l = <<U>>
    BY <2>1, <2>2, <1>c, LinkTwoType DEF CallOK
  <2>4. \A y \in U : At(y, 0, 1) \/ At(y, 0, 2)
    BY <2>1 DEF At
  <2> HIDE DEF U
  <2>5. \A y, n, p : At(y, n, p)' => \/ n = 0 /\ p = 1 /\ (At(y, 0, 1) \/ At(y, 0, 2))
                                     \/ n \in DOMAIN stack /\ At(y, n, p)
    BY <2>2, <2>3, <2>4 DEF At
  <2> QED
    BY <2>5, <1>e DEF HandApart
<1>3. CASE TakeOne
  <2> DEFINE I == IF call.l = <<>> THEN {} ELSE call.l[1]
  <2>1. I \in Interface /\ \A y \in I : At(y, 0, 1)
    <3>1. call.l = <<>> \/ DOMAIN call.l = {1}
      BY <1>3, <1>d DEF TakeOne
    <3> QED
      BY <3>1, <1>d DEF At, Interface
  <2>2. Return(I) /\ stack' = stack
    BY <1>3 DEF TakeOne
  <2> HIDE DEF I
  <2>3. call'.l = <<I>>
    BY <2>1, <2>2, ReturnType
  <2>4. \A y, n, p : At(y, n, p)' => At(y, n, p)
    BY <2>1, <2>2, <2>3 DEF At
  <2> QED
    BY <2>4 DEF HandApart
<1>4. CASE GoRight
  <2>1. stack # <<>>
    BY <1>4 DEF GoRight
  <2>2. Head(stack) = stack[1] /\ Head(stack).l \in Seq(Interface) /\ Tail(stack) \in Seq(Frame)
    BY <2>1, <1>d, TailStack DEF Frame
  <2> DEFINE fr == [half |-> "right", l |-> call.l]
             st == Tail(stack)
  <2>3. fr \in Frame /\ fr.l = call.l
    BY <1>d DEF Frame
  <2>4. Call(Head(stack).l) /\ stack' = <<fr>> \o st
    BY <1>4 DEF GoRight
  <2>5. call'.l = stack[1].l
    BY <2>2, <2>4, CallType
  <2>6. /\ \A y, p : At(y, 1, p) <=> p \in DOMAIN stack[1].l /\ y \in stack[1].l[p]
        /\ \A y, n, p : n \in DOMAIN st =>
             (At(y, n + 1, p) <=> p \in DOMAIN st[n].l /\ y \in st[n].l[p])
    BY <2>1, AtTail
  <2> HIDE DEF fr, st
  <2>7. /\ \A n \in DOMAIN stack' : n = 1 \/ (n - 1 \in DOMAIN st /\ stack'[n] = st[n - 1])
        /\ stack'[1] = fr
        /\ \A n \in DOMAIN stack' : n \in Nat \ {0}
    BY <2>2, <2>3, <2>4, PushFrame DEF st
  <2>8. ASSUME NEW y, NEW n, NEW p, At(y, n, p)'
        PROVE  \/ n = 0 /\ At(y, 1, p)
               \/ n = 1 /\ At(y, 0, p)
               \/ n \in Nat /\ n > 1 /\ At(y, n, p)
    <3>1. CASE n = 0 /\ p \in DOMAIN call'.l /\ y \in call'.l[p]
      BY <3>1, <2>5, <2>6
    <3>2. CASE n = 1 /\ p \in DOMAIN fr.l /\ y \in fr.l[p]
      BY <3>2, <2>3 DEF At
    <3>3. CASE n \in DOMAIN stack' /\ n # 1 /\ p \in DOMAIN stack'[n].l /\ y \in stack'[n].l[p]
      <4>1. n - 1 \in DOMAIN st /\ stack'[n] = st[n - 1] /\ n \in Nat /\ n > 1 /\ (n - 1) + 1 = n
        BY <3>3, <2>7
      <4>2. At(y, (n - 1) + 1, p)
        BY <3>3, <4>1, <2>6
      <4> QED
        BY <4>1, <4>2
    <3> QED
      BY <2>8, <3>1, <3>2, <3>3, <2>7 DEF At
  <2> QED
    BY <2>8 DEF HandApart
<1>5. CASE LinkHalves
  <2>1. stack # <<>> /\ Len(call.l) = 1
    BY <1>5, <1>c DEF LinkHalves, CallOK
  <2>2. Head(stack) = stack[1] /\ 1 \in DOMAIN stack /\ Head(stack).l \in Seq(Interface)
        /\ Tail(stack) \in Seq(Frame)
    BY <2>1, <1>d, TailStack DEF Frame
  <2>3. Len(stack[1].l) = 1
    BY <1>5, <1>c, <2>2 DEF LinkHalves, CallOK
  <2> DEFINE left == stack[1].l[1]
             right == call.l[1]
             st == Tail(stack)
  <2>4. left \in Interface /\ right \in Interface /\ DOMAIN stack[1].l = {1} /\ DOMAIN call.l = {1}
    BY <1>d, <2>1, <2>2, <2>3
  <2>5. LinkTwo(left, right) /\ stack' = st
    BY <1>5, <2>2 DEF LinkHalves
  <2>6. /\ \A y, p : At(y, 1, p) <=> p \in DOMAIN stack[1].l /\ y \in stack[1].l[p]
        /\ \A y, n, p : n \in DOMAIN st =>
             (At(y, n + 1, p) <=> p \in DOMAIN st[n].l /\ y \in st[n].l[p])
        /\ \A n \in DOMAIN st : n \in Nat \ {0}
    BY <2>1, <2>2, AtTail
  <2>7. \A y : (y \in left => At(y, 1, 1)) /\ (y \in right => At(y, 0, 1))
    BY <2>4, <2>6 DEF At
  <2> HIDE DEF left, right, st
  <2> DEFINE U == left \union right
  <2>8. call'.l = <<U>>
    BY <2>4, <2>5, <1>c, LinkTwoType DEF CallOK
  <2>9. \A y \in U : At(y, 1, 1) \/ At(y, 0, 1)
    BY <2>7
  <2> HIDE DEF U
  <2>10. ASSUME NEW y, NEW n, NEW p, At(y, n, p)'
         PROVE  \/ n = 0 /\ p = 1 /\ (At(y, 1, 1) \/ At(y, 0, 1))
                \/ n \in Nat \ {0} /\ At(y, n + 1, p)
    <3>1. CASE n = 0 /\ p \in DOMAIN <<U>> /\ y \in <<U>>[p]
      BY <3>1, <2>9
    <3>2. CASE n \in DOMAIN st /\ p \in DOMAIN st[n].l /\ y \in st[n].l[p]
      BY <3>2, <2>6
    <3> QED
      BY <2>10, <2>5, <2>8, <3>1, <3>2 DEF At
  <2> QED
    BY <2>10 DEF HandApart
<1> QED
  BY <1>1, <1>2, <1>3, <1>4, <1>5 DEF Link

\* An order names each element once.
LEMMA OrdersOnce ==
  ASSUME NEW S, IsFiniteSet(S), NEW s \in Orders(S)
  PROVE  \A i, j \in DOMAIN s : s[i] = s[j] => i = j
<1> DEFINE N == 1..Cardinality(S)
<1>1. Cardinality(S) \in Nat
  BY FS_CardinalityType
<1>2. IsFiniteSet(N) /\ Cardinality(N) = Cardinality(S)
  BY <1>1, FS_Interval
<1>3. s \in Surjection(N, S) /\ DOMAIN s = N
  BY DEF Orders, Surjection
<1> HIDE DEF N
<1>4. s \in Injection(N, S)
  BY <1>2, <1>3, FS_SurjSameCardinalityImpliesInj
<1> QED
  BY <1>3, <1>4 DEF Injection, IsInjective

\* A message that ReportsReal accepts.
RealProblem(p) ==
  \E f, g \in p.files : \E e \in Load(f), x \in Load(g) : e.name = p.name /\ Clash(e, x, VM)

\* What is found between two interfaces is real, if they share no file.
LEMMA ProblemReal ==
  ASSUME NEW left, NEW right, NEW valid, valid \subseteq VM,
         \A e \in left, x \in right : e.file # x.file,
         \A e \in left \union right : e \in Load(e.file),
         NEW p \in Problems(left, right, valid)
  PROVE  RealProblem(p)
<1>1. PICK n \in {m \in Symbol : valid \intersect CondOf(left, m) \intersect CondOf(right, m) # {}} :
         p = [name |-> n, files |-> {e.file : e \in {x \in left \union right : x.name = n}}]
  BY DEF Problems
<1>2. PICK c : c \in valid /\ c \in CondOf(left, n) /\ c \in CondOf(right, n)
  BY <1>1
<1>3. PICK e \in left : e.name = n /\ c \in e.cond
  BY <1>2 DEF CondOf
<1>4. PICK x \in right : x.name = n /\ c \in x.cond
  BY <1>2 DEF CondOf
<1>5. e.file \in p.files /\ x.file \in p.files /\ p.name = n
  BY <1>1, <1>3, <1>4
<1>6. Clash(e, x, VM)
  BY <1>2, <1>3, <1>4 DEF Clash
<1>7. e \in Load(e.file) /\ x \in Load(x.file)
  OBVIOUS
<1> QED
  BY <1>3, <1>5, <1>6, <1>7 DEF RealProblem

\* What linkTreewise has in hand are exports of the files it names.
HandReal == \A e : InHand(e) => e \in Load(e.file)

LEMMA LinkReal == TypeOK /\ HandApart /\ HandReal /\ ReportsReal /\ Link => ReportsReal'
<1> SUFFICES ASSUME TypeOK, HandApart, HandReal, ReportsReal, Link PROVE ReportsReal'
  OBVIOUS
<1>c. CallOK
  BY TypeParts
<1>v. Valid \subseteq VM
  BY DEF Valid
<1>p. \A p \in printed : RealProblem(p)
  BY DEF ReportsReal, RealProblem
<1>u. exports' = exports
  BY DEF Link, Split, LinkPair, TakeOne, GoRight, LinkHalves, diskVars
<1>r. SUFFICES \A p \in printed' : RealProblem(p)
  <2>1. \A f : Load(f)' = Load(f)
    BY <1>u DEF Load
  <2>2. \A p : RealProblem(p)' <=> RealProblem(p)
    BY <2>1 DEF RealProblem, Clash
  <2>3. ReportsReal' <=> \A p \in printed' : RealProblem(p)'
    BY DEF ReportsReal, RealProblem
  <2> QED
    BY <2>2, <2>3
<1>1. CASE LinkPair
  <2> DEFINE left == call.l[1]
             right == call.l[2]
  <2>1. DOMAIN call.l = {1, 2} /\ printed' = printed \union Problems(left, right, Valid)
    BY <1>1, <1>c DEF LinkPair, LinkTwo, CallOK
  <2>2. \A e : (e \in left => At(e, 0, 1)) /\ (e \in right => At(e, 0, 2))
    BY <2>1 DEF At
  <2> HIDE DEF left, right
  <2>3. \A e \in left, x \in right : e.file # x.file
    BY <2>2 DEF HandApart
  <2>4. \A e \in left \union right : e \in Load(e.file)
    BY <2>2, HandAt DEF HandReal
  <2> QED
    BY <2>1, <2>3, <2>4, <1>p, <1>v, ProblemReal
<1>2. CASE LinkHalves
  <2>1. stack # <<>> /\ stack \in Seq(Frame) /\ call.l \in Seq(Interface) /\ Len(call.l) = 1
    BY <1>2, <1>c DEF LinkHalves, CallOK
  <2>2. Head(stack) = stack[1] /\ 1 \in DOMAIN stack /\ Head(stack).l \in Seq(Interface)
    BY <2>1, TailStack DEF Frame
  <2>3. Len(stack[1].l) = 1
    BY <1>2, <1>c, <2>2 DEF LinkHalves, CallOK
  <2> DEFINE left == stack[1].l[1]
             right == call.l[1]
  <2>4. 1 \in DOMAIN stack[1].l /\ 1 \in DOMAIN call.l
    BY <2>1, <2>2, <2>3
  <2>5. printed' = printed \union Problems(left, right, Valid)
    BY <1>2, <2>2 DEF LinkHalves, LinkTwo
  <2>6. \A e : (e \in left => At(e, 1, 1)) /\ (e \in right => At(e, 0, 1))
    BY <2>2, <2>4 DEF At
  <2> HIDE DEF left, right
  <2>7. \A e \in left, x \in right : e.file # x.file
    BY <2>6 DEF HandApart
  <2>8. \A e \in left \union right : e \in Load(e.file)
    BY <2>6, HandAt DEF HandReal
  <2> QED
    BY <2>5, <2>7, <2>8, <1>p, <1>v, ProblemReal
<1>3. CASE Split \/ TakeOne \/ GoRight
  BY <1>3, <1>p DEF Split, TakeOne, GoRight
<1> QED
  BY <1>1, <1>2, <1>3 DEF Link

\* What makes ReportsReal inductive: what is in hand, in finalInterface and in
\* the _dir.interface files is real; in hand no file is at two places; what is
\* linked to finalInterface next is of another directory.
RealOK ==
  /\ HandApart /\ HandReal /\ ReportsReal
  /\ \A e \in final : e \in Load(e.file)
  /\ \A d \in Dir : \A e \in dirFile[d] : e \in Load(e.file) /\ Of(e, {d})
  /\ pc \in {"dirs", "dirTree"} => \A e \in final : ~Of(e, todo)
  /\ pc \in {"dirTree", "merge"} => cur \in todo
  /\ pc = "dirTree" => \A e : InHand(e) => Of(e, {cur})
  /\ pc = "merge" => \A e : InHand(e) => ~Of(e, todo \ {cur})

\* A file is in one directory.
LEMMA OneDir ==
  ASSUME NEW e, NEW d \in Dir, NEW b \in Dir, Of(e, {d}), Of(e, {b})
  PROVE  d = b
BY DirAssumption DEF Of

\* Nothing in hand.
LEMMA EmptyHand ==
  ASSUME (call.l = <<>> /\ stack = <<>>)' PROVE HandApart' /\ (\A e : ~InHand(e)') /\ HandReal'
BY DEF HandApart, HandReal, At, InHand, InCall, InStack

LEMMA RealStep == TypeOK /\ Resting /\ RealOK /\ [Next]_vars => RealOK'
<1> SUFFICES ASSUME TypeOK, Resting, RealOK, [Next]_vars PROVE RealOK'
  OBVIOUS
<1> USE DEF linkVars, dirVars, diskVars, countVars
<1>u. exports' = exports
  BY DEF Next, Linker, Link, Split, LinkPair, TakeOne, GoRight, LinkHalves, ProcessDir, WriteDir,
         NextDir, WriteFinal, EndDirLinker, Start, StartDirLinker, DirLinkerFails, Analyze, Crash, vars
<1>l. \A f : Load(f)' = Load(f)
  BY <1>u DEF Load
<1>r. printed' = printed => ReportsReal'
  <2>1. printed' = printed => (ReportsReal' <=> ReportsReal)
    BY <1>l DEF ReportsReal, Clash
  <2> QED
    BY <2>1 DEF RealOK
<1>f. ASSUME NEW f \in File, NEW e \in Load(f) PROVE e.file = f /\ e \in Load(e.file)
  BY <1>f, LoadType
<1>1. CASE Link
  <2>1. \A e : InHand(e)' <=> InHand(e)
    BY <1>1, LinkKeeps
  <2>2. UNCHANGED <<pc, dirVars, diskVars, due>>
    BY <1>1 DEF Link, Split, LinkPair, TakeOne, GoRight, LinkHalves
  <2>3. HandApart' /\ ReportsReal'
    BY <1>1, LinkApart, LinkReal DEF RealOK
  <2>4. HandReal'
    BY <2>1, <1>l DEF RealOK, HandReal
  <2> QED
    BY <2>1, <2>2, <2>3, <2>4, <1>l DEF RealOK, Of
<1>2. ASSUME NEW d \in Dir, ProcessDir(d) PROVE RealOK'
  <2> DEFINE S == FilesIn[d] \intersect onDisk
  <2>0. S \subseteq File /\ IsFiniteSet(S)
    BY DirAssumption, FS_Subset DEF TypeOK
  <2> PICK fs \in Orders(S) : Call([k \in DOMAIN fs |-> Load(fs[k])])
    BY <1>2 DEF ProcessDir
  <2> DEFINE l == [k \in DOMAIN fs |-> Load(fs[k])]
  <2>1. l \in Seq(Interface)
    BY LoadList
  <2>2. fs \in Seq(S) /\ \A i, j \in DOMAIN fs : fs[i] = fs[j] => i = j
    BY <2>0, OrdersSeq, OrdersOnce
  <2>3. Call(l) /\ DOMAIN l = DOMAIN fs
    OBVIOUS
  <2>4. \A i \in DOMAIN l : \A e \in l[i] : e.file = fs[i] /\ fs[i] \in S /\ e \in Load(e.file)
    BY <2>0, <2>2, <1>f
  <2> HIDE DEF l
  <2>5. pc = "dirs" /\ pc' = "dirTree" /\ d \in todo /\ cur' = d
        /\ UNCHANGED <<stack, printed, todo, final, dirFile>>
    BY <1>2 DEF ProcessDir
  <2>6. stack' = <<>> /\ call'.l = l
    BY <2>1, <2>3, <2>5, CallType DEF Resting
  <2>7. \A e, k, i : At(e, k, i)' => k = 0 /\ i \in DOMAIN l /\ e \in l[i]
    BY <2>6 DEF At
  <2>8. HandApart'
    <3> SUFFICES ASSUME NEW e, NEW x, NEW k, NEW i, NEW m, NEW j,
                        At(e, k, i)', At(x, m, j)', e.file = x.file
                 PROVE  k = m /\ i = j
      BY DEF HandApart
    <3>1. k = 0 /\ m = 0 /\ i \in DOMAIN l /\ j \in DOMAIN l /\ e \in l[i] /\ x \in l[j]
      BY <2>7
    <3>2. fs[i] = fs[j]
      BY <2>4, <3>1
    <3> QED
      BY <2>2, <2>3, <3>1, <3>2
  <2>9. \A e : InHand(e)' => \E i \in DOMAIN l : e \in l[i]
    BY <2>6 DEF InHand, InCall, InStack
  <2>10. \A e : InHand(e)' => e \in Load(e.file) /\ Of(e, {d})
    BY <2>4, <2>9 DEF Of
  <2>11. HandReal'
    BY <2>10, <1>l DEF HandReal
  <2>12. pc' = "dirTree" => \A e : InHand(e)' => Of(e, {cur})'
    BY <2>5, <2>10 DEF Of
  <2> QED
    BY <2>5, <2>8, <2>11, <2>12, <1>l, <1>r DEF RealOK, Of
<1>3. CASE WriteDir
  <2>1. call.l[1] \in Interface /\ stack = <<>>
    BY <1>3, LinkedType DEF WriteDir
  <2> DEFINE I == call.l[1]
             l == <<final, I>>
  <2>2. l \in Seq(Interface) /\ DOMAIN l = {1, 2} /\ l[1] = final /\ l[2] = I
    BY <2>1 DEF TypeOK
  <2>3. Call(l)
    BY <1>3 DEF WriteDir
  <2>4. \A e \in I : InHand(e)
    BY <1>3, LinkedAll DEF WriteDir
  <2>5. pc = "dirTree" /\ pc' = "merge" /\ UNCHANGED <<stack, printed, todo, cur, final>>
        /\ dirFile' = [dirFile EXCEPT ![cur] = I]
    BY <1>3 DEF WriteDir
  <2> HIDE DEF l, I
  <2>6. call'.l = l /\ stack' = <<>>
    BY <2>1, <2>2, <2>3, <2>5, CallType
  <2>7. \A e \in I : e \in Load(e.file) /\ Of(e, {cur})
    BY <2>4, <2>5 DEF RealOK, HandReal
  <2>8. \A e \in final : e \in Load(e.file) /\ ~Of(e, todo)
    BY <2>5 DEF RealOK
  <2>9. cur \in todo /\ cur \in Dir /\ todo \subseteq Dir
    BY <2>5 DEF RealOK, TypeOK
  <2>10. \A e \in I, x \in final : e.file # x.file
    BY <2>7, <2>8, <2>9 DEF Of
  <2>11. \A e, k, i : At(e, k, i)' => k = 0 /\ ((i = 1 /\ e \in final) \/ (i = 2 /\ e \in I))
    BY <2>2, <2>6 DEF At
  <2>12. HandApart'
    BY <2>10, <2>11 DEF HandApart
  <2>13. \A e : InHand(e)' => e \in final \/ e \in I
    BY <2>2, <2>6 DEF InHand, InCall, InStack
  <2>14. HandReal'
    BY <2>7, <2>8, <2>13, <1>l DEF HandReal
  <2>15. \A e : InHand(e)' => ~Of(e, todo \ {cur})
    <3> SUFFICES ASSUME NEW e, InHand(e)', Of(e, todo \ {cur}) PROVE FALSE
      OBVIOUS
    <3>1. e \in I
      BY <2>8, <2>13 DEF Of
    <3>2. PICK d \in todo \ {cur} : Of(e, {d})
      BY DEF Of
    <3> QED
      BY <2>7, <2>9, <3>1, <3>2, OneDir
  <2>16. \A d \in Dir : \A e \in dirFile'[d] : e \in Load(e.file) /\ Of(e, {d})
    BY <2>5, <2>7 DEF RealOK, TypeOK
  <2>17. \A e : Of(e, todo \ {cur})' <=> Of(e, todo \ {cur})
    BY <2>5 DEF Of
  <2> QED
    BY <2>5, <2>8, <2>9, <2>12, <2>14, <2>15, <2>16, <2>17, <1>l, <1>r DEF RealOK, Of
<1>4. CASE NextDir
  <2>1. pc = "merge" /\ pc' = "dirs" /\ final' = call.l[1] /\ todo' = todo \ {cur} /\ call'.l = <<>>
        /\ stack' = <<>> /\ UNCHANGED <<printed, dirFile>>
    BY <1>4, LinkedType DEF NextDir, NoCall
  <2>2. \A e \in final' : InHand(e)
    BY <2>1, <1>4, LinkedAll DEF NextDir
  <2>3. \A e \in final' : e \in Load(e.file) /\ ~Of(e, todo')
    BY <2>1, <2>2 DEF RealOK, HandReal
  <2>4. HandApart' /\ HandReal'
    BY <2>1, EmptyHand
  <2> QED
    BY <2>1, <2>3, <2>4, <1>l, <1>r DEF RealOK, Of
<1>5. CASE WriteFinal
  BY <1>5, <1>l, <1>r DEF WriteFinal, RealOK, HandApart, HandReal, At, InHand, InCall, InStack, Of
<1>6. CASE EndDirLinker \/ Crash
  <2>1. call'.l = <<>> /\ stack' = <<>> /\ pc' = "idle" /\ UNCHANGED <<printed, final, dirFile>>
    BY <1>6, LinkedType DEF EndDirLinker, Crash, NoCall
  <2>2. HandApart' /\ HandReal'
    BY <2>1, EmptyHand
  <2> QED
    BY <2>1, <2>2, <1>l, <1>r DEF RealOK, Of
<1>7. ASSUME NEW selection \in Selections, Start(selection) PROVE RealOK'
  <2>1. pc' = "dirs" /\ final' = {} /\ UNCHANGED <<call, stack, printed, dirFile>>
    BY <1>7 DEF Start
  <2> QED
    BY <2>1, <1>l, <1>r DEF RealOK, HandApart, HandReal, At, InHand, InCall, InStack, Of
<1>8. ASSUME NEW ds \in Taken, StartDirLinker(ds) PROVE RealOK'
  <2> DEFINE S == {dirFile[d] : d \in ds}
  <2>1. ds \subseteq Dir /\ IsFiniteSet(ds)
    BY DirAssumption, FS_Subset DEF Taken
  <2>2. IsFiniteSet(S) /\ S \subseteq Interface
    BY <2>1, DirFilesFinite
  <2> PICK l \in Orders(S) : Call(l)
    BY <1>8 DEF StartDirLinker
  <2>3. l \in Seq(S) /\ \A i, j \in DOMAIN l : l[i] = l[j] => i = j
    BY <2>2, OrdersSeq, OrdersOnce
  <2>4. l \in Seq(Interface)
    BY <2>2, <2>3
  <2>5. pc' = "dirLink" /\ stack' = <<>> /\ UNCHANGED <<printed, final, dirFile>>
    BY <1>8 DEF StartDirLinker, Resting
  <2>6. \A i \in DOMAIN l : \E d \in ds : l[i] = dirFile[d]
    BY <2>3
  <2> HIDE DEF S
  <2>7. call'.l = l
    BY <2>4, CallType
  <2>8. \A e, k, i : At(e, k, i)' => k = 0 /\ i \in DOMAIN l /\ e \in l[i]
    BY <2>5, <2>7 DEF At
  <2>9. HandApart'
    <3> SUFFICES ASSUME NEW e, NEW x, NEW k, NEW i, NEW m, NEW j,
                        At(e, k, i)', At(x, m, j)', e.file = x.file
                 PROVE  k = m /\ i = j
      BY DEF HandApart
    <3>1. k = 0 /\ m = 0 /\ i \in DOMAIN l /\ j \in DOMAIN l /\ e \in l[i] /\ x \in l[j]
      BY <2>8
    <3>2. PICK d \in ds : l[i] = dirFile[d]
      BY <2>6, <3>1
    <3>3. PICK b \in ds : l[j] = dirFile[b]
      BY <2>6, <3>1
    <3>4. Of(e, {d}) /\ Of(x, {b}) /\ d \in Dir /\ b \in Dir
      BY <2>1, <3>1, <3>2, <3>3 DEF RealOK
    <3>5. Of(e, {b})
      BY <3>4 DEF Of
    <3>6. d = b
      BY <3>4, <3>5, OneDir
    <3> QED
      BY <2>3, <3>1, <3>2, <3>3, <3>6
  <2>10. \A e : InHand(e)' => \E i \in DOMAIN l : e \in l[i]
    BY <2>5, <2>7 DEF InHand, InCall, InStack
  <2>11. \A e : InHand(e)' => e \in Load(e.file)
    BY <2>1, <2>6, <2>10 DEF RealOK
  <2>12. HandReal'
    BY <2>11, <1>l DEF HandReal
  <2> QED
    BY <2>5, <2>9, <2>12, <1>l, <1>r DEF RealOK, Of
<1>9. ASSUME NEW ds \in Taken, DirLinkerFails(ds) PROVE RealOK'
  BY <1>9, <1>l, <1>r DEF DirLinkerFails, RealOK, HandApart, HandReal, At, InHand, InCall, InStack, Of
<1>10. ASSUME NEW f \in File, Analyze(f) PROVE RealOK'
  BY <1>10, <1>l, <1>r DEF Analyze, RealOK, HandApart, HandReal, At, InHand, InCall, InStack, Of
<1>11. CASE UNCHANGED vars
  BY <1>11, <1>l, <1>r DEF vars, RealOK, HandApart, HandReal, At, InHand, InCall, InStack, Of
<1> QED
  BY <1>1, <1>2, <1>3, <1>4, <1>5, <1>6, <1>7, <1>8, <1>9, <1>10, <1>11 DEF Next, Linker

LEMMA InitReal == Init => RealOK
<1> SUFFICES ASSUME Init PROVE RealOK
  OBVIOUS
<1>1. call.l = <<>> /\ stack = <<>> /\ pc = "idle" /\ final = {} /\ printed = {}
      /\ dirFile = [d \in Dir |-> {}]
  BY DEF Init, NoCall
<1>2. HandApart /\ HandReal /\ ReportsReal
  BY <1>1 DEF HandApart, HandReal, ReportsReal, At, InHand, InCall, InStack
<1> QED
  BY <1>1, <1>2 DEF RealOK

\* Every message has two files behind it that clash: no file is compared with
\* itself, whatever the lists, the directories and the earlier runs.
THEOREM ReportsRealHolds == Spec => []ReportsReal
<1>1. Init => TypeOK /\ Resting /\ RealOK
  BY TypeInit, InitReported, InitReal
<1>2. TypeOK /\ Resting /\ RealOK /\ [Next]_vars => (TypeOK /\ Resting /\ RealOK)'
  BY TypeStep, RestingStep, RealStep
<1>3. RealOK => ReportsReal
  BY DEF RealOK
<1> QED
  BY <1>1, <1>2, <1>3, PTL DEF Spec

-----------------------------------------------------------------------------
\* The files and messages come about as LinkPromise says.

\* What the directories ds have in their _dir.interface files.
United(ds) == UNION {dirFile[d] : d \in ds}
Whole(files) == UNION {Load(f) : f \in files}

\* What is in hand is about to become the whole of some files of a directory,
\* of some directories, or of both.
WrittenOK ==
  /\ pc \in {"dirs", "dirTree", "merge"} =>
        /\ todo \intersect Excluded = {}
        /\ \E ds \in SUBSET (dirFiles \ Excluded) : ds \intersect todo = {} /\ final = United(ds)
  /\ pc \in {"dirTree", "merge"} => cur \in todo
  /\ pc = "dirTree" => \E files \in SUBSET (FilesIn[cur] \intersect onDisk) :
                          \A e : InHand(e) <=> e \in Whole(files)
  /\ pc = "merge" => /\ cur \in dirFiles
                     /\ \A e : InHand(e) <=> e \in final \/ e \in dirFile[cur]
  /\ pc = "dirLink" => \E ds \in SUBSET (dirFiles \ Excluded) : \A e : InHand(e) <=> e \in United(ds)

\* A step that leaves what the linker knows alone.
LEMMA WrittenStays ==
  ASSUME WrittenOK, UNCHANGED <<pc, todo, cur, final, dirFiles, dirFile, exports>>,
         onDisk \subseteq onDisk', \A e : InHand(e)' <=> InHand(e)
  PROVE  WrittenOK'
<1>1. /\ \A ds : United(ds)' = United(ds)
      /\ \A files : Whole(files)' = Whole(files)
  BY DEF United, Whole, Load
<1>2. pc = "dirTree" => \E files \in SUBSET (FilesIn[cur] \intersect onDisk') :
                           \A e : InHand(e)' <=> e \in Whole(files)'
  <2> SUFFICES ASSUME pc = "dirTree"
               PROVE  \E files \in SUBSET (FilesIn[cur] \intersect onDisk') :
                         \A e : InHand(e)' <=> e \in Whole(files)'
    OBVIOUS
  <2>1. PICK files \in SUBSET (FilesIn[cur] \intersect onDisk) : \A e : InHand(e) <=> e \in Whole(files)
    BY DEF WrittenOK
  <2>2. files \in SUBSET (FilesIn[cur] \intersect onDisk')
    OBVIOUS
  <2> QED
    BY <1>1, <2>1, <2>2
<1>3. pc = "dirLink" => \E ds \in SUBSET (dirFiles \ Excluded) : \A e : InHand(e)' <=> e \in United(ds)'
  BY <1>1 DEF WrittenOK
<1>4. pc \in {"dirs", "dirTree", "merge"} =>
        \E ds \in SUBSET (dirFiles \ Excluded) : ds \intersect todo = {} /\ final = United(ds)'
  BY <1>1 DEF WrittenOK
<1>5. /\ pc \in {"dirs", "dirTree", "merge"} => todo \intersect Excluded = {}
      /\ pc \in {"dirTree", "merge"} => cur \in todo
      /\ pc = "merge" => /\ cur \in dirFiles
                         /\ \A e : InHand(e)' <=> e \in final \/ e \in dirFile[cur]
  BY DEF WrittenOK
<1> QED
  BY <1>2, <1>3, <1>4, <1>5 DEF WrittenOK

LEMMA WrittenStep == TypeOK /\ Resting /\ WrittenOK /\ [Next]_vars => WrittenOK'
<1> SUFFICES ASSUME TypeOK, Resting, WrittenOK, [Next]_vars PROVE WrittenOK'
  OBVIOUS
<1> USE DEF linkVars, dirVars, diskVars, countVars
<1>1. CASE Link
  <2>1. \A e : InHand(e)' <=> InHand(e)
    BY <1>1, LinkKeeps
  <2>2. UNCHANGED <<pc, dirVars, diskVars>>
    BY <1>1 DEF Link, Split, LinkPair, TakeOne, GoRight, LinkHalves
  <2> QED
    BY <2>1, <2>2, WrittenStays
<1>2. ASSUME NEW d \in Dir, ProcessDir(d) PROVE WrittenOK'
  <2> DEFINE S == FilesIn[d] \intersect onDisk
  <2> PICK fs \in Orders(S) : Call([k \in DOMAIN fs |-> Load(fs[k])])
    BY <1>2 DEF ProcessDir
  <2> DEFINE l == [k \in DOMAIN fs |-> Load(fs[k])]
  <2>1. l \in Seq(Interface) /\ {l[k] : k \in DOMAIN l} = {Load(f) : f \in S}
    BY LoadList
  <2>2. Call(l)
    OBVIOUS
  <2> HIDE DEF l
  <2>3. /\ pc = "dirs" /\ pc' = "dirTree" /\ d \in todo /\ cur' = d
        /\ UNCHANGED <<stack, todo, final, dirFiles, dirFile, onDisk, exports>>
    BY <1>2 DEF ProcessDir
  <2>4. call'.l = l /\ stack' = <<>>
    BY <2>1, <2>2, <2>3, CallType DEF Resting
  <2>5. \A e : InHand(e)' <=> \E k \in DOMAIN l : e \in l[k]
    BY <2>4 DEF InHand, InCall, InStack
  <2>6. \A e : (\E k \in DOMAIN l : e \in l[k]) <=> e \in Whole(S)
    BY <2>1 DEF Whole
  <2>7. /\ \A ds : United(ds)' = United(ds)
        /\ \A files : Whole(files)' = Whole(files)
    BY <2>3 DEF United, Whole, Load
  <2>8. \E files \in SUBSET (FilesIn[d] \intersect onDisk) : \A e : InHand(e)' <=> e \in Whole(files)'
    BY <2>5, <2>6, <2>7
  <2>9. \E ds \in SUBSET (dirFiles \ Excluded) : ds \intersect todo = {} /\ final = United(ds)'
    BY <2>3, <2>7 DEF WrittenOK
  <2>10. todo \intersect Excluded = {}
    BY <2>3 DEF WrittenOK
  <2> QED
    BY <2>3, <2>8, <2>9, <2>10 DEF WrittenOK
<1>3. CASE WriteDir
  <2> DEFINE I == call.l[1]
             l == <<final, I>>
  <2>1. I \in Interface /\ stack = <<>>
    BY <1>3, LinkedType DEF WriteDir
  <2>2. l \in Seq(Interface) /\ DOMAIN l = {1, 2} /\ l[1] = final /\ l[2] = I
    BY <2>1 DEF TypeOK
  <2>3. Call(l)
    BY <1>3 DEF WriteDir
  <2>4. /\ pc = "dirTree" /\ pc' = "merge" /\ UNCHANGED <<stack, todo, cur, final>>
        /\ dirFile' = [dirFile EXCEPT ![cur] = I] /\ dirFiles' = dirFiles \union {cur}
    BY <1>3 DEF WriteDir
  <2> HIDE DEF l, I
  <2>5. call'.l = l /\ stack' = <<>>
    BY <2>1, <2>2, <2>3, <2>4, CallType
  <2>6. \A e : InHand(e)' <=> e \in final \/ e \in I
    BY <2>2, <2>5 DEF InHand, InCall, InStack
  <2>7. cur \in todo /\ todo \intersect Excluded = {} /\ cur \in Dir
    BY <2>4 DEF WrittenOK, TypeOK
  <2>8. dirFile'[cur] = I /\ \A d \in Dir \ {cur} : dirFile'[d] = dirFile[d]
    BY <2>4, <2>7 DEF TypeOK
  <2>9. PICK ds \in SUBSET (dirFiles \ Excluded) : ds \intersect todo = {} /\ final = United(ds)
    BY <2>4 DEF WrittenOK
  <2>10. United(ds)' = United(ds)
    BY <2>7, <2>8, <2>9 DEF United, TypeOK
  <2>11. \E b \in SUBSET (dirFiles' \ Excluded) : b \intersect todo = {} /\ final = United(b)'
    BY <2>4, <2>9, <2>10
  <2> QED
    BY <2>4, <2>6, <2>7, <2>8, <2>11 DEF WrittenOK
<1>4. CASE NextDir
  <2>1. /\ pc = "merge" /\ pc' = "dirs" /\ final' = call.l[1] /\ todo' = todo \ {cur}
        /\ UNCHANGED <<dirFiles, dirFile>>
    BY <1>4 DEF NextDir
  <2>2. \A e : InHand(e) <=> e \in call.l[1]
    BY <1>4, LinkedAll DEF NextDir
  <2>3. PICK ds \in SUBSET (dirFiles \ Excluded) : ds \intersect todo = {} /\ final = United(ds)
    BY <2>1 DEF WrittenOK
  <2>4. cur \in todo /\ todo \intersect Excluded = {} /\ cur \in dirFiles
        /\ \A e : InHand(e) <=> e \in final \/ e \in dirFile[cur]
    BY <2>1 DEF WrittenOK
  <2> DEFINE b == ds \union {cur}
  <2>5. b \in SUBSET (dirFiles \ Excluded) /\ b \intersect todo' = {}
    BY <2>1, <2>3, <2>4
  <2>6. final' = United(b)
    <3>1. \A e : e \in final' <=> e \in United(ds) \/ e \in dirFile[cur]
      BY <2>1, <2>2, <2>3, <2>4
    <3>2. \A e : e \in United(b) <=> e \in United(ds) \/ e \in dirFile[cur]
      BY DEF United
    <3> QED
      BY <3>1, <3>2
  <2> HIDE DEF b
  <2>7. \A c : United(c)' = United(c)
    BY <2>1 DEF United
  <2>8. \E c \in SUBSET (dirFiles' \ Excluded) : c \intersect todo' = {} /\ final' = United(c)'
    BY <2>1, <2>5, <2>6, <2>7
  <2> QED
    BY <2>1, <2>4, <2>8 DEF WrittenOK
<1>5. CASE WriteFinal \/ EndDirLinker \/ Crash
  <2>1. pc' = "idle"
    BY <1>5 DEF WriteFinal, EndDirLinker, Crash
  <2> QED
    BY <2>1 DEF WrittenOK
<1>6. ASSUME NEW selection \in Selections, Start(selection) PROVE WrittenOK'
  <2>1. pc' = "dirs" /\ todo' = selection \ Excluded /\ final' = {}
    BY <1>6 DEF Start
  <2>2. {} \in SUBSET (dirFiles' \ Excluded) /\ {} = United({})'
    BY DEF United
  <2>3. todo' \intersect Excluded = {}
    BY <2>1
  <2> QED
    BY <2>1, <2>2, <2>3 DEF WrittenOK
<1>7. ASSUME NEW ds \in Taken, StartDirLinker(ds) PROVE WrittenOK'
  <2> DEFINE S == {dirFile[d] : d \in ds}
  <2>1. ds \subseteq Dir \ Excluded /\ IsFiniteSet(ds)
    BY DirAssumption, FS_Subset DEF Taken
  <2>2. IsFiniteSet(S) /\ S \subseteq Interface
    BY <2>1, DirFilesFinite
  <2> PICK l \in Orders(S) : Call(l)
    BY <1>7 DEF StartDirLinker
  <2>3. l \in Seq(S) /\ {l[k] : k \in DOMAIN l} = S
    BY <2>2, OrdersSeq
  <2>4. l \in Seq(Interface)
    BY <2>2, <2>3
  <2>5. pc' = "dirLink" /\ stack' = <<>> /\ ds \subseteq dirFiles /\ UNCHANGED <<dirFiles, dirFile>>
    BY <1>7 DEF StartDirLinker, Resting
  <2>6. UNION S = United(ds) /\ United(ds)' = United(ds)
    BY <2>5 DEF United
  <2> HIDE DEF S
  <2>7. call'.l = l
    BY <2>4, CallType
  <2>8. \A e : InHand(e)' <=> \E k \in DOMAIN l : e \in l[k]
    BY <2>5, <2>7 DEF InHand, InCall, InStack
  <2>9. \A e : (\E k \in DOMAIN l : e \in l[k]) <=> e \in UNION S
    BY <2>3
  <2>10. \A e : InHand(e)' <=> e \in United(ds)'
    BY <2>6, <2>8, <2>9
  <2> QED
    BY <2>1, <2>5, <2>10 DEF WrittenOK
<1>8. ASSUME NEW ds \in Taken, DirLinkerFails(ds) PROVE WrittenOK'
  <2>1. UNCHANGED <<pc, call, stack, dirVars, diskVars>>
    BY <1>8 DEF DirLinkerFails
  <2> QED
    BY <2>1, WrittenStays DEF InHand, InCall, InStack
<1>9. ASSUME NEW f \in File, Analyze(f) PROVE WrittenOK'
  <2>1. /\ UNCHANGED <<pc, call, stack, dirVars, dirFiles, dirFile, exports>>
        /\ onDisk \subseteq onDisk'
    BY <1>9 DEF Analyze
  <2> QED
    BY <2>1, WrittenStays DEF InHand, InCall, InStack
<1>10. CASE UNCHANGED vars
  BY <1>10, WrittenStays DEF vars, InHand, InCall, InStack
<1> QED
  BY <1>1, <1>2, <1>3, <1>4, <1>5, <1>6, <1>7, <1>8, <1>9, <1>10 DEF Next, Linker

\* LinkPromise says the same with its own operators.
LEMMA PromiseIs ==
  /\ \A f : Promise!Load(f) = Load(f)
  /\ \A files : Promise!Whole(files) = Whole(files)
  /\ \A ds : Promise!United(ds) = United(ds)
  /\ \A I, valid : Promise!Told(I, valid) <=> AllReported(I, valid)
  /\ ReportsReal <=> \A p \in printed : Promise!Real(p)
BY DEF Promise!Load, Load, Promise!Whole, Whole, Promise!United, United, Promise!Told, Promise!Clash,
       AllReported, Reported, Clash, ReportsReal, Promise!Real

LEMMA PromiseStep ==
  ASSUME TypeOK, Resting, ReportedOK, ReportedOK', RealOK, RealOK', WrittenOK, [Next]_vars
  PROVE  [Promise!Next]_(Promise!vars)
<1> USE DEF linkVars, dirVars, diskVars, countVars
<1>v. /\ onDisk' = onDisk /\ exports' = exports /\ dirFiles' = dirFiles /\ dirFile' = dirFile
      /\ finalFile' = finalFile /\ printed' = printed
      => UNCHANGED Promise!vars
  BY DEF Promise!vars
<1>1. CASE Link
  <2>1. UNCHANGED diskVars
    BY <1>1 DEF Link, Split, LinkPair, TakeOne, GoRight, LinkHalves
  <2>2. printed \subseteq printed'
    BY <1>1, LinkReported DEF ReportedOK
  <2>3. \A p \in printed' : Promise!Real(p)
    <3>1. ReportsReal'
      BY DEF RealOK
    <3> QED
      BY <2>1, <3>1 DEF ReportsReal, Promise!Real, Promise!Load, Promise!Clash, Load, Clash
  <2>4. Promise!Report
    BY <2>1, <2>2, <2>3 DEF Promise!Report
  <2> QED
    BY <2>4 DEF Promise!Next
<1>2. CASE WriteDir
  <2>1. /\ pc = "dirTree" /\ Linked /\ cur \in Dir
        /\ dirFile' = [dirFile EXCEPT ![cur] = call.l[1]] /\ dirFiles' = dirFiles \union {cur}
        /\ UNCHANGED <<onDisk, exports, finalFile, printed>>
    BY <1>2 DEF WriteDir, TypeOK
  <2>2. cur \in Dir \ Excluded
    BY <2>1 DEF WrittenOK
  <2>3. PICK files \in SUBSET (FilesIn[cur] \intersect onDisk) : \A e : InHand(e) <=> e \in Whole(files)
    BY <2>1 DEF WrittenOK
  <2>4. call.l[1] = Whole(files)
    <3>1. \A e : e \in call.l[1] <=> e \in Whole(files)
      BY <2>1, <2>3, LinkedAll
    <3> QED
      BY <3>1
  <2>5. AllReported(Whole(files), VM)
    <3>1. \A d \in Dir : AllReported(dirFile[d], VM)'
      BY DEF ReportedOK, NothingLinkedSilently
    <3>2. dirFile'[cur] = Whole(files)
      BY <2>1, <2>4 DEF TypeOK
    <3> QED
      BY <2>1, <3>1, <3>2 DEF AllReported, Reported
  <2>6. Promise!WriteDir
    BY <2>1, <2>2, <2>4, <2>5, PromiseIs DEF Promise!WriteDir
  <2> QED
    BY <2>6 DEF Promise!Next
<1>f. ASSUME NEW ds \in SUBSET (dirFiles \ Excluded), finalFile' = United(ds),
             UNCHANGED <<onDisk, exports, dirFiles, dirFile, printed>>
      PROVE  Promise!Next
  <2>1. AllReported(United(ds), VM \intersect Approx)
    <3>1. AllReported(finalFile, VM \intersect Approx)'
      BY DEF ReportedOK, NothingLinkedSilently
    <3> QED
      BY <1>f, <3>1 DEF AllReported, Reported
  <2>2. Promise!WriteFinal
    BY <1>f, <2>1, PromiseIs DEF Promise!WriteFinal
  <2> QED
    BY <2>2 DEF Promise!Next
<1>3. CASE WriteFinal
  <2>1. /\ pc = "dirs" /\ finalFile' = final
        /\ UNCHANGED <<onDisk, exports, dirFiles, dirFile, printed>>
    BY <1>3 DEF WriteFinal
  <2>2. PICK ds \in SUBSET (dirFiles \ Excluded) : final = United(ds)
    BY <2>1 DEF WrittenOK
  <2> QED
    BY <1>f, <2>1, <2>2
<1>4. CASE EndDirLinker
  <2>1. /\ pc = "dirLink" /\ Linked /\ finalFile' = call.l[1]
        /\ UNCHANGED <<onDisk, exports, dirFiles, dirFile, printed>>
    BY <1>4 DEF EndDirLinker
  <2>2. PICK ds \in SUBSET (dirFiles \ Excluded) : \A e : InHand(e) <=> e \in United(ds)
    BY <2>1 DEF WrittenOK
  <2>3. call.l[1] = United(ds)
    <3>1. \A e : e \in call.l[1] <=> e \in United(ds)
      BY <2>1, <2>2, LinkedAll
    <3> QED
      BY <3>1
  <2> QED
    BY <1>f, <2>1, <2>3
<1>5. ASSUME NEW f \in File, Analyze(f) PROVE Promise!Next
  BY <1>5 DEF Analyze, Promise!Analyze, Promise!Next
<1>6. CASE \/ (\E d \in Dir : ProcessDir(d)) \/ NextDir
           \/ (\E selection \in Selections : Start(selection))
           \/ (\E ds \in Taken : StartDirLinker(ds) \/ DirLinkerFails(ds))
           \/ Crash \/ UNCHANGED vars
  BY <1>6, <1>v DEF ProcessDir, NextDir, Start, StartDirLinker, DirLinkerFails, Crash, vars
<1> QED
  BY <1>1, <1>2, <1>3, <1>4, <1>5, <1>6 DEF Next, Linker

\* The linkers implement LinkPromise: for any directories, files and exports,
\* halves, orders, runs and deaths.
THEOREM PromiseKept == Spec => Promised
<1> DEFINE Inv == TypeOK /\ Resting /\ ReportedOK /\ RealOK /\ WrittenOK
<1>1. Init => Inv
  <2> SUFFICES ASSUME Init PROVE Resting /\ ReportedOK /\ RealOK /\ WrittenOK
    BY TypeInit
  <2>1. Resting /\ ReportedOK /\ RealOK
    BY InitReported, InitReal
  <2> QED
    BY <2>1 DEF Init, WrittenOK
<1>2. Inv /\ [Next]_vars => Inv'
  BY TypeStep, RestingStep, ReportedStep, RealStep, WrittenStep
<1>3. Init => Promise!Init
  BY DEF Init, Promise!Init
<1>4. Inv /\ Inv' /\ [Next]_vars => [Promise!Next]_(Promise!vars)
  BY PromiseStep
<1> HIDE DEF Inv
<1> QED
  BY <1>1, <1>2, <1>3, <1>4, PTL DEF Spec, Promised, Promise!Spec
=============================================================================
