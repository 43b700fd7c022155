------------------------ MODULE LinuxLinkerEndsProofs ------------------------
(***************************************************************************)
(* Termination of LinuxLinker's linkTreewise and of its loop over the      *)
(* directories, as far as it is a safety property.                         *)
(***************************************************************************)
EXTENDS LinuxLinkerProofs

\* Finite heaps of tokens: p[k] of them at each of the places 1 .. d.
Heap(p, d) == UNION {{k} \X (1 .. p[k]) : k \in 1 .. d}

LEMMA HeapFinite == ASSUME NEW d \in Nat, NEW p, \A k \in 1 .. d : p[k] \in Nat
                    PROVE  IsFiniteSet(Heap(p, d))
<1> DEFINE Row(k) == {k} \X (1 .. p[k])
           S == {Row(k) : k \in 1 .. d}
           g == [k \in 1 .. d |-> Row(k)]
<1>1. IsFiniteSet(1 .. d)
  BY FS_Interval
<1>2. g \in Surjection(1 .. d, S)
  BY DEF Surjection
<1>3. IsFiniteSet(S)
  <2> HIDE DEF g, S
  <2> QED BY <1>1, <1>2, FS_Surjection
<1>4. ASSUME NEW k \in 1 .. d PROVE IsFiniteSet(Row(k))
  <2>1. p[k] \in Nat
    OBVIOUS
  <2>2. IsFiniteSet({k})
    BY FS_Singleton
  <2>3. IsFiniteSet(1 .. p[k])
    BY <2>1, 1 \in Int, p[k] \in Int, FS_Interval
  <2> QED BY <2>2, <2>3, FS_Product
<1>5. \A T \in S : IsFiniteSet(T)
  BY <1>4
<1>6. Heap(p, d) = UNION S
  BY DEF Heap
<1> HIDE DEF S
<1> QED BY <1>3, <1>5, <1>6, FS_UNION

\* One place more.
LEMMA HeapGrows ==
  ASSUME NEW d \in Nat, NEW p, \A k \in 1 .. d + 1 : p[k] \in Nat
  PROVE  /\ Cardinality(Heap(p, d)) \in Nat
         /\ Cardinality(Heap(p, d + 1)) = Cardinality(Heap(p, d)) + p[d + 1]
<1> DEFINE Top == {d + 1} \X (1 .. p[d + 1])
<1>1. p[d + 1] \in Nat /\ \A k \in 1 .. d : p[k] \in Nat
  OBVIOUS
<1>2. IsFiniteSet(Heap(p, d))
  BY <1>1, HeapFinite
<1>3. IsFiniteSet(Top) /\ Cardinality(Top) = p[d + 1]
  <2>1. IsFiniteSet({d + 1}) /\ Cardinality({d + 1}) = 1
    BY FS_Singleton
  <2> DEFINE n == p[d + 1]
  <2>2. n \in Nat
    BY <1>1
  <2> HIDE DEF n
  <2>3. IsFiniteSet(1 .. n) /\ Cardinality(1 .. n) = IF 1 > n THEN 0 ELSE n - 1 + 1
    BY <2>2, 1 \in Int, n \in Int, FS_Interval
  <2>4. Cardinality(1 .. n) = n
    BY <2>2, <2>3
  <2>5. IsFiniteSet({d + 1} \X (1 .. n))
        /\ Cardinality({d + 1} \X (1 .. n)) = Cardinality({d + 1}) * Cardinality(1 .. n)
    BY <2>1, <2>3, FS_Product
  <2>6. Cardinality({d + 1} \X (1 .. n)) = 1 * n
    BY <2>1, <2>4, <2>5, Zenon
  <2>7. Cardinality({d + 1} \X (1 .. n)) = n
    BY <2>2, <2>6
  <2> QED BY <2>5, <2>7 DEF n
<1>4. Heap(p, d + 1) = Heap(p, d) \union Top
  <2>1. 1 .. (d + 1) = (1 .. d) \union {d + 1}
    OBVIOUS
  <2> QED BY <2>1 DEF Heap
<1>5. Heap(p, d) \cap Top = {}
  <2>1. d + 1 \notin 1 .. d
    OBVIOUS
  <2> QED BY <2>1 DEF Heap
<1>6. Cardinality({}) = 0
  BY FS_EmptySet
<1>7. Cardinality(Heap(p, d)) \in Nat
  BY <1>2, FS_CardinalityType
<1> HIDE DEF Top
<1>8. Cardinality(Heap(p, d) \union Top) =
        Cardinality(Heap(p, d)) + Cardinality(Top) - Cardinality(Heap(p, d) \cap Top)
  BY <1>2, <1>3, FS_Union
<1>9. Cardinality(Heap(p, d) \cap Top) = 0
  BY <1>5, <1>6, Zenon
<1>10. Cardinality(Heap(p, d + 1)) = Cardinality(Heap(p, d) \union Top)
  BY <1>4, Zenon
<1> QED BY <1>1, <1>3, <1>7, <1>8, <1>9, <1>10

\* What lies below counts the same.
LEMMA HeapSame ==
  ASSUME NEW d \in Nat, NEW p, NEW q, \A k \in 1 .. d : p[k] = q[k]
  PROVE  Heap(p, d) = Heap(q, d)
BY DEF Heap

\* Bounds for the steps that are left: of a call with n interfaces, of an outer
\* call after the return of its inner one, of all calls.  Outer calls are counted
\* from the outermost, which stays where it is when another one is called.
CallSteps(n) == IF n = 0 THEN 1 ELSE 4 * n - 3
FrameSteps(fr) == IF fr.half = "left" THEN CallSteps(Len(fr.l)) + 2 ELSE 1
Owed(cl, st) ==
    [k \in 1 .. Len(st) + 1 |->
       IF k <= Len(st) THEN FrameSteps(st[Len(st) + 1 - k])
       ELSE IF cl.op = "call" THEN CallSteps(Len(cl.l)) ELSE 0]
Steps == Cardinality(Heap(Owed(call, stack), Len(stack) + 1))

Calls == [op : {"none", "call", "return"}, l : Seq(Interface)]

LEMMA CallStepsType == \A n \in Nat : CallSteps(n) \in Nat /\ CallSteps(n) > 0
BY DEF CallSteps

LEMMA OwedType ==
  ASSUME NEW cl \in Calls, NEW st \in Seq(Frame)
  PROVE  /\ Len(st) \in Nat /\ Len(cl.l) \in Nat
         /\ \A k \in 1 .. Len(st) + 1 : Owed(cl, st)[k] \in Nat
         /\ \A k \in 1 .. Len(st) : Owed(cl, st)[k] = FrameSteps(st[Len(st) + 1 - k])
         /\ Owed(cl, st)[Len(st) + 1] = IF cl.op = "call" THEN CallSteps(Len(cl.l)) ELSE 0
<1>1. Len(st) \in Nat /\ Len(cl.l) \in Nat
  BY DEF Calls
<1>2. ASSUME NEW fr \in Frame PROVE FrameSteps(fr) \in Nat
  <2>1. Len(fr.l) \in Nat
    BY DEF Frame
  <2>2. CallSteps(Len(fr.l)) \in Nat
    BY <2>1, CallStepsType
  <2> QED BY <2>2 DEF FrameSteps
<1>3. \A k \in 1 .. Len(st) : Owed(cl, st)[k] = FrameSteps(st[Len(st) + 1 - k])
  BY <1>1 DEF Owed
<1>4. Owed(cl, st)[Len(st) + 1] = IF cl.op = "call" THEN CallSteps(Len(cl.l)) ELSE 0
  BY <1>1 DEF Owed
<1>5. ASSUME NEW k \in 1 .. Len(st) PROVE Owed(cl, st)[k] \in Nat
  <2>1. Len(st) + 1 - k \in 1 .. Len(st)
    BY <1>1
  <2>2. st[Len(st) + 1 - k] \in Frame
    BY <2>1
  <2> QED BY <1>2, <1>3, <2>2
<1>6. Owed(cl, st)[Len(st) + 1] \in Nat
  BY <1>1, <1>4, CallStepsType
<1> QED
  BY <1>1, <1>3, <1>4, <1>5, <1>6

\* What is owed below a place, and from there on.
LEMMA HeapTop ==
  ASSUME NEW d \in Nat, NEW p, \A k \in 1 .. d + 2 : p[k] \in Nat
  PROVE  /\ Cardinality(Heap(p, d)) \in Nat
         /\ Cardinality(Heap(p, d + 2)) = Cardinality(Heap(p, d)) + p[d + 1] + p[d + 2]
<1>1. \A k \in 1 .. d + 1 : p[k] \in Nat
  OBVIOUS
<1>2. /\ Cardinality(Heap(p, d)) \in Nat
      /\ Cardinality(Heap(p, d + 1)) = Cardinality(Heap(p, d)) + p[d + 1]
  BY <1>1, HeapGrows
<1>3. d + 1 \in Nat /\ (d + 1) + 1 = d + 2
  OBVIOUS
<1>4. Cardinality(Heap(p, (d + 1) + 1)) = Cardinality(Heap(p, d + 1)) + p[(d + 1) + 1]
  BY <1>3, HeapGrows
<1>5. Cardinality(Heap(p, d + 2)) = Cardinality(Heap(p, d + 1)) + p[d + 2]
  BY <1>3, <1>4, Zenon
<1>6. p[d + 1] \in Nat /\ p[d + 2] \in Nat
  OBVIOUS
<1> QED BY <1>2, <1>5, <1>6

\* The length of the halves.
LEMMA HalvesLess ==
  ASSUME NEW l \in Seq(Interface), Len(l) > 2
  PROVE  /\ Len(Halves(l)[1]) \in Nat \ {0} /\ Len(Halves(l)[2]) \in Nat \ {0}
         /\ Len(Halves(l)[1]) + Len(Halves(l)[2]) = Len(l)
<1> DEFINE m == Len(l) \div 2
           a == Halves(l)[1]
           b == Halves(l)[2]
<1>1. m \in Nat \ {0} /\ m < Len(l) /\ Len(l) \in Nat
  BY HalvesAt
<1>2. a \in Seq(Interface) /\ DOMAIN a = 1 .. m
  BY HalvesAt
<1>3. b \in Seq(Interface) /\ DOMAIN b = 1 .. (Len(l) - m)
  BY HalvesAt
<1> HIDE DEF m, a, b
<1>4. Len(a) = m
  BY <1>1, <1>2
<1>5. Len(l) - m \in Nat \ {0}
  BY <1>1
<1>6. Len(b) = Len(l) - m
  BY <1>3, <1>5
<1> QED BY <1>1, <1>4, <1>5, <1>6 DEF a, b

\* Each step of linkTreewise leaves fewer.
LEMMA LinkLess == ASSUME CallOK, Link PROVE Steps \in Nat /\ Steps' \in Nat /\ Steps' < Steps
<1> DEFINE d == Len(stack)
           p == Owed(call, stack)
           q == Owed(call', stack')
<1>1. call \in Calls /\ stack \in Seq(Frame)
  BY DEF CallOK, Calls
<1>2. call' \in Calls /\ stack' \in Seq(Frame)
  BY LinkCallOK DEF CallOK, Calls
<1>3. /\ d \in Nat /\ \A k \in 1 .. d + 1 : p[k] \in Nat
      /\ \A k \in 1 .. d : p[k] = FrameSteps(stack[d + 1 - k])
      /\ p[d + 1] = IF call.op = "call" THEN CallSteps(Len(call.l)) ELSE 0
  BY <1>1, OwedType
<1>4. /\ Len(stack') \in Nat /\ \A k \in 1 .. Len(stack') + 1 : q[k] \in Nat
      /\ \A k \in 1 .. Len(stack') : q[k] = FrameSteps(stack'[Len(stack') + 1 - k])
      /\ q[Len(stack') + 1] = IF call'.op = "call" THEN CallSteps(Len(call'.l)) ELSE 0
  BY <1>2, OwedType
<1>5. Steps = Cardinality(Heap(p, d + 1)) /\ Steps' = Cardinality(Heap(q, Len(stack') + 1))
  BY DEF Steps
<1> HIDE DEF p, q, d
<1>6. CASE Split
  <2> DEFINE a == Halves(call.l)[1]
             b == Halves(call.l)[2]
             fr == [half |-> "left", l |-> b]
  <2>1. /\ call.op = "call" /\ call.l \in Seq(Interface) /\ Len(call.l) > 2
        /\ call'.op = "call" /\ call'.l = a /\ stack' = <<fr>> \o stack
    BY <1>1, <1>6 DEF Split, Called, Call, Calls
  <2>2. /\ Len(a) \in Nat \ {0} /\ Len(b) \in Nat \ {0} /\ Len(a) + Len(b) = Len(call.l)
        /\ b \in Seq(Interface)
    BY <2>1, HalvesLess, HalvesOK
  <2>3. FrameSteps(fr) = CallSteps(Len(b)) + 2 /\ fr \in Frame
    BY <2>2 DEF FrameSteps, Frame
  <2> HIDE DEF a, b, fr
  <2>4. Len(stack') = d + 1 /\ stack'[1] = fr /\ \A k \in 1 .. d : stack'[k + 1] = stack[k]
    BY <1>1, <2>1, <2>3 DEF d
  <2>5. ASSUME NEW k \in 1 .. d PROVE q[k] = p[k]
    <3>1. d + 1 - k \in 1 .. d /\ (d + 1 - k) + 1 = (d + 1) + 1 - k /\ k \in 1 .. (d + 1)
      BY <1>3
    <3>2. q[k] = FrameSteps(stack'[(d + 1) + 1 - k])
      BY <1>4, <2>4, <3>1
    <3>3. stack'[(d + 1 - k) + 1] = stack[d + 1 - k]
      BY <2>4, <3>1
    <3> QED BY <1>3, <3>1, <3>2, <3>3
  <2>6. q[d + 1] = CallSteps(Len(b)) + 2
    <3>1. q[d + 1] = FrameSteps(stack'[(d + 1) + 1 - (d + 1)])
      BY <1>3, <1>4, <2>4
    <3>2. (d + 1) + 1 - (d + 1) = 1
      BY <1>3
    <3> QED BY <2>3, <2>4, <3>1, <3>2
  <2>7. q[d + 2] = CallSteps(Len(a))
    <3>1. (d + 1) + 1 = d + 2
      BY <1>3
    <3> QED BY <1>4, <2>1, <2>4, <3>1
  <2>8. p[d + 1] = CallSteps(Len(call.l))
    BY <1>3, <2>1
  <2>9. CallSteps(Len(a)) + CallSteps(Len(b)) + 2 < CallSteps(Len(call.l))
        /\ CallSteps(Len(a)) \in Nat /\ CallSteps(Len(b)) \in Nat /\ CallSteps(Len(call.l)) \in Nat
    BY <2>2 DEF CallSteps
  <2>10. /\ Cardinality(Heap(p, d)) \in Nat
         /\ Cardinality(Heap(p, d + 1)) = Cardinality(Heap(p, d)) + p[d + 1]
    BY <1>3, HeapGrows
  <2>11. Cardinality(Heap(q, d + 2)) = Cardinality(Heap(q, d)) + q[d + 1] + q[d + 2]
    <3>1. \A k \in 1 .. d + 2 : q[k] \in Nat
      BY <1>3, <1>4, <2>4
    <3> QED BY <1>3, <3>1, HeapTop
  <2>12. Heap(q, d) = Heap(p, d)
    BY <1>3, <2>5, HeapSame
  <2>13. Len(stack') + 1 = d + 2
    BY <1>3, <2>4
  <2> QED
    BY <1>5, <2>6, <2>7, <2>8, <2>9, <2>10, <2>11, <2>12, <2>13
<1>7. CASE LinkPair \/ TakeOne
  <2>1. /\ call.op = "call" /\ call'.op = "return" /\ stack' = stack
    BY <1>7 DEF LinkPair, TakeOne, LinkTwo, Return, Called
  <2>2. Len(stack') = d
    BY <2>1 DEF d
  <2>3. \A k \in 1 .. d : q[k] = p[k]
    BY <1>3, <1>4, <2>1, <2>2
  <2>4. q[d + 1] = 0 /\ p[d + 1] = CallSteps(Len(call.l))
    BY <1>3, <1>4, <2>1, <2>2
  <2>5. Len(call.l) \in Nat
    BY <1>1 DEF Calls
  <2>6. p[d + 1] > 0 /\ p[d + 1] \in Nat
    BY <1>3, <2>4, <2>5, CallStepsType
  <2>7. /\ Cardinality(Heap(p, d)) \in Nat
        /\ Cardinality(Heap(p, d + 1)) = Cardinality(Heap(p, d)) + p[d + 1]
    BY <1>3, HeapGrows
  <2>8. Cardinality(Heap(q, d + 1)) = Cardinality(Heap(q, d)) + q[d + 1]
    BY <1>3, <1>4, <2>2, HeapGrows
  <2>9. Heap(q, d) = Heap(p, d)
    BY <1>3, <2>3, HeapSame
  <2> QED
    BY <1>5, <2>2, <2>4, <2>6, <2>7, <2>8, <2>9
<1>8. ASSUME stack # <<>>, ~Called
      PROVE  /\ d - 1 \in Nat /\ d >= 1
             /\ Cardinality(Heap(p, d - 1)) \in Nat
             /\ Steps = Cardinality(Heap(p, d - 1)) + FrameSteps(Head(stack))
             /\ FrameSteps(Head(stack)) \in Nat
  <2>1. d >= 1 /\ Head(stack) = stack[1]
    BY <1>1, <1>8 DEF d
  <2>2. d - 1 \in Nat /\ (d - 1) + 1 = d /\ (d - 1) + 2 = d + 1
    BY <1>3, <2>1
  <2>3. p[d + 1] = 0
    BY <1>3, <1>8 DEF Called
  <2>4. p[d] = FrameSteps(Head(stack)) /\ p[d] \in Nat
    <3>1. d + 1 - d = 1 /\ d \in 1 .. d /\ d \in 1 .. d + 1
      BY <1>3, <2>1
    <3> QED BY <1>3, <2>1, <3>1
  <2>5. \A k \in 1 .. (d - 1) + 2 : p[k] \in Nat
    BY <1>3, <2>2
  <2>6. /\ Cardinality(Heap(p, d - 1)) \in Nat
        /\ Cardinality(Heap(p, (d - 1) + 2)) =
             Cardinality(Heap(p, d - 1)) + p[(d - 1) + 1] + p[(d - 1) + 2]
    BY <2>2, <2>5, HeapTop
  <2>7. Steps = Cardinality(Heap(p, d - 1)) + p[d] + p[d + 1]
    BY <1>5, <2>2, <2>6, Zenon
  <2> QED
    BY <2>1, <2>2, <2>3, <2>4, <2>6, <2>7
<1>9. CASE GoRight
  <2> DEFINE fr == Head(stack)
             new == [half |-> "right", l |-> call.l]
  <2>1. /\ ~Called /\ stack # <<>> /\ fr.half = "left"
        /\ call'.op = "call" /\ call'.l = fr.l /\ stack' = <<new>> \o Tail(stack)
    BY <1>9 DEF GoRight, Called, Returned, Call
  <2>2. Len(fr.l) \in Nat /\ fr \in Frame
    BY <1>1, <2>1, TailStack DEF Frame
  <2>3. FrameSteps(fr) = CallSteps(Len(fr.l)) + 2 /\ CallSteps(Len(fr.l)) \in Nat
    BY <2>1, <2>2, CallStepsType DEF FrameSteps
  <2>4. FrameSteps(new) = 1 /\ new \in Frame
    BY <1>1 DEF FrameSteps, Frame, Calls
  <2>5. /\ d - 1 \in Nat /\ d >= 1
        /\ Cardinality(Heap(p, d - 1)) \in Nat
        /\ Steps = Cardinality(Heap(p, d - 1)) + FrameSteps(fr)
    BY <1>8, <2>1
  <2> HIDE DEF fr, new
  <2>6. /\ Len(stack') = d /\ stack'[1] = new
        /\ \A k \in 2 .. d : stack'[k] = stack[k]
    BY <1>1, <2>1, <2>4 DEF d
  <2>7. ASSUME NEW k \in 1 .. d - 1 PROVE q[k] = p[k]
    <3>1. d + 1 - k \in 2 .. d /\ k \in 1 .. d
      BY <1>3, <2>5
    <3> QED BY <1>3, <1>4, <2>6, <3>1
  <2>8. q[d] = 1
    <3>1. d + 1 - d = 1 /\ d \in 1 .. d
      BY <1>3, <2>5
    <3> QED BY <1>4, <2>4, <2>6, <3>1
  <2>9. q[d + 1] = CallSteps(Len(fr.l))
    BY <1>4, <2>1, <2>6
  <2>10. (d - 1) + 1 = d /\ (d - 1) + 2 = d + 1
    BY <1>3
  <2>11. \A k \in 1 .. (d - 1) + 2 : q[k] \in Nat
    BY <1>4, <2>6, <2>10
  <2>12. Cardinality(Heap(q, (d - 1) + 2)) =
             Cardinality(Heap(q, d - 1)) + q[(d - 1) + 1] + q[(d - 1) + 2]
    BY <2>5, <2>11, HeapTop
  <2>13. Heap(q, d - 1) = Heap(p, d - 1)
    BY <2>5, <2>7, HeapSame
  <2>14. Steps' = Cardinality(Heap(p, d - 1)) + q[d] + q[d + 1]
    BY <1>5, <2>6, <2>10, <2>12, <2>13, Zenon
  <2> QED
    BY <2>3, <2>5, <2>8, <2>9, <2>14
<1>10. CASE LinkHalves
  <2>1. /\ ~Called /\ stack # <<>> /\ Head(stack).half = "right"
        /\ call'.op = "return" /\ stack' = Tail(stack)
    BY <1>10 DEF LinkHalves, LinkTwo, Called, Returned, Return
  <2>2. FrameSteps(Head(stack)) = 1
    BY <2>1 DEF FrameSteps
  <2>3. /\ d - 1 \in Nat /\ d >= 1
        /\ Cardinality(Heap(p, d - 1)) \in Nat
        /\ Steps = Cardinality(Heap(p, d - 1)) + 1
    BY <1>8, <2>1, <2>2
  <2>4. Len(stack') = d - 1 /\ \A k \in 1 .. d - 1 : stack'[k] = stack[k + 1]
    BY <1>1, <2>1, HeadTailProperties DEF d
  <2>5. ASSUME NEW k \in 1 .. d - 1 PROVE q[k] = p[k]
    <3>1. /\ (d - 1) + 1 - k \in 1 .. d - 1 /\ ((d - 1) + 1 - k) + 1 = d + 1 - k
          /\ k \in 1 .. d
      BY <1>3, <2>3
    <3>2. stack'[(d - 1) + 1 - k] = stack[d + 1 - k]
      BY <2>4, <3>1
    <3> QED BY <1>3, <1>4, <2>4, <3>1, <3>2
  <2>6. q[(d - 1) + 1] = 0
    BY <1>4, <2>1, <2>4
  <2>7. \A k \in 1 .. (d - 1) + 1 : q[k] \in Nat
    BY <1>4, <2>4
  <2>8. Cardinality(Heap(q, (d - 1) + 1)) = Cardinality(Heap(q, d - 1)) + q[(d - 1) + 1]
    BY <2>3, <2>7, HeapGrows
  <2>9. Heap(q, d - 1) = Heap(p, d - 1)
    BY <2>3, <2>5, HeapSame
  <2>10. Steps' = Cardinality(Heap(p, d - 1)) + 0
    BY <1>5, <2>4, <2>6, <2>8, <2>9, Zenon
  <2> QED
    BY <2>3, <2>10
<1> QED
  BY <1>6, <1>7, <1>9, <1>10 DEF Link

LEMMA StepsType == ASSUME CallOK PROVE Steps \in Nat
<1>1. call \in Calls /\ stack \in Seq(Frame)
  BY DEF CallOK, Calls
<1>2. Len(stack) \in Nat /\ \A k \in 1 .. Len(stack) + 1 : Owed(call, stack)[k] \in Nat
  BY <1>1, OwedType
<1> QED
  BY <1>2, HeapGrows, HeapFinite, FS_CardinalityType DEF Steps

\* What is left to a linker: directories, then what it does with the one it is at,
\* then the steps of linkTreewise.
Phase == CASE pc = "dirs" -> 3
           [] pc = "dirTree" -> 2
           [] pc \in {"merge", "dirLink"} -> 1
           [] OTHER -> 0
Left == <<Cardinality(todo), Phase, Steps>>
Less ==
  \/ Cardinality(todo)' < Cardinality(todo)
  \/ /\ Cardinality(todo)' = Cardinality(todo)
     /\ Phase' < Phase \/ (Phase' = Phase /\ Steps' < Steps)

LEMMA LeftType == TypeOK => Cardinality(todo) \in Nat /\ Phase \in Nat /\ Steps \in Nat
<1> SUFFICES ASSUME TypeOK PROVE Cardinality(todo) \in Nat /\ Phase \in Nat /\ Steps \in Nat
  OBVIOUS
<1>1. IsFiniteSet(todo)
  BY DirAssumption, FS_Subset DEF TypeOK
<1> QED
  BY <1>1, TypeParts, StepsType, FS_CardinalityType DEF Phase

LEMMA LinkerLess == TypeOK /\ Resting /\ WrittenOK /\ Linker => Less
<1> SUFFICES ASSUME TypeOK, Resting, WrittenOK, Linker PROVE Less
  OBVIOUS
<1> USE DEF dirVars
<1>1. CASE Link
  <2>1. UNCHANGED <<pc, todo>>
    BY <1>1 DEF Link, Split, LinkPair, TakeOne, GoRight, LinkHalves
  <2>2. Steps' < Steps
    BY <1>1, TypeParts, LinkLess
  <2> QED
    BY <2>1, <2>2 DEF Less, Phase
<1>2. CASE (\E d \in Dir : ProcessDir(d)) \/ WriteDir
  <2>1. UNCHANGED todo
    BY <1>2 DEF ProcessDir, WriteDir
  <2>2. \/ pc = "dirs" /\ pc' = "dirTree"
        \/ pc = "dirTree" /\ pc' = "merge"
    <3>1. ASSUME NEW d \in Dir, ProcessDir(d) PROVE pc = "dirs" /\ pc' = "dirTree"
      BY <3>1 DEF ProcessDir
    <3>2. CASE WriteDir
      BY <3>2 DEF WriteDir
    <3> QED BY <1>2, <3>1, <3>2
  <2> QED
    BY <2>1, <2>2 DEF Less, Phase
<1>3. CASE NextDir
  <2>1. cur \in todo /\ todo' = todo \ {cur}
    BY <1>3 DEF NextDir, WrittenOK
  <2>2. IsFiniteSet(todo)
    BY DirAssumption, FS_Subset DEF TypeOK
  <2>3. Cardinality(todo) \in Nat /\ Cardinality(todo \ {cur}) = Cardinality(todo) - 1
    BY <2>1, <2>2, FS_RemoveElement, FS_CardinalityType
  <2> QED
    BY <2>1, <2>3 DEF Less
<1>4. CASE WriteFinal \/ EndDirLinker
  BY <1>4 DEF WriteFinal, EndDirLinker, Less, Phase
<1> QED
  BY <1>1, <1>2, <1>3, <1>4 DEF Linker

\* A linker that was started is never sent back, whatever is analysed meanwhile:
\* each of its steps, those of linkTreewise's calls among them, leaves less to do,
\* and until its end nobody else touches what is left.  With the fairness of FairSpec
\* this is LinkerEnds.
THEOREM LinkersGoOn ==
  Spec => /\ [](Cardinality(todo) \in Nat /\ Phase \in Nat /\ Steps \in Nat)
          /\ [][pc # "idle" => Less \/ Crash \/ UNCHANGED Left]_vars
          /\ [][Linker => Less]_vars
<1> DEFINE Inv == TypeOK /\ Resting /\ WrittenOK
<1>1. Init => Inv
  BY TypeInit, InitReported DEF Init, WrittenOK
<1>2. Inv /\ [Next]_vars => Inv'
  BY TypeStep, RestingStep, WrittenStep
<1>3. Inv => Cardinality(todo) \in Nat /\ Phase \in Nat /\ Steps \in Nat
  BY LeftType
<1>4. Inv /\ [Next]_vars =>
        [(pc # "idle" => Less \/ Crash \/ UNCHANGED Left) /\ (Linker => Less)]_vars
  <2>1. Inv /\ Linker => Less
    BY LinkerLess
  <2> SUFFICES ASSUME Inv, Next, pc # "idle", ~Linker
               PROVE  Crash \/ UNCHANGED Left
    BY <2>1
  <2>2. ASSUME pc # "idle", NEW f \in File, Analyze(f) PROVE UNCHANGED Left
    BY <2>2 DEF Analyze, linkVars, dirVars, Left, Phase, Steps
  <2> QED
    BY <2>2 DEF Next, Start, StartDirLinker, DirLinkerFails
<1> HIDE DEF Inv
<1> QED
  BY <1>1, <1>2, <1>3, <1>4, PTL DEF Spec
=============================================================================
