----------------------- MODULE TokenStreamDiffProofs -----------------------
(***************************************************************************)
(* Proofs about TokenStreamDiff, for any streams, models and texts.        *)
(***************************************************************************)
EXTENDS TokenStreamDiff, SequenceTheorems, TLAPS

\* Once the conditions are compared, the two tokens in hand have the same
\* condition under the model unless a mismatch is noted.
SameOK == pc = "text" /\ ~mismatch => a.cond \intersect fm = b.cond \intersect fm

IInv == TypeOK /\ SameOK /\ ComparedAgree

\* The tokens of a stream are tokens.
LEMMA InStream ==
    ASSUME TypeOK
    PROVE  /\ left \in Seq(Token) /\ right \in Seq(Token) /\ fm \subseteq Config
           /\ \A n \in 1 .. Len(left) : left[n].text \in Seq(Atom) /\ left[n].cond \subseteq Config
           /\ \A n \in 1 .. Len(right) : right[n].text \in Seq(Atom) /\ right[n].cond \subseteq Config
<1>1. left \in Seq(Token) /\ right \in Seq(Token) /\ fm \subseteq Config
  BY StreamAssumption DEF TypeOK
<1>2. /\ \A n \in 1 .. Len(left) : left[n] \in Token
      /\ \A n \in 1 .. Len(right) : right[n] \in Token
  BY <1>1
<1> QED BY <1>1, <1>2 DEF Token

LEMMA InHand ==
    ASSUME TypeOK
    PROVE  /\ ~LeftEmpty => a.text \in Seq(Atom) /\ a.cond \subseteq Config
           /\ ~RightEmpty => b.text \in Seq(Atom) /\ b.cond \subseteq Config
<1>1. Len(left) \in Nat /\ Len(right) \in Nat BY InStream
<1>2. ~LeftEmpty => i \in 1 .. Len(left) BY <1>1 DEF TypeOK, LeftEmpty
<1>3. ~RightEmpty => j \in 1 .. Len(right) BY <1>1 DEF TypeOK, RightEmpty
<1> QED BY <1>2, <1>3, InStream DEF a, b

\* Reading on keeps a text per configuration.
LEMMA AfterType ==
    ASSUME NEW sn \in [Config -> Seq(Atom)], NEW t, t.text \in Seq(Atom)
    PROVE  After(sn, t) \in [Config -> Seq(Atom)]
BY DEF After

\* An absent token leaves every text of the model alone.
LEMMA AfterDead ==
    ASSUME NEW sn \in [Config -> Seq(Atom)], NEW t, Dead(t), fm \subseteq Config
    PROVE  \A c \in fm : After(sn, t)[c] = sn[c]
BY DEF After, Dead

LEMMA TypeStep == ASSUME TypeOK, [Next]_vars PROVE TypeOK'
<1> USE DEF inputs, seen, LeftEmpty, RightEmpty
<1>i. Len(left) \in Nat /\ Len(right) \in Nat BY InStream
<1>1. CASE Finish BY <1>1 DEF Finish, TypeOK
<1>2. CASE Enter BY <1>2 DEF Enter, TypeOK
<1>3. CASE Throw BY <1>3 DEF Throw, TypeOK
<1>4. CASE DropLeft
  <2>1. After(seenL, a) \in [Config -> Seq(Atom)]
    <3>1. a.text \in Seq(Atom) BY <1>4, InHand DEF DropLeft, Comparing
    <3> QED BY <3>1, AfterType DEF TypeOK
  <2> QED BY <1>4, <1>i, <2>1 DEF DropLeft, Comparing, TypeOK
<1>5. CASE DropRight
  <2>1. After(seenR, b) \in [Config -> Seq(Atom)]
    <3>1. b.text \in Seq(Atom) BY <1>5, InHand DEF DropRight, Comparing
    <3> QED BY <3>1, AfterType DEF TypeOK
  <2> QED BY <1>5, <1>i, <2>1 DEF DropRight, Comparing, TypeOK
<1>6. CASE CompareFeatures BY <1>6 DEF CompareFeatures, Comparing, TypeOK
<1>7. CASE Mismatch BY <1>7 DEF Mismatch, TypeOK
<1>8. CASE Advance
  <2>1. /\ After(seenL, a) \in [Config -> Seq(Atom)]
        /\ After(seenR, b) \in [Config -> Seq(Atom)]
    <3>1. a.text \in Seq(Atom) /\ b.text \in Seq(Atom) BY <1>8, InHand DEF Advance, TypeOK
    <3> QED BY <3>1, AfterType DEF TypeOK
  <2> QED BY <1>8, <1>i, <2>1 DEF Advance, TypeOK
<1>9. CASE AdvanceGlued
  <2>1. i + 1 \in 1 .. Len(left) BY <1>9, <1>i DEF AdvanceGlued, Glue, TypeOK
  <2>2. /\ After(seenL, a) \in [Config -> Seq(Atom)]
        /\ After(seenR, b) \in [Config -> Seq(Atom)]
    <3>1. a.text \in Seq(Atom) /\ b.text \in Seq(Atom) BY <1>9, InHand DEF AdvanceGlued, TypeOK
    <3> QED BY <3>1, AfterType DEF TypeOK
  <2>3. After(After(seenL, a), left[i + 1]) \in [Config -> Seq(Atom)]
    <3>1. left[i + 1].text \in Seq(Atom) BY <2>1, InStream
    <3> QED BY <2>2, <3>1, AfterType
  <2>4. a.cond \subseteq Config /\ left[i + 1].cond \subseteq Config
    BY <1>9, <2>1, InStream, InHand DEF AdvanceGlued, TypeOK
  <2>5. glued' \subseteq Config BY <1>9, <2>4 DEF AdvanceGlued, TypeOK
  <2> QED BY <1>9, <1>i, <2>1, <2>2, <2>3, <2>5 DEF AdvanceGlued, Glue, TypeOK
<1>10. CASE UNCHANGED vars BY <1>10 DEF vars, TypeOK
<1> QED BY <1>1, <1>2, <1>3, <1>4, <1>5, <1>6, <1>7, <1>8, <1>9, <1>10 DEF Next

LEMMA AgreeStep == ASSUME IInv, [Next]_vars PROVE SameOK' /\ ComparedAgree'
<1> USE DEF inputs, seen
<1>t. TypeOK BY DEF IInv
<1>s. fm \subseteq Config BY <1>t, InStream
<1>1. CASE Finish BY <1>1 DEF Finish, IInv, SameOK, ComparedAgree
<1>2. CASE Enter BY <1>2 DEF Enter, IInv, SameOK, ComparedAgree
<1>3. CASE Throw BY <1>3 DEF Throw, IInv, SameOK, ComparedAgree
<1>4. CASE DropLeft
  <2>1. \A c \in fm : seenL'[c] = seenL[c]
    BY <1>4, <1>t, <1>s, AfterDead DEF DropLeft, TypeOK
  <2> QED BY <1>4, <2>1 DEF DropLeft, Comparing, IInv, SameOK, ComparedAgree
<1>5. CASE DropRight
  <2>1. \A c \in fm : seenR'[c] = seenR[c]
    BY <1>5, <1>t, <1>s, AfterDead DEF DropRight, TypeOK
  <2> QED BY <1>5, <2>1 DEF DropRight, Comparing, IInv, SameOK, ComparedAgree
<1>6. CASE CompareFeatures
  <2>1. a' = a /\ b' = b /\ fm' = fm BY <1>6 DEF CompareFeatures, a, b
  <2>2. mismatch' \/ a.cond \intersect fm = b.cond \intersect fm
    BY <1>6 DEF CompareFeatures, SameCondition
  <2> QED BY <1>6, <2>1, <2>2 DEF CompareFeatures, IInv, SameOK, ComparedAgree
<1>7. CASE Mismatch BY <1>7 DEF Mismatch, IInv, SameOK, ComparedAgree
<1>8. CASE Advance
  <2>1. /\ \A c \in fm : c \in a.cond <=> c \in b.cond
        /\ a.text = b.text
    BY <1>8 DEF Advance, IInv, SameOK
  <2>2. \A c \in fm \ glued : After(seenL, a)[c] = After(seenR, b)[c]
    BY <1>t, <1>s, <2>1 DEF After, IInv, ComparedAgree, TypeOK
  <2> QED BY <1>8, <2>2 DEF Advance, SameOK, ComparedAgree
<1>9. CASE AdvanceGlued
  <2> DEFINE e == left[i + 1]
  <2>1. /\ \A c \in fm : c \in a.cond <=> c \in b.cond
        /\ a.text \o e.text = b.text
    BY <1>9 DEF AdvanceGlued, Glue, IInv, SameOK
  <2>2. i \in 1 .. Len(left) /\ i + 1 \in 1 .. Len(left)
    BY <1>9, <1>t, InStream DEF AdvanceGlued, Glue, TypeOK
  <2>3. a.text \in Seq(Atom) /\ e.text \in Seq(Atom)
    BY <1>9, <1>t, <2>2, InStream, InHand DEF AdvanceGlued, TypeOK
  <2>4. seenL \in [Config -> Seq(Atom)] /\ seenR \in [Config -> Seq(Atom)] BY <1>t DEF TypeOK
  <2> HIDE DEF e
  <2>5. ASSUME NEW sn \in Seq(Atom)
        PROVE  (sn \o a.text) \o e.text = sn \o (a.text \o e.text)
    <3>1. \A p, q \in Seq(Atom) : (sn \o p) \o q = sn \o (p \o q)
      BY ConcatAssociative
    <3> QED BY <2>3, <3>1
  <2>6. ASSUME NEW c \in fm, c \notin glued, c \in a.cond <=> c \in e.cond
        PROVE  After(After(seenL, a), e)[c] = After(seenR, b)[c]
    <3>1. seenL[c] = seenR[c] /\ seenR[c] \in Seq(Atom) /\ c \in Config
      BY <1>s, <2>4, <2>6 DEF IInv, ComparedAgree
    <3>2. CASE c \in a.cond
      <4>1. After(After(seenL, a), e)[c] = (seenL[c] \o a.text) \o e.text
        BY <2>6, <3>1, <3>2 DEF After
      <4>2. After(seenR, b)[c] = seenR[c] \o b.text
        BY <2>1, <3>1, <3>2 DEF After
      <4>3. (seenR[c] \o a.text) \o e.text = seenR[c] \o (a.text \o e.text)
        BY <2>5, <3>1
      <4> QED BY <2>1, <3>1, <4>1, <4>2, <4>3
    <3>3. CASE c \notin a.cond
      BY <2>1, <2>6, <3>1, <3>3 DEF After
    <3> QED BY <3>2, <3>3
  <2>7. seenL' = After(After(seenL, a), e) /\ seenR' = After(seenR, b) /\ fm' = fm /\ pc' = "loop"
    BY <1>9 DEF AdvanceGlued, e
  <2>8. \A c \in fm \ glued' : c \notin glued /\ (c \in a.cond <=> c \in e.cond)
    BY <1>9 DEF AdvanceGlued, e
  <2> QED BY <2>6, <2>7, <2>8 DEF SameOK, ComparedAgree
<1>10. CASE UNCHANGED vars BY <1>10 DEF vars, IInv, SameOK, ComparedAgree, a, b
<1> QED BY <1>1, <1>2, <1>3, <1>4, <1>5, <1>6, <1>7, <1>8, <1>9, <1>10 DEF Next

LEMMA InitInv == Init => IInv
<1> SUFFICES ASSUME Init PROVE IInv OBVIOUS
<1>1. left \in Seq(Token) /\ right \in Seq(Token) BY StreamAssumption DEF Init
<1>2. Len(left) \in Nat /\ Len(right) \in Nat BY <1>1
<1>3. seenL \in [Config -> Seq(Atom)] /\ seenR \in [Config -> Seq(Atom)]
  <2>1. <<>> \in Seq(Atom) OBVIOUS
  <2> QED BY <2>1 DEF Init
<1>4. i \in 1 .. Len(left) + 1 /\ j \in 1 .. Len(right) + 1 BY <1>2 DEF Init
<1>5. TypeOK BY <1>3, <1>4 DEF Init, TypeOK
<1> QED BY <1>5 DEF Init, IInv, SameOK, ComparedAgree

THEOREM Invariant == Spec => []IInv
<1>1. IInv /\ [Next]_vars => IInv' BY TypeStep, AgreeStep DEF IInv
<1> QED BY InitInv, <1>1, PTL DEF Spec

\* The places of the comparison lie inside the streams: no token is read
\* that is not there.
THEOREM TypeCorrect == Spec => []TypeOK
<1>1. IInv => TypeOK BY DEF IInv
<1> QED BY Invariant, <1>1, PTL

\* Line 46 to 57 and 66 to 72 let pass only what is the same text in every
\* configuration of the model, but for halves of glued texts.
THEOREM ComparedAgreeHolds == Spec => []ComparedAgree
<1>1. IInv => ComparedAgree BY DEF IInv
<1> QED BY Invariant, <1>1, PTL

-----------------------------------------------------------------------------
\* Streams that differ in dead tokens only.

\* f matches what is left of the first stream with what is left of the second,
\* and, if they are alive, the two tokens whose texts are compared.
InStep(f) ==
    /\ \A m \in Alive(left) : m >= i <=> f[m] >= j
    /\ pc = "text" /\ ~Absent(a) => f[i] = j

StepsMatched ==
    Equivalent =>
      /\ pc \notin {"mismatch", "exception"}
      /\ pc = "features" => ~LeftEmpty
      /\ pc = "text" => ~mismatch /\ a.text = b.text /\ (Absent(a) <=> Absent(b))
      /\ \E f \in Matchings : InStep(f)

\* What a matching says, with the lengths of the streams.
LEMMA MatchingFits ==
    ASSUME TypeOK, NEW f \in Matchings
    PROVE  /\ Len(left) \in Nat /\ Len(right) \in Nat
           /\ i \in Nat \ {0} /\ j \in Nat \ {0}
           /\ Alive(left) \subseteq 1 .. Len(left) /\ Alive(right) \subseteq 1 .. Len(right)
           /\ \A m \in Alive(left) : f[m] \in Alive(right)
           /\ \A n \in Alive(right) : \E m \in Alive(left) : f[m] = n
           /\ \A m, n \in Alive(left) : m < n => f[m] < f[n]
           /\ \A m \in Alive(left) :
                /\ left[m].text = right[f[m]].text
                /\ left[m].cond \intersect fm = right[f[m]].cond \intersect fm
<1>1. Len(left) \in Nat /\ Len(right) \in Nat BY InStream
<1> QED BY <1>1 DEF TypeOK, Alive, Matchings

\* The streams stay, and so do their matchings.
LEMMA SameStreams ==
    ASSUME UNCHANGED inputs
    PROVE  /\ Equivalent' <=> Equivalent
           /\ Matchings' = Matchings
           /\ Alive(left)' = Alive(left)
           /\ \A t : Absent(t)' <=> Absent(t)
BY DEF inputs, Equivalent, Matchings, Alive, Absent

LEMMA DeadIsAbsent == \A t : Dead(t) <=> Absent(t)
BY DEF Dead, Absent

LEMMA MatchedStep ==
    ASSUME TypeOK, TypeOK', StepsMatched, [Next]_vars
    PROVE  StepsMatched'
<1> USE DEF seen
<1>0. UNCHANGED inputs
  BY DEF Next, vars, Finish, Enter, Throw, DropLeft, DropRight, CompareFeatures, Mismatch, Advance,
     AdvanceGlued
<1>u. UNCHANGED <<fm, left, right>> BY <1>0 DEF inputs
<1> SUFFICES ASSUME Equivalent
             PROVE  /\ pc' \notin {"mismatch", "exception"}
                    /\ pc' = "features" => ~LeftEmpty'
                    /\ pc' = "text" => ~mismatch' /\ a'.text = b'.text /\ (Absent(a)' <=> Absent(b)')
                    /\ \E f \in Matchings : InStep(f)'
  BY <1>0, SameStreams DEF StepsMatched
<1>1. PICK f \in Matchings : InStep(f) BY DEF StepsMatched
<1>2. /\ \A t : Absent(t)' <=> Absent(t)
      /\ Alive(left)' = Alive(left)
  BY <1>0, SameStreams
<1>3. /\ pc \notin {"mismatch", "exception"}
      /\ pc = "features" => ~LeftEmpty
      /\ pc = "text" => ~mismatch /\ a.text = b.text /\ (Absent(a) <=> Absent(b))
  BY DEF StepsMatched
<1>4. /\ Len(left) \in Nat /\ Len(right) \in Nat
      /\ i \in Nat \ {0} /\ j \in Nat \ {0}
      /\ i <= Len(left) + 1 /\ j <= Len(right) + 1
  BY MatchingFits, InStream DEF TypeOK
\* The token a is alive if i is in the matching, and so is b.
<1>5. /\ ~LeftEmpty => (i \in Alive(left) <=> ~Absent(a))
      /\ ~RightEmpty => (j \in Alive(right) <=> ~Absent(b))
  BY <1>4 DEF LeftEmpty, RightEmpty, Alive, a, b
<1>6. \A m \in Alive(left) : m \in Nat /\ f[m] \in Nat BY MatchingFits
\* While the last token of the first stream is left, one of the second is.
<1>7. ~LeftEmpty => ~RightEmpty
  <2> SUFFICES ASSUME ~LeftEmpty PROVE ~RightEmpty OBVIOUS
  <2>1. Len(left) \in Alive(left) /\ Len(left) >= i
    BY <1>4 DEF Equivalent, LeftEmpty, Alive
  <2>2. f[Len(left)] >= j /\ f[Len(left)] <= Len(right) BY <1>1, <2>1, MatchingFits DEF InStep
  <2> QED BY <1>4, <1>6, <2>1, <2>2 DEF RightEmpty
<1>8. CASE Finish
  BY <1>1, <1>2, <1>8 DEF Finish, InStep
<1>9. CASE Enter
  BY <1>1, <1>2, <1>u, <1>9 DEF Enter, InStep, LeftEmpty
<1>10. CASE Throw
  BY <1>3, <1>7, <1>10 DEF Throw
<1>11. CASE DropLeft
  <2>1. /\ pc = "features" /\ pc' = "features" /\ i' = i + 1 /\ j' = j /\ ~LeftEmpty
        /\ Absent(a)
    BY <1>11, DeadIsAbsent DEF DropLeft, Comparing
  <2>2. i \notin Alive(left) BY <1>5, <2>1
  <2>3. i # Len(left)
    BY <1>4, <2>2 DEF Equivalent, Alive
  <2>4. ~LeftEmpty' BY <1>4, <1>u, <2>1, <2>3 DEF LeftEmpty
  <2>5. \A m \in Alive(left) : m >= i' <=> m >= i BY <1>4, <1>6, <2>1, <2>2
  <2> QED BY <1>1, <1>2, <2>1, <2>4, <2>5 DEF InStep
<1>12. CASE DropRight
  <2>1. /\ pc = "features" /\ pc' = "features" /\ i' = i /\ j' = j + 1 /\ ~LeftEmpty /\ ~RightEmpty
        /\ Absent(b)
    BY <1>12, DeadIsAbsent DEF DropRight, Comparing
  <2>2. j \notin Alive(right) BY <1>5, <2>1
  <2>3. \A m \in Alive(left) : f[m] # j BY <2>2, MatchingFits
  <2>4. ~LeftEmpty' BY <1>u, <2>1 DEF LeftEmpty
  <2>5. \A m \in Alive(left) : f[m] >= j' <=> f[m] >= j BY <1>4, <1>6, <2>1, <2>3
  <2> QED BY <1>1, <1>2, <2>1, <2>4, <2>5 DEF InStep
<1>13. CASE CompareFeatures
  <2>1. /\ pc = "features" /\ pc' = "text" /\ i' = i /\ j' = j /\ ~LeftEmpty /\ ~RightEmpty
        /\ a' = a /\ b' = b
        /\ a.cond = b.cond \/ (~Absent(a) /\ ~Absent(b))
        /\ mismatch' = (a.cond # b.cond /\ ~SameCondition)
    BY <1>u, <1>13, DeadIsAbsent DEF CompareFeatures, Comparing, a, b
  <2>2. Absent(a) <=> Absent(b) BY <2>1 DEF Absent
  <2>3. CASE Absent(a)
    <3>1. a.cond = b.cond BY <2>1, <2>3
    <3>2. i \in 1 .. Len(left) /\ j \in 1 .. Len(right) BY <1>4, <2>1 DEF LeftEmpty, RightEmpty
    <3>3. a.text = b.text BY <2>3, <3>1, <3>2 DEF Equivalent, a, b
    <3> QED BY <1>1, <1>2, <2>1, <2>2, <2>3, <3>1, <3>3 DEF InStep
  <2>4. CASE ~Absent(a)
    <3>1. i \in Alive(left) /\ j \in Alive(right) BY <1>5, <2>1, <2>2, <2>4
    <3>2. f[i] >= j BY <1>1, <1>4, <3>1 DEF InStep
    <3>3. PICK m \in Alive(left) : f[m] = j BY <3>1, MatchingFits
    <3>4. m >= i BY <1>1, <1>4, <3>3 DEF InStep
    <3>5. m > i => f[m] > f[i] BY <3>1, <3>3, MatchingFits
    <3>6. f[i] = j BY <1>4, <1>6, <3>1, <3>2, <3>3, <3>4, <3>5
    <3>7. /\ a.text = b.text
          /\ a.cond \intersect fm = b.cond \intersect fm
      BY <3>1, <3>6, MatchingFits DEF a, b
    <3>8. ~mismatch' BY <2>1, <3>7 DEF SameCondition
    <3> QED BY <1>1, <1>2, <2>1, <2>2, <3>6, <3>7, <3>8 DEF InStep
  <2> QED BY <2>3, <2>4
<1>14. CASE Mismatch
  BY <1>3, <1>14 DEF Mismatch
<1>15. CASE Advance
  <2>1. pc = "text" /\ pc' = "loop" /\ i' = i + 1 /\ j' = j + 1 /\ ~LeftEmpty /\ ~RightEmpty
    BY <1>15 DEF Advance, TypeOK
  <2>2. CASE Absent(a)
    <3>1. i \notin Alive(left) /\ j \notin Alive(right) BY <1>3, <1>5, <2>1, <2>2
    <3>2. \A m \in Alive(left) : m # i /\ f[m] # j BY <3>1, MatchingFits
    <3>3. \A m \in Alive(left) : (m >= i' <=> m >= i) /\ (f[m] >= j' <=> f[m] >= j)
      BY <1>4, <1>6, <2>1, <3>2
    <3> QED BY <1>1, <1>2, <2>1, <3>3 DEF InStep
  <2>3. CASE ~Absent(a)
    <3>1. f[i] = j /\ i \in Alive(left) BY <1>1, <1>5, <2>1, <2>3 DEF InStep
    <3>2. \A m \in Alive(left) : (m < i => f[m] < j) /\ (i < m => j < f[m])
      BY <3>1, MatchingFits
    <3>3. \A m \in Alive(left) : m >= i' <=> f[m] >= j'
      BY <1>4, <1>6, <2>1, <3>1, <3>2
    <3> QED BY <1>1, <1>2, <2>1, <3>3 DEF InStep
  <2> QED BY <2>2, <2>3
<1>16. CASE AdvanceGlued
  BY <1>3, <1>16 DEF AdvanceGlued, Glue
<1>17. CASE UNCHANGED vars
  BY <1>1, <1>2, <1>3, <1>17 DEF vars, inputs, InStep, LeftEmpty, a, b
<1> QED
  BY <1>8, <1>9, <1>10, <1>11, <1>12, <1>13, <1>14, <1>15, <1>16, <1>17 DEF Next

LEMMA InitMatched == Init => StepsMatched
<1> SUFFICES ASSUME Init, Equivalent PROVE \E f \in Matchings : InStep(f)
  BY DEF Init, StepsMatched
<1>1. PICK f \in Matchings : TRUE BY DEF Equivalent
<1>2. TypeOK BY InitInv DEF IInv
<1>3. \A m \in Alive(left) : m >= 1 /\ f[m] >= 1 BY <1>2, MatchingFits
<1> QED BY <1>3 DEF Init, InStep

\* Line 45 to 57: dead tokens in any places of streams of any length never make
\* the comparison fail, the two cases apart that Equivalent rules out.
THEOREM AcceptsEquivalentHolds == Spec => []AcceptsEquivalent
<1>1. (TypeOK /\ StepsMatched) => AcceptsEquivalent BY DEF StepsMatched, AcceptsEquivalent
<1>2. TypeOK /\ TypeOK' /\ StepsMatched /\ [Next]_vars => StepsMatched' BY MatchedStep
<1> QED BY TypeCorrect, InitMatched, <1>1, <1>2, PTL DEF Spec

-----------------------------------------------------------------------------
\* Steps the comparison can still make, at most.
Place ==
    CASE pc = "loop" -> 3 [] pc = "features" -> 2 [] pc = "text" -> 1
      [] OTHER -> 0
Work == 2 * ((Len(left) + 1 - i) + (Len(right) + 1 - j)) + Place

\* The recursion of compareFeatures and the loop use up a token or end: each
\* step leaves less work, for streams of any length.  With the fairness of
\* FairSpec, which makes a step follow as long as one can, this is Ends.
THEOREM WorkDecreases == Spec => [](Work \in Nat) /\ [][Work' < Work]_vars
<1> USE DEF Place, inputs, seen, LeftEmpty, RightEmpty
<1>1. TypeOK => Work \in Nat
  <2> SUFFICES ASSUME TypeOK PROVE Work \in Nat OBVIOUS
  <2>1. Len(left) \in Nat /\ Len(right) \in Nat BY InStream
  <2> QED BY <2>1 DEF TypeOK, Work
<1>2. TypeOK /\ [Next]_vars => [Work' < Work]_vars
  <2> SUFFICES ASSUME TypeOK, Next PROVE Work' < Work OBVIOUS
  <2>1. Len(left) \in Nat /\ Len(right) \in Nat BY InStream
  <2>2. i \in Nat /\ j \in Nat BY <2>1 DEF TypeOK
  <2>3. CASE Finish \/ Enter \/ Throw \/ CompareFeatures \/ Mismatch
    BY <2>1, <2>2, <2>3 DEF Finish, Enter, Throw, CompareFeatures, Comparing, Mismatch, Work
  <2>4. CASE DropLeft \/ DropRight
    BY <2>1, <2>2, <2>4 DEF DropLeft, DropRight, Comparing, Work
  <2>5. CASE Advance \/ AdvanceGlued
    <3>1. /\ pc = "text" /\ pc' = "loop" /\ j' = j + 1 /\ UNCHANGED <<left, right>>
          /\ i' = i + 1 \/ i' = i + 2
      BY <2>5 DEF Advance, AdvanceGlued
    <3>2. Place = 1 /\ Place' = 3 /\ Len(left') = Len(left) /\ Len(right') = Len(right)
      BY <3>1
    <3>3. i' \in Nat /\ i' >= i + 1 BY <2>2, <3>1
    <3> HIDE DEF Place
    <3> QED BY <2>1, <2>2, <3>1, <3>2, <3>3 DEF Work
  <2> QED BY <2>3, <2>4, <2>5 DEF Next
<1> QED BY TypeCorrect, <1>1, <1>2, PTL DEF Spec
=============================================================================
