---------------------- MODULE PresenceConditionsProofs ----------------------
(***************************************************************************)
(* What Parse and Compiled compute, for expressions of any size.  Both are *)
(* recursive functions over the nodes of an expression: here it is shown   *)
(* that functions satisfying their equations exist, and, from a least      *)
(* counterexample, that they agree.                                        *)
(***************************************************************************)
EXTENDS PresenceConditions, WellFoundedInduction, TLAPS

\* Induction without an operator as parameter: a set of numbers has a least one.
LEMMA LeastElement ==
  ASSUME NEW T, T \subseteq Nat, T # {}
  PROVE  \E x \in T : x \in Nat /\ \A y \in T : x <= y
<1> DEFINE R == OpToRel(<, Nat)
<1>1. IsWellFoundedOn(R, Nat)
  BY NatLessThanWellFounded
<1>2. \A x, y \in Nat : <<y, x>> \in R <=> y < x
  BY DEF OpToRel
<1> HIDE DEF R
<1>3. PICK x \in T : \A y \in T : ~ (<<y, x>> \in R)
  BY <1>1, WFMin
<1>4. ASSUME NEW y \in T PROVE x <= y
  <2>1. x \in Nat /\ y \in Nat /\ ~(y < x)
    BY <1>2, <1>3
  <2> QED
    BY <2>1
<1> QED
  BY <1>4

\* What a node of an expression refers to comes before it.
LEMMA Earlier ==
  ASSUME NEW e \in Expression
  PROVE  /\ Len(e) \in Nat \ {0} /\ Len(e) \in 1 .. Len(e)
         /\ \A n \in 1 .. Len(e) :
              /\ e[n] \in Node
              /\ e[n].op \in {"not", "and", "or"} => e[n].l \in 1 .. n - 1 /\ e[n].r \in 1 .. n - 1
<1>1. e \in Seq(Node) /\ e # <<>>
  BY DEF Expression
<1>2. Len(e) \in Nat \ {0} /\ \A n \in 1 .. Len(e) : e[n] \in Node
  BY <1>1
<1> QED
  BY <1>2 DEF Expression

-----------------------------------------------------------------------------
\* The right-hand side of Parse's equation, for a function f.
Meaning(e, openFeatures, f, n) ==
  IF e[n].op \in {"not", "and", "or"}
  THEN Combine(e[n].op, f[e[n].l], f[e[n].r])
  ELSE ParseLeaf(e[n], openFeatures)

Solves(f, e, openFeatures, k) == f = [n \in 1 .. k |-> Meaning(e, openFeatures, f, n)]
Result(e, openFeatures) == CHOOSE f : Solves(f, e, openFeatures, Len(e))

LEMMA ParseIs ==
  ASSUME NEW e, NEW openFeatures
  PROVE  Parse(e, openFeatures) =
           [is |-> Result(e, openFeatures)[Len(e)].is,
            cond |-> Result(e, openFeatures)[Len(e)].cond \intersect Config]
BY DEF Parse, Result, Solves, Meaning

\* The meaning of a node depends on those of earlier nodes only.
LEMMA MeaningLocal ==
  ASSUME NEW e \in Expression, NEW openFeatures, NEW n \in 1 .. Len(e), NEW f, NEW g,
         \A i \in 1 .. n - 1 : f[i] = g[i]
  PROVE  Meaning(e, openFeatures, f, n) = Meaning(e, openFeatures, g, n)
<1>1. e[n].op \in {"not", "and", "or"} => f[e[n].l] = g[e[n].l] /\ f[e[n].r] = g[e[n].r]
  BY Earlier
<1> QED
  BY <1>1 DEF Meaning

\* Parse's equation has a solution, for every prefix of an expression.
LEMMA Solvable ==
  ASSUME NEW e \in Expression, NEW openFeatures
  PROVE  \A k \in 0 .. Len(e) : \E f : Solves(f, e, openFeatures, k)
<1>n. Len(e) \in Nat
  BY Earlier
<1> DEFINE T == {k \in Nat : k <= Len(e) /\ ~\E f : Solves(f, e, openFeatures, k)}
<1> SUFFICES ASSUME T # {} PROVE FALSE
  BY <1>n
<1>1. PICK k \in T : k \in Nat /\ \A j \in T : k <= j
  BY LeastElement
<1>2. k # 0
  <2> DEFINE z == [n \in 1 .. 0 |-> 0]
  <2>1. Solves(z, e, openFeatures, 0)
    BY DEF Solves
  <2> QED
    BY <1>1, <2>1
<1>3. k - 1 \in Nat /\ k - 1 \notin T /\ k <= Len(e)
  BY <1>1, <1>2
<1>4. PICK g : Solves(g, e, openFeatures, k - 1)
  BY <1>3, <1>n
<1> DEFINE h == [n \in 1 .. k |-> Meaning(e, openFeatures, g, n)]
<1>5. \A i \in 1 .. k - 1 : h[i] = g[i]
  BY <1>1, <1>2, <1>4 DEF Solves
<1>6. ASSUME NEW n \in 1 .. k
      PROVE  Meaning(e, openFeatures, g, n) = Meaning(e, openFeatures, h, n)
  <2>1. n \in 1 .. Len(e) /\ \A i \in 1 .. n - 1 : g[i] = h[i]
    BY <1>1, <1>3, <1>5, <1>n
  <2> HIDE DEF h
  <2> QED
    BY <2>1, MeaningLocal
<1>7. Solves(h, e, openFeatures, k)
  BY <1>6 DEF Solves
<1> QED
  BY <1>1, <1>7

LEMMA ResultFits ==
  ASSUME NEW e \in Expression, NEW openFeatures, NEW n \in 1 .. Len(e)
  PROVE  Result(e, openFeatures)[n] = Meaning(e, openFeatures, Result(e, openFeatures), n)
<1>1. Len(e) \in 0 .. Len(e)
  BY Earlier
<1>2. \E f : Solves(f, e, openFeatures, Len(e))
  BY <1>1, Solvable
<1>3. Solves(Result(e, openFeatures), e, openFeatures, Len(e))
  BY <1>2 DEF Result
<1> QED
  BY <1>3 DEF Solves

-----------------------------------------------------------------------------
\* The same for Compiled.
Truth(e, c, f, n) ==
  \/ Chosen(e[n], c)
  \/ e[n].op = "not" /\ ~f[e[n].l]
  \/ e[n].op = "and" /\ f[e[n].l] /\ f[e[n].r]
  \/ e[n].op = "or" /\ (f[e[n].l] \/ f[e[n].r])

TruthSolves(f, e, c, k) == f = [n \in 1 .. k |-> Truth(e, c, f, n)]
Holds(e, c) == CHOOSE f : TruthSolves(f, e, c, Len(e))

LEMMA CompiledIs ==
  ASSUME NEW e, NEW c PROVE Compiled(e, c) = Holds(e, c)[Len(e)]
BY DEF Compiled, Holds, TruthSolves, Truth

LEMMA TruthLocal ==
  ASSUME NEW e \in Expression, NEW c, NEW n \in 1 .. Len(e), NEW f, NEW g,
         \A i \in 1 .. n - 1 : f[i] = g[i]
  PROVE  Truth(e, c, f, n) = Truth(e, c, g, n)
<1>1. e[n].op \in {"not", "and", "or"} => f[e[n].l] = g[e[n].l] /\ f[e[n].r] = g[e[n].r]
  BY Earlier
<1> QED
  BY <1>1 DEF Truth

LEMMA TruthSolvable ==
  ASSUME NEW e \in Expression, NEW c
  PROVE  \A k \in 0 .. Len(e) : \E f : TruthSolves(f, e, c, k)
<1>n. Len(e) \in Nat
  BY Earlier
<1> DEFINE T == {k \in Nat : k <= Len(e) /\ ~\E f : TruthSolves(f, e, c, k)}
<1> SUFFICES ASSUME T # {} PROVE FALSE
  BY <1>n
<1>1. PICK k \in T : k \in Nat /\ \A j \in T : k <= j
  BY LeastElement
<1>2. k # 0
  <2> DEFINE z == [n \in 1 .. 0 |-> 0]
  <2>1. TruthSolves(z, e, c, 0)
    BY DEF TruthSolves
  <2> QED
    BY <1>1, <2>1
<1>3. k - 1 \in Nat /\ k - 1 \notin T /\ k <= Len(e)
  BY <1>1, <1>2
<1>4. PICK g : TruthSolves(g, e, c, k - 1)
  BY <1>3, <1>n
<1> DEFINE h == [n \in 1 .. k |-> Truth(e, c, g, n)]
<1>5. \A i \in 1 .. k - 1 : h[i] = g[i]
  BY <1>1, <1>2, <1>4 DEF TruthSolves
<1>6. ASSUME NEW n \in 1 .. k PROVE Truth(e, c, g, n) = Truth(e, c, h, n)
  <2>1. n \in 1 .. Len(e) /\ \A i \in 1 .. n - 1 : g[i] = h[i]
    BY <1>1, <1>3, <1>5, <1>n
  <2> HIDE DEF h
  <2> QED
    BY <2>1, TruthLocal
<1>7. TruthSolves(h, e, c, k)
  BY <1>6 DEF TruthSolves
<1> QED
  BY <1>1, <1>7

LEMMA HoldsFits ==
  ASSUME NEW e \in Expression, NEW c, NEW n \in 1 .. Len(e)
  PROVE  Holds(e, c)[n] = Truth(e, c, Holds(e, c), n)
<1>1. Len(e) \in 0 .. Len(e)
  BY Earlier
<1>2. \E f : TruthSolves(f, e, c, Len(e))
  BY <1>1, TruthSolvable
<1>3. TruthSolves(Holds(e, c), e, c, Len(e))
  BY <1>2 DEF Holds
<1> QED
  BY <1>3 DEF TruthSolves

-----------------------------------------------------------------------------
\* A node that was parsed holds in c where the build's does in d.
Agrees(e, openFeatures, c, d, n) ==
  LET p == Result(e, openFeatures)[n]
  IN  p.is = "condition" => (c \in p.cond <=> Holds(e, d)[n])

LEMMA AndOrNot ==
  ASSUME NEW op \in {"not", "and", "or"}, NEW p, NEW q
  PROVE  LET r == Combine(op, p, q)
         IN  /\ r.is = "condition" => p.is = "condition" /\ (op # "not" => q.is = "condition")
             /\ r.is = "condition" /\ op = "not" => r.cond = Config \ p.cond
             /\ r.is = "condition" /\ op = "and" => r.cond = p.cond \intersect q.cond
             /\ r.is = "condition" /\ op = "or" => r.cond = p.cond \union q.cond
BY DEF Combine, Both, Parsed

LEMMA ErrorsOf ==
  ASSUME NEW op \in {"not", "and", "or"}, NEW p, NEW q,
         p.is \in {"condition", "exception"}, q.is \in {"condition", "exception"}
  PROVE  Combine(op, p, q).is \in {"condition", "exception"}
BY DEF Combine, Both, Parsed

Comparable == {"true", "id", "isY", "isM", "notY"}

\* A comparison holds where the open macros make it hold.
LEMMA LeafSeen ==
  ASSUME NEW node \in Node, NEW openFeatures, NEW c \in Config,
         node.op \in Comparable,
         <<node.sym, "y">> \notin c \/ <<node.sym, "m">> \notin c
  PROVE  c \in LeafCondition(node, openFeatures) <=> Chosen(node, Seen(c, openFeatures))
<1> DEFINE y == <<node.sym, "y">>
           m == <<node.sym, "m">>
           d == Seen(c, openFeatures)
<1>1. node.sym \in Symbol
  BY DEF Node
<1>2. y \in Macro /\ m \in Macro
  BY <1>1 DEF Macro
<1>3. (y \in d <=> y \in c /\ y \in openFeatures) /\ (m \in d <=> m \in c /\ m \in openFeatures)
  BY <1>2 DEF Seen
<1>4. ~SecondOn(node.sym, d)
  BY FeatureAssumption DEF SecondOn, Seen
<1>5. Value(node.sym, d) = IF y \in d THEN "y" ELSE IF m \in d THEN "m" ELSE "n"
  BY <1>4 DEF Value
<1>6. (c \in ToFeature(y, openFeatures) <=> y \in d) /\ (c \in ToFeature(m, openFeatures) <=> m \in d)
  BY <1>3 DEF ToFeature
<1>7. y \notin d \/ m \notin d
  BY <1>3
<1> HIDE DEF y, m, d
<1>t. CASE node.op = "true"
  BY <1>t DEF LeafCondition, Chosen
<1>i. CASE node.op = "id"
  BY <1>i, <1>5, <1>6 DEF LeafCondition, Chosen, y, m, d
<1>y. CASE node.op = "isY"
  BY <1>y, <1>5, <1>6 DEF LeafCondition, Chosen, y, m, d
<1>m. CASE node.op = "isM"
  BY <1>m, <1>5, <1>6, <1>7 DEF LeafCondition, Chosen, y, m, d
<1>n. CASE node.op = "notY"
  BY <1>n, <1>5, <1>6 DEF LeafCondition, Chosen, y, m, d
<1> QED
  BY <1>t, <1>i, <1>y, <1>m, <1>n DEF Comparable

\* With every macro of the comparison open, and no second variable involved, it
\* holds where the option has the value.
LEMMA LeafAgrees ==
  ASSUME NEW node \in Node, NEW openFeatures, NEW c \in Config,
         node.op \in Comparable,
         <<node.sym, "y">> \notin c \/ <<node.sym, "m">> \notin c,
         node.op \in {"isY", "isM", "notY"} => ~SecondOn(node.sym, c),
         node.op \in {"id", "isY", "notY"} /\ <<node.sym, "y">> \in c => <<node.sym, "y">> \in openFeatures,
         node.op \in {"id", "isM"} /\ <<node.sym, "m">> \in c => <<node.sym, "m">> \in openFeatures
  PROVE  c \in LeafCondition(node, openFeatures) <=> Chosen(node, c)
<1>1. CASE node.op = "true"
  BY <1>1 DEF LeafCondition, Chosen
<1>2. CASE node.op = "id"
  BY <1>2 DEF LeafCondition, Chosen, ToFeature, Value
<1>3. CASE node.op = "isY"
  BY <1>3 DEF LeafCondition, Chosen, ToFeature, Value
<1>4. CASE node.op = "isM"
  BY <1>4 DEF LeafCondition, Chosen, ToFeature, Value
<1>5. CASE node.op = "notY"
  BY <1>5 DEF LeafCondition, Chosen, ToFeature, Value
<1> QED
  BY <1>1, <1>2, <1>3, <1>4, <1>5 DEF Comparable

\* If every comparison holds in c as it does for the build in d, so does the
\* expression, of any size.
LEMMA ParseAsCompiled ==
  ASSUME NEW e \in Expression, NEW openFeatures, NEW c \in Config, NEW d,
         ~Uses(e, {"isStr", "notStr", "invalid"}),
         \A n \in 1 .. Len(e) : e[n].op \in Comparable =>
           (c \in LeafCondition(e[n], openFeatures) <=> Chosen(e[n], d))
  PROVE  LET pc == Parse(e, openFeatures)
         IN  /\ pc.is \in {"condition", "exception"}
             /\ pc.is = "condition" => (c \in pc.cond <=> Compiled(e, d))
<1> DEFINE R == Result(e, openFeatures)
           H == Holds(e, d)
           Good(n) == R[n].is \in {"condition", "exception"} /\ Agrees(e, openFeatures, c, d, n)
           T == {n \in Nat : n \in 1 .. Len(e) /\ ~Good(n)}
<1>n. Len(e) \in Nat \ {0} /\ Len(e) \in 1 .. Len(e)
  BY Earlier
<1>1. T = {}
  <2> SUFFICES ASSUME T # {} PROVE FALSE
    OBVIOUS
  <2>1. PICK n \in T : n \in Nat /\ \A j \in T : n <= j
    BY LeastElement
  <2>2. n \in 1 .. Len(e) /\ e[n] \in Node /\ e[n].op \in Op \ {"isStr", "notStr", "invalid"}
    <3>1. n \in 1 .. Len(e)
      BY <2>1
    <3>2. e[n] \in Node
      BY <3>1, Earlier
    <3> QED
      BY <3>1, <3>2 DEF Node, Uses
  <2>3. \A i \in 1 .. n - 1 : Good(i)
    <3> SUFFICES ASSUME NEW i \in 1 .. n - 1, ~Good(i) PROVE FALSE
      OBVIOUS
    <3>1. i \in Nat /\ i \in 1 .. Len(e) /\ i < n
      BY <1>n, <2>1, <2>2
    <3> QED
      BY <2>1, <3>1
  <2>4. R[n] = Meaning(e, openFeatures, R, n) /\ H[n] = Truth(e, d, H, n)
    BY <2>2, ResultFits, HoldsFits
  <2>5. CASE e[n].op \in {"not", "and", "or"}
    <3>1. Good(e[n].l) /\ Good(e[n].r)
      BY <2>2, <2>3, <2>5, Earlier
    <3> DEFINE p == R[e[n].l]
               q == R[e[n].r]
    <3>2. R[n] = Combine(e[n].op, p, q)
      BY <2>4, <2>5 DEF Meaning
    <3>3. R[n].is \in {"condition", "exception"}
      BY <2>5, <3>1, <3>2, ErrorsOf
    <3>4. /\ e[n].op = "not" => H[n] = (~H[e[n].l])
          /\ e[n].op = "and" => H[n] = (H[e[n].l] /\ H[e[n].r])
          /\ e[n].op = "or" => H[n] = (H[e[n].l] \/ H[e[n].r])
      BY <2>4, <2>5 DEF Truth, Chosen
    <3>5. /\ p.is = "condition" => (c \in p.cond <=> H[e[n].l])
          /\ q.is = "condition" => (c \in q.cond <=> H[e[n].r])
      BY <3>1 DEF Agrees
    <3> HIDE DEF p, q, R, H
    <3>6. R[n].is = "condition" => (c \in R[n].cond <=> H[n])
      <4> DEFINE r == Combine(e[n].op, p, q)
      <4>1. /\ r.is = "condition" => p.is = "condition" /\ (e[n].op # "not" => q.is = "condition")
            /\ r.is = "condition" /\ e[n].op = "not" => r.cond = Config \ p.cond
            /\ r.is = "condition" /\ e[n].op = "and" => r.cond = p.cond \intersect q.cond
            /\ r.is = "condition" /\ e[n].op = "or" => r.cond = p.cond \union q.cond
        BY <2>5, AndOrNot
      <4>2. R[n] = r
        BY <3>2
      <4> HIDE DEF r
      <4>3. CASE e[n].op = "not"
        BY <3>4, <3>5, <4>1, <4>2, <4>3
      <4>4. CASE e[n].op = "and"
        BY <3>4, <3>5, <4>1, <4>2, <4>4
      <4>5. CASE e[n].op = "or"
        BY <3>4, <3>5, <4>1, <4>2, <4>5
      <4> QED
        BY <2>5, <4>3, <4>4, <4>5
    <3>7. Good(n)
      BY <3>3, <3>6 DEF Agrees, R, H
    <3> QED
      BY <2>1, <3>7
  <2>6. CASE e[n].op \notin {"not", "and", "or"}
    <3>1. R[n] = ParseLeaf(e[n], openFeatures)
      BY <2>4, <2>6 DEF Meaning
    <3>2. CASE e[n].op = "notM"
      <4>1. R[n].is = "exception"
        BY <3>1, <3>2 DEF ParseLeaf, Thrown
      <4> QED
        BY <2>1, <4>1 DEF Agrees
    <3>3. CASE e[n].op # "notM"
      <4>1. e[n].op \in Comparable
        BY <2>2, <2>6, <3>3 DEF Op, Comparable
      <4>2. R[n].is = "condition" /\ R[n].cond = LeafCondition(e[n], openFeatures)
        BY <3>1, <4>1 DEF ParseLeaf, Parsed, Comparable
      <4>3. c \in LeafCondition(e[n], openFeatures) <=> Chosen(e[n], d)
        BY <2>2, <4>1
      <4>6. H[n] <=> c \in LeafCondition(e[n], openFeatures)
        BY <2>4, <2>6, <4>3 DEF Truth
      <4>7. Good(n)
        BY <4>2, <4>6 DEF Agrees
      <4> QED
        BY <2>1, <4>7
    <3> QED
      BY <3>2, <3>3
  <2> QED
    BY <2>5, <2>6
<1>2. Good(Len(e))
  BY <1>n, <1>1
<1>3. Parse(e, openFeatures) = [is |-> R[Len(e)].is, cond |-> R[Len(e)].cond \intersect Config]
  BY ParseIs
<1>4. Compiled(e, d) = H[Len(e)]
  BY CompiledIs
<1> HIDE DEF R, H
<1>5. Parse(e, openFeatures).is = R[Len(e)].is
      /\ Parse(e, openFeatures).cond = R[Len(e)].cond \intersect Config
  BY <1>3
<1> QED
  BY <1>2, <1>4, <1>5 DEF Agrees, R, H

\* What CleanFileList makes of an expression of any size is the set of configurations
\* whose open macros make the build compile the file.
THEOREM ParseMeansSeen ==
  ASSUME NEW e \in Expression, NEW openFeatures, NEW c \in Config, Tristate(c),
         ~Uses(e, {"isStr", "notStr", "invalid"})
  PROVE  LET pc == Parse(e, openFeatures)
         IN  /\ pc.is \in {"condition", "exception"}
             /\ pc.is = "condition" => (c \in pc.cond <=> Compiled(e, Seen(c, openFeatures)))
<1>1. ASSUME NEW n \in 1 .. Len(e), e[n].op \in Comparable
      PROVE  c \in LeafCondition(e[n], openFeatures) <=> Chosen(e[n], Seen(c, openFeatures))
  <2>1. e[n] \in Node
    BY Earlier
  <2>2. <<e[n].sym, "y">> \notin c \/ <<e[n].sym, "m">> \notin c
    BY <2>1 DEF Node, Tristate
  <2> QED
    BY <1>1, <2>1, <2>2, LeafSeen
<1> QED
  BY <1>1, ParseAsCompiled

\* It holds exactly where the build compiles the file in a configuration that gives
\* options one macro, has no macro of the expression that is not open, and codes no
\* module that the expression compares with two variables.
THEOREM ParseMeansCompiled ==
  ASSUME NEW e \in Expression, NEW openFeatures, NEW c \in Config, Tristate(c),
         ~Uses(e, {"isStr", "notStr", "invalid"}), ModulesApart(e, c),
         \A macro \in MacrosOf(e) : macro \in c => macro \in openFeatures
  PROVE  LET pc == Parse(e, openFeatures)
         IN  /\ pc.is \in {"condition", "exception"}
             /\ pc.is = "condition" => (c \in pc.cond <=> Compiled(e, c))
<1>1. ASSUME NEW n \in 1 .. Len(e), e[n].op \in Comparable
      PROVE  c \in LeafCondition(e[n], openFeatures) <=> Chosen(e[n], c)
  <2>1. e[n] \in Node
    BY Earlier
  <2>2. <<e[n].sym, "y">> \notin c \/ <<e[n].sym, "m">> \notin c
    BY <2>1 DEF Node, Tristate
  <2>3. /\ e[n].op \in {"id", "isY", "notY"} => <<e[n].sym, "y">> \in MacrosOf(e)
        /\ e[n].op \in {"id", "isM"} => <<e[n].sym, "m">> \in MacrosOf(e)
    BY DEF MacrosOf
  <2>4. e[n].op \in {"isY", "isM", "notY"} => ~SecondOn(e[n].sym, c)
    BY DEF ModulesApart
  <2> QED
    BY <1>1, <2>1, <2>2, <2>3, <2>4, LeafAgrees
<1> QED
  BY <1>1, ParseAsCompiled

\* ProcessPCFile.scala:171-177 says that X!="y" "should be probably translated" to
\* CONFIG_X && CONFIG_X_2 || !CONFIG_X.  Where a model codes a module with two variables
\* the code's !CONFIG_X takes it for built in: the build compiles the file of X!="y",
\* and not that of X=="y", and the conditions say the opposite.
THEOREM ModuleTakenForBuiltIn ==
  ASSUME NEW sym \in DOMAIN Second, NEW openFeatures, <<sym, "y">> \in openFeatures,
         NEW c \in Config, <<sym, "y">> \in c, Second[sym] \in c,
         NEW op \in {"isY", "notY"}
  PROVE  LET e == <<[op |-> op, sym |-> sym, l |-> 0, r |-> 0]>>
             pc == Parse(e, openFeatures)
         IN  pc.is = "condition" /\ (c \in pc.cond <=> ~Compiled(e, c))
<1> DEFINE node == [op |-> op, sym |-> sym, l |-> 0, r |-> 0]
           e == <<node>>
<1>1. e \in Expression /\ Len(e) = 1 /\ e[1] = node
  <2>1. sym \in Symbol
    BY FeatureAssumption
  <2>2. node \in Node
    BY <2>1 DEF Node, Op
  <2>3. Len(e) = 1 /\ e[1] = node /\ e # <<>>
    OBVIOUS
  <2>4. e \in Seq(Node)
    BY <2>2
  <2>5. \A n \in 1 .. Len(e) : e[n].op \notin {"not", "and", "or"}
    BY <2>3
  <2> QED
    BY <2>3, <2>4, <2>5 DEF Expression
<1>2. node.op = op /\ node.sym = sym
  OBVIOUS
<1> HIDE DEF node, e
<1>3. Result(e, openFeatures)[1] = Parsed(LeafCondition(node, openFeatures))
  <2>1. Result(e, openFeatures)[1] = ParseLeaf(node, openFeatures)
    BY <1>1, <1>2, ResultFits DEF Meaning
  <2> QED
    BY <1>2, <2>1 DEF ParseLeaf
<1>4. Parse(e, openFeatures) =
        [is |-> Parsed(LeafCondition(node, openFeatures)).is,
         cond |-> Parsed(LeafCondition(node, openFeatures)).cond \intersect Config]
  BY <1>1, <1>3, ParseIs
<1>5. /\ Parse(e, openFeatures).is = "condition"
      /\ c \in Parse(e, openFeatures).cond <=> c \in LeafCondition(node, openFeatures)
  BY <1>4 DEF Parsed
<1>6. c \in LeafCondition(node, openFeatures) <=> op = "isY"
  BY <1>2 DEF LeafCondition, ToFeature
<1>7. Value(sym, c) = "m"
  BY DEF Value, SecondOn
<1>8. Compiled(e, c) <=> op = "notY"
  <2>1. Holds(e, c)[1] = Truth(e, c, Holds(e, c), 1)
    BY <1>1, HoldsFits
  <2>2. Truth(e, c, Holds(e, c), 1) <=> op = "notY"
    BY <1>1, <1>2, <1>7 DEF Truth, Chosen
  <2>3. Compiled(e, c) = Holds(e, c)[1]
    BY <1>1, CompiledIs
  <2> QED
    BY <2>1, <2>2, <2>3
<1>9. Parse(e, openFeatures).is = "condition" /\ (c \in Parse(e, openFeatures).cond <=> ~Compiled(e, c))
  BY <1>5, <1>6, <1>8
<1> QED
  BY <1>9 DEF node, e
=============================================================================
