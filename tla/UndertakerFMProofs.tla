------------------------- MODULE UndertakerFMProofs -------------------------
(***************************************************************************)
(* Proofs about UndertakerFM: for every set of features, every model and   *)
(* every formula.  The argument is the same in the constructor and for the *)
(* slice: switching off all features outside a set that is closed under    *)
(* mentioning turns a configuration of the part into one of the whole.     *)
(***************************************************************************)
EXTENDS UndertakerFM, Naturals, FiniteSetTheorems, TLAPS

\* The always-on features and their conditions: what the first loop conjoins.
OnConj(S) == {x \in Config : \A f \in S : f \in x /\ x \in model.expr[f]}
\* The conditions of the features in S.
Conditions(S) == {x \in Config : \A f \in S : x \in Implied(f)}

\* What each phase of the parser has computed.
AlwaysOK ==
    pc = "always" => conj = OnConj(model.on \ todo) /\ conj # {}
ClosureOK ==
    pc = "closure" =>
        /\ todo = {} /\ model.on \subseteq known
        /\ conj = OnConj(model.on) \intersect Conditions(known)
        /\ conj # {}
        /\ DependsOnly(OnConj(model.on), known \union open)
        /\ \A f \in known \ model.on : model.deps[f] \subseteq known \union open
SliceOK(features) ==
    /\ result = Conditions(known)
    /\ features \subseteq known \union open
    /\ \A f \in known : model.deps[f] \subseteq known \union open
    /\ \A S \in SUBSET Feature : features \subseteq S /\ Closed(S) => known \union open \subseteq S
AlwaysExprOK ==
    \E R \in SUBSET Feature :
        /\ Closed(R) /\ model.on \subseteq R
        /\ alwaysExpr = AllOn \intersect Conditions(R)
AnswerOK ==
    \E R \in SUBSET Feature :
        /\ Closed(R) /\ model.on \subseteq R
        /\ result = AllOn \intersect Conditions(R) \intersect Conditions(known)
        /\ query.deps \subseteq known /\ Closed(known)
        /\ \A S \in SUBSET Feature : query.deps \subseteq S /\ Closed(S) => known \subseteq S

IInv ==
    /\ TypeOK
    /\ AlwaysOK /\ ClosureOK
    /\ pc = "assertFailed" => FullModel = {}
    /\ pc \in {"sliceAlways", "sliceQuery", "answered"} => FullModel # {}
    /\ pc = "sliceAlways" => SliceOK(model.on)
    /\ pc = "sliceQuery" => SliceOK(query.deps) /\ AlwaysExprOK
    /\ pc = "answered" => AnswerOK
    /\ pc # "lateAssertFailed"

\* The parts of a model and of a query.
LEMMA Parts ==
  ASSUME TypeOK
  PROVE  /\ model.on \subseteq Feature
         /\ \A f \in Feature : model.expr[f] \subseteq Config /\ model.deps[f] \subseteq Feature
         /\ \A f \in Feature : DependsOnly(model.expr[f], model.deps[f])
         /\ query.phi \subseteq Config /\ query.deps \subseteq Feature
         /\ DependsOnly(query.phi, query.deps)
<1>1. model \in [on : SUBSET Feature, expr : [Feature -> Formula],
                 deps : [Feature -> SUBSET Feature]]
  BY ModelAssumption DEF TypeOK
<1>2. query \in [phi : Formula, deps : SUBSET Feature]
  BY QueryAssumption DEF TypeOK
<1>3. QED
  BY <1>1, <1>2, DepsAssumption DEF TypeOK, Formula

\* Switching off what a closed set of features does not hold: a configuration
\* that meets the conditions of the set then meets all conditions.
LEMMA SwitchOff ==
  ASSUME TypeOK, NEW K \in SUBSET Feature, Closed(K), NEW x \in Conditions(K)
  PROVE  x \intersect K \in Conditions(Feature)
<1>1. x \in Config /\ x \intersect K \in Config
  BY DEF Conditions, Config
<1>2. ASSUME NEW f \in K, f \in x PROVE x \intersect K \in model.expr[f]
  <2>1. x \in model.expr[f]
    BY <1>2 DEF Conditions, Implied, d
  <2>2. x \intersect model.deps[f] = (x \intersect K) \intersect model.deps[f]
    BY DEF Closed
  <2>3. DependsOnly(model.expr[f], model.deps[f])
    BY Parts
  <2>4. QED
    BY <1>1, <2>1, <2>2, <2>3 DEF DependsOnly
<1>3. \A f \in Feature : x \intersect K \in Implied(f)
  BY <1>1, <1>2 DEF Implied, d
<1>4. QED
  BY <1>1, <1>3 DEF Conditions

\* The whole model, in the terms used here.
LEMMA FullModelIs ==
  ASSUME TypeOK
  PROVE  /\ FullModel = AllOn \intersect Conditions(Feature)
         /\ FullModel \subseteq OnConj(model.on)
         /\ \A S \in SUBSET Feature : FullModel \subseteq Conditions(S)
<1>1. FullModel = AllOn \intersect Conditions(Feature)
  BY DEF FullModel, AllOn, Conditions
<1>2. FullModel \subseteq OnConj(model.on)
  BY Parts DEF FullModel, AllOn, OnConj, Implied, d
<1>3. QED
  BY <1>1, <1>2 DEF Conditions

\* Visit keeps open and known apart, within the features.
LEMMA VisitTypes ==
  ASSUME TypeOK, NEW f \in Feature, Visit(f)
  PROVE  /\ known' \subseteq Feature /\ open' \subseteq Feature
         /\ known' \intersect open' = {}
         /\ known' \union open' = known \union open \union model.deps[f]
         /\ known' = known \union {f} /\ f \in open
BY Parts DEF Visit, TypeOK

\* A model whose conjunction is empty has no configuration.
LEMMA EmptyConj ==
  ASSUME TypeOK, NEW S \in SUBSET Feature, NEW D \in SUBSET model.on,
         OnConj(D) \intersect Conditions(S) = {}
  PROVE  FullModel = {}
<1>1. FullModel \subseteq OnConj(D)
  BY FullModelIs DEF OnConj
<1>2. QED
  BY <1>1, FullModelIs

\* A conjunction the closure has finished without failing has a
\* configuration of the whole model in it.
LEMMA ClosureDone ==
  ASSUME TypeOK, ClosureOK, pc = "closure", open = {}
  PROVE  FullModel # {}
<1>1. PICK x \in Config : x \in OnConj(model.on) /\ x \in Conditions(known)
  BY DEF ClosureOK, OnConj
<1> DEFINE y == x \intersect known
<1>2. y \in Config /\ known \in SUBSET Feature /\ model.on \subseteq known
  BY <1>1 DEF Config, TypeOK, ClosureOK
<1>3. y \in OnConj(model.on)
  <2>1. DependsOnly(OnConj(model.on), known)
    BY DEF ClosureOK
  <2>2. x \intersect known = y \intersect known
    OBVIOUS
  <2>3. QED
    BY <1>1, <1>2, <2>1, <2>2 DEF DependsOnly
<1>4. ASSUME NEW f \in Feature, f \in y PROVE y \in model.expr[f]
  <2>1. CASE f \in model.on
    BY <1>3, <2>1 DEF OnConj
  <2>2. CASE f \notin model.on
    <3>1. f \in known /\ x \in model.expr[f]
      BY <1>1, <1>4 DEF Conditions, Implied, d
    <3>2. model.deps[f] \subseteq known
      BY <2>2, <3>1 DEF ClosureOK
    <3>3. DependsOnly(model.expr[f], model.deps[f])
      BY Parts
    <3>4. x \intersect model.deps[f] = y \intersect model.deps[f]
      BY <3>2
    <3>5. QED
      BY <1>1, <1>2, <3>1, <3>3, <3>4 DEF DependsOnly
  <2>3. QED
    BY <2>1, <2>2
<1>5. model.on \subseteq y
  BY <1>3 DEF OnConj
<1>6. y \in FullModel
  BY <1>2, <1>4, <1>5 DEF FullModel, AllOn, Implied, d
<1>7. QED
  BY <1>6

\* A slice that starts has seen nothing.
LEMMA SliceStarts ==
  ASSUME NEW features, features \subseteq Feature, StartSlice(features),
         model' = model
  PROVE  /\ known' = {} /\ open' = features /\ result' = Config
         /\ result' = Conditions(known)'
         /\ \A S \in SUBSET Feature :
               features \subseteq S => (known \union open)' \subseteq S
BY DEF StartSlice, Conditions

\* The loop of the slice keeps what SliceOK says.
LEMMA SliceStep ==
  ASSUME TypeOK, NEW features, SliceOK(features), NEW f \in Feature, Visit(f),
         result' = result \intersect Implied(f), model' = model
  PROVE  /\ result' = Conditions(known)'
         /\ features \subseteq (known \union open)'
         /\ \A g \in known' : model.deps[g] \subseteq (known \union open)'
         /\ \A S \in SUBSET Feature :
               features \subseteq S /\ Closed(S) => (known \union open)' \subseteq S
<1>1. result' = Conditions(known)'
  BY VisitTypes DEF SliceOK, Conditions, Implied
<1>2. /\ features \subseteq (known \union open)'
      /\ \A g \in known' : model.deps[g] \subseteq (known \union open)'
  BY VisitTypes DEF SliceOK
<1>3. ASSUME NEW S \in SUBSET Feature, features \subseteq S, Closed(S)
      PROVE  (known \union open)' \subseteq S
  <2>1. known \union open \subseteq S
    BY <1>3 DEF SliceOK
  <2>2. f \in S /\ model.deps[f] \subseteq S
    BY <1>3, <2>1, VisitTypes DEF Closed
  <2>3. QED
    BY <2>1, <2>2, VisitTypes
<1>4. QED
  BY <1>1, <1>2, <1>3

-----------------------------------------------------------------------------
\* The first loop conjoins one always-on feature more.
LEMMA AddAlwaysStep == IInv /\ AddAlways => IInv'
<1> SUFFICES ASSUME IInv, AddAlways PROVE IInv'
  OBVIOUS
<1> USE DEF inputs, walk
<1>1. PICK f \in todo : todo' = todo \ {f} /\ conj' = conj \intersect d(f) \intersect model.expr[f]
  BY DEF AddAlways
<1>2. TypeOK /\ f \in Feature /\ f \in model.on /\ todo' \subseteq model.on /\ model' = model
  BY <1>1, Parts DEF IInv, TypeOK, AddAlways
<1>3. conj' = OnConj(model.on \ todo')
  <2>1. conj = OnConj(model.on \ todo) /\ model.on \ todo' = (model.on \ todo) \union {f}
    BY <1>1, <1>2 DEF IInv, AlwaysOK, AddAlways
  <2>2. QED
    BY <1>1, <2>1 DEF OnConj, d
<1>4. OnConj(model.on \ todo') = OnConj(model.on \ todo)'
  BY <1>2 DEF OnConj
<1>5. TypeOK'
  BY <1>1, <1>2, <1>3 DEF AddAlways, TypeOK, PC, OnConj, Formula, Config
<1>6. CASE conj' = {}
  <2>1. OnConj(model.on \ todo') \intersect Conditions({}) = {}
    BY <1>3, <1>6
  <2>2. FullModel = {}
    BY <1>2, <2>1, EmptyConj
  <2>3. FullModel' = FullModel
    BY <1>2 DEF FullModel, AllOn, Implied
  <2>4. pc' = "assertFailed"
    BY <1>6 DEF AddAlways
  <2>5. QED
    BY <1>5, <2>2, <2>3, <2>4 DEF IInv, AlwaysOK, ClosureOK
<1>7. CASE conj' # {}
  <2>1. pc' = "always"
    BY <1>7 DEF AddAlways
  <2>2. QED
    BY <1>3, <1>4, <1>5, <1>7, <2>1 DEF IInv, AlwaysOK, ClosureOK
<1>8. QED
  BY <1>6, <1>7

\* The closure starts from the features the conjunction depends on.
LEMMA EndAlwaysStep == IInv /\ EndAlways => IInv'
<1> SUFFICES ASSUME IInv, EndAlways PROVE IInv'
  OBVIOUS
<1> USE DEF inputs, walk
<1>1. PICK S \in SUBSET ((UNION {model.deps[f] : f \in model.on}) \union model.on) :
        DependsOnly(conj, S) /\ open' = S \ model.on
  BY DEF EndAlways
<1>2. /\ TypeOK /\ S \subseteq Feature /\ todo = {} /\ known' = model.on
      /\ model.on # {} /\ pc' = "closure" /\ UNCHANGED <<model, query, todo, conj, result, alwaysExpr>>
  <2>1. TypeOK
    BY DEF IInv
  <2>2. \A f \in model.on : model.deps[f] \subseteq Feature
    BY <2>1, Parts
  <2>3. UNION {model.deps[f] : f \in model.on} \subseteq Feature
    BY <2>2
  <2>4. S \subseteq Feature
    BY <1>1, <2>1, <2>3, Parts
  <2>5. /\ todo = {} /\ known' = model.on /\ model.on # {} /\ pc' = "closure"
        /\ UNCHANGED <<inputs, todo, conj, result, alwaysExpr>>
    BY Zenon DEF EndAlways
  <2>6. QED
    BY <2>1, <2>4, <2>5
<1>3. TypeOK'
  BY <1>1, <1>2, Parts DEF TypeOK, PC
<1>4. conj = OnConj(model.on)
  BY <1>2 DEF IInv, AlwaysOK, EndAlways
<1>5. conj' = OnConj(model.on)' /\ OnConj(model.on)' = OnConj(model.on)
      /\ OnConj(model.on) \subseteq Conditions(model.on)
      /\ Conditions(known)' = Conditions(model.on)
  <2>1. conj' = OnConj(model.on)' /\ OnConj(model.on)' = OnConj(model.on)
    BY <1>2, <1>4 DEF OnConj
  <2>2. OnConj(model.on) \subseteq Conditions(model.on)
    BY DEF OnConj, Conditions, Implied
  <2>3. Conditions(known)' = Conditions(model.on)
    BY <1>2 DEF Conditions, Implied
  <2>4. QED
    BY <2>1, <2>2, <2>3
<1>6. DependsOnly(OnConj(model.on)', (known \union open)')
  <2>1. S \subseteq (known \union open)'
    BY <1>1, <1>2
  <2>2. \A x, y \in Config : x \intersect (known \union open)' = y \intersect (known \union open)'
                              => x \intersect S = y \intersect S
    BY <2>1
  <2>3. QED
    BY <1>1, <1>4, <1>5, <2>2 DEF DependsOnly
<1>7. conj # {}
  BY DEF IInv, AlwaysOK, EndAlways
<1>8. ClosureOK'
  BY <1>2, <1>5, <1>6, <1>7 DEF ClosureOK
<1>9. QED
  BY <1>2, <1>3, <1>8 DEF IInv, AlwaysOK

\* The closure conjoins one condition more, and fails only on a model that
\* has no configuration.
LEMMA CloseStep == IInv /\ Close => IInv'
<1> SUFFICES ASSUME IInv, Close PROVE IInv'
  OBVIOUS
<1> USE DEF inputs, walk
<1>1. PICK f \in Feature : Visit(f) /\ conj' = conj \intersect Implied(f)
  BY DEF Close
<1>2. /\ TypeOK /\ ClosureOK /\ pc = "closure"
      /\ UNCHANGED <<model, query, todo, result, alwaysExpr>>
      /\ pc' = IF conj' = {} THEN "assertFailed" ELSE "closure"
  BY DEF IInv, Close
<1>3. /\ known' \subseteq Feature /\ open' \subseteq Feature
      /\ known' \intersect open' = {}
      /\ known' \union open' = known \union open \union model.deps[f]
      /\ known' = known \union {f} /\ f \in open
  BY <1>1, <1>2, VisitTypes
<1>4. conj' = OnConj(model.on) \intersect Conditions(known')
  <2>1. Conditions(known') = Conditions(known) \intersect Implied(f)
    BY <1>3 DEF Conditions
  <2>2. conj = OnConj(model.on) \intersect Conditions(known)
    BY <1>2 DEF ClosureOK
  <2>3. QED
    BY <1>1, <2>1, <2>2
<1>5. OnConj(model.on)' = OnConj(model.on) /\ Conditions(known)' = Conditions(known')
  BY <1>2 DEF OnConj, Conditions, Implied
<1>6. TypeOK'
  <2>1. conj' \in Formula
    BY <1>4 DEF OnConj, Formula
  <2>2. QED
    BY <1>2, <1>3, <2>1 DEF TypeOK, PC
<1>7. CASE conj' = {}
  <2>1. FullModel = {}
    BY <1>2, <1>3, <1>4, <1>7, EmptyConj, Parts
  <2>2. FullModel' = FullModel
    BY <1>2 DEF FullModel, AllOn, Implied
  <2>3. QED
    BY <1>2, <1>6, <1>7, <2>1, <2>2 DEF IInv, AlwaysOK, ClosureOK
<1>8. CASE conj' # {}
  <2>1. DependsOnly(OnConj(model.on), known' \union open')
    <3>1. DependsOnly(OnConj(model.on), known \union open)
      BY <1>2 DEF ClosureOK
    <3>2. \A x, y \in Config : x \intersect (known' \union open') = y \intersect (known' \union open')
                     => x \intersect (known \union open) = y \intersect (known \union open)
      BY <1>3
    <3>3. QED
      BY <3>1, <3>2 DEF DependsOnly
  <2>2. /\ model.on \subseteq known'
        /\ \A g \in known' \ model.on : model.deps[g] \subseteq known' \union open'
    BY <1>2, <1>3 DEF ClosureOK
  <2>3. ClosureOK'
    BY <1>2, <1>4, <1>5, <1>8, <2>1, <2>2 DEF ClosureOK
  <2>4. QED
    BY <1>2, <1>6, <1>8, <2>3 DEF IInv, AlwaysOK
<1>9. QED
  BY <1>7, <1>8

\* The constructor's slice starts from a model that has a configuration.
LEMMA EndClosureStep == IInv /\ EndClosure => IInv'
<1> SUFFICES ASSUME IInv, EndClosure PROVE IInv'
  OBVIOUS
<1> USE DEF inputs, walk
<1>1. /\ TypeOK /\ ClosureOK /\ pc = "closure" /\ open = {} /\ StartSlice(model.on)
      /\ pc' = "sliceAlways" /\ UNCHANGED <<model, query, todo, conj, alwaysExpr>>
      /\ model.on \subseteq Feature
  BY Parts DEF IInv, EndClosure
<1>2. FullModel # {} /\ FullModel' = FullModel
  BY <1>1, ClosureDone DEF FullModel, AllOn, Implied
<1>3. SliceOK(model.on)'
  BY <1>1, SliceStarts DEF SliceOK
<1>4. TypeOK'
  BY <1>1 DEF TypeOK, PC, StartSlice, Formula
<1>5. QED
  BY <1>1, <1>2, <1>3, <1>4 DEF IInv, AlwaysOK, ClosureOK

\* One more feature of a slice.
LEMMA SliceLoopStep == IInv /\ Slice => IInv'
<1> SUFFICES ASSUME IInv, Slice PROVE IInv'
  OBVIOUS
<1> USE DEF inputs, walk
<1>1. PICK f \in Feature : Visit(f) /\ result' = result \intersect Implied(f)
  BY DEF Slice
<1>2. /\ TypeOK /\ pc \in {"sliceAlways", "sliceQuery"}
      /\ UNCHANGED <<pc, model, query, todo, conj, alwaysExpr>>
  BY DEF IInv, Slice
<1>3. TypeOK'
  BY <1>1, <1>2, VisitTypes DEF TypeOK, Formula
<1>4. FullModel' = FullModel
  BY <1>2 DEF FullModel, AllOn, Implied
<1>5. ASSUME NEW features, SliceOK(features)
      PROVE  SliceOK(features)'
  <2>1. \A S : Closed(S)' = Closed(S)
    BY <1>2 DEF Closed
  <2>2. QED
    BY <1>1, <1>2, <1>5, <2>1, SliceStep DEF SliceOK
<1>6. CASE pc = "sliceAlways"
  BY <1>2, <1>3, <1>4, <1>5, <1>6 DEF IInv, AlwaysOK, ClosureOK
<1>7. CASE pc = "sliceQuery"
  <2>1. AlwaysExprOK'
    BY <1>2, <1>7 DEF IInv, AlwaysExprOK, Closed, AllOn, Conditions, Implied
  <2>2. SliceOK(query.deps)'
    BY <1>2, <1>5, <1>7 DEF IInv
  <2>3. QED
    BY <1>2, <1>3, <1>4, <1>7, <2>1, <2>2 DEF IInv, AlwaysOK, ClosureOK
<1>8. QED
  BY <1>2, <1>6, <1>7

\* The assertion on alwaysExpr holds: every configuration of the model is in it.
LEMMA EndSliceAlwaysStep == IInv /\ EndSliceAlways => IInv'
<1> SUFFICES ASSUME IInv, EndSliceAlways PROVE IInv'
  OBVIOUS
<1> USE DEF inputs, walk
<1>1. /\ TypeOK /\ pc = "sliceAlways" /\ open = {} /\ SliceOK(model.on) /\ FullModel # {}
      /\ alwaysExpr' = AllOn \intersect result
      /\ UNCHANGED <<model, query, todo, conj>>
      /\ query.deps \subseteq Feature /\ known \subseteq Feature
  BY Parts DEF IInv, EndSliceAlways, TypeOK
<1>2. alwaysExpr' = AllOn \intersect Conditions(known)
  BY <1>1 DEF SliceOK
<1>3. alwaysExpr' # {}
  BY <1>1, <1>2, FullModelIs DEF Conditions
<1>4. pc' = "sliceQuery" /\ StartSlice(query.deps)
  BY <1>3 DEF EndSliceAlways
<1>5. SliceOK(query.deps)'
  BY <1>1, <1>4, SliceStarts DEF SliceOK
<1>6. AlwaysExprOK'
  <2>1. Closed(known) /\ model.on \subseteq known /\ known \in SUBSET Feature
    BY <1>1 DEF SliceOK, Closed
  <2>2. \A R \in SUBSET Feature : /\ Closed(R)' = Closed(R)
                                  /\ (AllOn \intersect Conditions(R))' = AllOn \intersect Conditions(R)
    BY <1>1 DEF Closed, AllOn, Conditions, Implied
  <2>3. QED
    BY <1>1, <1>2, <2>1, <2>2 DEF AlwaysExprOK
<1>7. TypeOK'
  BY <1>1, <1>2, <1>4 DEF TypeOK, PC, StartSlice, Formula, AllOn
<1>8. FullModel' = FullModel
  BY <1>1 DEF FullModel, AllOn, Implied
<1>9. QED
  BY <1>1, <1>4, <1>5, <1>6, <1>7, <1>8 DEF IInv, AlwaysOK, ClosureOK

\* The assertion on the slice holds for the same reason.
LEMMA EndSliceQueryStep == IInv /\ EndSliceQuery => IInv'
<1> SUFFICES ASSUME IInv, EndSliceQuery PROVE IInv'
  OBVIOUS
<1> USE DEF inputs, walk
<1>1. /\ TypeOK /\ pc = "sliceQuery" /\ open = {} /\ SliceOK(query.deps) /\ FullModel # {}
      /\ AlwaysExprOK /\ known \subseteq Feature
      /\ result' = alwaysExpr \intersect result
      /\ UNCHANGED <<model, query, todo, conj, known, open, alwaysExpr>>
  BY DEF IInv, EndSliceQuery, TypeOK
<1>2. PICK R \in SUBSET Feature : /\ Closed(R) /\ model.on \subseteq R
                                 /\ alwaysExpr = AllOn \intersect Conditions(R)
  BY <1>1 DEF AlwaysExprOK
<1>3. result' = AllOn \intersect Conditions(R) \intersect Conditions(known)
  BY <1>1, <1>2 DEF SliceOK
<1>4. result' # {}
  BY <1>1, <1>3, FullModelIs
<1>5. pc' = "answered"
  BY <1>4 DEF EndSliceQuery
<1>6. AnswerOK'
  <2>1. \A S \in SUBSET Feature : /\ Closed(S)' = Closed(S)
                                  /\ Conditions(S)' = Conditions(S) /\ AllOn' = AllOn
    BY <1>1 DEF Closed, AllOn, Conditions, Implied
  <2>2. Conditions(known)' = Conditions(known) /\ Closed(known)' = Closed(known)
    BY <1>1 DEF Closed, Conditions, Implied
  <2>3. /\ query.deps \subseteq known /\ Closed(known)
        /\ \A S \in SUBSET Feature : query.deps \subseteq S /\ Closed(S) => known \subseteq S
    BY <1>1 DEF SliceOK, Closed
  <2>4. QED
    BY <1>1, <1>2, <1>3, <2>1, <2>2, <2>3 DEF AnswerOK
<1>7. TypeOK'
  BY <1>1, <1>3, <1>5 DEF TypeOK, PC, Formula, AllOn
<1>8. FullModel' = FullModel
  BY <1>1 DEF FullModel, AllOn, Implied
<1>9. QED
  BY <1>1, <1>5, <1>6, <1>7, <1>8 DEF IInv, AlwaysOK, ClosureOK

\* IInv is inductive.
LEMMA Inductive == Spec => []IInv
<1>1. Init => IInv
  <2> SUFFICES ASSUME Init PROVE IInv
    OBVIOUS
  <2>1. TypeOK
    BY DEF Init, TypeOK, PC, Formula
  <2>2. conj = OnConj({}) /\ conj # {} /\ model.on \ todo = {}
    BY DEF Init, OnConj, Config
  <2>3. QED
    BY <2>1, <2>2 DEF Init, IInv, AlwaysOK, ClosureOK
<1>2. IInv /\ [Next]_vars => IInv'
  <2>1. IInv /\ NoAlways => IInv'
    BY DEF IInv, NoAlways, TypeOK, PC, AlwaysOK, ClosureOK, inputs, walk
  <2>2. ASSUME IInv, UNCHANGED vars PROVE IInv'
    <3> USE <2>2 DEF vars, inputs, walk
    <3>1. TypeOK' /\ FullModel' = FullModel
      BY DEF IInv, TypeOK, FullModel, AllOn, Implied
    <3>2. AlwaysOK' = AlwaysOK /\ ClosureOK' = ClosureOK
      BY DEF AlwaysOK, ClosureOK, OnConj, Conditions, Implied
    <3>3. /\ SliceOK(model.on)' = SliceOK(model.on)
          /\ SliceOK(query.deps)' = SliceOK(query.deps)
      BY DEF SliceOK, Conditions, Implied, Closed
    <3>4. AlwaysExprOK' = AlwaysExprOK /\ AnswerOK' = AnswerOK
      BY DEF AlwaysExprOK, AnswerOK, AllOn, Conditions, Implied, Closed
    <3>5. QED
      BY <3>1, <3>2, <3>3, <3>4 DEF IInv
  <2>3. QED
    BY <2>1, <2>2, AddAlwaysStep, EndAlwaysStep, CloseStep, EndClosureStep,
       SliceLoopStep, EndSliceAlwaysStep, EndSliceQueryStep DEF Next
<1>3. QED
  BY <1>1, <1>2, PTL DEF Spec

\* The variables hold what their comments say, for every model and formula.
THEOREM TypeCorrect == Spec => []TypeOK
<1>1. IInv => TypeOK
  BY DEF IInv
<1>2. QED
  BY <1>1, Inductive, PTL

\* No consistent model is refused, no inconsistent one is sliced, and the
\* assertions on the slices never fail.
THEOREM AssertExactHolds == Spec => []AssertExact
<1>1. IInv => AssertExact
  BY DEF IInv, AssertExact
<1>2. QED
  BY <1>1, Inductive, PTL

\* The slice conjoins the conditions of the least closed set.
THEOREM SliceIsLeastClosureHolds == Spec => []SliceIsLeastClosure
<1>1. IInv => SliceIsLeastClosure
  BY DEF IInv, AnswerOK, SliceIsLeastClosure
<1>2. QED
  BY <1>1, Inductive, PTL

\* A contradiction under the slice is one under the whole model, and vice
\* versa.
LEMMA SliceExactFollows == IInv => SliceExact
<1> SUFFICES ASSUME IInv, pc = "answered"
             PROVE  (Verdict = "contradiction") <=> (FullModel \intersect query.phi = {})
  BY DEF SliceExact
<1>1. TypeOK /\ AnswerOK
  BY DEF IInv
<1>2. PICK R \in SUBSET Feature :
        /\ Closed(R) /\ model.on \subseteq R
        /\ result = AllOn \intersect Conditions(R) \intersect Conditions(known)
  BY <1>1 DEF AnswerOK
<1>3. FullModel \subseteq result
  BY <1>1, <1>2, FullModelIs DEF TypeOK
<1>4. ASSUME NEW x \in result, x \in query.phi
      PROVE  FullModel \intersect query.phi # {}
  <2> DEFINE K == R \union known
             y == x \intersect K
  <2>1. K \in SUBSET Feature /\ Closed(K) /\ query.deps \subseteq K
    BY <1>1, <1>2 DEF AnswerOK, Closed, TypeOK
  <2>2. x \in Conditions(K) /\ x \in Config /\ model.on \subseteq x
    BY <1>2, <1>4 DEF Conditions, AllOn
  <2>3. y \in Conditions(Feature)
    BY <1>1, <2>1, <2>2, SwitchOff
  <2>4. y \in AllOn
    BY <1>2, <2>2 DEF AllOn, Config
  <2>5. y \in query.phi
    <3>1. y \in Config /\ x \intersect query.deps = y \intersect query.deps
      BY <2>1, <2>2 DEF Config
    <3>2. DependsOnly(query.phi, query.deps)
      BY <1>1, Parts
    <3>3. QED
      BY <1>4, <2>2, <3>1, <3>2 DEF DependsOnly
  <2>6. QED
    BY <1>1, <2>3, <2>4, <2>5, FullModelIs
<1>5. (result \intersect query.phi = {}) <=> (FullModel \intersect query.phi = {})
  BY <1>3, <1>4
<1>6. QED
  BY <1>5 DEF Verdict, Status

\* A contradiction under the slice is one under the whole model, and vice
\* versa: CheckFeatureExpr's answer does not depend on what it left out.
THEOREM SliceExactHolds == Spec => []SliceExact
BY Inductive, SliceExactFollows, PTL

-----------------------------------------------------------------------------
\* Only a model without always-on features ends in the exception.
OnOK == pc # "always" => (pc = "exception" <=> model.on = {})

LEMMA OnHolds == Spec => []OnOK
<1>1. Init => OnOK
  BY DEF Init, OnOK
<1>2. IInv /\ OnOK /\ [Next]_vars => OnOK'
  BY DEF IInv, TypeOK, OnOK, Next, AddAlways, EndAlways, NoAlways, Close, EndClosure, Slice,
         EndSliceAlways, EndSliceQuery, StartSlice, vars, inputs, walk
<1>3. QED
  BY <1>1, <1>2, Inductive, PTL DEF Spec

\* Every step of the parser is the verdict or leaves it open.
LEMMA VerdictStep ==
  ASSUME IInv, OnOK, OnOK', SliceExact', [Next]_vars, FullModel' = FullModel,
         pc' = "assertFailed" => FullModel = {}, pc' = "answered" => FullModel # {}
  PROVE  [Promise!Judge]_(Promise!vars)
<1> USE DEF Promise!Judge, Promise!vars
<1>1. Promise!Valid = FullModel
  <2>1. \A x \in Config : Promise!Satisfies(x) <=> x \in AllOn /\ \A f \in Feature : x \in Implied(f)
    BY DEF Promise!Satisfies, AllOn, Implied, d, Config
  <2>2. QED
    BY <2>1 DEF Promise!Valid, FullModel, AllOn, Config
<1>2. UNCHANGED <<model, query>>
  BY DEF Next, AddAlways, EndAlways, NoAlways, Close, EndClosure, Slice,
         EndSliceAlways, EndSliceQuery, vars, inputs
<1>3. CASE pc' \notin {"answered", "assertFailed", "exception"} \/ UNCHANGED vars
  <2>1. verdictBar' = verdictBar
    <3>1. CASE UNCHANGED vars
      BY <3>1 DEF verdictBar, Verdict, Status, vars, inputs, walk
    <3>2. CASE pc' \notin {"answered", "assertFailed", "exception"} /\ Next
      BY <3>2 DEF verdictBar, Next, AddAlways, EndAlways, NoAlways, Close, EndClosure,
                  Slice, EndSliceAlways, EndSliceQuery, StartSlice
    <3>3. QED
      BY <1>3, <3>1, <3>2
  <2>2. QED
    BY <1>2, <2>1
<1>4. CASE pc' \in {"answered", "assertFailed", "exception"} /\ Next
  <2>1. pc \notin {"answered", "assertFailed", "exception"}
    BY <1>4 DEF Next, AddAlways, EndAlways, NoAlways, Close, EndClosure, Slice,
                EndSliceAlways, EndSliceQuery
  <2>2. verdictBar = "none"
    BY <2>1 DEF verdictBar
  <2>3. CASE pc' = "exception"
    BY <1>1, <1>2, <2>2, <2>3 DEF verdictBar, OnOK
  <2>4. CASE pc' = "assertFailed"
    BY <1>1, <1>2, <2>2, <2>4 DEF verdictBar, OnOK
  <2>5. CASE pc' = "answered"
    <3>1. model.on # {} /\ FullModel # {}
      BY <1>2, <2>5 DEF OnOK
    <3>2. verdictBar' = IF FullModel \intersect query.phi = {} THEN "contradiction"
                                                              ELSE "satisfiable"
      BY <1>2, <2>5 DEF verdictBar, SliceExact
    <3>3. QED
      BY <1>1, <1>2, <2>2, <3>1, <3>2
  <2>6. QED
    BY <1>4, <2>3, <2>4, <2>5
<1>5. QED
  BY <1>3, <1>4

\* UndertakerFMParser implements ModelPromise, but for liveness: whatever the
\* order in which it walks the features, the verdict is that of the whole
\* model, given once.
THEOREM Refinement == Spec => Promise!Init /\ [][Promise!Judge]_(Promise!vars)
<1>1. Init => Promise!Init
  BY DEF Init, Promise!Init, verdictBar
<1>2. IInv /\ IInv' /\ OnOK /\ OnOK' /\ [Next]_vars => [Promise!Judge]_(Promise!vars)
  <2> SUFFICES ASSUME IInv, IInv', OnOK, OnOK', [Next]_vars
               PROVE  [Promise!Judge]_(Promise!vars)
    OBVIOUS
  <2>1. UNCHANGED <<model, query>>
    BY DEF Next, AddAlways, EndAlways, NoAlways, Close, EndClosure, Slice,
           EndSliceAlways, EndSliceQuery, vars, inputs
  <2>2. FullModel' = FullModel
    BY <2>1 DEF FullModel, AllOn, Implied
  <2>3. /\ pc' = "assertFailed" => FullModel = {}
        /\ pc' = "answered" => FullModel # {}
    BY <2>2 DEF IInv
  <2>4. SliceExact'
    BY SliceExactFollows, PTL
  <2>5. QED
    BY <2>2, <2>3, <2>4, VerdictStep
<1>3. QED
  BY <1>1, <1>2, Inductive, OnHolds, PTL DEF Spec

-----------------------------------------------------------------------------
\* Loops left, and rounds left in the one that runs.
Loops ==
  CASE pc = "always" -> 4 [] pc = "closure" -> 3
    [] pc = "sliceAlways" -> 2 [] pc = "sliceQuery" -> 1
    [] OTHER -> 0
Rounds == IF pc = "always" THEN Cardinality(todo) ELSE Cardinality(Feature \ known)

\* Visiting a feature that is open adds it to the known ones.
LEMMA VisitLess ==
  ASSUME IsFiniteSet(Feature), TypeOK, NEW f \in Feature, Visit(f)
  PROVE  Cardinality(Feature \ known') < Cardinality(Feature \ known)
<1>1. f \in Feature \ known /\ known' = known \union {f}
  BY DEF Visit, TypeOK
<1>2. Feature \ known' = (Feature \ known) \ {f}
  BY <1>1
<1>3. IsFiniteSet(Feature \ known)
  BY FS_Difference
<1>4. Cardinality((Feature \ known) \ {f}) = Cardinality(Feature \ known) - 1
      /\ Cardinality(Feature \ known) \in Nat
  BY <1>1, <1>3, FS_RemoveElement, FS_CardinalityType
<1> QED
  BY <1>2, <1>4

\* The features that mention each other do not keep the loops going: each
\* round of a loop leaves less rounds, and no loop is run again.  With the
\* fairness of FairSpec this is Ends.
THEOREM RoundsDecrease ==
  ASSUME IsFiniteSet(Feature)
  PROVE  Spec => /\ [](Loops \in Nat /\ Rounds \in Nat)
                 /\ [][\/ Loops' < Loops
                       \/ Loops' = Loops /\ Rounds' < Rounds]_vars
<1> USE DEF Loops, inputs, walk
<1>1. TypeOK => Loops \in Nat /\ Rounds \in Nat
  <2> SUFFICES ASSUME TypeOK PROVE Loops \in Nat /\ Rounds \in Nat
    OBVIOUS
  <2>1. todo \subseteq Feature
    BY Parts DEF TypeOK
  <2>2. IsFiniteSet(todo) /\ IsFiniteSet(Feature \ known)
    BY <2>1, FS_Subset, FS_Difference
  <2> QED
    BY <2>2, FS_CardinalityType DEF Rounds
<1>2. TypeOK /\ [Next]_vars => [\/ Loops' < Loops
                                \/ Loops' = Loops /\ Rounds' < Rounds]_vars
  <2> SUFFICES ASSUME TypeOK, Next
               PROVE  Loops' < Loops \/ (Loops' = Loops /\ Rounds' < Rounds)
    OBVIOUS
  <2>1. CASE AddAlways
    <3>1. PICK f \in todo : todo' = todo \ {f}
      BY <2>1 DEF AddAlways
    <3>2. IsFiniteSet(todo)
      BY Parts, FS_Subset DEF TypeOK
    <3>5. Cardinality(todo \ {f}) = Cardinality(todo) - 1
      BY <3>1, <3>2, FS_RemoveElement
    <3>3. Cardinality(todo') < Cardinality(todo)
      BY <3>1, <3>2, <3>5, FS_CardinalityType
    <3>4. pc = "always" /\ pc' \in {"always", "assertFailed"}
      BY <2>1 DEF AddAlways
    <3> QED
      BY <3>3, <3>4 DEF Rounds
  <2>2. CASE Close
    <3>1. PICK f \in Feature : Visit(f)
      BY <2>2 DEF Close
    <3>2. pc = "closure" /\ pc' \in {"closure", "assertFailed"}
      BY <2>2 DEF Close
    <3> QED
      BY <3>1, <3>2, VisitLess DEF Rounds
  <2>3. CASE Slice
    <3>1. PICK f \in Feature : Visit(f)
      BY <2>3 DEF Slice
    <3>2. pc \in {"sliceAlways", "sliceQuery"} /\ pc' = pc
      BY <2>3 DEF Slice
    <3>3. Cardinality(Feature \ known') < Cardinality(Feature \ known)
      BY <3>1, VisitLess
    <3> QED
      BY <3>2, <3>3 DEF Rounds
  <2>4. CASE EndAlways \/ NoAlways \/ EndClosure \/ EndSliceAlways \/ EndSliceQuery
    BY <2>4 DEF EndAlways, NoAlways, EndClosure, EndSliceAlways, EndSliceQuery
  <2> QED
    BY <2>1, <2>2, <2>3, <2>4 DEF Next
<1> QED
  BY TypeCorrect, <1>1, <1>2, PTL DEF Spec
=============================================================================
