---------------------------- MODULE UndertakerFM ----------------------------
(***************************************************************************)
(* UndertakerFMParser of CheckFeatureExpr.scala, used by CheckFeatureExpr  *)
(* to judge one formula under one undertaker model.  The model gives, per  *)
(* feature, a presence condition (feature implies condition) and a set of  *)
(* features that are always on.  The constructor checks that the model is  *)
(* consistent as far as the always-on features reach; sliceModel builds    *)
(* the part of the model a formula can depend on.  Both walk the features  *)
(* with an open and a known set, in the order the set iterates.            *)
(*                                                                         *)
(* A formula is the set of configurations that satisfy it, together with   *)
(* the features collectDistinctFeatures finds in it.                       *)
(***************************************************************************)
EXTENDS FiniteSets

CONSTANTS
    Feature,  \* the CONFIG_ names of the model and of the formula
    Model,    \* parsed model files
    Query     \* formulas to judge

Config == SUBSET Feature
Formula == SUBSET Config

\* Switching features outside vars on or off does not change phi.
DependsOnly(phi, vars) ==
    \A c, d \in Config : c \intersect vars = d \intersect vars => (c \in phi <=> d \in phi)

ASSUME ModelAssumption ==
    Model \subseteq [on : SUBSET Feature, expr : [Feature -> Formula],
                     deps : [Feature -> SUBSET Feature]]
ASSUME QueryAssumption == Query \subseteq [phi : Formula, deps : SUBSET Feature]
\* FeatureExpr.collectDistinctFeatures leaves out no feature that matters.
ASSUME DepsAssumption ==
    /\ \A m \in Model, f \in Feature : DependsOnly(m.expr[f], m.deps[f])
    /\ \A q \in Query : DependsOnly(q.phi, q.deps)

VARIABLES
    pc,
    model, query,  \* what is read: never changed
    todo,          \* always-on features the first loop has not seen
    conj,          \* clauses.reduce(_ and _)
    known, open,   \* knownFeatures and openFeatures of the loop that runs
    result,        \* result of the slice that runs, at the end the answer
    alwaysExpr

inputs == <<model, query>>
walk == <<known, open>>
vars == <<pc, inputs, todo, conj, walk, result, alwaysExpr>>

PC == {"always", "closure", "sliceAlways", "sliceQuery", "answered",
       "assertFailed", "lateAssertFailed", "exception"}

d(f) == {c \in Config : f \in c}                       \* createDefinedExternal
Implied(f) == (Config \ d(f)) \union model.expr[f]     \* d(f) implies lookup(f)
AllOn == {c \in Config : model.on \subseteq c}

Init ==
    /\ pc = "always"
    /\ model \in Model /\ query \in Query
    /\ todo = model.on
    /\ conj = Config /\ result = Config /\ alwaysExpr = Config
    /\ known = {} /\ open = {}

-----------------------------------------------------------------------------
\* for (f <- alwaysOn): both clauses, then the assertion
AddAlways ==
    /\ pc = "always"
    /\ \E f \in todo :
        /\ todo' = todo \ {f}
        /\ conj' = conj \intersect d(f) \intersect model.expr[f]
    /\ pc' = IF conj' = {} THEN "assertFailed" ELSE pc
    /\ UNCHANGED <<inputs, walk, result, alwaysExpr>>

\* Mutant: openFeatures keeps the always-on features.
EndAlways_KeepKnown ==
    /\ pc = "always" /\ todo = {} /\ model.on # {}
    /\ known' = model.on
    /\ open' = (UNION {model.deps[f] : f \in model.on}) \union model.on
    /\ pc' = "closure"
    /\ UNCHANGED <<inputs, todo, conj, result, alwaysExpr>>

\* The features the closure starts from: those of the conjunction, which may
\* have lost some of its parts' features to simplification, but none it
\* depends on.  reduce of no clauses at all throws.
EndAlways ==
    /\ pc = "always" /\ todo = {} /\ model.on # {}
    /\ known' = model.on
    /\ \E S \in SUBSET ((UNION {model.deps[f] : f \in model.on}) \union model.on) :
        /\ DependsOnly(conj, S)
        /\ open' = S \ model.on
    /\ pc' = "closure"
    /\ UNCHANGED <<inputs, todo, conj, result, alwaysExpr>>

NoAlways ==
    /\ pc = "always" /\ model.on = {}
    /\ pc' = "exception"
    /\ UNCHANGED <<inputs, todo, conj, walk, result, alwaysExpr>>

\* Mutant: a feature that was seen is opened again.
Visit_Again(f) ==
    /\ f \in open
    /\ known' = known \union {f}
    /\ open' = (open \ {f}) \union model.deps[f]

\* Mutant: the features found are not opened.
Visit_Shallow(f) ==
    /\ f \in open
    /\ known' = known \union {f}
    /\ open' = open \ {f}

\* The common part of both loops: openFeatures.head is known, what its
\* condition mentions and is not known is opened.
Visit(f) ==
    /\ f \in open
    /\ known' = known \union {f}
    /\ open' = (open \ {f}) \union (model.deps[f] \ (known \union {f}))

\* Mutant: the closure goes on without its assertion.
Close_NoAssert ==
    /\ pc = "closure"
    /\ \E f \in Feature : Visit(f) /\ conj' = conj \intersect Implied(f)
    /\ pc' = pc
    /\ UNCHANGED <<inputs, todo, result, alwaysExpr>>

\* while (!openFeatures.isEmpty) of the constructor, with assert(false)
Close ==
    /\ pc = "closure"
    /\ \E f \in Feature : Visit(f) /\ conj' = conj \intersect Implied(f)
    /\ pc' = IF conj' = {} THEN "assertFailed" ELSE pc
    /\ UNCHANGED <<inputs, todo, result, alwaysExpr>>

\* sliceModel(features, Set())
StartSlice(features) ==
    /\ known' = {}
    /\ open' = features
    /\ result' = Config

EndClosure ==
    /\ pc = "closure" /\ open = {}
    /\ StartSlice(model.on)
    /\ pc' = "sliceAlways"
    /\ UNCHANGED <<inputs, todo, conj, alwaysExpr>>

\* while (!openFeatures.isEmpty) of sliceModel
Slice ==
    /\ pc \in {"sliceAlways", "sliceQuery"}
    /\ \E f \in Feature : Visit(f) /\ result' = result \intersect Implied(f)
    /\ UNCHANGED <<pc, inputs, todo, conj, alwaysExpr>>

\* alwaysExpr and its assertion; the constructor is done, sliceModel(fexpr)
\* is called.
EndSliceAlways ==
    /\ pc = "sliceAlways" /\ open = {}
    /\ alwaysExpr' = AllOn \intersect result
    /\ IF alwaysExpr' = {}
       THEN pc' = "lateAssertFailed" /\ UNCHANGED <<walk, result>>
       ELSE pc' = "sliceQuery" /\ StartSlice(query.deps)
    /\ UNCHANGED <<inputs, todo, conj>>

\* alwaysExpr and the slice, CheckFeatureExpr's assertion on it
EndSliceQuery ==
    /\ pc = "sliceQuery" /\ open = {}
    /\ result' = alwaysExpr \intersect result
    /\ pc' = IF result' = {} THEN "lateAssertFailed" ELSE "answered"
    /\ UNCHANGED <<inputs, todo, conj, walk, alwaysExpr>>

Next == \/ AddAlways \/ EndAlways \/ NoAlways \/ Close \/ EndClosure
        \/ Slice \/ EndSliceAlways \/ EndSliceQuery

Spec == Init /\ [][Next]_vars

\* The program is sequential: it goes on until it ends.
FairSpec == Spec /\ WF_vars(Next)

\* status(slice and fexpr, NoFeatureModel)
Status(phi) ==
    IF phi = {} THEN "contradiction"
    ELSE IF phi = Config THEN "tautology"
    ELSE "satisfiable"
Verdict == Status(result \intersect query.phi)

-----------------------------------------------------------------------------
Ended == pc \in {"answered", "assertFailed", "lateAssertFailed", "exception"}

\* What the model file says, all of it.
FullModel == {c \in AllOn : \A f \in Feature : c \in Implied(f)}

\* The variables hold what their comments say, and no feature is open twice.
TypeOK ==
    /\ pc \in PC
    /\ model \in Model /\ query \in Query
    /\ todo \subseteq model.on
    /\ {conj, result, alwaysExpr} \subseteq Formula
    /\ known \subseteq Feature /\ open \subseteq Feature
    /\ known \intersect open = {}

\* CheckFeatureExpr answers "contradiction" exactly for the formulas no
\* configuration of the whole model satisfies, although it only looks at the
\* part of the model that the formula and the always-on features reach.
SliceExact ==
    pc = "answered" =>
        ((Verdict = "contradiction") <=> (FullModel \intersect query.phi = {}))

\* The assertions of the constructor's loops fail exactly for the models that
\* have no configuration at all: no consistent model is refused, and no
\* inconsistent one gets as far as the slices.  The assertions on alwaysExpr
\* and on the slice therefore never fail.
AssertExact ==
    /\ pc = "assertFailed" => FullModel = {}
    /\ pc \in {"sliceAlways", "sliceQuery", "answered"} => FullModel # {}
    /\ pc # "lateAssertFailed"

\* The order in which the sets are iterated does not matter: the slice
\* conjoins the conditions of the least set of features that holds those of
\* the formula and is closed under mentioning, no fewer and no more.
Closed(S) == \A f \in S : model.deps[f] \subseteq S
SliceIsLeastClosure ==
    pc = "answered" =>
        /\ query.deps \subseteq known /\ Closed(known)
        /\ \A S \in SUBSET Feature : query.deps \subseteq S /\ Closed(S) => known \subseteq S

\* Features that mention each other do not keep the loops going.
Ends == <>Ended

\* Whatever the order of the loops, CheckFeatureExpr implements ModelPromise:
\* one verdict, the one the whole model gives, and always a verdict.  Its
\* "tautology" counts as satisfiable here: see TautologyReported.
verdictBar ==
    CASE pc = "answered"     -> IF Verdict = "contradiction" THEN Verdict ELSE "satisfiable"
      [] pc = "assertFailed" -> "refused"
      [] pc = "exception"    -> "exception"
      [] OTHER               -> "none"
Promise == INSTANCE ModelPromise WITH verdict <- verdictBar
Promised == Promise!Spec

\* README.md:86-87: CheckExpr "reads a formula from a file `formula` and checks
\* whether it is satisfiable or a tautology", in this branch under the model:
\* a formula that holds in every configuration of the model is a tautology.
TautologyReported ==
    pc = "answered" /\ FullModel \subseteq query.phi => Verdict = "tautology"
=============================================================================
