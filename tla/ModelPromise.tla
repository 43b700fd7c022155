---------------------------- MODULE ModelPromise ----------------------------
(***************************************************************************)
(* What CheckFeatureExpr promises for a formula and an undertaker model,   *)
(* without saying how: one verdict, from all configurations of the model.  *)
(* A model is a set of always-on features and, per feature, the set of     *)
(* configurations that meet its presence condition.                        *)
(***************************************************************************)
CONSTANTS Feature, Model, Query

VARIABLES model, query, verdict
vars == <<model, query, verdict>>

Satisfies(c) == model.on \subseteq c /\ \A f \in c : c \in model.expr[f]
Valid == {c \in SUBSET Feature : Satisfies(c)}

Init == model \in Model /\ query \in Query /\ verdict = "none"

\* A model without always-on features is not supported, one without
\* configurations is refused.
Judge ==
    /\ verdict = "none"
    /\ verdict' \in {v \in {"exception", "refused", "contradiction", "satisfiable"} :
         /\ v = "exception" <=> model.on = {}
         /\ v = "refused" <=> model.on # {} /\ Valid = {}
         /\ v = "contradiction" <=> model.on # {} /\ Valid # {} /\ Valid \intersect query.phi = {}}
    /\ UNCHANGED <<model, query>>

Spec == Init /\ [][Judge]_vars /\ WF_vars(Judge)
=============================================================================
