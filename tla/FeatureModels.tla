--------------------------- MODULE FeatureModels ---------------------------
(***************************************************************************)
(* The feature models of featuremodel/: the DIMACS model, the full model   *)
(* that adds the partial configuration, and the model that switches off    *)
(* what is not in the open-feature list.  A configuration is the set of    *)
(* variables that are on; a model is the set of its configurations.        *)
(***************************************************************************)
CONSTANTS
    Symbol,    \* Kconfig options, without CONFIG_
    Extra,     \* variables of the model that are no option's macro
    Second,    \* CONFIG_X_2 of the options a model may code with two variables
    Untested,  \* CONFIG__X... and ..._m: skipped when features are classified
    Unjudged   \* not CONFIG_..., CONFIG__X... and ..._2: never switched off

\* CONFIG_X and CONFIG_X_MODULE, of which the tree's autoconf.h defines the
\* first for y and the second for m.  A model has these as variables, or CONFIG_X
\* and CONFIG_X_2 with both on for m; what it does not have is off.
Macro == Symbol \X {"y", "m"}
Feature == Macro \union Extra
Config == SUBSET Feature

ASSUME FeatureAssumption ==
    /\ Macro \intersect Extra = {}
    /\ DOMAIN Second \subseteq Symbol /\ \A sym \in DOMAIN Second : Second[sym] \in Extra
    /\ Untested \subseteq Feature /\ Unjudged \subseteq Feature

\* The lines of partialConf.h that begin with #.
Directive == [what : {"define 1", "define", "undef"}, name : Feature]
Names(directives, what) == {d.name : d \in {e \in directives : e.what = what}}

\* directives is an iterator: whoever reads it once leaves nothing.
Drained(directives) == {}

PartialConf(directives) ==
    LET booleanDefs == Names(directives, "define 1")
        undefs == Names(Drained(directives), "undef")
    IN  {c \in Config : booleanDefs \subseteq c /\ undefs \intersect c = {}}

\* LinuxFullModel
FullModel(dimacs, conf) == dimacs \intersect PartialConf(conf)

\* isTautology under the model, of a feature and of its negation: both in a
\* model without configurations.
Mandatory(f, fm) == \A c \in fm : f \in c
Dead(f, fm) == \A c \in fm : f \notin c

\* LinuxExclDeadModel, of a full model and an open-feature list
ExclDead(fm, openFeatures) == {c \in fm : c \subseteq Unjudged \union openFeatures}
=============================================================================
