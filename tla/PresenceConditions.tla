------------------------- MODULE PresenceConditions -------------------------
(***************************************************************************)
(* KConfigMinerParser of ProcessPCFile.scala: from KBuildMiner's           *)
(* expressions over options to conditions over macros.                     *)
(*                                                                         *)
(* An expression is a sequence of nodes [op, sym, l, r]; l and r are the   *)
(* numbers of earlier nodes, the last node is the whole expression.        *)
(*   "true", "invalid"   [TRUE], InvalidExpression()                       *)
(*   "id"                X                                                 *)
(*   "isY", "isM"        (X=="y"), (X=="m")                                *)
(*   "notY", "notM"      (X!="y"), (X!="m")                                *)
(*   "isStr", "notStr"   (X=="str") and (X!="str"), "n" among the strings  *)
(*   "not", "and", "or"  of other expressions                              *)
(***************************************************************************)
EXTENDS FeatureModels, Naturals, Sequences

Op == {"true", "invalid", "id", "isY", "isM", "notY", "notM", "isStr", "notStr",
       "not", "and", "or"}
Node == [op : Op, sym : Symbol, l : Nat, r : Nat]
Expression ==
    {e \in Seq(Node) : /\ e # <<>>
                       /\ \A n \in 1 .. Len(e) :
                            e[n].op \in {"not", "and", "or"} => e[n].l \in 1 .. n - 1 /\ e[n].r \in 1 .. n - 1}

Parsed(cond) == [is |-> "condition", cond |-> cond]
NotParsed == [is |-> "error", cond |-> {}]
Thrown == [is |-> "exception", cond |-> {}]

\* toFeature: macros that are not in the list are False.
ToFeature(macro, openFeatures) ==
    {c \in Config : macro \in openFeatures /\ macro \in c}

\* The first part that fails decides, from left to right.
Both(p, q, cond) ==
    IF p.is # "condition" THEN p ELSE IF q.is # "condition" THEN q ELSE Parsed(cond)

\* ! p, p && q, p || q
Combine(op, p, q) ==
    CASE op = "not" -> Both(p, p, Config \ p.cond)
      [] op = "and" -> Both(p, q, p.cond \intersect q.cond)
      [] op = "or" -> Both(p, q, p.cond \union q.cond)

\* Mutant: an option without comparison is built in.
LeafCondition_OnlyY(node, openFeatures) ==
    CASE node.op = "true" \/ node.op = "isStr" -> Config
      [] node.op = "invalid" -> {}
      [] node.op = "id" -> ToFeature(<<node.sym, "y">>, openFeatures)
      [] node.op = "isY" -> ToFeature(<<node.sym, "y">>, openFeatures)
      [] node.op = "isM" -> ToFeature(<<node.sym, "m">>, openFeatures)
      [] node.op = "notY" -> Config \ ToFeature(<<node.sym, "y">>, openFeatures)

\* Comparisons with strings are taken for true.
LeafCondition(node, openFeatures) ==
    LET y == ToFeature(<<node.sym, "y">>, openFeatures)
        m == ToFeature(<<node.sym, "m">>, openFeatures)
    IN  CASE node.op = "true" \/ node.op = "isStr" -> Config
          [] node.op = "invalid" -> {}
          [] node.op = "id" -> m \union y
          [] node.op = "isY" -> y
          [] node.op = "isM" -> m
          [] node.op = "notY" -> Config \ y

\* != m throws, != followed by anything else is committed and fails.
ParseLeaf(node, openFeatures) ==
    CASE node.op = "notM" -> Thrown
      [] node.op = "notStr" -> NotParsed
      [] OTHER -> Parsed(LeafCondition(node, openFeatures))

\* parser.parseAll
Parse(e, openFeatures) ==
    LET result[n \in 1 .. Len(e)] ==
          IF e[n].op \in {"not", "and", "or"}
          THEN Combine(e[n].op, result[e[n].l], result[e[n].r])
          ELSE ParseLeaf(e[n], openFeatures)
    IN  [is |-> result[Len(e)].is, cond |-> result[Len(e)].cond \intersect Config]

-----------------------------------------------------------------------------
\* For the properties: what the build makes of an expression.

\* The value of an option in a configuration: m is CONFIG_X_MODULE or, as the comment
\* at ProcessPCFile.scala:171-177 says of the SAT solver, CONFIG_X_2 besides CONFIG_X.
SecondOn(sym, c) == sym \in DOMAIN Second /\ Second[sym] \in c
Value(sym, c) ==
    CASE <<sym, "y">> \in c -> IF SecondOn(sym, c) THEN "m" ELSE "y"
      [] <<sym, "y">> \notin c -> IF <<sym, "m">> \in c THEN "m" ELSE "n"

\* A comparison, or an option alone.
Chosen(node, c) ==
    \/ node.op = "true"
    \/ node.op = "id" /\ Value(node.sym, c) # "n"
    \/ node.op = "isY" /\ Value(node.sym, c) = "y"
    \/ node.op = "isM" /\ Value(node.sym, c) = "m"
    \/ node.op = "notY" /\ Value(node.sym, c) # "y"
    \/ node.op = "notM" /\ Value(node.sym, c) # "m"

\* Whether the build compiles a file under this expression in c.
Compiled(e, c) ==
    LET holds[n \in 1 .. Len(e)] ==
          \/ Chosen(e[n], c)
          \/ e[n].op = "not" /\ ~holds[e[n].l]
          \/ e[n].op = "and" /\ holds[e[n].l] /\ holds[e[n].r]
          \/ e[n].op = "or" /\ (holds[e[n].l] \/ holds[e[n].r])
    IN  holds[Len(e)]

\* The macros an expression tests.
MacrosOf(e) ==
    UNION {CASE e[n].op = "id" -> {<<e[n].sym, "y">>, <<e[n].sym, "m">>}
             [] e[n].op \in {"isY", "notY"} -> {<<e[n].sym, "y">>}
             [] e[n].op \in {"isM", "notM"} -> {<<e[n].sym, "m">>}
             [] OTHER -> {} : n \in 1 .. Len(e)}

Uses(e, ops) == \E n \in 1 .. Len(e) : e[n].op \in ops

\* No option has both macros.
Tristate(c) == \A sym \in Symbol : <<sym, "y">> \notin c \/ <<sym, "m">> \notin c

\* What a condition can tell of a configuration: the open macros that are on.  A
\* module that is coded with two variables looks built in, what is not open looks off.
Seen(c, openFeatures) == c \intersect Macro \intersect openFeatures

\* No comparison of the expression is of an option that is m by its second variable.
ModulesApart(e, c) ==
    \A n \in 1 .. Len(e) : e[n].op \in {"isY", "isM", "notY"} => ~SecondOn(e[n].sym, c)
=============================================================================
