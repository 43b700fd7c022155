--------------------------- MODULE MCUndertakerFM ---------------------------
(***************************************************************************)
(* UndertakerFM over all models of three features whose conditions come    *)
(* from a small pool (absent, a feature, a negated feature, a disjunction  *)
(* and a disjunction the conjunction with its own feature simplifies), any *)
(* set of features always on, and a few formulas.                          *)
(***************************************************************************)
EXTENDS UndertakerFM

CONSTANTS a, b, c

On(f) == [phi |-> {x \in Config : f \in x}, deps |-> {f}]
Off(f) == [phi |-> {x \in Config : f \notin x}, deps |-> {f}]
True == [phi |-> Config, deps |-> {}]
Or(p, q) == [phi |-> p.phi \union q.phi, deps |-> p.deps \union q.deps]
And(p, q) == [phi |-> p.phi \intersect q.phi, deps |-> p.deps \union q.deps]

Pool == {True, On(a), On(b), Off(c), Or(On(a), On(c)), Or(On(b), Off(a))}

MCModel ==
    {[on   |-> on,
      expr |-> [f \in Feature |-> cond[f].phi],
      deps |-> [f \in Feature |-> cond[f].deps]] :
        on \in SUBSET Feature, cond \in [Feature -> Pool]}

MCQuery == {True, On(b), And(On(a), Off(b)), And(On(b), On(c))}
=============================================================================
