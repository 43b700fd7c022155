--------------------------- MODULE MCLinuxLinker ---------------------------
(***************************************************************************)
(* LinuxLinker with a directory of three files, one of one file and an     *)
(* excluded one.  Each file exports nothing, a function in one of two      *)
(* configurations, or the function in both and the marker in one.          *)
(***************************************************************************)
EXTENDS LinuxLinker, TLC

CONSTANTS kernel, mm, net, fork, exit, sys, slab, both, smp, probe, foodfafe

MCFilesIn == kernel :> {fork, exit, sys} @@ mm :> {slab} @@ net :> {}
MCSelections == {Dir, {kernel}}
Def(n, c) == {[name |-> n, cond |-> c]}
\* What a file may export.
MCPool == {{}, Def(probe, {smp}), Def(probe, {both}) \union Def(foodfafe, {smp})}
\* Choices in which a file of each directory exports something.
MCSources ==
    {s \in [File -> MCPool] :
        /\ s[sys] # {} /\ s[slab] = s[sys]
        /\ s[exit] = s[sys] \/ (s[fork] = {} /\ s[exit] # {})}
MCVM == {both, smp}
MCApprox == {both}
=============================================================================
