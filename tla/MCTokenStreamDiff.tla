------------------------- MODULE MCTokenStreamDiff -------------------------
(***************************************************************************)
(* Streams of up to three and two tokens, made of two texts and the text   *)
(* that glues them, under conditions over two configurations.              *)
(***************************************************************************)
EXTENDS TokenStreamDiff

CONSTANTS smp, up, x, y

MCToken ==
    [text : {<<x>>, <<y>>, <<x, y>>}, cond : {{smp}, {up}, {smp, up}}]
UpTo(n) == UNION {[1 .. k -> MCToken] : k \in 0 .. n}

MCModels == {{}, {smp}, {smp, up}}
MCLefts == UpTo(3)
MCRights == UpTo(2)
=============================================================================
