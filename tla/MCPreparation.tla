--------------------------- MODULE MCPreparation ---------------------------
(***************************************************************************)
(* Two options, one of them also a module; models in which an option is    *)
(* free, mandatory, dead or needs the other, and one that codes the module *)
(* with a second variable; lists of two files with all kinds of            *)
(* expressions.                                                            *)
(***************************************************************************)
EXTENDS Preparation, TLC

CONSTANTS smp, usb, usb_2, usb_m, main, hub

SmpOn == <<smp, "y">>
SmpModule == <<smp, "m">>
UsbOn == <<usb, "y">>
UsbModule == <<usb, "m">>

MCSecond == usb :> usb_2

\* All values of the two options; smp is never a module.  usb_m is a variable of the
\* model that goes with the module.
Base == {c \in Config : /\ Tristate(c) /\ SmpModule \notin c /\ usb_2 \notin c
                        /\ UsbModule \in c <=> usb_m \in c}
\* The same with two variables for usb, of which the second needs the first.
TwoVariables == {c \in Config : /\ {SmpModule, UsbModule, usb_m} \intersect c = {}
                                /\ usb_2 \in c => UsbOn \in c}
MCDimacs == {Base, TwoVariables,
             {c \in Base : UsbModule \notin c /\ (UsbOn \in c => SmpOn \in c)}}
MCConfs == {{[what |-> "undef", name |-> UsbOn]},
            {[what |-> "define 1", name |-> UsbOn], [what |-> "define", name |-> SmpModule]}}

\* Expressions
Leaf(op, sym) == [op |-> op, sym |-> sym, l |-> 0, r |-> 0]
Inner(op, l, r) == [op |-> op, sym |-> smp, l |-> l, r |-> r]
One(op, sym) == <<Leaf(op, sym)>>
Not(op, sym) == <<Leaf(op, sym), Inner("not", 1, 1)>>
Two(p, s, op, q, t) == <<Leaf(p, s), Leaf(q, t), Inner(op, 1, 2)>>

MCList(e, k, g) ==
    <<[file |-> main, isC |-> TRUE, expr |-> e], [file |-> hub, isC |-> k, expr |-> g]>>
\* usb is built in, and there is no smp.
UsbWithoutSmp == <<Leaf("isY", usb), Leaf("id", smp), Inner("not", 2, 2), Inner("and", 1, 3)>>
MCPcrs ==
    {MCList(One("id", usb), TRUE, Not("isY", usb)),
     MCList(UsbWithoutSmp, TRUE, One("notM", usb)),
     MCList(Two("true", smp, "or", "notStr", smp), TRUE, Two("isM", usb, "and", "notY", usb)),
     MCList(Two("isStr", smp, "or", "invalid", usb), FALSE, One("notM", usb))}

\* main was left with another condition.
MCLeftovers == {(main :> Written({{}})) @@ (hub :> NoFile)}
=============================================================================
