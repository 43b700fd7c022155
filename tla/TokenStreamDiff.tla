-------------------------- MODULE TokenStreamDiff --------------------------
(***************************************************************************)
(* TokenStreamDiff.scala: walks two streams of conditional tokens in step  *)
(* and stops at the first pair that differs.  A condition is the set of    *)
(* configurations it holds in.  A text is a sequence of atoms, so that one *)
(* text may be two others glued together.                                  *)
(***************************************************************************)
EXTENDS Naturals, Sequences, SequencesExt

CONSTANTS
    Config,  \* configurations
    Atom,    \* what texts are made of
    Models,  \* feature models: sets of configurations
    Lefts,   \* token streams the first file may have
    Rights   \* and the second one

Token == [text : Seq(Atom), cond : SUBSET Config]

ASSUME StreamAssumption ==
    /\ Models \subseteq SUBSET Config
    /\ Lefts \subseteq Seq(Token) /\ Rights \subseteq Seq(Token)

VARIABLES
    pc,
    fm, left, right,  \* what is compared: never changed
    i, j,             \* r is left from i on, s is right from j on
    mismatch,
    seenL, seenR,     \* history: per configuration, the text left behind
    glued             \* history: configurations with only a part of a glued text

inputs == <<fm, left, right>>
seen == <<seenL, seenR, glued>>
vars == <<pc, inputs, i, j, mismatch, seen>>

Init ==
    /\ pc = "loop"
    /\ fm \in Models /\ left \in Lefts /\ right \in Rights
    /\ i = 1 /\ j = 1 /\ mismatch = FALSE
    /\ seenL = [c \in Config |-> <<>>] /\ seenR = seenL /\ glued = {}

-----------------------------------------------------------------------------
LeftEmpty == i > Len(left)
RightEmpty == j > Len(right)
a == left[i]
b == right[j]

\* Mutant: whether a token is dead is asked without the feature model.
Dead_NoModel(t) == t.cond = {}

Dead(t) == t.cond \intersect fm = {}

\* Mutant: both conditions are satisfiable, which is taken for equivalent.
SameCondition_Satisfiable == a.cond \intersect fm # {} /\ b.cond \intersect fm # {}

SameCondition == a.cond \intersect fm = b.cond \intersect fm

\* A stream with t read on.
After(sn, t) == [c \in Config |-> IF c \in t.cond THEN sn[c] \o t.text ELSE sn[c]]

Finish ==
    /\ pc = "loop" /\ LeftEmpty
    /\ pc' = "done"
    /\ UNCHANGED <<inputs, i, j, mismatch, seen>>

Enter ==
    /\ pc = "loop" /\ ~LeftEmpty
    /\ pc' = "features" /\ mismatch' = FALSE
    /\ UNCHANGED <<inputs, i, j, seen>>

\* head of an empty stream, in compareFeatures or for the text after a.
Throw ==
    /\ \/ pc = "features" /\ (LeftEmpty \/ RightEmpty)
       \/ pc = "text" /\ a.text # b.text /\ i = Len(left)
    /\ pc' = "exception"
    /\ UNCHANGED <<inputs, i, j, mismatch, seen>>

\* compareFeatures has two tokens to look at.
Comparing == pc = "features" /\ ~LeftEmpty /\ ~RightEmpty

\* Mutant: the recursive call is made with the same token.
DropLeft_Keep ==
    /\ Comparing /\ a.cond # b.cond /\ Dead(a)
    /\ UNCHANGED vars

DropLeft ==
    /\ Comparing /\ a.cond # b.cond /\ Dead(a)
    /\ i' = i + 1
    /\ seenL' = After(seenL, a)
    /\ UNCHANGED <<pc, inputs, j, mismatch, seenR, glued>>

DropRight ==
    /\ Comparing /\ a.cond # b.cond /\ ~Dead(a) /\ Dead(b)
    /\ j' = j + 1
    /\ seenR' = After(seenR, b)
    /\ UNCHANGED <<pc, inputs, i, mismatch, seenL, glued>>

\* The answer of compareFeatures; the texts are compared whatever it is.
CompareFeatures ==
    /\ Comparing
    /\ a.cond = b.cond \/ (~Dead(a) /\ ~Dead(b))
    /\ mismatch' = (a.cond # b.cond /\ ~SameCondition)
    /\ pc' = "text"
    /\ UNCHANGED <<inputs, i, j, seen>>

\* The workaround for SuperC: what follows a completes b's text.
Glue == a.text # b.text /\ i < Len(left) /\ a.text \o left[i + 1].text = b.text

Mismatch ==
    /\ pc = "text"
    /\ \/ mismatch /\ (a.text = b.text \/ i < Len(left))
       \/ a.text # b.text /\ i < Len(left) /\ ~Glue
    /\ pc' = "mismatch"
    /\ UNCHANGED <<inputs, i, j, mismatch, seen>>

\* Mutant: the workaround's token is skipped whether it was needed or not.
Advance_Two ==
    /\ pc = "text" /\ ~mismatch /\ a.text = b.text
    /\ pc' = "loop"
    /\ i' = i + 2 /\ j' = j + 1
    /\ seenL' = After(seenL, a) /\ seenR' = After(seenR, b)
    /\ UNCHANGED <<inputs, mismatch, glued>>

Advance ==
    /\ pc = "text" /\ ~mismatch /\ a.text = b.text
    /\ pc' = "loop"
    /\ i' = i + 1 /\ j' = j + 1
    /\ seenL' = After(seenL, a) /\ seenR' = After(seenR, b)
    /\ UNCHANGED <<inputs, mismatch, glued>>

\* The condition of the second part is not looked at.
AdvanceGlued ==
    /\ pc = "text" /\ ~mismatch /\ Glue
    /\ pc' = "loop"
    /\ i' = i + 2 /\ j' = j + 1
    /\ seenL' = After(After(seenL, a), left[i + 1]) /\ seenR' = After(seenR, b)
    /\ glued' = glued \union (a.cond \ left[i + 1].cond) \union (left[i + 1].cond \ a.cond)
    /\ UNCHANGED <<inputs, mismatch>>

Next ==
    \/ Finish \/ Enter \/ Throw
    \/ DropLeft \/ DropRight \/ CompareFeatures
    \/ Mismatch \/ Advance \/ AdvanceGlued

Spec == Init /\ [][Next]_vars
FairSpec == Spec /\ WF_vars(Next)

-----------------------------------------------------------------------------
\* The program is at a place of its code, inside both streams or at their ends.
TypeOK ==
    /\ pc \in {"loop", "features", "text", "done", "mismatch", "exception"}
    /\ fm \in Models /\ left \in Lefts /\ right \in Rights
    /\ i \in 1 .. Len(left) + 1 /\ j \in 1 .. Len(right) + 1
    /\ pc = "text" => ~LeftEmpty /\ ~RightEmpty
    /\ mismatch \in BOOLEAN
    /\ seenL \in [Config -> Seq(Atom)] /\ seenR \in [Config -> Seq(Atom)]
    /\ glued \subseteq Config

\* What has been read of the two streams is the same text in every
\* configuration of the model, whatever dead tokens were skipped in one or both, as
\* long as the configuration has not got half of a glued text (line 68).
ComparedAgree == \A c \in fm \ glued : seenL[c] = seenR[c]

\* No configuration of the model has the token.
Absent(t) == \A c \in fm : c \notin t.cond

\* The places of a stream with a token that is not absent.
Alive(stream) == {n \in 1 .. Len(stream) : ~Absent(stream[n])}

\* Ways to match these tokens of the two streams: one to one, in their order,
\* with the same text and the same condition under the model.
Matchings ==
    {f \in [Alive(left) -> Alive(right)] :
        /\ \A n \in Alive(right) : \E m \in Alive(left) : f[m] = n
        /\ \A m, n \in Alive(left) : m < n => f[m] < f[n]
        /\ \A m \in Alive(left) :
             /\ left[m].text = right[f[m]].text
             /\ left[m].cond \intersect fm = right[f[m]].cond \intersect fm}

\* The two streams differ in dead tokens only, no dead token meets one of the
\* same condition and another text, and no dead token ends the first stream.
Equivalent ==
    /\ Matchings # {}
    /\ \A m \in 1 .. Len(left), n \in 1 .. Len(right) :
         Absent(left[m]) /\ left[m].cond = right[n].cond => left[m].text = right[n].text
    /\ left # <<>> => ~Absent(left[Len(left)])

\* Such streams are not refused (line 43: "lazily search for dead features").
AcceptsEquivalent == pc \in {"mismatch", "exception"} => ~Equivalent

\* The comparison comes to an end: each round uses up a token.
Ends == <>(pc \in {"done", "mismatch", "exception"})

\* The text of a stream in one configuration.
Text(stream, c) ==
    FoldLeft(LAMBDA text, t : IF c \in t.cond THEN text \o t.text ELSE text, <<>>, stream)

\* TokenStreamDiff.scala:11: "compares two parially preprocessed files if they
\* have equivalent token streams".  VIOLATED: "done." is printed at the end of
\* the first stream, with tokens left in the second.
DoneMeansEquivalent == pc = "done" => \A c \in fm : Text(left, c) = Text(right, c)
=============================================================================
