--------------------------- MODULE MCKernelLoop ---------------------------
(***************************************************************************)
(* Instances of KernelLoop for TLC: what loops a user starts.              *)
(***************************************************************************)
EXTENDS KernelLoop, TLC

O(count, every, cap, done, until) ==
    [count |-> count, every |-> every, cap |-> cap, done |-> done, until |-> until]

\* Loops whose turn ends without an await: a counted one without interval, and an endless
\* one with an interval and a cap.
PlainOpts == {O(2, FALSE, 0, FALSE, FALSE), O(0, TRUE, 1, FALSE, FALSE)}
CountedOpts == {O(2, FALSE, 1, FALSE, FALSE), O(2, TRUE, 0, FALSE, FALSE)}
EndlessOpts == {O(0, FALSE, 0, FALSE, FALSE)}
IntervalOpts == {O(0, TRUE, 0, FALSE, FALSE)}
LastRoundOpts == {O(1, TRUE, 0, FALSE, FALSE)}

\* Loops whose turn ends with an await: a done_when verification, an --until judgement.
VerifiedOpts == {O(2, FALSE, 0, TRUE, FALSE)}
JudgedOpts == {O(0, FALSE, 0, FALSE, TRUE)}

\* Loops with a round count, which therefore come to rest: with a cap, an interval, a
\* verification or a judgement.
RestingOpts == {O(2, FALSE, 1, FALSE, FALSE), O(2, TRUE, 0, FALSE, FALSE),
                O(2, FALSE, 0, TRUE, FALSE), O(2, FALSE, 0, FALSE, TRUE)}

HandlerSymmetry == Permutations(Handlers)

AllInputs == InputKinds
===========================================================================
