---------------------------- MODULE MCEngineTurn ----------------------------
(* Settings of the guards for the checks: each switches some guards on.    *)
EXTENDS EngineTurn

Off == [tokens |-> 0, stallAfter |-> 1, turnTime |-> 0, iterations |-> 0, stallHeal |-> 1,
        streak |-> 1, errors |-> 0, meltdownHeal |-> 0, repeatHeal |-> 0,
        idleHeal |-> 0, deadRetry |-> 0, upstreamHeal |-> 0,
        continueHeal |-> 0, injects |-> 0, overflow |-> 1]

\* Unlimited healing, the shipped default.
Default == [Off EXCEPT !.streak = 2, !.errors = 2, !.meltdownHeal = -1,
                       !.repeatHeal = -1, !.idleHeal = -1, !.deadRetry = 1,
                       !.upstreamHeal = 1, !.injects = 1]

\* Finite budgets for tools that fail.
Melting == [Off EXCEPT !.streak = 2, !.errors = 2, !.meltdownHeal = 1]

\* Finite budgets for a stream that repeats itself, hangs or stays empty.
Streaming == [Off EXCEPT !.repeatHeal = 1, !.idleHeal = 1, !.deadRetry = 1, !.upstreamHeal = 1]

\* Output budgets, overflow and continuation; limits on time and iterations.
Sizing == [Off EXCEPT !.tokens = 1, !.continueHeal = 1, !.overflow = 2, !.injects = 1]
Limited == [Off EXCEPT !.turnTime = 2, !.iterations = 2, !.repeatHeal = -1]

AllKnobs == {Default, Melting, Streaming, Sizing, Limited}
DefaultKnobs == {Default}
=============================================================================
