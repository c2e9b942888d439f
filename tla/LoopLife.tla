----------------------------- MODULE LoopLife -----------------------------
(***************************************************************************)
(* What a session's loop promises its user, without turns, queues, timers, *)
(* files or processes: it begins, counts its rounds one at a time, may wait*)
(* for a person between two rounds, and ends for good; only a new          *)
(* beginning resets the count.  There is no crash: KernelLoopLife shows    *)
(* that crashing and resuming looks like nothing at all from here.         *)
(***************************************************************************)
EXTENDS Naturals

CONSTANT MaxRounds  \* bound: `rounds` saturates here

VARIABLES
    stage,   \* "off", "going", "waiting" for a person, or "over"
    rounds,  \* how many rounds the loop has counted
    limit    \* how many it may count; 0 for no limit

lifeVars == <<stage, rounds, limit>>

NextRound == IF rounds < MaxRounds THEN rounds + 1 ELSE rounds

LifeInit == stage = "off" /\ rounds = 0 /\ limit = 0

\* A new loop may begin in the same breath as an earlier one ends.
Begin == stage' = "going" /\ rounds' = 0 /\ limit' \in Nat

\* A round after which the loop goes on is not its last one.
Round ==
    /\ stage = "going" /\ stage' = "going"
    /\ rounds' = NextRound
    /\ limit > 0 => rounds' < limit
    /\ UNCHANGED limit

\* Waiting begins with a round's end, and a round that was still running may be counted.
Wait ==
    /\ stage \in {"going", "waiting"} /\ stage' = "waiting"
    /\ rounds' \in {rounds, NextRound}
    /\ UNCHANGED limit

Release ==
    /\ stage \in {"waiting", "off"} /\ stage' = "going"
    /\ UNCHANGED <<rounds, limit>>

\* The end of a loop, with its last round or between rounds.
End ==
    /\ stage' = "over"
    /\ rounds' \in {rounds, NextRound}
    /\ UNCHANGED limit

\* An ended loop is forgotten by a later process.
Forget ==
    /\ stage = "over" /\ stage' = "off"
    /\ rounds' = 0 /\ limit' = 0

LifeNext == Begin \/ Round \/ Wait \/ Release \/ End \/ Forget

LifeSpec == LifeInit /\ [][LifeNext]_lifeVars
===========================================================================
