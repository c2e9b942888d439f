-------------------------- MODULE LoopController --------------------------
(***************************************************************************)
(* The loop controller of kernel/loop.mjs: the record it keeps for the one *)
(* autonomous loop of a session, and what each of its methods does to that *)
(* record.  The methods are functions of the record; KernelLoop gives them *)
(* callers, interleavings, a disk and crashes.                             *)
(*                                                                         *)
(* Abstractions.  The three meters (cost, steps, wall clock) are read and  *)
(* compared alike, so one meter `used` with one cap stands for them.       *)
(* nextRunAt is only ever tested for "something is due", so it is the      *)
(* Boolean `armed`.  A tool fingerprint is a model value; the loop's text, *)
(* history, usage counters and time stamps are left out.  pendingApproval  *)
(* is left out as well: its rollback kind needs a snapshotRef, which no    *)
(* caller in the kernel ever takes (snapshot() has no call site).          *)
(***************************************************************************)
EXTENDS Naturals, FiniteSets

CONSTANTS
    LoopOpts,       \* the options a user may start a loop with
    Fingerprints,   \* what a turn's tool calls look like
    NoFingerprint,  \* a turn without tool calls
    Threshold,      \* PONOS_LOOP_NOPROGRESS_N: equal turns in a row that escalate
    OnStall,        \* PONOS_LOOP_ON_STALL
    MaxIndex,       \* bound: `index` saturates here
    MaxUse          \* bound: `used` saturates here

Opts == [count : Nat, every : BOOLEAN, cap : Nat, done : BOOLEAN, until : BOOLEAN]

ASSUME OptsAssumption == LoopOpts \subseteq Opts
ASSUME FingerprintAssumption == NoFingerprint \notin Fingerprints
ASSUME ThresholdAssumption == Threshold \in Nat \ {0}
ASSUME OnStallAssumption == OnStall \in {"reflect_and_ask", "stop"}
ASSUME BoundAssumption == MaxIndex \in Nat \ {0} /\ MaxUse \in Nat \ {0}

TERMINAL == {"done", "failed", "cancelled", "budget_exceeded", "no_progress", "stalled"}
ActiveStatus == {"running", "pausing", "awaiting_approval", "verifying"}
Status == TERMINAL \cup ActiveStatus \cup {"idle", "paused"}
EndReason == {"", "completed", "failed", "verify_hit", "until_hit", "judge_error",
              "cancelled", "budget_exceeded", "no_progress", "stalled"}

\* What engine.runTurn reports of a turn; NullOutcome is a cancelled, intercepted or failed one.
Outcome == [use : {0, 1}, fp : Fingerprints \cup {NoFingerprint}]
NullOutcome == [use |-> 0, fp |-> NoFingerprint]

\* `by` is a history field: who caused start() to run.
LoopState == [status : Status, count : Nat, every : BOOLEAN, cap : Nat,
              done : BOOLEAN, until : BOOLEAN, index : 0..MaxIndex, used : 0..MaxUse,
              streak : 0..Threshold, lastFp : Fingerprints \cup {NoFingerprint},
              armed : BOOLEAN, endReason : EndReason, by : {"user", "payload"}]

freshState == [status |-> "idle", count |-> 0, every |-> FALSE, cap |-> 0,
               done |-> FALSE, until |-> FALSE, index |-> 0, used |-> 0,
               streak |-> 0, lastFp |-> NoFingerprint,
               armed |-> FALSE, endReason |-> "", by |-> "user"]

Upto(n, max) == IF n < max THEN n ELSE max

---------------------------------------------------------------------------
(* The command family. *)

isActive(l) == l.status \in ActiveStatus

start(o, who) ==
    [freshState EXCEPT !.status = "running", !.count = o.count, !.every = o.every,
                       !.cap = o.cap, !.done = o.done, !.until = o.until, !.by = who]

stop(l, reason) ==
    [l EXCEPT !.status = IF reason = "budget_exceeded" THEN reason ELSE "cancelled",
              !.endReason = reason, !.armed = FALSE]

\* Takes effect at the end of the turn: a pending wake-up is left armed.
pause(l) == IF isActive(l) THEN [l EXCEPT !.status = "pausing"] ELSE l

\* resume() and approve(); only an approval opens a new window of equal turns.
resume(l) ==
    IF l.status \in TERMINAL THEN l
    ELSE IF l.status = "awaiting_approval"
    THEN [l EXCEPT !.status = "running", !.streak = 0, !.lastFp = NoFingerprint]
    ELSE [l EXCEPT !.status = "running"]

setBudget(l, cap) == [l EXCEPT !.cap = cap]

markTurnStart(l) == [l EXCEPT !.armed = FALSE]

\* The `loop` field of the next round's message: no interval, cap or done_when travels in it.
nextPayloadOpts(l) ==
    [count |-> l.count, every |-> FALSE, cap |-> 0, done |-> FALSE, until |-> l.until]

---------------------------------------------------------------------------
(* The end of a turn. *)

accrued(l, out) == [l EXCEPT !.used = Upto(l.used + out.use, MaxUse)]

\* One more round: its meter readings, its number, and the run of equal fingerprints.
counted(l, out) ==
    [accrued(l, out) EXCEPT
        !.index = Upto(l.index + 1, MaxIndex),
        !.lastFp = out.fp,
        !.streak = IF out.fp = NoFingerprint THEN 0
                   ELSE IF out.fp = l.lastFp THEN Upto(l.streak + 1, Threshold) ELSE 1]

\* Mutant: one unit over the cap still passes.
overBudgetLate(l) == l.cap > 0 /\ l.used > l.cap + 1
overBudget(l) == l.cap > 0 /\ l.used > l.cap
noProgress(l) == l.streak >= Threshold
\* Mutant: an off-by-one ends the loop a round early.
roundsSpentEarly(l) == l.count > 0 /\ l.index + 1 >= l.count
roundsSpent(l) == l.count > 0 /\ l.index >= l.count

held(l) == [l EXCEPT !.armed = FALSE]
paused(l) == [l EXCEPT !.status = "paused", !.armed = FALSE]
escalated(l) == [l EXCEPT !.status = "awaiting_approval", !.endReason = "stalled", !.armed = FALSE]
finished(l, reason) == [l EXCEPT !.status = "done", !.endReason = reason, !.armed = FALSE]
rearmed(l) == [l EXCEPT !.armed = TRUE]

\* Mutant: the round number is not read back.
loadFromZero(d) == IF d.status \in TERMINAL THEN freshState ELSE [d EXCEPT !.index = 0]

\* --resume: what load() makes of the file; an ended loop is not restarted.
load(d) == IF d.status \in TERMINAL THEN freshState ELSE d
===========================================================================
