----------------------------- MODULE EngineTurn -----------------------------
(***************************************************************************)
(* One turn of the engine (runTurnInternal): iterations of guards, request,*)
(* stream, tool calls and questions, until the turn ends.  The guards of   *)
(* loop-core.mjs either heal a bad turn, by an injected instruction and    *)
(* another iteration, or stop it.  Beside the engine act the clock, the    *)
(* user (answers, approvals, cancel) and the upstream.                     *)
(*                                                                         *)
(* A step of the model is the code between two awaits.  What the model     *)
(* says is reduced to what the guards ask of it, a batch of tool results   *)
(* to the kinds of results in it, time to ticks, output budgets to tiers.  *)
(***************************************************************************)
EXTENDS Integers

CONSTANTS
  Knobs,        \* the settings of the guards a process may run with
  Top,          \* the highest output tier; 0 is the floor of 2048 tokens
  MaxCalls      \* most tool calls in one reply

\* A budget of -1 is unlimited where the guard says so; 0 switches it off.
KnobSet == [tokens: 0..Top, stallAfter: Nat, turnTime: Nat, iterations: Nat, stallHeal: Int,
            streak: Int, errors: Nat, meltdownHeal: Int, repeatHeal: Int,
            idleHeal: Int, deadRetry: Nat, upstreamHeal: Nat,
            continueHeal: Int, injects: Nat, overflow: Nat]

ASSUME BoundsAssumption == Top \in Nat /\ MaxCalls \in Nat \ {0}
ASSUME KnobsAssumption == Knobs \subseteq KnobSet

VARIABLES
  knobs,       \* the settings of this process
  pc,          \* where the turn is suspended
  used,        \* the counters the guards compare with their budgets
  idle,        \* ticks since the later of lastProgressAt and lastActivityAt
  elapsed,     \* ticks since turnT0
  data,        \* attemptData: this request has produced something
  stop,        \* loopStop.reason, "none" when null
  healedLast,  \* healedLastIter
  hadError,    \* hadToolError
  left, batch, asks, \* calls still to run, kinds of results so far, a question asked beside them
  tier,        \* attemptMaxTokens
  aborted,     \* signal.aborted
  open,        \* a tool_use is in the transcript without its tool_result
  outcome,     \* how the turn ended
  isError      \* what runTurn reports of it

\* History: what really happened, counted apart from the code's own counters.
VARIABLES
  quietStalls, \* stall instructions since the last real progress
  failRun,     \* batches that failed entirely, in a row
  deadRun,     \* empty streams in a row
  silentTrips, \* requests that hung without a single chunk
  moved        \* the last batch put the stall timer back

step == <<data, left, batch, asks>>
marks == <<stop, healedLast, hadError>>
ends == <<outcome, isError>>
seen == <<quietStalls, failRun, deadRun, silentTrips, moved>>
vars == <<knobs, pc, used, idle, elapsed, step, marks, tier, aborted, open, ends, seen>>

Counters == {"iter", "stall", "streak", "errors", "meltdown", "repeat", "idle",
             "dead", "upstream", "continue", "inject", "overflow", "tiny", "empty"}
Places == {"head", "request", "stream", "tools", "approval", "ask", "askMid", "ended"}
Reasons == {"none", "timeout", "stall", "repeat", "idle", "upstream", "config", "meltdown"}
Outcomes == {"none", "normal", "stopped", "capped", "aborted", "failed", "gaveUp"}
Results == {"progress", "measured", "failed", "timeout"}

Tones == {"none", "plain", "closed", "plan", "think"}
\* What the engine asks of a reply: the text beside calls is only looked through
\* for a question, thoughts count where there is no text.
Replies ==
  {r \in [calls: 0..MaxCalls, tone: Tones, asks: BOOLEAN, truncated: BOOLEAN, thought: BOOLEAN] :
     /\ r.calls > 0 => r.tone = "plain"
     /\ r.thought => r.tone = "none"
     /\ r.asks => r.tone # "none"}

\* A limit that only a comparison reads need not be counted past it.
UpTo(n, max) == IF n < max THEN n + 1 ELSE n
\* Mutant: the last attempt of a budget is not granted.
HasBudgetShort(n, max) == max < 0 \/ n + 1 < max
HasBudget(n, max) == max < 0 \/ n < max
Spend(c, max) == [used EXCEPT ![c] = UpTo(@, max)]

Init ==
  /\ knobs \in Knobs
  /\ pc = "head"
  /\ used = [c \in Counters |-> 0]
  /\ idle = 0 /\ elapsed = 0
  /\ data = FALSE /\ left = 0 /\ batch = {} /\ asks = FALSE
  /\ stop = "none" /\ healedLast = FALSE /\ hadError = FALSE
  /\ tier = knobs.tokens
  /\ aborted = FALSE /\ open = FALSE
  /\ outcome = "none" /\ isError = FALSE
  /\ quietStalls = 0 /\ failRun = 0 /\ deadRun = 0 /\ silentTrips = 0
  /\ moved = FALSE

-----------------------------------------------------------------------------
(* The end of a turn.  runTurn reports an error only for what was thrown:  *)
(* the isError of the turn's own result is not among the fields it takes.  *)

Finish(how) ==
  /\ pc' = "ended"
  /\ outcome' = how
  /\ isError' = (how = "failed")

Stop(reason) == stop' = reason /\ Finish("stopped")

GoOn == pc' = "head" /\ UNCHANGED ends

-----------------------------------------------------------------------------
(* Head of an iteration: wall clock, iteration cap, stall; then pre-step.  *)

late == knobs.turnTime > 0 /\ elapsed >= knobs.turnTime
capped == knobs.iterations > 0 /\ used["iter"] >= knobs.iterations
\* Mutant: no guard on batches that all time out.
streakHitNever == FALSE
streakHit == knobs.streak > 0 /\ used["streak"] >= knobs.streak
stalled == knobs.stallAfter > 0 /\ idle >= knobs.stallAfter

counted == [used EXCEPT !["iter"] = UpTo(@, knobs.iterations)]

WallClock ==
  /\ pc = "head" /\ late
  /\ Stop("timeout")
  /\ UNCHANGED <<knobs, used, idle, elapsed, step, healedLast, hadError, tier, aborted, open, seen>>

IterCap ==
  /\ pc = "head" /\ ~late /\ capped
  /\ Finish("capped")
  /\ UNCHANGED <<knobs, used, idle, elapsed, step, marks, tier, aborted, open, seen>>

Stall ==
  /\ pc = "head" /\ ~late /\ ~capped
  /\ streakHit \/ stalled
  /\ \/ /\ used["stall"] < knobs.stallHeal
        /\ used' = [counted EXCEPT !["stall"] = @ + 1,
                                   !["streak"] = IF streakHit THEN 0 ELSE @]
        /\ idle' = 0
        /\ quietStalls' = quietStalls + 1
        /\ GoOn
        /\ UNCHANGED stop
     \/ /\ used["stall"] >= knobs.stallHeal
        /\ Stop("stall")
        /\ UNCHANGED <<used, idle, quietStalls>>
  /\ UNCHANGED <<knobs, elapsed, step, healedLast, hadError, tier, aborted, open, failRun, deadRun, silentTrips, moved>>

\* A clean iteration gives the repeat guard its budget back; the pre-step may
\* compact, and clamps the output budget to what the window leaves.
PreStep ==
  /\ pc = "head" /\ ~late /\ ~capped /\ ~streakHit /\ ~stalled
  /\ used' = [counted EXCEPT !["repeat"] = IF healedLast THEN @ ELSE 0]
  /\ healedLast' = FALSE
  /\ tier' \in 0..tier
  /\ pc' = "request"
  /\ UNCHANGED <<knobs, idle, elapsed, step, stop, hadError, aborted, open, ends, seen>>

\* The request goes out; under an aborted signal it is refused at once.
Request ==
  /\ pc = "request"
  /\ data' = FALSE
  /\ moved' = FALSE
  /\ IF aborted THEN Finish("aborted") ELSE pc' = "stream" /\ UNCHANGED ends
  /\ UNCHANGED <<knobs, used, idle, elapsed, left, batch, asks, marks, tier,
                 aborted, open, quietStalls, failRun, deadRun, silentTrips>>

-----------------------------------------------------------------------------
(* The stream.  The first chunk is what matters of the chunks; the guards  *)
(* inside the stream set loopStop and break the request off.               *)

Chunk ==
  /\ pc = "stream" /\ ~aborted /\ ~data
  /\ data' = TRUE
  /\ used' = [used EXCEPT !["upstream"] = 0]
  /\ deadRun' = 0
  /\ UNCHANGED <<knobs, pc, idle, elapsed, left, batch, asks, marks, tier, aborted, open, ends, quietStalls, failRun, silentTrips, moved>>

InStreamGuard(reason) ==
  /\ pc = "stream" /\ ~aborted /\ data /\ stop = "none"
  /\ reason = "timeout" => late
  /\ stop' = reason
  /\ UNCHANGED <<knobs, pc, used, idle, elapsed, step, healedLast, hadError,
                 tier, aborted, open, ends, seen>>

\* Mutant: a stop set by a guard hides the cancel.
StreamAbortedUnlessStopped ==
  /\ pc = "stream" /\ aborted /\ stop = "none"
  /\ Finish("aborted")
  /\ UNCHANGED <<knobs, used, idle, elapsed, step, marks, tier, aborted, open, seen>>

\* A cancel goes before everything else a broken stream could mean.
StreamAborted ==
  /\ pc = "stream" /\ aborted
  /\ Finish("aborted")
  /\ UNCHANGED <<knobs, used, idle, elapsed, step, marks, tier, aborted, open, seen>>

\* Degenerate text is dropped and the model told to get on; any other stop ends the turn.
StreamStopped ==
  /\ pc = "stream" /\ ~aborted /\ stop # "none"
  /\ IF stop = "repeat" /\ HasBudget(used["repeat"], knobs.repeatHeal)
     THEN /\ used' = Spend("repeat", knobs.repeatHeal)
          /\ healedLast' = TRUE
          /\ stop' = "none"
          /\ GoOn
     ELSE /\ Finish("stopped")
          /\ UNCHANGED <<used, healedLast, stop>>
  /\ UNCHANGED <<knobs, idle, elapsed, step, hadError, tier, aborted, open, seen>>

Broken == pc = "stream" /\ ~aborted /\ stop = "none"

\* The idle watchdog broke the stream off: again, if nothing had come; from
\* where it stopped, what has come being kept; or the end.
IdleTrips ==
  /\ Broken
  /\ silentTrips' = IF data THEN silentTrips ELSE UpTo(silentTrips, knobs.deadRetry + 1)
  /\ \/ /\ ~data /\ used["dead"] < knobs.deadRetry
        /\ used' = Spend("dead", knobs.deadRetry)
        /\ GoOn
        /\ UNCHANGED stop
     \/ /\ data /\ HasBudget(used["idle"], knobs.idleHeal)
        /\ used' = Spend("idle", knobs.idleHeal)
        /\ GoOn
        /\ UNCHANGED stop
     \/ /\ IF data THEN ~HasBudget(used["idle"], knobs.idleHeal)
                  ELSE used["dead"] >= knobs.deadRetry
        /\ Stop(IF data THEN "idle" ELSE "upstream")
        /\ UNCHANGED used
  /\ UNCHANGED <<knobs, idle, elapsed, step, healedLast, hadError, tier, aborted, open, quietStalls, failRun, deadRun, moved>>

\* The request was taken but nothing came of it.
DeadStream ==
  /\ Broken /\ ~data
  /\ deadRun' = UpTo(deadRun, knobs.upstreamHeal + 1)
  /\ \/ /\ used["upstream"] < knobs.upstreamHeal
        /\ used' = Spend("upstream", knobs.upstreamHeal)
        /\ GoOn
        /\ UNCHANGED stop
     \/ /\ used["upstream"] >= knobs.upstreamHeal
        /\ Stop("upstream")
        /\ UNCHANGED used
  /\ UNCHANGED <<knobs, idle, elapsed, step, healedLast, hadError, tier, aborted, open, quietStalls, failRun, silentTrips, moved>>

\* model-not-found and tools-unsupported stop the turn; what the engine does
\* not know is thrown, and caught by runTurn.
ConfigError ==
  /\ Broken /\ ~data
  /\ Stop("config")
  /\ UNCHANGED <<knobs, used, idle, elapsed, step, healedLast, hadError, tier, aborted, open, seen>>

UnknownError ==
  /\ Broken
  /\ Finish("failed")
  /\ UNCHANGED <<knobs, used, idle, elapsed, step, marks, tier, aborted, open, seen>>

TinyLandings == 3

\* The request does not fit the window: a real compaction, else a trimmed
\* copy, a smaller output budget, a hard-fitted copy, or giving the turn up.
\* Each retry counts against one budget that is never given back.
WindowExceeded ==
  /\ Broken /\ ~data
  /\ LET out == knobs.overflow > 0 /\ used["overflow"] >= knobs.overflow
         landings == IF ~out /\ used["tiny"] < TinyLandings
                     THEN {"none", "tiny", "real"} ELSE {"none"}
     IN \E landing \in landings, lower \in 0..tier, trims \in BOOLEAN, fits \in BOOLEAN :
          LET tiny == CASE landing = "none" -> used["tiny"]
                        [] landing = "tiny" -> used["tiny"] + 1
                        [] landing = "real" -> 0
              landed == landing = "real" \/ (landing = "tiny" /\ tiny < TinyLandings /\ trims)
              shrunk == ~out /\ (lower < tier \/ trims \/ fits)
          IN /\ tier' = lower
             /\ IF landed \/ shrunk
                THEN /\ used' = [used EXCEPT !["tiny"] = tiny,
                                            !["overflow"] = UpTo(@, knobs.overflow)]
                     /\ GoOn
                ELSE /\ used' = [used EXCEPT !["tiny"] = tiny]
                     /\ Finish("gaveUp")
  /\ UNCHANGED <<knobs, idle, elapsed, step, marks, aborted, open, seen>>

-----------------------------------------------------------------------------
(* A reply has come whole.  The first case that fits decides.              *)

injectsLeft == used["inject"] < knobs.injects

Disposition(r) ==
  IF r.calls = 0 /\ r.tone = "none" /\ r.truncated /\ r.thought THEN "empty"
  ELSE IF r.calls > 0 THEN IF r.truncated THEN "cutCalls" ELSE "calls"
  ELSE IF r.truncated /\ r.tone # "none" /\ used["continue"] < knobs.continueHeal
          /\ tier < Top THEN "continue"
  ELSE IF injectsLeft /\ (\/ hadError /\ r.tone # "closed"
                          \/ r.tone \in {"plan", "think"}) THEN "inject"
  ELSE IF r.asks THEN "ask" ELSE "done"

Whole(r, what) == Broken /\ data /\ Disposition(r) = what

\* Nothing but thoughts, cut off: once with the other protocol, else an error.
EmptyReply(r) ==
  /\ Whole(r, "empty")
  /\ \/ /\ used["empty"] = 0
        /\ used' = Spend("empty", 1)
        /\ GoOn
     \/ /\ Finish("failed")
        /\ UNCHANGED used
  /\ UNCHANGED <<knobs, idle, elapsed, step, marks, tier, aborted, open, seen>>

\* Calls whose arguments may be cut off are not run but answered with errors.
CutCalls(r) ==
  /\ Whole(r, "cutCalls")
  /\ GoOn
  /\ UNCHANGED <<knobs, used, idle, elapsed, step, marks, tier, aborted, open, seen>>

\* Text that was cut off is kept and continued with the next larger budget.
Continue(r) ==
  /\ Whole(r, "continue")
  /\ used' = Spend("continue", knobs.continueHeal)
  /\ tier' = tier + 1
  /\ GoOn
  /\ UNCHANGED <<knobs, idle, elapsed, step, marks, aborted, open, seen>>

\* The model stopped at an error, a plan or a thought: the text is dropped.
Inject(r) ==
  /\ Whole(r, "inject")
  /\ used' = Spend("inject", knobs.injects)
  /\ GoOn
  /\ UNCHANGED <<knobs, idle, elapsed, step, marks, tier, aborted, open, seen>>

AskUser(r) ==
  /\ Whole(r, "ask")
  /\ pc' = "ask"
  /\ UNCHANGED <<knobs, used, idle, elapsed, step, marks, tier, aborted, open, ends, seen>>

Done(r) ==
  /\ Whole(r, "done")
  /\ Finish("normal")
  /\ UNCHANGED <<knobs, used, idle, elapsed, step, marks, tier, aborted, open, seen>>

CallTools(r) ==
  /\ Whole(r, "calls")
  /\ pc' = "tools" /\ left' = r.calls /\ batch' = {} /\ asks' = r.asks
  /\ open' = TRUE
  /\ UNCHANGED <<knobs, used, idle, elapsed, data, marks, tier, aborted,
                 ends, seen>>

-----------------------------------------------------------------------------
(* Tool calls, one after another; a call may first wait for an approval.   *)

\* Mutant: a call that is aborted throws out of the turn.
CallEndsOrThrows ==
  /\ pc = "tools" /\ left > 0
  /\ IF aborted THEN Finish("aborted") ELSE UNCHANGED <<pc, ends>>
  /\ \E k \in Results : batch' = batch \cup {k}
  /\ left' = left - 1
  /\ UNCHANGED <<knobs, used, idle, elapsed, data, asks, marks, tier, aborted, open, seen>>

CallEnds ==
  /\ pc = "tools" /\ left > 0
  /\ \E k \in Results : batch' = batch \cup {k}
  /\ left' = left - 1
  /\ UNCHANGED <<knobs, pc, used, idle, elapsed, data, asks, marks, tier, aborted, open, ends, seen>>

AskApproval ==
  /\ pc = "tools" /\ left > 0
  /\ pc' = "approval"
  /\ UNCHANGED <<knobs, used, idle, elapsed, step, marks, tier, aborted, open, ends, seen>>

\* Allowed, the call runs and ends somehow; denied or timed out, it failed.
ApprovalEnds ==
  /\ pc = "approval"
  /\ pc' = "tools"
  /\ \E k \in Results : batch' = batch \cup {k}
  /\ left' = left - 1
  /\ UNCHANGED <<knobs, used, idle, elapsed, data, asks, marks, tier, aborted, open, ends, seen>>

isRealProgress == "progress" \in batch
hasActiveWait == "timeout" \in batch
allToolsTimedOut == batch = {"timeout"}
allToolResultsFailed == batch \subseteq {"failed", "timeout"}

\* Streaks and timers after a batch.  A success gives the meltdown guard its
\* budget back, progress the stall guard; a timeout only the activity timer.
afterBatch ==
  [used EXCEPT
     !["errors"] = IF allToolResultsFailed THEN UpTo(@, knobs.errors) ELSE 0,
     !["meltdown"] = IF allToolResultsFailed THEN @ ELSE 0,
     !["streak"] = IF allToolsTimedOut THEN UpTo(@, knobs.streak)
                   ELSE IF isRealProgress THEN 0 ELSE @,
     !["stall"] = IF isRealProgress THEN 0 ELSE @]

\* The results are in the transcript; the meltdown guard comes before a
\* question the model asked beside its calls.
BatchDone ==
  /\ pc = "tools" /\ left = 0
  /\ open' = FALSE
  /\ hadError' = (batch \cap {"failed", "timeout"} # {})
  /\ idle' = IF isRealProgress \/ hasActiveWait THEN 0 ELSE idle
  /\ batch' = {} /\ asks' = FALSE
  /\ failRun' = IF allToolResultsFailed
                THEN UpTo(failRun, knobs.errors * (1 + knobs.meltdownHeal)) ELSE 0
  /\ quietStalls' = IF isRealProgress THEN 0 ELSE quietStalls
  /\ moved' = (isRealProgress \/ (hasActiveWait /\ ~allToolsTimedOut))
  /\ LET melts == knobs.errors > 0 /\ afterBatch["errors"] >= knobs.errors
         heals == HasBudget(afterBatch["meltdown"], knobs.meltdownHeal)
     IN \/ /\ melts /\ heals
           /\ used' = [afterBatch EXCEPT !["errors"] = 0,
                                         !["meltdown"] = UpTo(@, knobs.meltdownHeal)]
           /\ GoOn
           /\ UNCHANGED stop
        \/ /\ melts /\ ~heals
           /\ used' = afterBatch
           /\ Stop("meltdown")
        \/ /\ ~melts
           /\ used' = afterBatch
           /\ pc' = IF asks THEN "askMid" ELSE "head"
           /\ UNCHANGED <<stop, ends>>
  /\ UNCHANGED <<knobs, elapsed, data, left, healedLast, tier, aborted,
                 deadRun, silentTrips>>

-----------------------------------------------------------------------------
(* The user and the clock.                                                 *)

\* waitForAnswer gave up: a turn of text alone ends, one with calls goes on.
AskTimesOut ==
  /\ \/ pc = "ask" /\ Finish("normal")
     \/ pc = "askMid" /\ GoOn
  /\ UNCHANGED <<knobs, used, idle, elapsed, step, marks, tier, aborted, open, seen>>

\* queueNext while the engine waits: the message answers the question.  (At other
\* times it waits in pendingNext, which KernelLoop models.)
Answer ==
  /\ pc \in {"ask", "askMid"} /\ GoOn
  /\ UNCHANGED <<knobs, used, idle, elapsed, step, marks, tier, aborted, open, seen>>

\* abort and hardStop: every waiter is released and the signal set.
Cancel ==
  /\ pc # "ended"
  /\ aborted' = TRUE
  /\ IF pc = "approval" THEN pc' = "tools" /\ left' = left - 1 /\ batch' = batch \cup {"failed"}
                        ELSE UNCHANGED <<left, batch>>
  /\ IF pc \in {"ask", "askMid"} THEN Finish("aborted")
     ELSE UNCHANGED ends /\ (pc # "approval" => UNCHANGED pc)
  /\ UNCHANGED <<knobs, used, idle, elapsed, data, asks, marks, tier, open, seen>>

Tick ==
  /\ pc # "ended"
  /\ idle' = UpTo(idle, knobs.stallAfter)
  /\ elapsed' = UpTo(elapsed, knobs.turnTime)
  /\ UNCHANGED <<knobs, pc, used, step, marks, tier, aborted, open, ends, seen>>

-----------------------------------------------------------------------------
Head == WallClock \/ IterCap \/ Stall \/ PreStep
Fails == IdleTrips \/ DeadStream \/ ConfigError \/ UnknownError \/ WindowExceeded
Replied == Broken /\ data /\ \E r \in Replies :
  EmptyReply(r) \/ CutCalls(r) \/ Continue(r) \/ Inject(r) \/ AskUser(r) \/ Done(r) \/ CallTools(r)
Stream == \/ Chunk \/ (\E g \in {"timeout", "repeat"} : InStreamGuard(g))
          \/ StreamAborted \/ StreamStopped \/ Fails \/ Replied
Tools == CallEnds \/ AskApproval \/ ApprovalEnds \/ BatchDone
Engine == Head \/ Request \/ Stream \/ Tools \/ AskTimesOut
User == Answer \/ Cancel

\* An ended turn stays ended: the next one begins from Init.
Ended == pc = "ended" /\ UNCHANGED vars

Next == Engine \/ User \/ Tick \/ Ended
Spec == Init /\ [][Next]_vars
FairSpec == Spec /\ WF_vars(Engine) /\ WF_vars(Tick)

-----------------------------------------------------------------------------
(* Properties.                                                             *)

\* Every variable keeps its type.
TypeOK ==
  /\ knobs \in Knobs
  /\ pc \in Places
  /\ used \in [Counters -> Nat]
  /\ idle \in Nat /\ elapsed \in Nat
  /\ data \in BOOLEAN /\ left \in 0..MaxCalls /\ batch \subseteq Results /\ asks \in BOOLEAN
  /\ stop \in Reasons /\ healedLast \in BOOLEAN /\ hadError \in BOOLEAN
  /\ tier \in 0..Top
  /\ aborted \in BOOLEAN /\ open \in BOOLEAN
  /\ outcome \in Outcomes /\ isError \in BOOLEAN
  /\ quietStalls \in Nat /\ failRun \in Nat /\ deadRun \in Nat /\ silentTrips \in Nat
  /\ moved \in BOOLEAN

\* A turn without real progress is told to get on at most STALL_HEAL_MAX times:
\* waiting for slow tools postpones the stall guard but never renews its budget
\* (loop-core.mjs, guardStall and guardProgressRefresh).
StallBudgetHolds == quietStalls > 0 => quietStalls <= knobs.stallHeal

\* A guard that ends a turn has the history to show for it: the stall guard a
\* spent budget without progress since, the meltdown guard as many failed
\* batches in a row as its budget and its threshold allow together, the upstream
\* guard empty streams in a row or silent requests beyond their retries.
StopIsEarned ==
  /\ stop = "stall" => quietStalls >= knobs.stallHeal
  /\ stop = "meltdown" => failRun >= knobs.errors * (1 + knobs.meltdownHeal)
  /\ stop = "upstream" => deadRun > knobs.upstreamHeal \/ silentTrips > knobs.deadRetry

\* However a turn ends, the calls it put into the transcript have their results
\* there: the next request is not refused for an open tool_use.
CallsAnswered == open => pc \in {"tools", "approval"}

\* What bounds a turn without limits on time and iterations: once tools stop
\* putting the stall timer back, the turn ends, whatever the model, the
\* upstream and the user do.
EndsWithoutProgress == <>[](~moved) => <>(pc = "ended")

\* A cancelled turn ends, healing guards or not.
CancelEnds == aborted ~> pc = "ended"

-----------------------------------------------------------------------------
(* What the code says of itself and does not keep.                         *)

\* engine.mjs says of rejectAllWaiters that it releases every wait on cancel, so
\* that the stop button does not have to sit out a timeout.
CancelFreesWaits == aborted => pc \notin {"approval", "ask", "askMid"}

\* The comment at the give-up return says that runTurn takes isError from it.
GiveUpIsError == outcome = "gaveUp" => isError

\* guards.mjs says that a timeout must not become an endless delay, and
\* engine-config.mjs that the stall guard is the safety net of unlimited
\* healing: a turn in which no call succeeds any more ends.
FailingTurnEnds == <>[](batch \subseteq {"failed", "timeout"}) => <>(pc = "ended")
=============================================================================
