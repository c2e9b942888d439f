---------------------------- MODULE KernelLoop ----------------------------
(***************************************************************************)
(* One kernel process running one session's loop: the turn scheduler of    *)
(* kernel/cli.mjs (handleUser, handleLoopOp, the cancel request, the stdin *)
(* line handler), the loop controller it drives, the controller's file on  *)
(* disk, and crashes followed by a --resume restart.                       *)
(*                                                                         *)
(* JavaScript runs a callback to its next `await` without interruption, so *)
(* an action is the code from one await to the next.  A handler is one     *)
(* running handleUser call; its phase is the await it is suspended at:     *)
(*   "hook"    hooks.run('userPromptSubmit')                               *)
(*   "turn"    engine.runTurn                                              *)
(*   "verify"  loop.onTurnEnd, at the done_when verification               *)
(*   "judge"   loop.onTurnEnd, at the --until judgement                    *)
(***************************************************************************)
EXTENDS LoopController, Sequences

CONSTANTS
    Handlers,    \* identities for handleUser calls in flight
    Inputs,      \* the kinds of input the host may send, out of InputKinds
    BudgetCaps,  \* the caps `/loop budget` may set
    DiskFails,   \* may a write of the loop file fail?
    MaxInputs,   \* bound: inputs from the host
    MaxCrashes,  \* bound: crashes
    MaxQueue,    \* bound: the host sends nothing more to a queue of this length
    MaxPending   \* bound: the same for interjections

InputKinds == {"plain", "start", "next", "now", "text",
               "pause", "resume", "stop", "budget", "inject", "cancel"}

ASSUME HandlersAssumption == Handlers # {} /\ IsFiniteSet(Handlers)
ASSUME InputsAssumption == Inputs \subseteq InputKinds
ASSUME CapsAssumption == BudgetCaps \subseteq Nat
ASSUME DiskAssumption == DiskFails \in BOOLEAN
ASSUME RuntimeBoundAssumption ==
    /\ MaxInputs \in Nat /\ MaxCrashes \in Nat /\ MaxQueue \in Nat /\ MaxPending \in Nat

VARIABLES
    loop,        \* the controller's record
    disk,        \* the file loop/<sessionId>.json
    up,          \* the process is running
    turnActive,  \* state.turnActive
    cancelling,  \* state.cancelling
    queue,       \* state.queue
    pending,     \* engine's pendingNext: how many interjections wait
    phase,       \* [Handlers -> where each handleUser call is suspended]
    delay,       \* [Handlers -> the interval a "judge" await will arm with]
    timers,      \* setTimeout callbacks that will still deliver a round
    handle,      \* loopNextTimer refers to one of them
    resuming,    \* the setImmediate of a --resume start has not run
    halted,      \* history: cancelled, and no person has set a loop going since
    inputs,      \* inputs so far
    crashes      \* crashes so far

vars == <<loop, disk, up, turnActive, cancelling, queue, pending, phase, delay,
          timers, handle, resuming, halted, inputs, crashes>>

---------------------------------------------------------------------------
(* Messages *)

NoOpts == [count |-> 0, every |-> FALSE, cap |-> 0, done |-> FALSE, until |-> FALSE]
Plain == [kind |-> "plain", opts |-> NoOpts]
Text == [kind |-> "text", opts |-> NoOpts]   \* "/loop status" typed: answered, no turn
StartMsg(o) == [kind |-> "start", opts |-> o]
NextMsg(o) == [kind |-> "next", opts |-> o]
Message == [kind : {"plain", "text", "start", "next"}, opts : Opts]

Phase == {"idle", "hook", "turn", "verify", "judge"}

TypeOK ==
    /\ loop \in LoopState
    /\ disk \in LoopState
    /\ up \in BOOLEAN /\ turnActive \in BOOLEAN /\ cancelling \in BOOLEAN
    /\ queue \in Seq(Message)
    /\ pending \in Nat
    /\ phase \in [Handlers -> Phase]
    /\ delay \in [Handlers -> BOOLEAN]
    /\ timers \in Nat /\ handle \in BOOLEAN
    /\ resuming \in BOOLEAN
    /\ halted \in BOOLEAN
    /\ inputs \in 0..MaxInputs /\ crashes \in 0..MaxCrashes

Free == {h \in Handlers : phase[h] = "idle"}
InTurn(h) == phase[h] \in {"hook", "turn"}

Init ==
    /\ loop = freshState /\ disk = freshState
    /\ up = TRUE
    /\ turnActive = FALSE /\ cancelling = FALSE
    /\ queue = <<>> /\ pending = 0
    /\ phase = [h \in Handlers |-> "idle"]
    /\ delay = [h \in Handlers |-> FALSE]
    /\ timers = 0 /\ handle = FALSE
    /\ resuming = FALSE
    /\ halted = FALSE
    /\ inputs = 0 /\ crashes = 0

---------------------------------------------------------------------------
(* Building blocks *)

\* persist(): a write that fails is reported once and otherwise ignored.
Persist(l) == disk' = l \/ (DiskFails /\ disk' = disk)

\* Mutant: setting nextRunAt alone is not worth a write.
PersistUnlessArmed(l) == IF [l EXCEPT !.armed = loop.armed] = loop
                         THEN UNCHANGED disk ELSE Persist(l)

\* A record the code changed has been persisted; one it left alone was not written.  (The
\* code may also rewrite an unchanged record, which only matters after a failed write.)
PersistIfChanged(l) == IF l = loop THEN UNCHANGED disk ELSE Persist(l)

clearLoopNextTimer ==
    /\ timers' = IF handle THEN timers - 1 ELSE timers
    /\ handle' = FALSE

KeepTimer == UNCHANGED <<timers, handle>>

Payload(l) == NextMsg(nextPayloadOpts(l))

\* The first lines of handleUser: what a message does to the loop before its turn.
Entered(l, m) ==
    IF m.kind = "plain" THEN l
    ELSE IF ~isActive(l)
         THEN start(m.opts, IF m.kind = "start" THEN "user" ELSE "payload")
         ELSE markTurnStart(l)

\* handleUser(m) by h up to its first await, over a loop l and with q left in the queue;
\* `active` is state.turnActive as the call finds it.
Launch(h, m, l, q, active) ==
    LET l2 == IF m.kind = "text" THEN l ELSE Entered(l, m)
    IN  /\ loop' = l2
        /\ PersistIfChanged(l2)
        /\ queue' = q
        /\ phase' = [phase EXCEPT ![h] = IF m.kind = "text" THEN "idle" ELSE "hook"]
        /\ turnActive' = IF m.kind = "text" THEN active ELSE TRUE
        /\ halted' = (halted /\ m.kind # "start")

\* Nothing to launch: the loop and the queue are left as l and q.
Rest(h, l, q, active) ==
    /\ loop' = l
    /\ PersistIfChanged(l)
    /\ queue' = q
    /\ phase' = [phase EXCEPT ![h] = "idle"]
    /\ turnActive' = active
    /\ UNCHANGED halted

\* Mutant: the queue is not shifted.
ConcludeIdle(h, l, q, more, active) ==
    /\ pending' = 0
    /\ Rest(h, l, q \o [i \in 1..(pending + more) |-> Plain], active)

\* The tail of handleUser's finally: interjections that no tool boundary took up
\* join the queue, and its head is handled with no test of state.turnActive.
Conclude(h, l, q, more, active) ==
    LET all == q \o [i \in 1..(pending + more) |-> Plain]
    IN  /\ pending' = 0
        /\ IF all = <<>> THEN Rest(h, l, all, active)
                         ELSE Launch(h, Head(all), l, Tail(all), active)

Alive == up /\ UNCHANGED <<up, crashes>>

\* An input from the host: one more of at most MaxInputs.
Receive(kind) ==
    /\ Alive
    /\ kind \in Inputs
    /\ inputs < MaxInputs /\ inputs' = inputs + 1
    /\ Len(queue) < MaxQueue /\ pending < MaxPending
    /\ UNCHANGED resuming

---------------------------------------------------------------------------
(* Input: messages *)

\* A message without priority: queued behind a turn, else handled at once.
Say(m) ==
    /\ UNCHANGED <<cancelling, pending, delay>> /\ KeepTimer
    /\ \/ /\ turnActive
          /\ queue' = Append(queue, m)
          /\ UNCHANGED <<loop, disk, phase, turnActive, halted>>
       \/ /\ ~turnActive
          /\ \E h \in Free : Launch(h, m, loop, queue, FALSE)

UserPlain == Receive("plain") /\ Say(Plain)
UserText == Receive("text") /\ Say(Text)
UserStart == Receive("start") /\ \E o \in LoopOpts : Say(StartMsg(o))

\* priority 'next', or the answer to a pending question: taken up by the running turn.
UserInterjects ==
    /\ Receive("next")
    /\ turnActive
    /\ pending' = pending + 1
    /\ UNCHANGED <<loop, disk, turnActive, cancelling, queue, phase, delay, halted>>
    /\ KeepTimer

\* priority 'now': aborts the running turn, and replaces whatever was queued.
UserUrgent ==
    /\ Receive("now")
    /\ turnActive
    /\ cancelling' = TRUE
    /\ queue' = <<Plain>>
    /\ UNCHANGED <<loop, disk, turnActive, pending, phase, delay, halted>>
    /\ KeepTimer

---------------------------------------------------------------------------
(* Input: the loop commands and the stop button *)

LoopPause ==
    /\ Receive("pause")
    /\ clearLoopNextTimer
    /\ loop' = pause(loop)
    /\ IF isActive(loop) THEN Persist(pause(loop)) ELSE UNCHANGED disk
    /\ UNCHANGED <<turnActive, cancelling, queue, pending, phase, delay, halted>>

\* resume and approve: an active loop gets its next round delivered again.
LoopResume ==
    /\ Receive("resume")
    /\ clearLoopNextTimer
    /\ UNCHANGED <<cancelling, pending, delay>>
    /\ LET l == resume(loop)
           p == Payload(l)
       IN  \/ /\ ~isActive(loop)
              /\ loop' = l
              /\ PersistIfChanged(l)
              /\ halted' = (halted /\ loop.status \in TERMINAL)
              /\ UNCHANGED <<turnActive, queue, phase>>
           \/ /\ isActive(loop) /\ turnActive
              /\ loop' = l
              /\ PersistIfChanged(l)
              /\ queue' = <<p>> \o queue
              /\ UNCHANGED <<turnActive, phase, halted>>
           \/ /\ isActive(loop) /\ ~turnActive
              /\ \E h \in Free : Launch(h, p, l, queue, FALSE)

LoopStop ==
    /\ Receive("stop")
    /\ clearLoopNextTimer
    /\ loop' = stop(loop, "cancelled")
    /\ Persist(stop(loop, "cancelled"))
    /\ UNCHANGED <<turnActive, cancelling, queue, pending, phase, delay, halted>>

LoopBudget ==
    /\ Receive("budget")
    /\ \E c \in BudgetCaps :
         loop' = setBudget(loop, c) /\ Persist(setBudget(loop, c))
    /\ UNCHANGED <<turnActive, cancelling, queue, pending, phase, delay, halted>>
    /\ KeepTimer

LoopInject ==
    /\ Receive("inject")
    /\ pending' = pending + 1
    /\ Persist(loop)
    /\ UNCHANGED <<loop, turnActive, cancelling, queue, phase, delay, halted>>
    /\ KeepTimer

\* Mutant: what is queued stays queued.
CancelKeepsQueue ==
    /\ Receive("cancel")
    /\ clearLoopNextTimer
    /\ LET l == IF isActive(loop) THEN stop(loop, "cancelled") ELSE loop
       IN  loop' = l /\ PersistIfChanged(l)
    /\ pending' = 0
    /\ cancelling' = turnActive
    /\ halted' = TRUE
    /\ UNCHANGED <<queue, turnActive, phase, delay>>

\* control_request(cancel): ends the loop, aborts the turn, drops everything queued.
Cancel ==
    /\ Receive("cancel")
    /\ clearLoopNextTimer
    /\ LET l == IF isActive(loop) THEN stop(loop, "cancelled") ELSE loop
       IN  loop' = l /\ PersistIfChanged(l)
    /\ queue' = <<>>
    /\ pending' = 0
    /\ cancelling' = turnActive
    /\ halted' = TRUE
    /\ UNCHANGED <<turnActive, phase, delay>>

---------------------------------------------------------------------------
(* A turn *)

HookPasses(h) ==
    /\ Alive
    /\ phase[h] = "hook" /\ ~cancelling
    /\ phase' = [phase EXCEPT ![h] = "turn"]
    /\ UNCHANGED <<loop, disk, turnActive, cancelling, queue, pending, delay,
                   resuming, halted, inputs>>
    /\ KeepTimer

\* The running turn takes the interjections up at a tool boundary.
EngineAbsorbs ==
    /\ Alive
    /\ pending > 0 /\ \E h \in Handlers : phase[h] = "turn"
    /\ pending' = 0
    /\ UNCHANGED <<loop, disk, turnActive, cancelling, queue, phase, delay,
                   resuming, halted, inputs>>
    /\ KeepTimer

\* A turn is over: engine.runTurn settled, or the hook stopped the message, or a cancel
\* arrived during the hook.  The flags are cleared before the loop's decision.
TurnOver(h, out) ==
    /\ Alive
    /\ \/ phase[h] = "turn" /\ out \in Outcome
       \/ phase[h] = "hook" /\ out = NullOutcome
    /\ cancelling' = FALSE
    /\ UNCHANGED <<inputs, resuming>>

\* nextDecision() once the judge has agreed or there is none: arm the next round; an
\* interval leaves it to a timer, no interval puts it at the head of the queue.
Arm(h, l, wait, active) ==
    IF wait
    THEN /\ timers' = timers + 1 /\ handle' = TRUE
         /\ Conclude(h, rearmed(l), queue, 0, active)
    ELSE /\ KeepTimer
         /\ Conclude(h, rearmed(l), <<Payload(l)>> \o queue, 0, active)

\* nextDecision(): with --until, suspend at the judge first.
NextDecision(h, l, active) ==
    \/ /\ l.until
       /\ loop' = l /\ Persist(l)
       /\ phase' = [phase EXCEPT ![h] = "judge"]
       /\ delay' = [delay EXCEPT ![h] = l.every]
       /\ turnActive' = active
       /\ UNCHANGED <<queue, pending, halted>> /\ KeepTimer
    \/ /\ ~l.until
       /\ UNCHANGED delay
       /\ Arm(h, l, l.every, active)

TurnEndsOutsideLoop(h, out) ==
    /\ TurnOver(h, out)
    /\ ~isActive(loop)
    /\ UNCHANGED delay /\ KeepTimer
    /\ Conclude(h, loop, queue, 0, FALSE)

TurnEndsHeld(h, out) ==
    /\ TurnOver(h, out)
    /\ loop.status = "awaiting_approval"
    /\ UNCHANGED delay /\ KeepTimer
    /\ Conclude(h, held(accrued(loop, out)), queue, 0, FALSE)

TurnEndsPaused(h, out) ==
    /\ TurnOver(h, out)
    /\ loop.status = "pausing"
    /\ UNCHANGED delay /\ KeepTimer
    /\ Conclude(h, paused(counted(loop, out)), queue, 0, FALSE)

\* Mutant: a loop that is to pause is not told apart.
RoundOverUnpaused(h, out) ==
    TurnOver(h, out) /\ loop.status \in ActiveStatus \ {"awaiting_approval"}

\* The rest of onTurnEnd is for a loop that neither waits for a person nor pauses.
RoundOver(h, out) == TurnOver(h, out) /\ loop.status \in {"running", "verifying"}

TurnEndsOverBudget(h, out) ==
    /\ RoundOver(h, out)
    /\ overBudget(counted(loop, out))
    /\ UNCHANGED delay /\ KeepTimer
    /\ Conclude(h, stop(counted(loop, out), "budget_exceeded"), queue, 0, FALSE)

TurnEndsStalled(h, out) ==
    /\ RoundOver(h, out)
    /\ LET l == counted(loop, out)
       IN  /\ ~overBudget(l) /\ noProgress(l)
           /\ UNCHANGED delay /\ KeepTimer
           /\ \/ OnStall = "stop" /\ Conclude(h, stop(l, "no_progress"), queue, 0, FALSE)
              \/ OnStall # "stop" /\ Conclude(h, escalated(l), queue, 1, FALSE)

TurnEndsToVerify(h, out) ==
    /\ RoundOver(h, out)
    /\ LET l == counted(loop, out)
       IN  /\ ~overBudget(l) /\ ~noProgress(l) /\ l.done
           /\ loop' = [l EXCEPT !.status = "verifying"]
    /\ phase' = [phase EXCEPT ![h] = "verify"]
    /\ turnActive' = FALSE
    /\ UNCHANGED <<disk, queue, pending, delay, halted>> /\ KeepTimer

TurnEndsCompleted(h, out) ==
    /\ RoundOver(h, out)
    /\ LET l == counted(loop, out)
       IN  /\ ~overBudget(l) /\ ~noProgress(l) /\ ~l.done /\ roundsSpent(l)
           /\ UNCHANGED delay /\ KeepTimer
           /\ Conclude(h, finished(l, "completed"), queue, 0, FALSE)

TurnEndsNext(h, out) ==
    /\ RoundOver(h, out)
    /\ LET l == counted(loop, out)
       IN  /\ ~overBudget(l) /\ ~noProgress(l) /\ ~l.done /\ ~roundsSpent(l)
           /\ NextDecision(h, l, FALSE)

TurnEnds(h) ==
    \E out \in Outcome :
      \/ TurnEndsOutsideLoop(h, out) \/ TurnEndsHeld(h, out) \/ TurnEndsPaused(h, out)
      \/ TurnEndsOverBudget(h, out) \/ TurnEndsStalled(h, out)
      \/ TurnEndsToVerify(h, out) \/ TurnEndsCompleted(h, out) \/ TurnEndsNext(h, out)

\* The verifier answers.  The record it finds is the current one, whatever happened to
\* the loop since the await began, and the status is set back without a look at it.
VerifyReturns(h, passed) ==
    /\ Alive
    /\ phase[h] = "verify"
    /\ UNCHANGED <<cancelling, inputs, resuming>>
    /\ LET l == [loop EXCEPT !.status = "running"]
       IN  \/ /\ passed
              /\ UNCHANGED delay /\ KeepTimer
              /\ Conclude(h, finished(l, "verify_hit"), queue, 0, turnActive)
           \/ /\ ~passed /\ roundsSpent(l)
              /\ UNCHANGED delay /\ KeepTimer
              /\ Conclude(h, finished(l, "failed"), queue, 0, turnActive)
           \/ /\ ~passed /\ ~roundsSpent(l)
              /\ NextDecision(h, l, turnActive)

\* The judge answers "done", "error" or "go_on"; again on the current record.
JudgeReturns(h, answer) ==
    /\ Alive
    /\ phase[h] = "judge"
    /\ UNCHANGED <<cancelling, inputs, resuming, delay>>
    /\ \/ /\ answer = "done"
          /\ KeepTimer
          /\ Conclude(h, stop(loop, "until_hit"), queue, 0, turnActive)
       \/ /\ answer = "error"
          /\ KeepTimer
          /\ Conclude(h, stop(loop, "judge_error"), queue, 0, turnActive)
       \/ /\ answer = "go_on"
          /\ Arm(h, loop, delay[h], turnActive)

---------------------------------------------------------------------------
(* Timers, crashes, restarts *)

\* Mutant: no test of state.turnActive.
DeliverAtOnce == \E h \in Free : Launch(h, Payload(loop), loop, queue, FALSE)

\* Put the next round at the head of the queue and start it if no turn runs.
Deliver ==
    LET p == Payload(loop)
    IN  \/ /\ turnActive
          /\ queue' = <<p>> \o queue
          /\ UNCHANGED <<loop, disk, phase, turnActive, halted>>
       \/ /\ ~turnActive
          /\ \E h \in Free : Launch(h, p, loop, queue, FALSE)

\* The callback forgets loopNextTimer, whichever timer that refers to.
TimerFires ==
    /\ Alive
    /\ timers > 0
    /\ timers' = timers - 1 /\ handle' = FALSE
    /\ \/ loop.status # "running"
          /\ UNCHANGED <<loop, disk, queue, phase, turnActive, halted>>
       \/ loop.status = "running" /\ Deliver
    /\ UNCHANGED <<cancelling, pending, delay, resuming, inputs>>

\* The delivery a --resume start leaves to setImmediate.
ResumeDelivers ==
    /\ Alive
    /\ resuming /\ resuming' = FALSE
    /\ \/ loop.status # "running"
          /\ UNCHANGED <<loop, disk, queue, phase, turnActive, halted>>
       \/ loop.status = "running" /\ Deliver
    /\ UNCHANGED <<cancelling, pending, delay, inputs>> /\ KeepTimer

\* All that is not on disk is lost.
Crash ==
    /\ up /\ up' = FALSE
    /\ crashes < MaxCrashes /\ crashes' = crashes + 1
    /\ loop' = freshState
    /\ turnActive' = FALSE /\ cancelling' = FALSE
    /\ queue' = <<>> /\ pending' = 0
    /\ phase' = [h \in Handlers |-> "idle"]
    /\ delay' = [h \in Handlers |-> FALSE]
    /\ timers' = 0 /\ handle' = FALSE
    /\ resuming' = FALSE
    /\ UNCHANGED <<disk, halted, inputs>>

\* Mutant: a resumed loop is not delivered.
RestartSilently ==
    /\ ~up /\ up' = TRUE
    /\ loop' = load(disk)
    /\ resuming' = FALSE
    /\ UNCHANGED <<disk, turnActive, cancelling, queue, pending, phase, delay,
                   timers, handle, halted, inputs, crashes>>

\* The host starts the session again with --resume; only a running loop is delivered.
Restart ==
    /\ ~up /\ up' = TRUE
    /\ loop' = load(disk)
    /\ resuming' = (load(disk).status = "running")
    /\ UNCHANGED <<disk, turnActive, cancelling, queue, pending, phase, delay,
                   timers, handle, halted, inputs, crashes>>

---------------------------------------------------------------------------

HostInput ==
    \/ UserPlain \/ UserText \/ UserStart \/ UserInterjects \/ UserUrgent
    \/ LoopPause \/ LoopResume \/ LoopStop \/ LoopBudget \/ LoopInject \/ Cancel

HandlerStep(h) ==
    \/ HookPasses(h)
    \/ TurnEnds(h)
    \/ \E passed \in BOOLEAN : VerifyReturns(h, passed)
    \/ \E answer \in {"done", "error", "go_on"} : JudgeReturns(h, answer)

Next ==
    \/ HostInput
    \/ \E h \in Handlers : HandlerStep(h)
    \/ EngineAbsorbs
    \/ TimerFires \/ ResumeDelivers
    \/ Crash \/ Restart

Spec == Init /\ [][Next]_vars

\* What the surroundings owe the kernel: every await settles (the hook, the engine, the
\* verifier and the judge all have time limits), a timer fires, and the host starts a
\* dead kernel again.  The host owes no input, and nothing makes a crash happen.
Fairness ==
    /\ \A h \in Handlers : WF_vars(HandlerStep(h))
    /\ WF_vars(TimerFires) /\ WF_vars(ResumeDelivers) /\ WF_vars(Restart)

FairSpec == Spec /\ Fairness

---------------------------------------------------------------------------
(* Safety *)

\* One turn at a time: no two handleUser calls are between their first line and the end
\* of engine.runTurn, and turnActive says whether one is.  The transcript, the engine's
\* abort flag and its tool state are shared by all calls.
SingleTurn ==
    /\ \A g, h \in Handlers : InTurn(g) /\ InTurn(h) => g = h
    /\ turnActive <=> \E h \in Handlers : InTurn(h)

\* A wake-up is armed only in a loop that runs, or that runs until its turn ends: the
\* host's supervisor wakes whatever file has one.
ArmedIsPending == loop.armed => loop.status \in {"running", "pausing"}

\* A crash loses nothing of the loop: what load() would make of the file is what it would
\* make of the live record.  Only during a verification is the file a round behind.
RestartLosesNothing ==
    (up /\ \A h \in Handlers : phase[h] # "verify") => load(disk) = load(loop)

\* The stop button is final: after a cancel, only a person sets a loop going again.
CancelIsFinal == halted => ~isActive(loop)

\* A loop is only ever started by a person's message, never by a round of an earlier loop
\* that was still queued when that loop ended.
NoSelfRestart == loop.by = "user"

\* A loop that is done for its round count has one and has spent it, whichever handler's
\* turn, verification or restart ended it.
EndIsEarned ==
    (loop.status = "done" /\ loop.endReason \in {"completed", "failed"}) =>
        loop.count > 0 /\ loop.index >= loop.count

\* A loop that goes on after a round has budget, rounds and progress left: the three
\* short circuits come before the next round, in whatever order turns and commands fall.
GoesOnWithinLimits ==
    [][(loop'.index # loop.index /\ loop'.status = "running" /\ up) =>
         /\ loop'.cap > 0 => loop'.used <= loop'.cap
         /\ loop'.count > 0 => loop'.index < loop'.count
         /\ loop'.streak < Threshold]_vars

Quiet == up' /\ inputs' = inputs

LoopMessageWaits ==
    resuming \/ \E i \in DOMAIN queue : queue[i].kind \in {"start", "next"}

\* A loop that waits for a person goes on waiting: a person's input or a crash moves one that
\* waits for approval, and nothing else; a pause, once requested, is undone besides only by a
\* loop's message that was already waiting, but by no timer, turn end or interjection.
WaitsForPerson ==
    [][Quiet =>
         /\ loop.status = "awaiting_approval" => loop'.status = "awaiting_approval"
         /\ loop.status \in {"pausing", "paused"} /\ ~LoopMessageWaits =>
              loop'.status \in {"pausing", "paused"}]_vars

---------------------------------------------------------------------------
(* Liveness *)

\* A loop with a round count comes to rest: it ends, or waits for a person.
CountedLoopRests ==
    (loop.status = "running" /\ loop.count > 0) ~> (loop.status # "running" /\ up)

\* Every queued message is taken up or dropped.
QueueDrains == (queue # <<>>) ~> (queue = <<>>)

\* A resumed loop goes on: it does not stay in "running" with no turn, no timer and no
\* message that would ever start one.
ResumeGoesOn ==
    (loop.status = "running") ~>
        \/ loop.status # "running"
        \/ turnActive \/ timers > 0
===========================================================================
