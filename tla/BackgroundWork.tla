--------------------------- MODULE BackgroundWork ---------------------------
(***************************************************************************)
(* Sub-agents and their callers: the turn of the main agent that           *)
(* dispatches, stops and resumes them, the lanes that end when they like,  *)
(* the wake-up that starts a turn when background work completes while     *)
(* nothing goes on (kernel/cli.mjs, kernel/auto-wake.mjs), the stop        *)
(* button, and the registry by which a new process is to find the tasks    *)
(* of a dead one (kernel/subagent-resume.mjs).                             *)
(*                                                                         *)
(* KernelLoop models the queue of messages and the turns in full; here a   *)
(* turn is idle, working or being cancelled, all messages are alike, and   *)
(* there is no loop.  A step is the code between two awaits.               *)
(***************************************************************************)
EXTENDS SubAgents

CONSTANTS
    AUTO_WAKE_MAX,   \* wake-ups in a row, without a message that begins a turn between them
    MaxAttempts,     \* PONOS_SUBAGENT_RESUME_MAX_ATTEMPTS
    MaxInputs,       \* bound: messages and cancels
    MaxResumes,      \* bound: resumed tasks
    MaxCrashes       \* bound: ends of the process

ASSUME WakeAssumption == AUTO_WAKE_MAX \in Nat
ASSUME AttemptsAssumption == MaxAttempts \in Nat
ASSUME InputsAssumption == MaxInputs \in Nat /\ MaxResumes \in Nat /\ MaxCrashes \in Nat

VARIABLES
    pool,        \* see SubAgents
    up,          \* a process lives
    turn,        \* state.turnActive, and whether its signal is aborted
    calls,       \* Agent calls of the turn that are still to be answered
    queueLen,    \* messages of the user that wait for the turn to end
    wakeBuf,     \* completions noted for the next wake-up
    wakeTimer,   \* the merge window is open
    wakeUsed,    \* wake-ups since the last turn for a message
    registry,    \* the registry file, folded: what it says of each task
    attempts,    \* and how often the task was claimed
    \* history
    wakes,       \* turns that wake-ups have begun, in the life of all processes
    told,        \* background tasks whose completion the main agent has been given
    used         \* inputs, resumes and crashes so far

vars == <<pool, up, turn, calls, queueLen, wakeBuf, wakeTimer, wakeUsed, registry,
          attempts, wakes, told, used>>

Saved == {"none", "running", "interrupted", "failed"}

TypeOK ==
    /\ pool \in Pool
    /\ up \in BOOLEAN /\ wakeTimer \in BOOLEAN
    /\ turn \in {"idle", "working", "cancelling"}
    /\ calls \subseteq Tasks /\ wakeBuf \subseteq Tasks
    /\ queueLen \in Nat /\ wakeUsed \in Nat /\ wakes \in Nat
    /\ registry \in [Tasks -> Saved] /\ attempts \in [Tasks -> Nat]
    /\ told \subseteq Tasks
    /\ used \in [inputs : Nat, resumes : Nat, crashes : Nat]

Init ==
    /\ pool \in {freshPool(n) : n \in Limits}
    /\ up = TRUE /\ turn = "idle" /\ calls = {} /\ queueLen = 0
    /\ wakeBuf = {} /\ wakeTimer = FALSE /\ wakeUsed = 0
    /\ registry = [t \in Tasks |-> "none"] /\ attempts = [t \in Tasks |-> 0]
    /\ wakes = 0 /\ told = {}
    /\ used = [inputs |-> 0, resumes |-> 0, crashes |-> 0]

Waking == <<wakeBuf, wakeTimer, wakeUsed, wakes>>
OnDisk == <<registry, attempts>>
Alive == up /\ UNCHANGED up

---------------------------------------------------------------------------
(* Messages and turns *)

\* A turn for a message begins: the budget of wake-ups is given back.
BeginTurn ==
    /\ turn' = "working"
    /\ wakeUsed' = 0
    /\ UNCHANGED <<wakeBuf, wakeTimer, wakes>>

\* A message from outside, a person's or the next round of a loop: handled at once, or queued
\* behind the turn that goes on.
UserSpeaks ==
    /\ Alive
    /\ used.inputs < MaxInputs /\ used' = [used EXCEPT !.inputs = @ + 1]
    /\ \/ turn = "idle" /\ BeginTurn /\ UNCHANGED queueLen
       \/ turn # "idle" /\ queueLen' = queueLen + 1 /\ UNCHANGED <<turn, Waking>>
    /\ UNCHANGED <<pool, calls, told, OnDisk>>

\* The turn is over, with every call answered; the head of the queue is handled.
TurnEnds ==
    /\ Alive /\ turn # "idle" /\ calls = {}
    /\ \/ queueLen = 0 /\ turn' = "idle" /\ UNCHANGED <<queueLen, Waking>>
       \/ queueLen > 0 /\ BeginTurn /\ queueLen' = queueLen - 1
    /\ UNCHANGED <<pool, calls, told, used, OnDisk>>

\* The stop button: hardStop aborts what runs, and what is queued to be said is dropped.
Cancel ==
    /\ Alive
    /\ used.inputs < MaxInputs /\ used' = [used EXCEPT !.inputs = @ + 1]
    /\ pool' = abortAll(pool)
    /\ turn' = IF turn = "idle" THEN "idle" ELSE "cancelling"
    /\ queueLen' = 0
    /\ UNCHANGED <<calls, told, Waking, OnDisk>>

---------------------------------------------------------------------------
(* The turn's calls *)

Working == Alive /\ turn = "working" /\ UNCHANGED <<turn, queueLen, told, Waking, OnDisk>>

DispatchBackground(t) ==
    /\ Working
    /\ pool.status[t] = "unused"
    /\ pool' = spawnBackground(pool, t)
    /\ UNCHANGED <<calls, used>>

DispatchForeground(t) ==
    /\ Working
    /\ pool.status[t] = "unused"
    /\ pool' = spawnForeground(pool, t)
    /\ calls' = calls \cup {t}
    /\ UNCHANGED used

Stop(t) ==
    /\ Working
    /\ pool.status[t] \in {"queued", "running"}
    /\ pool' = stopTask(pool, t)
    /\ UNCHANGED <<calls, used>>

Resume(t) ==
    /\ Working
    /\ CanResume(pool, t)
    /\ used.resumes < MaxResumes /\ used' = [used EXCEPT !.resumes = @ + 1]
    /\ pool' = resumeTask(pool, t)
    /\ UNCHANGED calls

\* The deadline of a call: the turn goes on without its answer, the call itself does not end.
Deadline(t) ==
    /\ Alive /\ t \in calls
    /\ calls' = calls \ {t}
    /\ UNCHANGED <<pool, turn, queueLen, told, used, Waking, OnDisk>>

---------------------------------------------------------------------------
(* Lanes end, and wake the main agent *)

shouldAutoWake == turn = "idle" /\ queueLen = 0 /\ wakeUsed < AUTO_WAKE_MAX

\* The end of a lane; onBackgroundFinished notes it for a wake-up only if nothing goes on.
\* A call that is still open is answered with the lane's result.
LaneEnds(t, how) ==
    /\ Alive /\ pool.runs[t] > 0 /\ how \in Outcomes(pool, t)
    /\ pool' = laneEnds(pool, t, how)
    /\ wakeBuf' = IF shouldAutoWake THEN wakeBuf \cup {t} ELSE wakeBuf
    /\ wakeTimer' = (wakeTimer \/ shouldAutoWake)
    /\ calls' = calls \ {t}
    /\ UNCHANGED <<turn, queueLen, wakeUsed, wakes, told, used, OnDisk>>

\* The wake-up goes to the queue, which is empty, and is handled at once.
Wakes ==
    /\ turn' = "working"
    /\ wakeUsed' = wakeUsed + 1 /\ wakes' = wakes + 1
    /\ told' = told \cup wakeBuf

\* The merge window closes: what was noted is delivered if still nothing goes on, and is
\* forgotten otherwise.
WindowCloses ==
    /\ Alive /\ wakeTimer
    /\ wakeTimer' = FALSE /\ wakeBuf' = {}
    /\ \/ shouldAutoWake /\ Wakes
       \/ ~shouldAutoWake /\ UNCHANGED <<turn, wakeUsed, wakes, told>>
    /\ UNCHANGED <<pool, calls, queueLen, used, OnDisk>>

---------------------------------------------------------------------------
(* The registry, and the process *)

\* The process ends.  Once a minute, and at an end that leaves time for it, the tasks that
\* are active were written to the registry; whether such a moment fell into the life of a
\* task is open, and nothing ever writes that a task has ended.  (Calls of the foreground that
\* are over are left out.)
ProcessEnds ==
    /\ up /\ up' = FALSE
    /\ used.crashes < MaxCrashes /\ used' = [used EXCEPT !.crashes = @ + 1]
    /\ \E S \in SUBSET {t \in Tasks : pool.status[t] \notin {"unused", "gone"}} :
         registry' = [t \in Tasks |-> IF t \in S THEN "running" ELSE registry[t]]
    /\ pool' = [freshPool(pool.limit) EXCEPT
                  !.status = [t \in Tasks |-> IF pool.status[t] = "unused" THEN "unused" ELSE "gone"]]
    /\ turn' = "idle" /\ calls' = {} /\ queueLen' = 0
    /\ wakeBuf' = {} /\ wakeTimer' = FALSE /\ wakeUsed' = 0
    /\ UNCHANGED <<attempts, wakes, told>>

\* claimInterruptedTasks, then resumeOrphanedSubAgents: each claimed task is handed to
\* spawnSubAgent as a resume.  The new process knows no task, so the answer is an error
\* result, which the caller takes for a success.
ProcessStarts ==
    /\ ~up /\ up' = TRUE
    /\ registry' = [t \in Tasks |->
                      IF registry[t] # "running" THEN registry[t]
                      ELSE IF attempts[t] >= MaxAttempts THEN "failed" ELSE "interrupted"]
    /\ attempts' = [t \in Tasks |-> IF registry'[t] = "interrupted" /\ registry[t] = "running"
                                    THEN attempts[t] + 1 ELSE attempts[t]]
    /\ UNCHANGED <<pool, turn, calls, queueLen, told, used, Waking>>

---------------------------------------------------------------------------

TurnStep(t) ==
    DispatchBackground(t) \/ DispatchForeground(t) \/ Stop(t) \/ Resume(t)

Next ==
    \/ UserSpeaks \/ TurnEnds \/ Cancel
    \/ \E t \in Tasks : TurnStep(t) \/ Deadline(t) \/ \E how \in Ended : LaneEnds(t, how)
    \/ WindowCloses
    \/ ProcessEnds \/ ProcessStarts

Spec == Init /\ [][Next]_vars

\* No lane goes on for ever (each has the guards, watchdogs and time limits of a turn), calls
\* have deadlines, turns end once their calls are answered, timers fire, and the host starts a
\* dead process again.  Nobody has to speak, to press the button, or to stop or resume a task.
Fairness ==
    /\ \A t \in Tasks : []<>(pool.runs[t] = 0)
    /\ WF_vars(\E t \in Tasks : Deadline(t))
    /\ WF_vars(TurnEnds) /\ WF_vars(WindowCloses) /\ WF_vars(ProcessStarts)

FairSpec == Spec /\ Fairness

---------------------------------------------------------------------------
(* Safety *)

\* No lane is lost from the count of slots, and none is counted twice: by whichever way
\* lanes were started, queued, resumed, stopped or timed out, runningCount is the number
\* of lanes that execute.
SlotsExact ==
    pool.limit > 0 => runningCount(pool) = Cardinality({t \in Tasks : pool.runs[t] > 0})

\* No task is executed twice at once on one transcript, though a task may be resumed while
\* its entry is still in the queue.
NoLaneTwice == \A t \in Tasks : pool.runs[t] \in {0, 1}

\* Lanes beyond the limit have been resumed by hand; dispatch, queue and waiting calls stay
\* within it.
WithinLimit ==
    pool.limit > 0 =>
      Cardinality({t \in Tasks : pool.runs[t] > 0 /\ t \notin pool.resumed}) <= pool.limit

\* A task waits in the queue only while every slot is taken: each way in which a slot
\* becomes free starts the next one.
NoIdleSlot ==
    \A t \in Tasks : pool.status[t] = "queued" => runningCount(pool) >= pool.limit

\* A session that nobody speaks to comes to rest: each message from outside, and each process,
\* is good for AUTO_WAKE_MAX turns that begin by themselves and no more, though such a turn may
\* dispatch the very work whose end wakes the next, and though messages wait in the queue, are
\* dropped by a cancel, or die with the process.
WakesWithinBudget == wakes <= AUTO_WAKE_MAX * (1 + used.inputs + used.crashes)

---------------------------------------------------------------------------
(* Liveness *)

\* A queued task is started or taken off the queue.
QueuedTaskRuns == \A t \in Tasks : (pool.status[t] = "queued") ~> (pool.status[t] # "queued")

---------------------------------------------------------------------------
(* What comments and documents say, and the code does not do *)

\* kernel/engine.mjs:441: a foreground call that waits for a slot can be interrupted by a
\* cancel.  (Nothing holds on to the signal it waits with.)
CancelEndsWaits ==
    \A t \in Tasks :
      LET waits == \E i \in DOMAIN pool.slotWaiters : pool.slotWaiters[i] = t
      IN  (waits /\ turn = "cancelling") ~> ~waits

\* kernel/auto-wake.mjs:23: work that completes while a turn is active is brought to it at a
\* tool boundary.  (Nothing does so.)
CompletionReaches ==
    \A t \in Tasks :
      (pool.status[t] = "completed" /\ turn = "working") ~> (t \in told \/ ~up)

\* kernel/subagent-resume.mjs:16: tasks a dead process left behind are resumed.
InterruptedIsResumed ==
    \A t \in Tasks : (registry[t] = "interrupted" /\ up) ~> (pool.runs[t] > 0 \/ ~up)
===========================================================================
