----------------------------- MODULE SubAgents -----------------------------
(***************************************************************************)
(* The sub-agents of kernel/engine.mjs: the map of tasks, the slots they   *)
(* run in, the queue of background tasks and the line of foreground calls  *)
(* that wait for a slot, as one record, with what each method of the       *)
(* engine does to it.  BackgroundWork gives the methods their callers.     *)
(*                                                                         *)
(* A lane is one execution of a task.  What it says, writes and spends is  *)
(* left out; lanes cannot dispatch lanes, so no task has descendants.      *)
(***************************************************************************)
EXTENDS Integers, Sequences, FiniteSets

CONSTANTS
    Tasks,    \* task ids; a new session id is never one that was used before
    Limits    \* settings of PONOS_LANE_MAX_CONCURRENT; 0 is no limit

ASSUME TasksAssumption == IsFiniteSet(Tasks)
ASSUME LimitsAssumption == Limits \subseteq Nat

\* A lane that failed is treated like one that completed.
Ended == {"completed", "stopped"}
Status == {"unused", "queued", "running", "gone"} \cup Ended

\* `runs` is what the engine does not write down: how many lanes of a task execute.
\* `resumed` is history: the tasks whose present lane was started by a resume.
Pool == [limit : Nat,
         status : [Tasks -> Status],       \* pendingSubAgents; "gone" is no longer in it
         foreground : SUBSET Tasks,        \* entries with _foreground
         foregroundRunning : Nat,
         laneQueue : Seq(Tasks),           \* pendingQueuedLanes
         slotWaiters : Seq(Tasks),         \* calls inside acquireForegroundSlot
         aborted : SUBSET Tasks,           \* lanes whose signal is aborted
         runs : [Tasks -> Nat],
         resumed : SUBSET Tasks]

freshPool(limit) ==
  [limit |-> limit, status |-> [t \in Tasks |-> "unused"], foreground |-> {},
   foregroundRunning |-> 0, laneQueue |-> <<>>, slotWaiters |-> <<>>, aborted |-> {},
   runs |-> [t \in Tasks |-> 0], resumed |-> {}]

BackgroundRunning(p) == {t \in Tasks : p.status[t] = "running" /\ t \notin p.foreground}

\* Mutant: entries of foreground calls are counted twice.
runningCountTwice(p) ==
  p.foregroundRunning + Cardinality({t \in Tasks : p.status[t] = "running"})

runningCount(p) == p.foregroundRunning + Cardinality(BackgroundRunning(p))

HasSlot(p) == p.limit = 0 \/ runningCount(p) < p.limit

\* A lane of t starts.
Started(p, t) == [p EXCEPT !.status[t] = "running", !.runs[t] = @ + 1]

---------------------------------------------------------------------------
(* A slot becomes free *)

\* Mutant: the status of an entry is not looked at again.
Unchecked(p, n) == {p.laneQueue[i] : i \in 1..n}

\* The entries among the first n of the queue that are still to be started.
StillQueued(p, n) == {p.laneQueue[i] : i \in {j \in 1..n : p.status[p.laneQueue[j]] = "queued"}}

\* How many entries drainQueuedLanes takes off: until the slots or the queue run out.
Taken(p) ==
  LET free == p.limit - runningCount(p)
      Enough(n) == Cardinality(StillQueued(p, n)) >= free
  IN  CHOOSE n \in 0..Len(p.laneQueue) :
        /\ Enough(n) \/ n = Len(p.laneQueue)
        /\ \A m \in 0..(n - 1) : ~Enough(m)

drainQueuedLanes(p) ==
  IF p.limit = 0 THEN p ELSE
  LET begun == StillQueued(p, Taken(p))
  IN  [p EXCEPT !.status = [t \in Tasks |-> IF t \in begun THEN "running" ELSE @[t]],
                !.runs = [t \in Tasks |-> IF t \in begun THEN @[t] + 1 ELSE @[t]],
                !.laneQueue = SubSeq(@, Taken(p) + 1, Len(@))]

\* A foreground call takes a slot and its lane starts.
TakesSlots(p, S) ==
  [p EXCEPT !.status = [t \in Tasks |-> IF t \in S THEN "running" ELSE @[t]],
            !.runs = [t \in Tasks |-> IF t \in S THEN @[t] + 1 ELSE @[t]],
            !.foreground = @ \cup S,
            !.foregroundRunning = IF p.limit = 0 THEN @ ELSE @ + Cardinality(S)]

\* wakeSlotWaiters: the calls that wait look again, in turn; those that find no slot go on
\* waiting in the same order.
wakeSlotWaiters(p) ==
  LET free == p.limit - runningCount(p)
      k == IF free <= 0 THEN 0 ELSE IF free < Len(p.slotWaiters) THEN free ELSE Len(p.slotWaiters)
  IN  [TakesSlots(p, {p.slotWaiters[i] : i \in 1..k})
         EXCEPT !.slotWaiters = SubSeq(@, k + 1, Len(@))]

---------------------------------------------------------------------------
(* The methods *)

\* spawnSubAgent in the background: start, or join the queue.
spawnBackground(p, t) ==
  IF HasSlot(p) THEN Started(p, t)
  ELSE [p EXCEPT !.status[t] = "queued", !.laneQueue = Append(@, t)]

\* spawnSubAgent in the foreground, up to the lane: the task is not in the map while it waits.
spawnForeground(p, t) ==
  IF HasSlot(p) THEN TakesSlots(p, {t})
  ELSE [p EXCEPT !.status[t] = "gone", !.slotWaiters = Append(@, t)]

\* spawnSubAgent with resume_task_id, followup and Task resume: no slot is asked for, and an
\* entry of the task that is still in the queue stays there.
CanResume(p, t) == p.status[t] \in {"queued"} \cup Ended
resumeTask(p, t) ==
  [Started(p, t) EXCEPT !.aborted = @ \ {t}, !.resumed = @ \cup {t}]

Without(q, i) == [j \in 1..(Len(q) - 1) |-> IF j < i THEN q[j] ELSE q[j + 1]]

\* taskSystem.stop: a queued task leaves the queue, a running one has its signal aborted.
stopTask(p, t) ==
  IF p.status[t] = "queued"
  THEN [p EXCEPT !.status[t] = "stopped", !.laneQueue = Without(@, CHOOSE i \in DOMAIN @ : @[i] = t)]
  ELSE [p EXCEPT !.aborted = @ \cup {t}]

\* abortAllSubAgents: every lane that runs; what is queued or waits is not looked at.
abortAll(p) == [p EXCEPT !.aborted = @ \cup {t \in Tasks : p.status[t] = "running"}]

\* Mutant: a lane in the background ends and nobody looks at the queue.
backgroundEndsQuietly(p, t, how) ==
  [p EXCEPT !.status[t] = how, !.runs[t] = @ - 1, !.resumed = @ \ {t}]

\* The end of runLaneExecution for a task in the background.
backgroundEnds(p, t, how) ==
  drainQueuedLanes([p EXCEPT !.status[t] = how, !.runs[t] = @ - 1, !.resumed = @ \ {t}])

\* The end of a foreground call's lane: its entry goes, its slot is released.  (The drain at
\* the end of runLaneExecution comes before the release and finds nothing free.)
foregroundEnds(p, t) ==
  LET q == [p EXCEPT !.status[t] = "gone", !.runs[t] = @ - 1, !.foreground = @ \ {t},
                     !.foregroundRunning = IF p.limit = 0 THEN @ ELSE @ - 1]
  IN  IF p.limit = 0 THEN q ELSE wakeSlotWaiters(drainQueuedLanes(q))

\* What a lane may end as: one whose signal is aborted does not complete.
Outcomes(p, t) == IF t \in p.aborted THEN {"stopped"} ELSE Ended

laneEnds(p, t, how) ==
  IF t \in p.foreground THEN foregroundEnds(p, t) ELSE backgroundEnds(p, t, how)
===========================================================================
