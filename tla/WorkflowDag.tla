----------------------------- MODULE WorkflowDag -----------------------------
(***************************************************************************)
(* One run of a workflow: the scheduler (schedule and runWithRetry of      *)
(* workflow-dag.mjs) under the engine (run, stop and the confirm waiters   *)
(* of workflow-engine.mjs).  Nodes run in slices of at most g.parallel;    *)
(* while a slice runs, attempts end, waits pass, a user answers or stops   *)
(* the run, in any order.  The code between two awaits is one step.        *)
(***************************************************************************)
EXTENDS WorkflowGraph

VARIABLES
  g,           \* the workflow
  result,      \* settled: how each node settled, "open" before that
  status,      \* of the run
  culprit,     \* the node named by a failed run
  edgeState,   \* "unset" until the source of the edge has settled
  queue,       \* nodes found ready whose slice has not begun
  slice,       \* the nodes that run now
  phase,       \* of the attempts at each node, its outcome when they are over
  tries,       \* attempts begun at each node
  left,        \* slices of the wait before the next attempt
  waiters,     \* confirmWaiters: nodes that wait for an answer
  aborted,     \* runSignal.aborted
  steps,       \* nodes executed
  rows         \* audit rows written for each node

run == <<phase, tries, left, waiters>>
books == <<result, edgeState, rows, steps>>
vars == <<g, result, status, culprit, edgeState, queue, slice, phase, tries, left,
          waiters, aborted, steps, rows>>

Open == {n \in Nodes(g) : result[n] = "open"}
Running == {n \in Nodes(g) : phase[n] \in {"running", "sleeping"}}

\* The first k nodes of a set, in the order of the array.
FirstOf(S, k) == {n \in S : Cardinality({m \in S : m < n}) < k}

ActivatesDefaultAlways(e, outcome) ==
  LET ok == outcome \in Routes \/ (outcome \in Failures /\ g.onError[e.src] = "continue")
  IN  /\ outcome # "skipped"
      /\ \/ e.handle = "plain" /\ ok
         \/ e.handle = "fail" /\ ~ok
         \/ e.handle = "default" /\ ok
         \/ e.handle \notin {"plain", "fail", "default"} /\ ok /\ outcome = e.handle

\* Whether a settled node leads along the edge.  A failure under
\* on_error "continue" counts as a success without a route.
Activates(e, outcome) ==
  LET ok == outcome \in Routes \/ (outcome \in Failures /\ g.onError[e.src] = "continue")
      matched == ok /\ outcome # "plain"
                 /\ outcome \in {o.handle : o \in Out(g, e.src)} \ {"fail", "default"}
  IN  /\ outcome # "skipped"
      /\ \/ e.handle = "plain" /\ ok
         \/ e.handle = "fail" /\ ~ok
         \/ e.handle = "default" /\ ok /\ ~matched
         \/ e.handle \notin {"plain", "fail", "default"} /\ ok /\ outcome = e.handle

SettledForgetful(S, outcome) ==
  /\ result' = [n \in Nodes(g) |-> IF n \in S THEN outcome[n] ELSE result[n]]
  /\ edgeState' = [e \in g.edges |-> IF e.src \notin S THEN edgeState[e]
                                     ELSE IF Activates(e, outcome[e.src]) THEN "active"
                                     ELSE IF outcome[e.src] = "skipped" THEN edgeState[e]
                                     ELSE "skipped"]
  /\ rows' = [n \in Nodes(g) |-> IF n \in S THEN rows[n] + 1 ELSE rows[n]]

\* What an outcome tells the edges that leave the nodes in S.
Settled(S, outcome) ==
  /\ result' = [n \in Nodes(g) |-> IF n \in S THEN outcome[n] ELSE result[n]]
  /\ edgeState' = [e \in g.edges |-> IF e.src \notin S THEN edgeState[e]
                                     ELSE IF Activates(e, outcome[e.src]) THEN "active"
                                     ELSE "skipped"]
  /\ rows' = [n \in Nodes(g) |-> IF n \in S THEN rows[n] + 1 ELSE rows[n]]

Determined(n) == \A e \in In(g, n) : edgeState[e] # "unset"
Ready == {n \in Open : \/ In(g, n) = {}
                       \/ Determined(n) /\ \E e \in In(g, n) : edgeState[e] = "active"}
Skipped == {n \in Open : /\ In(g, n) # {}
                         /\ \A e \in In(g, n) : edgeState[e] = "skipped"}

Init ==
  /\ g \in Graphs
  /\ result = [n \in Nodes(g) |-> "open"]
  /\ status = "running"
  /\ culprit = 0
  /\ edgeState = [e \in g.edges |-> "unset"]
  /\ queue = {}
  /\ slice = {}
  /\ phase = [n \in Nodes(g) |-> "idle"]
  /\ tries = [n \in Nodes(g) |-> 0]
  /\ left = [n \in Nodes(g) |-> 0]
  /\ waiters = {}
  /\ aborted \in BOOLEAN
  /\ steps = 0
  /\ rows = [n \in Nodes(g) |-> 0]

-----------------------------------------------------------------------------
(* The scheduler, between two slices.                                      *)

\* The first nodes of S begin, a confirm node by registering its waiter.
Begin(S) ==
  LET first == FirstOf(S, g.parallel)
  IN  /\ slice' = first
      /\ queue' = S \ first
      /\ phase' = [n \in Nodes(g) |-> IF n \in first THEN "running" ELSE phase[n]]
      /\ tries' = [n \in Nodes(g) |-> IF n \in first THEN tries[n] + 1 ELSE tries[n]]
      /\ waiters' = waiters \cup (first \cap g.asks)
      /\ UNCHANGED left

\* The run ends; what is in the books stays there.
Finish(how, node) ==
  /\ status' = how
  /\ culprit' = node
  /\ queue' = {}
  /\ slice' = {}
  /\ UNCHANGED <<g, run, aborted>>

BetweenSlices == status = "running" /\ slice = {}

CancelledRound == BetweenSlices /\ aborted /\ Finish("cancelled", 0) /\ UNCHANGED books

AllSettled ==
  BetweenSlices /\ ~aborted /\ Open = {} /\ Finish("completed", 0) /\ UNCHANGED books

Deadlocked ==
  /\ BetweenSlices /\ ~aborted
  /\ Open # {} /\ Ready = {} /\ Skipped = {}
  /\ Finish("failed", 0)
  /\ UNCHANGED books

\* Unwanted nodes are settled at once, then the nodes found ready begin.
Round ==
  /\ BetweenSlices /\ ~aborted
  /\ Ready # {} \/ Skipped # {}
  /\ Settled(Skipped, [n \in Skipped |-> "skipped"])
  /\ Begin(Ready)
  /\ UNCHANGED <<g, status, culprit, aborted, steps>>

StepsLimit == IF g.n * 50 > 500 THEN g.n * 50 ELSE 500
HardFailures == {n \in slice : HardFailure(g, n, phase[n])}

\* Promise.all over the slice resolves.
SliceOverAtFailure == slice # {} /\ (slice \cap Running = {} \/ HardFailures # {})
SliceOver == slice # {} /\ slice \cap Running = {}

\* cancelledInBatch
Cancelled == aborted \/ \E n \in slice : phase[n] = "cancelled"

SliceDoneJudgedFirst ==
  /\ SliceOver /\ steps + Cardinality(slice) <= StepsLimit
  /\ steps' = steps + Cardinality(slice)
  /\ IF Cancelled THEN Finish("cancelled", 0) /\ UNCHANGED <<result, edgeState, rows>>
     ELSE /\ Settled(slice, phase)
          /\ IF HardFailures # {}
               THEN \E n \in FirstOf(HardFailures, 1) : Finish("failed", n)
               ELSE Begin(queue) /\ UNCHANGED <<g, status, culprit, aborted>>

\* steps stays within its limit: a run that went past it would be stuck here.
\* All nodes of the slice are put in the books before any of them is judged; a
\* cancel outranks a failure, and of the failures the first in the array counts.
SliceDone ==
  /\ SliceOver /\ steps + Cardinality(slice) <= StepsLimit
  /\ steps' = steps + Cardinality(slice)
  /\ Settled(slice, phase)
  /\ \/ Cancelled /\ Finish("cancelled", 0)
     \/ /\ ~Cancelled
        /\ \E n \in FirstOf(HardFailures, 1) : Finish("failed", n)
     \/ /\ ~Cancelled /\ HardFailures = {}
        /\ Begin(queue)
        /\ UNCHANGED <<g, status, culprit, aborted>>

-----------------------------------------------------------------------------
(* The nodes of a slice, each in its own course of attempts.               *)

Reports(n, outcome) ==
  /\ phase' = [phase EXCEPT ![n] = outcome]
  /\ UNCHANGED <<g, books, status, culprit, queue, slice, tries, left, aborted>>

AttemptSucceeds(n) ==
  /\ phase[n] = "running" /\ n \notin g.asks
  /\ \E route \in g.branches[n] : Reports(n, route)
  /\ UNCHANGED waiters

\* The wait after attempt number k, in slices.
Backoff(n, k) == LET wait == g.delay[n] * 2^(k - 1)
                 IN  IF wait \in 0..MaxSlices THEN wait ELSE MaxSlices

\* The loop of runWithRetry comes round: another attempt unless the run stops.
TryAgain(n) ==
  IF aborted
    THEN phase' = [phase EXCEPT ![n] = "cancelled"] /\ UNCHANGED tries
    ELSE /\ phase' = [phase EXCEPT ![n] = "running"]
         /\ tries' = [tries EXCEPT ![n] = @ + 1]

AttemptFails(n) ==
  /\ phase[n] = "running" /\ n \notin g.asks
  /\ IF tries[n] > g.retries[n] THEN Reports(n, "failed")
     ELSE /\ IF aborted \/ g.delay[n] = 0
               THEN TryAgain(n) /\ UNCHANGED left
               ELSE /\ phase' = [phase EXCEPT ![n] = "sleeping"]
                    /\ left' = [left EXCEPT ![n] = Backoff(n, tries[n])]
                    /\ UNCHANGED tries
          /\ UNCHANGED <<g, books, status, culprit, queue, slice, aborted>>
  /\ UNCHANGED waiters

\* A slice of the wait is over; a stopped run waits for no other.
SliceOfWaitEnds(n) ==
  /\ phase[n] = "sleeping"
  /\ IF ~aborted /\ left[n] > 1
       THEN left' = [left EXCEPT ![n] = @ - 1] /\ UNCHANGED <<phase, tries>>
       ELSE left' = [left EXCEPT ![n] = 0] /\ TryAgain(n)
  /\ UNCHANGED <<g, books, status, culprit, queue, slice, waiters, aborted>>

\* resolveConfirm, or the waiter's timer: whichever comes first takes the
\* waiter away.
Resolve(n, answer) == n \in waiters /\ waiters' = waiters \ {n} /\ Reports(n, answer)
Answer(n) == \E answer \in {"approved", "rejected"} : Resolve(n, answer)
TimesOutUnlessStopped(n) == ~aborted /\ Resolve(n, "timeout")
TimesOut(n) == Resolve(n, "timeout")

\* stop(runId), the global signal or the signal of the turn.
Stop ==
  /\ slice # {} /\ ~aborted
  /\ aborted' = TRUE
  /\ UNCHANGED <<g, books, status, culprit, queue, slice, run>>

Schedule == CancelledRound \/ AllSettled \/ Deadlocked \/ Round \/ SliceDone
NodeStep(n) == AttemptSucceeds(n) \/ AttemptFails(n) \/ SliceOfWaitEnds(n) \/ TimesOut(n)

Over == status # "running" /\ UNCHANGED vars

Next ==
  \/ Schedule
  \/ \E n \in Nodes(g) : NodeStep(n) \/ Answer(n)
  \/ Stop
  \/ Over

Spec == Init /\ [][Next]_vars

\* Every executor comes back, if only by its timeout, and so does every
\* confirm; no user need answer or stop anything.
FairSpec == Spec /\ WF_vars(Schedule \/ \E n \in Nodes(g) : NodeStep(n))

-----------------------------------------------------------------------------
TypeOK ==
  /\ IsGraph(g)
  /\ result \in [Nodes(g) -> Outcomes \cup {"open", "skipped"}]
  /\ status \in {"running", "completed", "failed", "cancelled"}
  /\ culprit \in 0..g.n
  /\ edgeState \in [g.edges -> {"unset", "active", "skipped"}]
  /\ queue \subseteq Nodes(g) /\ slice \subseteq Nodes(g)
  /\ phase \in [Nodes(g) -> Outcomes \cup {"idle", "running", "sleeping"}]
  /\ tries \in [Nodes(g) -> Nat] /\ \A n \in Nodes(g) : tries[n] <= g.retries[n] + 1
  /\ left \in [Nodes(g) -> 0..MaxSlices]
  /\ waiters \subseteq Nodes(g)
  /\ aborted \in BOOLEAN
  /\ steps \in Nat
  /\ rows \in [Nodes(g) -> Nat]

\* Whatever the order in which attempts end, the run settles its nodes, and
\* ends, as WorkflowPromise says: by the edges, the sources' outcomes and the
\* array order alone (schedule, "edges are the truth").
Promise == INSTANCE WorkflowPromise
KeepsPromise == Promise!Spec

\* A node begins only when all its sources are in the books and lead to it,
\* also when its slice begins long after it was found ready (schedule).
BeginsWanted ==
  [][\A n \in Nodes(g) : tries[n] = 0 /\ tries'[n] = 1 => Promise!Wanted(n)']_vars

\* When the run ends, every node that was ever tried is settled with what it
\* reported and has one audit row; of the others the skipped ones have one
\* (schedule: the whole slice is booked before it is judged).
NothingLost ==
  status # "running" =>
    \A n \in Nodes(g) :
      IF tries[n] > 0
        THEN result[n] = phase[n] /\ rows[n] = 1
        ELSE result[n] \in {"open", "skipped"} /\ rows[n] = IF result[n] = "skipped" THEN 1 ELSE 0

\* No run ends while a node of it still runs or a confirm still waits.
NothingLeftBehind == status # "running" => Running = {} /\ waiters = {}

\* After a stop no attempt begins, and a node that waits for its next attempt
\* waits for no more than the slice it is in (sleep, runWithRetry).
StopIsPrompt ==
  [][aborted => \A n \in Nodes(g) :
       /\ tries'[n] = tries[n]
       /\ phase[n] = "sleeping" /\ left'[n] # left[n] => phase'[n] = "cancelled"]_vars

\* A stopped run is cancelled, never failed and never completed, whatever its
\* last slice brings (schedule: cancelling is not failing).
StoppedIsCancelled == aborted => status \in {"running", "cancelled"}

\* What validateWorkflow lets pass the scheduler never finds deadlocked.
ValidNeverDeadlocks == status = "failed" /\ culprit = 0 => CycleMembers(g) # {}

\* A run ends, also when the user answers no confirm or stops the run.
RunEnds == <>(status # "running")

-----------------------------------------------------------------------------
=============================================================================
