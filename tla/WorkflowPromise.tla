--------------------------- MODULE WorkflowPromise ---------------------------
(***************************************************************************)
(* What a run of a workflow promises, without batches, attempts, edge      *)
(* states or waits: nodes settle in the order of the edges; whether a node *)
(* runs or is skipped follows from how its sources settled; a failure      *)
(* nobody handles ends the run, and the run names the first one.           *)
(***************************************************************************)
EXTENDS WorkflowGraph

VARIABLES
  g,           \* the workflow
  result,      \* how each node settled, "open" before that
  status,      \* of the run
  culprit      \* the node the run failed for, 0 if there is none

vars == <<g, result, status, culprit>>

Open == {n \in Nodes(g) : result[n] = "open"}

\* The source of the edge counts as a success for what comes after it.
Passed(e) ==
  \/ result[e.src] \in Routes
  \/ result[e.src] \in Failures /\ g.onError[e.src] = "continue"

\* An edge is live when its settled source leads along it.
Live(e) ==
  CASE e.handle = "plain"   -> Passed(e)
    [] e.handle = "fail"    -> result[e.src] \in Failures /\ ~Passed(e)
    [] e.handle = "default" -> Passed(e) /\ ~ \E o \in Out(g, e.src) : /\ o.handle # "plain"
                                                                       /\ o.handle = result[e.src]
    [] OTHER                -> result[e.src] = e.handle

\* Everything the node waits for has settled.
Due(n) == \A e \in In(g, n) : e.src \notin Open
Wanted(n) == Due(n) /\ (In(g, n) = {} \/ \E e \in In(g, n) : Live(e))
Unwanted(n) == Due(n) /\ In(g, n) # {} /\ \A e \in In(g, n) : ~Live(e)

Init ==
  /\ IsGraph(g)
  /\ result = [n \in Nodes(g) |-> "open"]
  /\ status = "running"
  /\ culprit = 0

\* Some nodes settle, each by what its sources did before this step.
Settle ==
  /\ result' \in [Nodes(g) -> Outcomes \cup {"open", "skipped"}]
  /\ \A n \in Nodes(g) : \/ result'[n] = result[n]
                         \/ n \in Open /\ Wanted(n) /\ result'[n] \in Outcomes
                         \/ n \in Open /\ Unwanted(n) /\ result'[n] = "skipped"

Unhandled == {n \in Nodes(g) : HardFailure(g, n, result[n])}

\* What may be said of the run after the step.
Verdict ==
  \/ status' = "running" /\ culprit' = 0 /\ Unhandled' = {}
  \/ status' = "completed" /\ culprit' = 0 /\ Unhandled' = {} /\ Open' = {}
  \/ /\ status' = "failed" /\ Unhandled' # {}
     /\ culprit' \in Unhandled' /\ \A n \in Unhandled' : culprit' <= n
  \/ /\ status' = "failed" /\ culprit' = 0 /\ Open' # {}
     /\ \A n \in Open' : \E e \in In(g, n) : e.src \in Open'
  \/ status' = "cancelled" /\ culprit' = 0

Next ==
  /\ status = "running"
  /\ Settle
  /\ Verdict
  /\ UNCHANGED g

Spec == Init /\ [][Next]_vars
=============================================================================
