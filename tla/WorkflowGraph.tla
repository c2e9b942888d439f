---------------------------- MODULE WorkflowGraph ----------------------------
(***************************************************************************)
(* A workflow as the scheduler of workflow-dag.mjs gets it: nodes, edges   *)
(* with handles, and for every node what to do about its failures.  A node *)
(* is named by its place in the array of nodes; an edge stands for its id, *)
(* which buildGraph requires to be unique.                                 *)
(***************************************************************************)
EXTENDS Integers, FiniteSets

CONSTANTS
  Graphs,       \* the workflows that may run
  MaxSlices     \* longest wait between attempts: 30 s in slices of 250 ms

\* What a node may report: "plain" is success without a route, "true" and
\* "false" stand for the routes a node chooses between.
Routes == {"plain", "true", "false", "approved", "rejected", "timeout"}
Failures == {"failed", "cancelled"}
Outcomes == Routes \cup Failures

Nodes(g) == 1..g.n

\* An edge without a handle has the handle "plain"; delay is in slices.
\* branches: the routes a node may take; asks: it is a confirm node.
IsGraph(g) ==
  /\ g.n \in Nat \ {0}
  /\ g.edges \subseteq [src: Nodes(g), dst: Nodes(g), handle: Routes \cup {"fail", "default"}]
  /\ g.onError \in [Nodes(g) -> {"fail", "branch", "continue"}]
  /\ g.retries \in [Nodes(g) -> Nat]
  /\ g.delay \in [Nodes(g) -> Nat]
  /\ g.branches \in [Nodes(g) -> SUBSET Routes]
  /\ g.asks \subseteq Nodes(g)
  /\ g.parallel \in Nat \ {0}

ASSUME GraphsAssumption == \A g \in Graphs : IsGraph(g)
ASSUME MaxSlicesAssumption == MaxSlices \in Nat \ {0}

In(g, n) == {e \in g.edges : e.dst = n}
Out(g, n) == {e \in g.edges : e.src = n}

\* The nodes detectCycle of workflow-dsl.mjs does not reach when it takes
\* away, again and again, the nodes whose sources are all taken away.
CycleMembers(g) ==
  LET taken[i \in 0..g.n] ==
        IF i = 0 THEN {}
        ELSE {n \in Nodes(g) : \A e \in In(g, n) : e.src \in taken[i - 1]}
  IN  Nodes(g) \ taken[g.n]

\* A failure that the workflow says nothing about ends the run.
HardFailure(g, n, outcome) ==
  /\ outcome \in Failures
  /\ \/ g.onError[n] = "fail"
     \/ g.onError[n] = "branch" /\ ~ \E e \in Out(g, n) : e.handle = "fail"
=============================================================================
