---------------------------- MODULE MCWorkflowDag ----------------------------
(* Workflows for the checks: every acyclic one of three nodes with a       *)
(* branching first node, in two array orders, and a few larger ones.       *)
EXTENDS WorkflowDag, TLC

Edge(a, b, h) == [src |-> a, dst |-> b, handle |-> h]

\* No edge or one edge from a to b.
Maybe(a, b, handles) == {{}} \cup {{Edge(a, b, h)} : h \in handles}

Three(edges, onError, k) ==
  [n |-> 3, edges |-> edges, parallel |-> k, asks |-> {},
   onError |-> onError, retries |-> <<0, 0, 0>>, delay |-> <<0, 0, 0>>,
   branches |-> <<{"true", "false"}, {"true", "false"}, {"true", "false"}>>]

\* The first node branches; the array may hold the nodes the other way round.
ThreeNodes(a, b, c) ==
  {Three(x \cup y \cup z, (a :> p) @@ (b :> q) @@ (c :> "fail"), k) :
     x \in Maybe(a, b, {"plain", "true", "fail"}),
     y \in Maybe(a, c, {"true", "false", "default", "fail"}),
     z \in Maybe(b, c, {"plain", "fail"}),
     p \in {"fail", "branch", "continue"}, q \in {"branch", "continue"}, k \in {1, 2}}

Base == [n |-> 4, parallel |-> 2, asks |-> {},
         onError |-> <<"fail", "fail", "fail", "fail">>, retries |-> <<0, 0, 0, 0>>,
         delay |-> <<0, 0, 0, 0>>, branches |-> <<{"plain"}, {"plain"}, {"plain"}, {"plain"}>>]

\* A diamond whose arms retry, one at once and one after waits.
Diamond ==
  [Base EXCEPT !.retries = <<0, 2, 2, 0>>,
               !.delay = <<0, 0, 2, 0>>]
  @@ [edges |-> {Edge(1, 2, "plain"), Edge(1, 3, "plain"), Edge(2, 4, "plain"), Edge(3, 4, "plain")}]

\* Three sources, one of which asks the user where to go; slices of two.
Asking ==
  [Base EXCEPT !.asks = {2}, !.onError = <<"branch", "branch", "branch", "branch">>]
  @@ [edges |-> {Edge(2, 4, "approved"), Edge(2, 4, "timeout"), Edge(3, 4, "plain"), Edge(3, 1, "fail")}]

\* Two confirms at once, beside a node that may fail and wait.
TwoAsk ==
  [Base EXCEPT !.asks = {1, 2}, !.parallel = 3, !.retries[3] = 1, !.delay[3] = 2]
  @@ [edges |-> {Edge(1, 4, "rejected"), Edge(2, 4, "plain"), Edge(3, 4, "plain")}]

\* A chain of skips, and a cycle behind a branch.
Chain ==
  [Base EXCEPT !.branches[1] = {"true", "false"}]
  @@ [edges |-> {Edge(1, 2, "true"), Edge(2, 3, "plain"), Edge(3, 4, "plain"), Edge(1, 4, "false")}]
Cycle ==
  [Base EXCEPT !.branches[1] = {"true", "false"}]
  @@ [edges |-> {Edge(1, 2, "true"), Edge(2, 3, "plain"), Edge(3, 2, "plain"), Edge(1, 4, "default")}]

AllGraphs == ThreeNodes(1, 2, 3) \cup ThreeNodes(3, 2, 1) \cup {Diamond, Asking, TwoAsk, Chain, Cycle}
=============================================================================
