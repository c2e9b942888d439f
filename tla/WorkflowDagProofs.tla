--------------------------- MODULE WorkflowDagProofs ---------------------------
(***************************************************************************)
(* For every workflow: a run keeps its promise (WorkflowPromise), loses    *)
(* nothing it did and leaves nothing running.  The invariant ties the      *)
(* scheduler's working state to the books: edge states follow from how the *)
(* sources settled, and what was found ready stays ready.                  *)
(***************************************************************************)
EXTENDS WorkflowDag, FiniteSetTheorems, WellFoundedInduction, TLAPS

\* The edge state is what the settled source says.
EdgesFollow ==
  \A e \in g.edges :
    edgeState[e] = IF result[e.src] = "open" THEN "unset"
                   ELSE IF Activates(e, result[e.src]) THEN "active" ELSE "skipped"

\* What runs or is queued is open and wanted; nothing else runs.
SliceIsReady ==
  /\ slice \cup queue \subseteq Ready
  /\ slice \cap queue = {}
  /\ Running \subseteq slice
  /\ \A n \in waiters : n \in g.asks /\ phase[n] = "running"
  /\ status # "running" => slice = {} /\ queue = {}
  /\ \A n \in slice : phase[n] = "sleeping" => tries[n] <= g.retries[n]

\* The books agree with what was tried.
BooksAgree ==
  \A n \in Nodes(g) :
    /\ rows[n] = IF result[n] = "open" THEN 0 ELSE 1
    /\ result[n] \in Outcomes => result[n] = phase[n] /\ tries[n] > 0
    /\ tries[n] > 0 <=> n \in slice \/ result[n] \in Outcomes
    /\ n \in slice => phase[n] # "idle"

\* No failure has been passed over.
NoneUnhandled ==
  status = "running" => culprit = 0 /\ \A n \in Nodes(g) : ~HardFailure(g, n, result[n])

DagInv == TypeOK /\ EdgesFollow /\ SliceIsReady /\ BooksAgree /\ NoneUnhandled /\ StoppedIsCancelled

LEMMA FirstOfSubset == \A S, k : FirstOf(S, k) \subseteq S
  BY DEF FirstOf

\* The sources of a ready node are settled; no ready node is skipped.
LEMMA ReadySources ==
  ASSUME EdgesFollow, NEW n \in Ready
  PROVE  /\ n \in Nodes(g) /\ result[n] = "open"
         /\ \A e \in In(g, n) : e \in g.edges /\ result[e.src] # "open"
         /\ n \notin Skipped
  BY DEF EdgesFollow, Ready, Skipped, Open, In, Determined

\* Settling nodes that no ready node waits for keeps it ready.
LEMMA StaysReady ==
  ASSUME TypeOK, EdgesFollow, g' = g, NEW STATE S, S \subseteq Open, NEW STATE outcome, Settled(S, outcome),
         NEW n \in Ready, n \notin S
  PROVE  n \in Ready'
  <1>1. n \in Nodes(g) /\ result[n] = "open" /\ \A e \in In(g, n) : e \in g.edges /\ result[e.src] # "open"
    BY ReadySources
  <1>2. result'[n] = "open"
    BY <1>1 DEF Settled
  <1>3. \A e \in In(g, n) : edgeState'[e] = edgeState[e]
    BY <1>1 DEF Settled, Open
  <1> QED
    BY <1>1, <1>2, <1>3 DEF Ready, Open, In, Determined

\* The books after nodes settle: edges follow, and each has its row.
LEMMA SettledFollows ==
  ASSUME TypeOK, EdgesFollow, g' = g, NEW STATE S, S \subseteq Open, NEW STATE outcome, Settled(S, outcome),
         \A n \in S : outcome[n] \in Outcomes \cup {"skipped"}
  PROVE  /\ EdgesFollow'
         /\ result' \in [Nodes(g) -> Outcomes \cup {"open", "skipped"}]
         /\ edgeState' \in [g.edges -> {"unset", "active", "skipped"}]
         /\ rows' \in [Nodes(g) -> Nat]
  <1>1. \A e \in g.edges : e.src \in Nodes(g)
    BY DEF TypeOK, IsGraph
  <1>2. \A e \in g.edges : \A o : Activates(e, o)' <=> Activates(e, o)
    BY DEF Activates, Out
  <1>3. \A n \in S : outcome[n] # "open"
    BY DEF Outcomes, Routes, Failures
  <1>4. EdgesFollow'
    BY <1>1, <1>2, <1>3 DEF EdgesFollow, Settled, Open
  <1> QED
    BY <1>4 DEF Settled, TypeOK

-----------------------------------------------------------------------------
(* The invariant, action by action.                                        *)

LEMMA InitInv == Init /\ (\A w \in Graphs : IsGraph(w)) => DagInv
  <1> SUFFICES ASSUME Init, \A w \in Graphs : IsGraph(w) PROVE DagInv
    OBVIOUS
  <1>1. IsGraph(g)
    BY DEF Init
  <1>2. g.n \in Nat /\ g.retries \in [Nodes(g) -> Nat] /\ \A e \in g.edges : e.src \in Nodes(g)
    BY <1>1 DEF IsGraph
  <1>3. TypeOK
    BY <1>1, <1>2, MaxSlicesAssumption DEF Init, TypeOK
  <1>4. EdgesFollow
    BY <1>2 DEF Init, EdgesFollow
  <1>5. SliceIsReady
    BY DEF Init, SliceIsReady, Running
  <1>6. BooksAgree /\ NoneUnhandled /\ StoppedIsCancelled
    BY DEF Init, BooksAgree, NoneUnhandled, StoppedIsCancelled, HardFailure, Outcomes, Routes, Failures
  <1> QED
    BY <1>3, <1>4, <1>5, <1>6 DEF DagInv

\* The next nodes begin after S is in the books, none of it left running.
LEMMA BeginInv ==
  ASSUME DagInv, g' = g, aborted' = aborted, status' = status, culprit' = culprit,
         NEW STATE S, NEW STATE outcome, NEW STATE next,
         S \subseteq Open, Settled(S, outcome), slice \subseteq S, queue \subseteq next,
         Running = {}, ~aborted, status = "running",
         \A n \in S : IF n \in slice THEN outcome[n] = phase[n] ELSE outcome[n] = "skipped",
         \A n \in S : outcome[n] \in Outcomes \cup {"skipped"},
         \A n \in S : ~HardFailure(g, n, outcome[n]),
         next \subseteq Ready, next \cap S = {}, Begin(next),
         steps' \in Nat
  PROVE  DagInv'
  <1> DEFINE first == FirstOf(next, g.parallel)
  <1>1. first \subseteq next
    BY FirstOfSubset
  <1> HIDE DEF first
  <1>2. /\ slice' = first /\ queue' = next \ first
        /\ phase' = [n \in Nodes(g) |-> IF n \in first THEN "running" ELSE phase[n]]
        /\ tries' = [n \in Nodes(g) |-> IF n \in first THEN tries[n] + 1 ELSE tries[n]]
        /\ waiters' = waiters \cup (first \cap g.asks)
        /\ left' = left
    BY DEF Begin, first
  <1>3. first \subseteq Nodes(g) /\ next \subseteq Nodes(g)
    BY <1>1, ReadySources DEF DagInv
  <1>4. waiters = {}
    BY DEF DagInv, SliceIsReady, TypeOK, Running
  <1>5. \A n \in first : tries[n] = 0
    <2> SUFFICES ASSUME NEW n \in first PROVE tries[n] = 0
      OBVIOUS
    <2>1. n \notin slice /\ result[n] = "open" /\ n \in Nodes(g)
      BY <1>1, ReadySources DEF DagInv
    <2>2. ~(tries[n] > 0)
      BY <2>1 DEF DagInv, BooksAgree, Outcomes, Routes, Failures
    <2>3. tries[n] \in Nat
      BY <2>1 DEF DagInv, TypeOK
    <2> QED
      BY <2>2, <2>3
  <1>6. /\ EdgesFollow'
        /\ result' \in [Nodes(g) -> Outcomes \cup {"open", "skipped"}]
        /\ edgeState' \in [g.edges -> {"unset", "active", "skipped"}]
        /\ rows' \in [Nodes(g) -> Nat]
    BY SettledFollows DEF DagInv
  <1>7. TypeOK'
    <2>1. g.retries \in [Nodes(g) -> Nat]
      BY DEF DagInv, TypeOK, IsGraph
    <2>2. tries' \in [Nodes(g) -> Nat] /\ \A n \in Nodes(g) : tries'[n] <= g.retries[n] + 1
      BY <1>2, <1>3, <1>5, <2>1 DEF DagInv, TypeOK
    <2>3. phase' \in [Nodes(g) -> Outcomes \cup {"idle", "running", "sleeping"}]
      BY <1>2 DEF DagInv, TypeOK
    <2>4. queue' \subseteq Nodes(g) /\ slice' \subseteq Nodes(g) /\ waiters' \subseteq Nodes(g)
      BY <1>2, <1>3, <1>4
    <2> QED
      BY <1>2, <1>6, <2>2, <2>3, <2>4 DEF DagInv, TypeOK
  <1>8. \A n \in next : n \in Ready'
    BY StaysReady DEF DagInv
  <1>9. SliceIsReady'
    <2>1. Running' = first
      <3>1. Running' = {n \in Nodes(g) : phase'[n] \in {"running", "sleeping"}}
        BY DEF Running
      <3>2. \A n \in Nodes(g) : phase[n] \notin {"running", "sleeping"}
        BY DEF Running
      <3> QED
        BY <1>2, <1>3, <3>1, <3>2
    <2>2. \A n \in slice' : phase'[n] = "running"
      BY <1>2, <1>3
    <2> QED
      BY <1>1, <1>2, <1>4, <1>8, <2>1, <2>2 DEF SliceIsReady
  <1>10. BooksAgree'
    <2> SUFFICES ASSUME NEW n \in Nodes(g)
                 PROVE  /\ rows'[n] = IF result'[n] = "open" THEN 0 ELSE 1
                        /\ result'[n] \in Outcomes => result'[n] = phase'[n] /\ tries'[n] > 0
                        /\ tries'[n] > 0 <=> n \in slice' \/ result'[n] \in Outcomes
                        /\ n \in slice' => phase'[n] # "idle"
      BY DEF BooksAgree
    <2>1. /\ rows[n] = IF result[n] = "open" THEN 0 ELSE 1
          /\ result[n] \in Outcomes => result[n] = phase[n] /\ tries[n] > 0
          /\ tries[n] > 0 <=> n \in slice \/ result[n] \in Outcomes
          /\ tries[n] \in Nat
      BY DEF DagInv, BooksAgree, TypeOK
    <2>2. "open" \notin Outcomes /\ "skipped" \notin Outcomes
      BY DEF Outcomes, Routes, Failures
    <2>3. CASE n \in S
      <3>1. n \notin first /\ result[n] = "open" /\ result'[n] = outcome[n] /\ rows'[n] = rows[n] + 1
        BY <1>1, <2>3 DEF Settled, Open
      <3>2. phase'[n] = phase[n] /\ tries'[n] = tries[n]
        BY <1>2, <3>1
      <3>3. outcome[n] \in Outcomes \cup {"skipped"}
            /\ IF n \in slice THEN outcome[n] = phase[n] ELSE outcome[n] = "skipped"
        BY <2>3
      <3>4. n \in slice => outcome[n] \in Outcomes
        <4>1. SUFFICES ASSUME n \in slice PROVE phase[n] # "skipped"
          BY <3>3
        <4> QED
          BY DEF DagInv, TypeOK, Outcomes, Routes, Failures
      <3> QED
        BY <1>2, <2>1, <2>2, <3>1, <3>2, <3>3, <3>4
    <2>4. CASE n \notin S
      <3>1. result'[n] = result[n] /\ rows'[n] = rows[n] /\ n \notin slice
        BY <2>4 DEF Settled
      <3>2. n \in first => result[n] = "open"
        BY <1>1, ReadySources DEF DagInv
      <3> QED
        BY <1>2, <1>5, <2>1, <2>2, <3>1, <3>2
    <2> QED
      BY <2>3, <2>4
  <1>11. NoneUnhandled'
    <2>1. \A n \in Nodes(g) : ~HardFailure(g, n, result'[n])
      BY DEF DagInv, NoneUnhandled, Settled
    <2> QED
      BY <2>1 DEF DagInv, NoneUnhandled
  <1>12. StoppedIsCancelled'
    BY DEF DagInv, StoppedIsCancelled
  <1> QED
    BY <1>6, <1>7, <1>9, <1>10, <1>11, <1>12 DEF DagInv

LEMMA RoundInv == DagInv /\ Round => DagInv'
  <1> SUFFICES ASSUME DagInv, Round PROVE DagInv'
    OBVIOUS
  <1>1. slice = {} /\ Running = {} /\ queue \cap Skipped = {} /\ status = "running"
    BY ReadySources DEF Round, BetweenSlices, DagInv, SliceIsReady
  <1>2. Skipped \subseteq Open /\ Ready \cap Skipped = {} /\ queue \subseteq Ready
    BY ReadySources DEF Skipped, DagInv, SliceIsReady
  <1>3. \A n \in Skipped : [k \in Skipped |-> "skipped"][n] = "skipped"
    OBVIOUS
  <1>4. \A n \in Nodes(g) : ~HardFailure(g, n, "skipped")
    BY DEF HardFailure, Failures
  <1>5. \A n \in Skipped : n \in Nodes(g)
    BY <1>2 DEF Open
  <1>6. steps' \in Nat
    BY DEF Round, DagInv, TypeOK
  <1> DEFINE skip == [k \in Skipped |-> "skipped"]
  <1>7. Settled(Skipped, skip) /\ Begin(Ready) /\ g' = g /\ aborted' = aborted
        /\ status' = status /\ culprit' = culprit /\ ~aborted
    BY DEF Round
  <1>8. /\ \A n \in Skipped : IF n \in slice THEN skip[n] = phase[n] ELSE skip[n] = "skipped"
        /\ \A n \in Skipped : skip[n] \in Outcomes \cup {"skipped"}
        /\ \A n \in Skipped : ~HardFailure(g, n, skip[n])
    BY <1>1, <1>3, <1>4, <1>5
  <1> HIDE DEF skip
  <1> QED
    BY <1>1, <1>2, <1>6, <1>7, <1>8, BeginInv

\* What every node of a slice has come to when the slice is over.
LEMMA SliceOutcomes ==
  ASSUME DagInv, SliceOver
  PROVE  /\ \A n \in slice : phase[n] \in Outcomes
         /\ slice \subseteq Open /\ slice \subseteq Nodes(g) /\ Running = {}
         /\ status = "running" /\ steps \in Nat
  <1>1. slice \subseteq Open /\ slice \subseteq Nodes(g)
    BY ReadySources DEF DagInv, SliceIsReady, Ready
  <1>2. Running = {}
    BY DEF DagInv, SliceIsReady, SliceOver
  <1>3. \A n \in slice : phase[n] \in Outcomes
    BY <1>1, <1>2 DEF DagInv, TypeOK, BooksAgree, Running
  <1> QED
    BY <1>1, <1>2, <1>3 DEF DagInv, SliceIsReady, SliceOver, TypeOK

\* A run that ends with the slice S in its books.
LEMMA FinishInv ==
  ASSUME DagInv, NEW STATE S, S \subseteq Open, slice = S, Running = {}, Settled(S, phase),
         \A n \in S : phase[n] \in Outcomes, NEW how, NEW node, Finish(how, node),
         how \in {"completed", "failed", "cancelled"}, node \in 0..g.n,
         aborted => how = "cancelled", steps' \in Nat
  PROVE  DagInv'
  <1>1. /\ g' = g /\ phase' = phase /\ tries' = tries /\ left' = left /\ waiters' = waiters
        /\ aborted' = aborted /\ status' = how /\ culprit' = node /\ queue' = {} /\ slice' = {}
    BY DEF Finish, run
  <1>2. /\ EdgesFollow'
        /\ result' \in [Nodes(g) -> Outcomes \cup {"open", "skipped"}]
        /\ edgeState' \in [g.edges -> {"unset", "active", "skipped"}]
        /\ rows' \in [Nodes(g) -> Nat]
    BY <1>1, SettledFollows DEF DagInv
  <1>3. TypeOK'
    BY <1>1, <1>2 DEF DagInv, TypeOK
  <1>4. SliceIsReady'
    BY <1>1 DEF DagInv, SliceIsReady, Running
  <1>5. BooksAgree'
    <2>1. "open" \notin Outcomes /\ "skipped" \notin Outcomes
      BY DEF Outcomes, Routes, Failures
    <2>2. \A n \in Nodes(g) : IF n \in S THEN result[n] = "open" /\ result'[n] = phase[n] /\ rows'[n] = rows[n] + 1
                              ELSE result'[n] = result[n] /\ rows'[n] = rows[n]
      BY DEF Settled, Open
    <2> QED
      BY <1>1, <2>1, <2>2 DEF DagInv, BooksAgree
  <1>6. NoneUnhandled' /\ StoppedIsCancelled'
    BY <1>1 DEF NoneUnhandled, StoppedIsCancelled
  <1> QED
    BY <1>2, <1>3, <1>4, <1>5, <1>6 DEF DagInv

LEMMA SliceDoneInv == DagInv /\ SliceDone => DagInv'
  <1> SUFFICES ASSUME DagInv, SliceDone PROVE DagInv'
    OBVIOUS
  <1>1. SliceOver /\ Settled(slice, phase) /\ steps' = steps + Cardinality(slice)
    BY DEF SliceDone
  <1>2. /\ \A n \in slice : phase[n] \in Outcomes
        /\ slice \subseteq Open /\ slice \subseteq Nodes(g) /\ Running = {}
        /\ status = "running" /\ steps \in Nat
    BY <1>1, SliceOutcomes
  <1>3. steps' \in Nat
    <2>1. g.n \in Nat
      BY DEF DagInv, TypeOK, IsGraph
    <2>2. IsFiniteSet(Nodes(g))
      BY <2>1, FS_Interval, 1 \in Int DEF Nodes
    <2>3. Cardinality(slice) \in Nat
      BY <1>2, <2>2, FS_Subset, FS_CardinalityType
    <2> QED
      BY <1>1, <1>2, <2>3
  <1>4. CASE Cancelled /\ Finish("cancelled", 0)
    <2>1. 0 \in 0..g.n
      BY DEF DagInv, TypeOK, IsGraph
    <2> QED
      BY <1>1, <1>2, <1>3, <1>4, <2>1, FinishInv
  <1>5. CASE ~Cancelled /\ \E n \in FirstOf(HardFailures, 1) : Finish("failed", n)
    <2>1. PICK n \in FirstOf(HardFailures, 1) : Finish("failed", n)
      BY <1>5
    <2>2. n \in slice
      BY <2>1, FirstOfSubset DEF HardFailures
    <2>3. n \in 0..g.n
      BY <1>2, <2>2 DEF Nodes, DagInv, TypeOK, IsGraph
    <2>4. ~aborted
      BY <1>5 DEF Cancelled
    <2> QED
      BY <1>1, <1>2, <1>3, <2>1, <2>3, <2>4, FinishInv
  <1>6. CASE /\ ~Cancelled /\ HardFailures = {}
             /\ Begin(queue)
             /\ UNCHANGED <<g, status, culprit, aborted>>
    <2>1. ~aborted
      BY <1>6 DEF Cancelled
    <2>2. queue \subseteq Ready /\ queue \cap slice = {}
      BY DEF DagInv, SliceIsReady
    <2>3. \A n \in slice : ~HardFailure(g, n, phase[n])
      BY <1>6 DEF HardFailures
    <2>4. slice \subseteq slice /\ queue \subseteq queue
      OBVIOUS
    <2> QED
      BY <1>1, <1>2, <1>3, <1>6, <2>1, <2>2, <2>3, <2>4, BeginInv
  <1> QED
    BY <1>4, <1>5, <1>6 DEF SliceDone

LEMMA VerdictInv == DagInv /\ (CancelledRound \/ AllSettled \/ Deadlocked) => DagInv'
  <1> SUFFICES ASSUME DagInv, CancelledRound \/ AllSettled \/ Deadlocked PROVE DagInv'
    OBVIOUS
  <1>1. slice = {} /\ UNCHANGED books
    BY DEF CancelledRound, AllSettled, Deadlocked, BetweenSlices
  <1>2. Running = {}
    BY <1>1 DEF DagInv, SliceIsReady
  <1>3. PICK how \in {"completed", "failed", "cancelled"} :
          Finish(how, 0) /\ (aborted => how = "cancelled")
    BY DEF CancelledRound, AllSettled, Deadlocked
  <1>4. Settled({}, phase)
    BY <1>1 DEF Settled, books, DagInv, TypeOK
  <1>5. 0 \in 0..g.n /\ steps' \in Nat
    BY <1>1 DEF DagInv, TypeOK, IsGraph, books
  <1>6. {} \subseteq Open /\ \A n \in {} : phase[n] \in Outcomes
    OBVIOUS
  <1> QED
    BY <1>1, <1>2, <1>3, <1>4, <1>5, <1>6, FinishInv

\* A step of a running node changes its own attempts only.
LEMMA AttemptInv ==
  ASSUME DagInv, NEW n \in Nodes(g), phase[n] \in {"running", "sleeping"},
         UNCHANGED <<g, books, status, culprit, queue, slice, aborted>>,
         NEW STATE p, p \in Outcomes \cup {"running", "sleeping"}, phase' = [phase EXCEPT ![n] = p],
         NEW STATE t, t \in Nat, tries' = [tries EXCEPT ![n] = t], t >= tries[n], t <= g.retries[n] + 1,
         NEW STATE l, l \in 0..MaxSlices, left' = [left EXCEPT ![n] = l],
         p = "sleeping" => t <= g.retries[n],
         waiters' \subseteq waiters, n \notin waiters'
  PROVE  DagInv'
  <1>1. n \in slice /\ n \in Running /\ n \in Open
    BY ReadySources DEF DagInv, SliceIsReady, Running, Ready
  <1>2. /\ result' = result /\ edgeState' = edgeState /\ rows' = rows /\ steps' = steps
        /\ g' = g /\ status' = status /\ culprit' = culprit /\ queue' = queue /\ slice' = slice
        /\ aborted' = aborted
    BY DEF books
  <1>3. TypeOK'
    <2>1. tries' \in [Nodes(g) -> Nat] /\ \A m \in Nodes(g) : tries'[m] <= g.retries[m] + 1
      BY DEF DagInv, TypeOK
    <2>2. phase' \in [Nodes(g) -> Outcomes \cup {"idle", "running", "sleeping"}]
      BY DEF DagInv, TypeOK
    <2>3. left' \in [Nodes(g) -> 0..MaxSlices]
      BY DEF DagInv, TypeOK
    <2> QED
      BY <1>2, <2>1, <2>2, <2>3 DEF DagInv, TypeOK
  <1>4. EdgesFollow' /\ Ready' = Ready
    BY <1>2 DEF DagInv, EdgesFollow, Ready, Open, In, Determined, Activates, Out
  <1>5. phase \in [Nodes(g) -> Outcomes \cup {"idle", "running", "sleeping"}] /\ tries \in [Nodes(g) -> Nat]
    BY DEF DagInv, TypeOK
  <1>6. SliceIsReady'
    <2>1. Running' \subseteq slice /\ \A m \in waiters' : m \in g.asks /\ phase'[m] = "running"
      <3>1. \A m \in Nodes(g) : m # n => phase'[m] = phase[m]
        BY <1>5
      <3>2. \A m \in waiters' : m \in Nodes(g) /\ m # n
        BY DEF DagInv, TypeOK
      <3> QED
        BY <1>1, <1>2, <3>1, <3>2 DEF DagInv, SliceIsReady, Running
    <2>2. \A m \in slice : m \in Nodes(g)
      BY DEF DagInv, TypeOK
    <2>3. \A m \in slice : phase'[m] = "sleeping" => tries'[m] <= g.retries[m]
      BY <1>5, <2>2 DEF DagInv, SliceIsReady
    <2> QED
      BY <1>2, <1>4, <2>1, <2>3 DEF DagInv, SliceIsReady
  <1>7. BooksAgree'
    <2> SUFFICES ASSUME NEW m \in Nodes(g)
                 PROVE  /\ rows[m] = IF result[m] = "open" THEN 0 ELSE 1
                        /\ result[m] \in Outcomes => result[m] = phase'[m] /\ tries'[m] > 0
                        /\ tries'[m] > 0 <=> m \in slice \/ result[m] \in Outcomes
                        /\ m \in slice => phase'[m] # "idle"
      BY <1>2 DEF BooksAgree
    <2>1. /\ rows[m] = IF result[m] = "open" THEN 0 ELSE 1
          /\ result[m] \in Outcomes => result[m] = phase[m] /\ tries[m] > 0
          /\ tries[m] > 0 <=> m \in slice \/ result[m] \in Outcomes
          /\ m \in slice => phase[m] # "idle"
      BY DEF DagInv, BooksAgree
    <2>2. "open" \notin Outcomes /\ "idle" \notin Outcomes
      BY DEF Outcomes, Routes, Failures
    <2>3. CASE m = n
      <3>1. phase'[n] = p /\ tries'[n] = t /\ result[n] = "open" /\ tries[n] \in Nat
        BY <1>1, <1>5 DEF Open
      <3>2. tries[n] > 0
        BY <1>1, <2>1, <2>3
      <3> QED
        BY <1>1, <2>1, <2>2, <2>3, <3>1, <3>2
    <2>4. CASE m # n
      <3>1. phase'[m] = phase[m] /\ tries'[m] = tries[m]
        BY <1>5, <2>4
      <3> QED
        BY <2>1, <3>1
    <2> QED
      BY <2>3, <2>4
  <1>8. NoneUnhandled' /\ StoppedIsCancelled'
    BY <1>2 DEF DagInv, NoneUnhandled, StoppedIsCancelled
  <1> QED
    BY <1>3, <1>4, <1>6, <1>7, <1>8 DEF DagInv

\* The attempts of the node as they stand.
LEMMA AttemptFacts ==
  ASSUME DagInv, NEW n \in Nodes(g), phase[n] \in {"running", "sleeping"}
  PROVE  /\ tries[n] \in Nat /\ g.retries[n] \in Nat /\ left[n] \in 0..MaxSlices
         /\ tries[n] <= g.retries[n] + 1 /\ MaxSlices \in Nat /\ MaxSlices > 0
         /\ tries = [tries EXCEPT ![n] = tries[n]]
         /\ left = [left EXCEPT ![n] = left[n]]
         /\ phase[n] = "sleeping" => n \notin waiters /\ tries[n] <= g.retries[n]
         /\ n \notin g.asks => n \notin waiters
  <1>1. n \in slice
    BY DEF DagInv, SliceIsReady, Running
  <1> QED
    BY <1>1, MaxSlicesAssumption DEF DagInv, TypeOK, SliceIsReady, IsGraph

LEMMA ReportInv ==
  ASSUME DagInv, NEW n \in Nodes(g), phase[n] = "running", NEW STATE outcome, outcome \in Outcomes,
         Reports(n, outcome), UNCHANGED left, waiters' \subseteq waiters, n \notin waiters'
  PROVE  DagInv'
  <1>1. /\ tries[n] \in Nat /\ left[n] \in 0..MaxSlices /\ tries[n] <= g.retries[n] + 1
        /\ tries' = [tries EXCEPT ![n] = tries[n]] /\ left' = [left EXCEPT ![n] = left[n]]
    BY AttemptFacts DEF Reports
  <1>2. outcome # "sleeping" /\ outcome \in Outcomes \cup {"running", "sleeping"}
    BY DEF Outcomes, Routes, Failures
  <1>3. /\ phase' = [phase EXCEPT ![n] = outcome]
        /\ UNCHANGED <<g, books, status, culprit, queue, slice, aborted>>
    BY DEF Reports
  <1>4. phase[n] \in {"running", "sleeping"} /\ tries[n] >= tries[n]
    BY <1>1
  <1> QED
    BY <1>1, <1>2, <1>3, <1>4, AttemptInv

LEMMA TryAgainInv ==
  ASSUME DagInv, NEW n \in Nodes(g), phase[n] \in {"running", "sleeping"}, TryAgain(n),
         UNCHANGED <<g, books, status, culprit, queue, slice, aborted>>,
         NEW STATE l, l \in 0..MaxSlices, left' = [left EXCEPT ![n] = l],
         waiters' = waiters, n \notin waiters, tries[n] <= g.retries[n]
  PROVE  DagInv'
  <1>1. tries[n] \in Nat /\ g.retries[n] \in Nat /\ tries = [tries EXCEPT ![n] = tries[n]]
    BY AttemptFacts
  <1>2. CASE aborted
    <2>1. "cancelled" \in Outcomes \cup {"running", "sleeping"} /\ tries[n] >= tries[n]
          /\ tries[n] <= g.retries[n] + 1
      BY <1>1 DEF Outcomes, Failures
    <2>2. phase' = [phase EXCEPT ![n] = "cancelled"] /\ tries' = [tries EXCEPT ![n] = tries[n]]
      BY <1>1, <1>2 DEF TryAgain
    <2> QED
      BY <1>1, <2>1, <2>2, AttemptInv
  <1>3. CASE ~aborted
    <2>1. /\ tries[n] + 1 \in Nat /\ tries[n] + 1 >= tries[n] /\ tries[n] + 1 <= g.retries[n] + 1
      BY <1>1
    <2>2. phase' = [phase EXCEPT ![n] = "running"] /\ tries' = [tries EXCEPT ![n] = tries[n] + 1]
      BY <1>3 DEF TryAgain
    <2>3. "running" \in Outcomes \cup {"running", "sleeping"} /\ ("running" = "sleeping" => tries[n] + 1 <= g.retries[n])
          /\ waiters' \subseteq waiters /\ n \notin waiters'
      OBVIOUS
    <2> QED
      BY <2>1, <2>2, <2>3, AttemptInv
  <1> QED
    BY <1>2, <1>3

LEMMA NodeInv == DagInv /\ (\E n \in Nodes(g) : NodeStep(n) \/ Answer(n)) => DagInv'
  <1> SUFFICES ASSUME DagInv, NEW n \in Nodes(g), NodeStep(n) \/ Answer(n) PROVE DagInv'
    OBVIOUS
  <1>1. CASE AttemptSucceeds(n)
    <2>1. PICK route \in g.branches[n] : Reports(n, route)
      BY <1>1 DEF AttemptSucceeds
    <2>2. route \in Outcomes
      BY <2>1 DEF DagInv, TypeOK, IsGraph, Outcomes
    <2>3. phase[n] = "running" /\ n \notin g.asks /\ UNCHANGED <<left, waiters>>
      BY <1>1 DEF AttemptSucceeds, Reports
    <2>4. n \notin waiters
      BY <2>3, AttemptFacts
    <2> QED
      BY <2>1, <2>2, <2>3, <2>4, ReportInv
  <1>2. CASE AttemptFails(n)
    <2>1. phase[n] = "running" /\ n \notin g.asks /\ waiters' = waiters
      BY <1>2 DEF AttemptFails
    <2>2. /\ tries[n] \in Nat /\ g.retries[n] \in Nat /\ left[n] \in 0..MaxSlices /\ n \notin waiters
          /\ left = [left EXCEPT ![n] = left[n]] /\ tries = [tries EXCEPT ![n] = tries[n]]
          /\ MaxSlices \in Nat
      BY <2>1, AttemptFacts
    <2>3. CASE tries[n] > g.retries[n]
      <3>1. Reports(n, "failed") /\ UNCHANGED left /\ "failed" \in Outcomes
        BY <1>2, <2>3 DEF AttemptFails, Reports, Outcomes, Failures
      <3> QED
        BY <2>1, <2>2, <3>1, ReportInv
    <2>4. CASE ~(tries[n] > g.retries[n])
      <3>1. tries[n] <= g.retries[n] /\ tries[n] <= g.retries[n] + 1 /\ tries[n] >= tries[n]
        BY <2>2, <2>4
      <3>2. UNCHANGED <<g, books, status, culprit, queue, slice, aborted>>
        BY <1>2, <2>4 DEF AttemptFails
      <3>3. CASE aborted \/ g.delay[n] = 0
        <4>1. TryAgain(n) /\ left' = [left EXCEPT ![n] = left[n]]
          BY <1>2, <2>2, <2>4, <3>3 DEF AttemptFails
        <4> QED
          BY <2>1, <2>2, <3>1, <3>2, <4>1, TryAgainInv
      <3>4. CASE ~(aborted \/ g.delay[n] = 0)
        <4>1. /\ phase' = [phase EXCEPT ![n] = "sleeping"]
              /\ left' = [left EXCEPT ![n] = Backoff(n, tries[n])]
              /\ tries' = [tries EXCEPT ![n] = tries[n]]
          BY <1>2, <2>2, <2>4, <3>4 DEF AttemptFails
        <4>2. Backoff(n, tries[n]) \in 0..MaxSlices
          BY <2>2 DEF Backoff
        <4> QED
          BY <2>1, <2>2, <3>1, <3>2, <4>1, <4>2, AttemptInv
      <3> QED
        BY <3>3, <3>4
    <2> QED
      BY <2>3, <2>4
  <1>3. CASE SliceOfWaitEnds(n)
    <2>1. /\ phase[n] = "sleeping" /\ waiters' = waiters
          /\ UNCHANGED <<g, books, status, culprit, queue, slice, aborted>>
      BY <1>3 DEF SliceOfWaitEnds
    <2>2. /\ tries[n] \in Nat /\ g.retries[n] \in Nat /\ left[n] \in 0..MaxSlices /\ n \notin waiters
          /\ tries = [tries EXCEPT ![n] = tries[n]] /\ tries[n] <= g.retries[n] /\ MaxSlices \in Nat
      BY <2>1, AttemptFacts
    <2>3. CASE ~aborted /\ left[n] > 1
      <3>1. /\ left' = [left EXCEPT ![n] = left[n] - 1] /\ tries' = [tries EXCEPT ![n] = tries[n]]
            /\ phase' = [phase EXCEPT ![n] = "sleeping"]
        BY <1>3, <2>1, <2>2, <2>3 DEF SliceOfWaitEnds, DagInv, TypeOK
      <3>2. left[n] - 1 \in 0..MaxSlices /\ tries[n] >= tries[n] /\ tries[n] <= g.retries[n] + 1
        BY <2>2, <2>3
      <3> QED
        BY <2>1, <2>2, <3>1, <3>2, AttemptInv
    <2>4. CASE ~(~aborted /\ left[n] > 1)
      <3>1. left' = [left EXCEPT ![n] = 0] /\ TryAgain(n) /\ 0 \in 0..MaxSlices
        BY <1>3, <2>2, <2>4 DEF SliceOfWaitEnds
      <3> QED
        BY <2>1, <2>2, <3>1, TryAgainInv
    <2> QED
      BY <2>3, <2>4
  <1>4. CASE TimesOut(n) \/ Answer(n)
    <2>1. PICK answer \in {"timeout", "approved", "rejected"} : Resolve(n, answer)
      BY <1>4 DEF TimesOut, Answer
    <2>2. phase[n] = "running"
      BY <2>1 DEF Resolve, DagInv, SliceIsReady
    <2>3. waiters' = waiters \ {n} /\ Reports(n, answer) /\ UNCHANGED left
      BY <2>1 DEF Resolve, Reports
    <2>4. answer \in Outcomes
      BY DEF Outcomes, Routes
    <2> QED
      BY <2>2, <2>3, <2>4, ReportInv
  <1> QED
    BY <1>1, <1>2, <1>3, <1>4 DEF NodeStep

LEMMA StopInv == DagInv /\ (Stop \/ UNCHANGED vars) => DagInv'
  <1> SUFFICES ASSUME DagInv, Stop \/ UNCHANGED vars PROVE DagInv'
    OBVIOUS
  <1>1. UNCHANGED <<g, result, edgeState, rows, steps, status, culprit, queue, slice,
                    phase, tries, left, waiters>> /\ aborted' \in BOOLEAN
        /\ (aborted' = aborted \/ slice # {})
    BY DEF Stop, vars, books, run, DagInv, TypeOK
  <1>2. Ready' = Ready /\ Running' = Running /\ EdgesFollow'
    BY <1>1 DEF Ready, Running, Open, In, Determined, DagInv, EdgesFollow, Activates, Out
  <1>3. TypeOK' /\ BooksAgree' /\ NoneUnhandled'
    BY <1>1 DEF DagInv, TypeOK, BooksAgree, NoneUnhandled
  <1>4. SliceIsReady'
    BY <1>1, <1>2 DEF DagInv, SliceIsReady
  <1>5. StoppedIsCancelled'
    BY <1>1 DEF DagInv, StoppedIsCancelled, SliceIsReady
  <1> QED
    BY <1>2, <1>3, <1>4, <1>5 DEF DagInv

LEMMA StepInv == DagInv /\ [Next]_vars => DagInv'
  BY RoundInv, SliceDoneInv, VerdictInv, NodeInv, StopInv DEF Next, Schedule, Over

LEMMA Invariance == Spec => []DagInv
  <1>1. Init => DagInv
    BY InitInv, GraphsAssumption
  <1> QED
    BY <1>1, StepInv, PTL DEF Spec

-----------------------------------------------------------------------------
(* What every run of every workflow does.                                  *)

\* Every variable of a run keeps to its values (schedule, runWithRetry).
THEOREM DagTypeCorrect == Spec => []TypeOK
  BY Invariance, PTL DEF DagInv

\* When a run is over, all that was ever tried is in the books, once
\* (schedule books a whole slice before it judges it).
THEOREM NothingIsLost == Spec => []NothingLost
  <1>1. DagInv => NothingLost
    BY DEF DagInv, NothingLost, SliceIsReady, BooksAgree, TypeOK, Outcomes, Routes, Failures
  <1> QED
    BY <1>1, Invariance, PTL

\* When a run is over, none of its nodes runs and no confirm of it waits.
THEOREM NothingIsLeftBehind == Spec => []NothingLeftBehind
  <1>1. DagInv => NothingLeftBehind
    BY DEF DagInv, NothingLeftBehind, SliceIsReady, Running, TypeOK
  <1> QED
    BY <1>1, Invariance, PTL

\* A stopped run ends as cancelled (cancelledInBatch outranks hardFail).
THEOREM StoppedRunsAreCancelled == Spec => []StoppedIsCancelled
  BY Invariance, PTL DEF DagInv

\* After a stop nothing is tried again and no wait goes on (runWithRetry).
THEOREM StopsArePrompt == Spec => StopIsPrompt
  <1> DEFINE Prompt == aborted => \A n \in Nodes(g) :
                         /\ tries'[n] = tries[n]
                         /\ phase[n] = "sleeping" /\ left'[n] # left[n] => phase'[n] = "cancelled"
  <1>1. DagInv /\ [Next]_vars => [Prompt]_vars
    <2> SUFFICES ASSUME DagInv, Next, aborted PROVE Prompt \/ UNCHANGED vars
      OBVIOUS
    <2>1. CASE CancelledRound \/ AllSettled \/ Deadlocked
      BY <2>1 DEF CancelledRound, AllSettled, Deadlocked, Finish, run
    <2>2. CASE Round \/ Stop
      BY <2>2 DEF Round, Stop
    <2>3. CASE SliceDone
      BY <2>3 DEF SliceDone, Cancelled, Finish, run
    <2>4. ASSUME NEW n \in Nodes(g), NodeStep(n) \/ Answer(n) PROVE Prompt
      <3>1. /\ tries \in [Nodes(g) -> Nat] /\ left \in [Nodes(g) -> 0..MaxSlices]
            /\ phase \in [Nodes(g) -> Outcomes \cup {"idle", "running", "sleeping"}]
        BY DEF DagInv, TypeOK
      <3>2. CASE AttemptSucceeds(n) \/ TimesOut(n) \/ Answer(n)
        BY <3>2 DEF AttemptSucceeds, TimesOut, Answer, Resolve, Reports
      <3>3. CASE AttemptFails(n)
        BY <3>1, <3>3 DEF AttemptFails, TryAgain, Reports
      <3>4. CASE SliceOfWaitEnds(n)
        <4>1. /\ phase[n] = "sleeping" /\ left' = [left EXCEPT ![n] = 0]
              /\ phase' = [phase EXCEPT ![n] = "cancelled"] /\ tries' = tries
          BY <3>4 DEF SliceOfWaitEnds, TryAgain
        <4> QED
          BY <3>1, <4>1
      <3> QED
        BY <2>4, <3>2, <3>3, <3>4 DEF NodeStep
    <2>5. CASE Over
      BY <2>5 DEF Over
    <2> QED
      BY <2>1, <2>2, <2>3, <2>4, <2>5 DEF Next, Schedule
  <1> QED
    BY <1>1, Invariance, PTL DEF Spec, StopIsPrompt

-----------------------------------------------------------------------------
(* The refinement: what the edge states say is what the promise says of    *)
(* the settled sources.                                                    *)

\* The promise talks of the same workflow.
LEMMA SameGraph ==
  /\ Promise!Routes = Routes /\ Promise!Failures = Failures /\ Promise!Outcomes = Outcomes
  /\ \A w : Promise!Nodes(w) = Nodes(w) /\ (Promise!IsGraph(w) <=> IsGraph(w))
  /\ \A w, n : Promise!In(w, n) = In(w, n) /\ Promise!Out(w, n) = Out(w, n)
  /\ \A w, n, o : Promise!HardFailure(w, n, o) <=> HardFailure(w, n, o)
  BY DEF Promise!Routes, Routes, Promise!Failures, Failures, Promise!Outcomes, Outcomes, Promise!Nodes,
         Nodes, Promise!IsGraph, IsGraph, Promise!In, In, Promise!Out, Out, Promise!HardFailure, HardFailure

LEMMA LiveIsActive ==
  ASSUME TypeOK, EdgesFollow, NEW e \in g.edges, result[e.src] # "open"
  PROVE  Promise!Live(e) <=> edgeState[e] = "active"
  <1>1. /\ e.src \in Nodes(g) /\ e.handle \in Routes \cup {"fail", "default"}
        /\ result[e.src] \in Outcomes \cup {"skipped"}
    BY DEF TypeOK, IsGraph
  <1>2. edgeState[e] = "active" <=> Activates(e, result[e.src])
    BY DEF EdgesFollow
  <1>3. CASE e.handle = "plain"
    BY SameGraph, <1>1, <1>2, <1>3 DEF Promise!Live, Promise!Passed, Activates, Outcomes, Routes, Failures
  <1>4. CASE e.handle = "fail"
    BY SameGraph, <1>1, <1>2, <1>4 DEF Promise!Live, Promise!Passed, Activates, Outcomes, Routes, Failures
  <1>5. CASE e.handle = "default"
    <2>1. /\ Promise!Live(e) <=>
               /\ Promise!Passed(e)
               /\ ~ \E o \in Out(g, e.src) : o.handle # "plain" /\ o.handle = result[e.src]
          /\ Activates(e, result[e.src]) <=>
               /\ Promise!Passed(e)
               /\ ~ (/\ Promise!Passed(e) /\ result[e.src] # "plain"
                     /\ result[e.src] \in {o.handle : o \in Out(g, e.src)} \ {"fail", "default"})
      BY SameGraph, <1>1, <1>5 DEF Promise!Live, Promise!Passed, Activates, Outcomes, Routes, Failures
    <2>2. result[e.src] \notin {"fail", "default"}
      BY <1>1 DEF Outcomes, Routes, Failures
    <2> QED
      BY <1>2, <2>1, <2>2
  <1>6. CASE e.handle \notin {"plain", "fail", "default"}
    BY SameGraph, <1>1, <1>2, <1>6 DEF Promise!Live, Promise!Passed, Activates, Outcomes, Routes, Failures
  <1> QED
    BY <1>2, <1>3, <1>4, <1>5, <1>6

LEMMA OpenIsOpen == Promise!Open = Open
  BY SameGraph DEF Promise!Open, Open

\* What the scheduler finds ready or skipped is what the promise wants or not.
LEMMA ReadyIsWanted ==
  ASSUME TypeOK, EdgesFollow
  PROVE  /\ \A n \in Open : n \in Ready <=> Promise!Wanted(n)
         /\ \A n \in Open : n \in Skipped <=> Promise!Unwanted(n)
  <1> SUFFICES ASSUME NEW n \in Open
               PROVE  (n \in Ready <=> Promise!Wanted(n)) /\ (n \in Skipped <=> Promise!Unwanted(n))
    OBVIOUS
  <1>1. \A e \in In(g, n) : e \in g.edges /\ e.src \in Nodes(g)
    BY DEF In, TypeOK, IsGraph
  <1>2. \A e \in In(g, n) : (edgeState[e] # "unset") <=> e.src \notin Open
    BY <1>1 DEF EdgesFollow, Open
  <1>3. \A e \in In(g, n) : e.src \notin Open =>
          /\ Promise!Live(e) <=> edgeState[e] = "active"
          /\ ~Promise!Live(e) <=> edgeState[e] = "skipped"
    BY <1>1, <1>2, LiveIsActive DEF Open, TypeOK
  <1>4. Determined(n) <=> Promise!Due(n)
    BY <1>2, OpenIsOpen, SameGraph DEF Determined, Promise!Due
  <1>5. (\A e \in In(g, n) : edgeState[e] = "skipped") => Determined(n)
    BY DEF Determined
  <1> QED
    BY <1>2, <1>3, <1>4, <1>5, OpenIsOpen, SameGraph DEF Ready, Skipped, Promise!Wanted, Promise!Unwanted, Promise!Due

LEMMA SettleKept ==
  ASSUME DagInv, g' = g, NEW STATE S, S \subseteq Open, NEW STATE outcome, Settled(S, outcome),
         \A n \in S : \/ n \in Ready /\ outcome[n] \in Outcomes
                      \/ n \in Skipped /\ outcome[n] = "skipped"
  PROVE  Promise!Settle
  <1>1. result' \in [Nodes(g) -> Outcomes \cup {"open", "skipped"}]
    BY SettledFollows DEF DagInv
  <1>2. \A n \in Nodes(g) : n \notin S => result'[n] = result[n]
    BY DEF Settled
  <1>3. \A n \in S : n \in Nodes(g) /\ result'[n] = outcome[n]
    BY DEF Settled, Open
  <1>4. \A n \in S : (n \in Ready => Promise!Wanted(n)) /\ (n \in Skipped => Promise!Unwanted(n))
    BY ReadyIsWanted DEF DagInv
  <1> QED
    BY <1>1, <1>2, <1>3, <1>4, OpenIsOpen, SameGraph DEF Promise!Settle

\* When the graph has no ready and no skipped node, open nodes wait for each other.
LEMMA DeadlockIsCircular ==
  ASSUME TypeOK, EdgesFollow, Ready = {}, Skipped = {}
  PROVE  \A n \in Open : \E e \in In(g, n) : e.src \in Open
  <1> SUFFICES ASSUME NEW n \in Open, \A e \in In(g, n) : e.src \notin Open PROVE FALSE
    OBVIOUS
  <1>1. Promise!Due(n)
    BY OpenIsOpen, SameGraph DEF Promise!Due
  <1>2. Promise!Wanted(n) \/ Promise!Unwanted(n)
    BY <1>1, SameGraph DEF Promise!Wanted, Promise!Unwanted
  <1> QED
    BY <1>2, ReadyIsWanted

LEMMA UnhandledIs == Promise!Unhandled = {n \in Nodes(g) : HardFailure(g, n, result[n])}
  BY SameGraph DEF Promise!Unhandled

\* A run that goes on, or ends with no node at fault, passes over no failure.
LEMMA StillNoneUnhandled ==
  ASSUME DagInv, status = "running", g' = g, NEW STATE S, NEW STATE outcome, Settled(S, outcome),
         \A n \in S : ~HardFailure(g, n, outcome[n])
  PROVE  Promise!Unhandled' = {}
  <1>1. \A n \in Nodes(g) : ~HardFailure(g, n, result'[n])
    BY DEF DagInv, NoneUnhandled, Settled
  <1>2. Promise!Unhandled' = {n \in Nodes(g) : HardFailure(g, n, result'[n])}
    BY UnhandledIs, SameGraph DEF Promise!Unhandled
  <1> QED
    BY <1>1, <1>2

LEMMA SettlesNothing == DagInv /\ UNCHANGED <<g, result>> => Promise!Settle
  BY SameGraph DEF DagInv, TypeOK, Promise!Settle

LEMMA VerdictKept ==
  ASSUME DagInv, CancelledRound \/ AllSettled \/ Deadlocked
  PROVE  Promise!Next
  <1>1. status = "running" /\ UNCHANGED <<g, result>> /\ culprit' = 0
    BY DEF CancelledRound, AllSettled, Deadlocked, BetweenSlices, Finish, books
  <1>2. Promise!Settle
    BY <1>1, SettlesNothing
  <1>3. Promise!Open' = Open
    BY <1>1, SameGraph DEF Promise!Open, Open
  <1>4. CASE CancelledRound
    <2>1. status' = "cancelled"
      BY <1>4 DEF CancelledRound, Finish
    <2> QED
      BY <1>1, <1>2, <2>1 DEF Promise!Next, Promise!Verdict
  <1>5. CASE AllSettled
    <2>1. status' = "completed" /\ Open = {}
      BY <1>5 DEF AllSettled, Finish
    <2>2. Promise!Unhandled' = {}
      BY <1>1, SameGraph DEF Promise!Unhandled, DagInv, NoneUnhandled
    <2> QED
      BY <1>1, <1>2, <1>3, <2>1, <2>2 DEF Promise!Next, Promise!Verdict
  <1>6. CASE Deadlocked
    <2>1. status' = "failed" /\ Open # {} /\ Ready = {} /\ Skipped = {}
      BY <1>6 DEF Deadlocked, Finish
    <2>2. \A n \in Open : \E e \in In(g, n) : e.src \in Open
      BY <2>1, DeadlockIsCircular DEF DagInv
    <2>3. \A n \in Promise!Open' : \E e \in Promise!In(g, n) : e.src \in Promise!Open'
      BY <1>3, <2>2, SameGraph
    <2> QED
      BY <1>1, <1>2, <1>3, <2>1, <2>3 DEF Promise!Next, Promise!Verdict
  <1> QED
    BY <1>4, <1>5, <1>6

LEMMA RoundKept ==
  ASSUME DagInv, Round
  PROVE  Promise!Next
  <1> DEFINE skip == [k \in Skipped |-> "skipped"]
  <1>1. /\ status = "running" /\ g' = g /\ status' = status /\ culprit' = culprit
        /\ Settled(Skipped, skip)
    BY DEF Round, BetweenSlices
  <1>2. \A n \in Skipped : n \in Skipped /\ skip[n] = "skipped" /\ ~HardFailure(g, n, skip[n])
    BY DEF HardFailure, Failures
  <1>3. Skipped \subseteq Open
    BY DEF Skipped
  <1> HIDE DEF skip
  <1>4. Promise!Settle
    BY <1>1, <1>2, <1>3, SettleKept
  <1>5. Promise!Unhandled' = {}
    BY <1>1, <1>2, StillNoneUnhandled
  <1> QED
    BY <1>1, <1>4, <1>5 DEF Promise!Next, Promise!Verdict, DagInv, NoneUnhandled

LEMMA SliceDoneKept ==
  ASSUME DagInv, SliceDone
  PROVE  Promise!Next
  <1>1. SliceOver /\ Settled(slice, phase) /\ g' = g
    BY DEF SliceDone, Finish
  <1>2. /\ \A n \in slice : phase[n] \in Outcomes
        /\ slice \subseteq Open /\ slice \subseteq Nodes(g) /\ status = "running"
    BY <1>1, SliceOutcomes
  <1>3. Promise!Settle
    <2>1. \A n \in slice : n \in Ready
      BY DEF DagInv, SliceIsReady
    <2> QED
      BY <1>1, <1>2, <2>1, SettleKept
  <1>4. CASE Cancelled /\ Finish("cancelled", 0)
    BY <1>1, <1>2, <1>3, <1>4 DEF Finish, Promise!Next, Promise!Verdict
  <1>5. CASE ~Cancelled /\ \E n \in FirstOf(HardFailures, 1) : Finish("failed", n)
    <2>1. PICK n \in FirstOf(HardFailures, 1) : Finish("failed", n)
      BY <1>5
    <2>2. Promise!Unhandled' = HardFailures
      <3>1. Promise!Unhandled' = {k \in Nodes(g) : HardFailure(g, k, result'[k])}
        BY <1>1, SameGraph DEF Promise!Unhandled
      <3>2. \A k \in Nodes(g) : HardFailure(g, k, result'[k]) <=> k \in slice /\ HardFailure(g, k, phase[k])
        BY <1>1, <1>2 DEF Settled, DagInv, NoneUnhandled
      <3> QED
        BY <1>2, <3>1, <3>2 DEF HardFailures
    <2>3. n \in HardFailures /\ \A k \in HardFailures : n <= k
      <3>1. HardFailures \subseteq Nodes(g)
        BY <1>2 DEF HardFailures
      <3>2. g.n \in Nat
        BY DEF DagInv, TypeOK, IsGraph
      <3>3. IsFiniteSet({k \in HardFailures : k < n})
        <4>1. IsFiniteSet(Nodes(g))
          BY <3>2, FS_Interval, 1 \in Int DEF Nodes
        <4> QED
          BY <3>1, <4>1, FS_Subset
      <3>4. n \in HardFailures /\ Cardinality({k \in HardFailures : k < n}) < 1
        BY <2>1 DEF FirstOf
      <3>5. Cardinality({k \in HardFailures : k < n}) = 0
        BY <3>3, <3>4, FS_CardinalityType
      <3>6. {k \in HardFailures : k < n} = {}
        BY <3>3, <3>5, FS_EmptySet
      <3> QED
        BY <3>1, <3>2, <3>4, <3>6 DEF Nodes
    <2>4. status' = "failed" /\ culprit' = n
      BY <2>1 DEF Finish
    <2> QED
      BY <1>1, <1>2, <1>3, <2>2, <2>3, <2>4 DEF Promise!Next, Promise!Verdict
  <1>6. CASE /\ ~Cancelled /\ HardFailures = {}
             /\ Begin(queue)
             /\ UNCHANGED <<g, status, culprit, aborted>>
    <2>1. Promise!Unhandled' = {}
      BY <1>1, <1>2, <1>6, StillNoneUnhandled DEF HardFailures
    <2> QED
      BY <1>1, <1>2, <1>3, <1>6, <2>1 DEF Promise!Next, Promise!Verdict, DagInv, NoneUnhandled
  <1> QED
    BY <1>4, <1>5, <1>6 DEF SliceDone

\* Whatever the interleaving, a run does what WorkflowPromise promises: the
\* order in which attempts end changes neither what settles nor how.
THEOREM PromiseKept == Spec => KeepsPromise
  <1>1. Init => Promise!Init
    <2> SUFFICES ASSUME Init PROVE Promise!Init
      OBVIOUS
    <2>1. IsGraph(g)
      BY GraphsAssumption DEF Init
    <2> QED
      BY <2>1, SameGraph DEF Init, Promise!Init
  <1>2. DagInv /\ [Next]_vars => [Promise!Next]_(Promise!vars)
    <2> SUFFICES ASSUME DagInv, [Next]_vars
                 PROVE  Promise!Next \/ UNCHANGED <<g, result, status, culprit>>
      BY DEF Promise!vars
    <2>1. CASE Schedule
      BY <2>1, VerdictKept, RoundKept, SliceDoneKept DEF Schedule
    <2>2. CASE \E n \in Nodes(g) : NodeStep(n) \/ Answer(n)
      BY <2>2 DEF NodeStep, Answer, AttemptSucceeds, AttemptFails, SliceOfWaitEnds, TimesOut,
                  Resolve, Reports, books
    <2>3. CASE Stop \/ Over \/ UNCHANGED vars
      BY <2>3 DEF Stop, Over, vars, books
    <2> QED
      BY <2>1, <2>2, <2>3 DEF Next
  <1> QED
    BY <1>1, <1>2, Invariance, PTL DEF Spec, KeepsPromise, Promise!Spec

SliceWanted == \A n \in slice : Promise!Wanted(n)

LEMMA SliceIsWanted == DagInv => SliceWanted
  <1> SUFFICES ASSUME DagInv, NEW n \in slice PROVE Promise!Wanted(n)
    BY DEF SliceWanted
  <1>1. n \in Ready /\ n \in Open
    BY DEF DagInv, SliceIsReady, Ready
  <1> QED
    BY <1>1, ReadyIsWanted DEF DagInv

\* A node whose attempts begin is wanted by its settled sources at that very
\* moment, however long ago the scheduler found it ready.
THEOREM NodesBeginWanted == Spec => BeginsWanted
  <1> DEFINE Wants == \A n \in Nodes(g) : tries[n] = 0 /\ tries'[n] = 1 => Promise!Wanted(n)'
  <1>1. DagInv /\ SliceWanted' /\ [Next]_vars => [Wants]_vars
    <2> SUFFICES ASSUME DagInv, SliceWanted', Next, NEW n \in Nodes(g), tries[n] = 0, tries'[n] = 1
                 PROVE  Promise!Wanted(n)'
      OBVIOUS
    <2>1. Begin(Ready) \/ Begin(queue) => n \in slice'
      BY DEF Begin
    <2>2. tries' # tries
      OBVIOUS
    <2>3. Round \/ SliceDone \/ \E m \in Nodes(g) : NodeStep(m) \/ Answer(m)
      BY <2>2 DEF Next, Schedule, CancelledRound, AllSettled, Deadlocked, Finish, run, Stop, Over, vars
    <2>4. n \in slice'
      <3>1. CASE Round
        BY <2>1, <3>1 DEF Round
      <3>2. CASE SliceDone
        BY <2>1, <2>2, <3>2 DEF SliceDone, Finish, run
      <3>3. CASE \E m \in Nodes(g) : NodeStep(m) \/ Answer(m)
        <4>1. PICK m \in Nodes(g) : NodeStep(m) \/ Answer(m)
          BY <3>3
        <4>2. phase[m] \in {"running", "sleeping"} /\ tries' = [tries EXCEPT ![m] = tries[m] + 1]
          BY <2>2, <4>1 DEF NodeStep, Answer, AttemptSucceeds, AttemptFails, SliceOfWaitEnds, TimesOut,
                            Resolve, Reports, TryAgain
        <4>3. m = n
          BY <4>2 DEF DagInv, TypeOK
        <4>4. n \in slice
          BY <4>2, <4>3 DEF DagInv, SliceIsReady, Running
        <4> QED
          BY <4>4 DEF DagInv, BooksAgree
      <3> QED
        BY <2>3, <3>1, <3>2, <3>3
    <2> QED
      BY <2>4 DEF SliceWanted
  <1> QED
    BY <1>1, Invariance, SliceIsWanted, PTL DEF Spec, BeginsWanted

-----------------------------------------------------------------------------
(* detectCycle and the scheduler.                                          *)

\* Induction on a set of numbers, from the least number outside it.
LEMMA NatSetInduction ==
  ASSUME NEW S, 0 \in S, \A n \in Nat : n \in S => n + 1 \in S
  PROVE  Nat \subseteq S
  <1> DEFINE T == {n \in Nat : n \notin S}
             R == OpToRel(<, Nat)
  <1>1. R = {ss \in Nat \X Nat : ss[1] < ss[2]}
    BY DEF OpToRel
  <1>2. IsWellFoundedOn(R, Nat)
    BY NatLessThanWellFounded
  <1> SUFFICES ASSUME T # {} PROVE FALSE
    OBVIOUS
  <1>3. T \subseteq Nat
    OBVIOUS
  <1> HIDE DEF R
  <1>4. PICK x \in T : \A y \in T : ~ (<<y, x>> \in R)
    <2> HIDE DEF T
    <2> QED
      BY <1>2, <1>3, WFMin
  <1>5. x - 1 \in Nat /\ x - 1 \notin S
    BY <1>4
  <1>6. <<x - 1, x>> \in R
    BY <1>1, <1>5
  <1> QED
    BY <1>4, <1>5, <1>6

\* What one round of detectCycle takes away, when T has been taken away.
Takes(w, T) == {n \in Nodes(w) : \A e \in In(w, n) : e.src \in T}
TakenUpTo(w, k, t) == t = [i \in 0..k |-> IF i = 0 THEN {} ELSE Takes(w, t[i - 1])]

\* Its rounds are well defined, for any number of them.
LEMMA RoundsExist == ASSUME NEW w, NEW k \in Nat PROVE \E t : TakenUpTo(w, k, t)
  <1> DEFINE S == {m \in Nat : \E t : TakenUpTo(w, m, t)}
  <1>1. 0 \in S
    <2>1. TakenUpTo(w, 0, [i \in 0..0 |-> {}])
      BY DEF TakenUpTo
    <2> QED
      BY <2>1
  <1>2. ASSUME NEW m \in Nat, m \in S PROVE m + 1 \in S
    <2>1. PICK t : t = [i \in 0..m |-> IF i = 0 THEN {} ELSE Takes(w, t[i - 1])]
      BY <1>2 DEF TakenUpTo
    <2> DEFINE next == [i \in 0..(m + 1) |-> IF i = m + 1 THEN Takes(w, t[m]) ELSE t[i]]
    <2>2. \A i \in 0..m : next[i] = t[i]
      OBVIOUS
    <2>3. \A i \in 0..(m + 1) : next[i] = IF i = 0 THEN {} ELSE Takes(w, next[i - 1])
      <3> TAKE i \in 0..(m + 1)
      <3>1. CASE i = m + 1
        <4>1. next[i] = Takes(w, t[m]) /\ i # 0 /\ i - 1 = m /\ m \in 0..m
          BY <3>1
        <4> QED
          BY <2>2, <4>1
      <3>2. CASE i \in 0..m
        <4>1. next[i] = t[i]
          BY <2>2, <3>2
        <4>2. t[i] = IF i = 0 THEN {} ELSE Takes(w, t[i - 1])
          BY <2>1, <3>2
        <4>3. i # 0 => i - 1 \in 0..m
          BY <3>2
        <4> QED
          BY <2>2, <4>1, <4>2, <4>3
      <3> QED
        BY <3>1, <3>2
    <2>4. next = [i \in 0..(m + 1) |-> next[i]]
      OBVIOUS
    <2> HIDE DEF next
    <2>5. TakenUpTo(w, m + 1, next)
      BY <2>3, <2>4 DEF TakenUpTo
    <2> QED
      BY <2>5
  <1> HIDE DEF S
  <1>3. Nat \subseteq S
    BY <1>1, <1>2, NatSetInduction
  <1> QED
    BY <1>3 DEF S

\* Nodes each of which has a source among them are never taken away.
LEMMA CircularIsNotTaken ==
  ASSUME NEW w, IsGraph(w), NEW U \in SUBSET Nodes(w),
         \A n \in U : \E e \in In(w, n) : e.src \in U
  PROVE  U \subseteq CycleMembers(w)
  <1> DEFINE taken == CHOOSE t : TakenUpTo(w, w.n, t)
  <1>1. w.n \in Nat
    BY DEF IsGraph
  <1>2. CycleMembers(w) = Nodes(w) \ taken[w.n]
    BY DEF CycleMembers, TakenUpTo, Takes
  <1>3. TakenUpTo(w, w.n, taken)
    <2>1. \E t : TakenUpTo(w, w.n, t)
      BY <1>1, RoundsExist
    <2> QED
      BY <2>1
  <1> HIDE DEF taken
  <1> DEFINE S == {i \in Nat : i <= w.n => taken[i] \cap U = {}}
  <1>4. 0 \in S
    BY <1>1, <1>3 DEF TakenUpTo
  <1>5. ASSUME NEW i \in Nat, i \in S PROVE i + 1 \in S
    <2> SUFFICES ASSUME i + 1 <= w.n, NEW n \in taken[i + 1], n \in U PROVE FALSE
      OBVIOUS
    <2>1. i + 1 \in 0..w.n /\ i + 1 # 0 /\ i + 1 - 1 = i
      BY <1>1
    <2>2. taken[i + 1] = Takes(w, taken[i])
      <3>1. PICK j \in 0..w.n : j = i + 1
        BY <2>1
      <3>2. taken[j] = IF j = 0 THEN {} ELSE Takes(w, taken[j - 1])
        BY <1>3 DEF TakenUpTo
      <3> QED
        BY <2>1, <3>1, <3>2
    <2>3. PICK e \in In(w, n) : e.src \in U
      OBVIOUS
    <2>4. e.src \in taken[i]
      BY <2>2, <2>3 DEF Takes
    <2>5. taken[i] \cap U = {}
      BY <1>1, <1>5
    <2> QED
      BY <2>3, <2>4, <2>5
  <1> HIDE DEF S
  <1>6. w.n \in S
    BY <1>1, <1>4, <1>5, NatSetInduction
  <1>7. taken[w.n] \cap U = {}
    BY <1>1, <1>6 DEF S
  <1> QED
    BY <1>2, <1>7

\* A run that ended with no node at fault stopped at nodes that wait for each other.
Circular ==
  status = "failed" /\ culprit = 0 =>
    Open # {} /\ \A n \in Open : \E e \in In(g, n) : e.src \in Open
LEMMA CircularStep == DagInv /\ Circular /\ [Next]_vars => Circular'
  <1> SUFFICES ASSUME DagInv, Circular, [Next]_vars, status' = "failed" /\ culprit' = 0
               PROVE  Open' # {} /\ \A n \in Open' : \E e \in In(g', n) : e.src \in Open'
    BY DEF Circular
  <1>1. CASE UNCHANGED <<g, result, status, culprit>>
    BY <1>1 DEF Circular, Open
  <1>2. CASE Deadlocked
    <2>1. Open # {} /\ \A n \in Open : \E e \in In(g, n) : e.src \in Open
      BY <1>2, DeadlockIsCircular DEF Deadlocked, DagInv
    <2>2. UNCHANGED <<g, result>>
      BY <1>2 DEF Deadlocked, Finish, books
    <2> QED
      BY <2>1, <2>2 DEF Open
  <1>3. CASE SliceDone
    <2>1. \A n \in FirstOf(HardFailures, 1) : n # 0
      BY FirstOfSubset DEF HardFailures, DagInv, TypeOK, Nodes
    <2>2. status = "running"
      BY <1>3 DEF SliceDone, SliceOver, DagInv, SliceIsReady
    <2> QED
      BY <1>3, <2>1, <2>2 DEF SliceDone, Finish
  <1>4. CASE CancelledRound \/ AllSettled \/ Round
    BY <1>4 DEF CancelledRound, AllSettled, Round, BetweenSlices, Finish
  <1>5. CASE \E n \in Nodes(g) : NodeStep(n) \/ Answer(n)
    BY <1>1, <1>5 DEF NodeStep, Answer, AttemptSucceeds, AttemptFails, SliceOfWaitEnds, TimesOut,
                      Resolve, Reports, books
  <1>6. CASE Stop \/ Over \/ UNCHANGED vars
    BY <1>1, <1>6 DEF Stop, Over, vars, books
  <1> QED
    BY <1>2, <1>3, <1>4, <1>5, <1>6 DEF Next, Schedule

\* For every workflow in which detectCycle finds no cycle: whatever its nodes report,
\* the scheduler never ends the run because nothing is ready (validateWorkflow,
\* schedule: "deadlock").
THEOREM ValidRunsNeverDeadlock == Spec => []ValidNeverDeadlocks
  <1>1. Init => Circular
    BY DEF Init, Circular
  <1>2. DagInv /\ Circular => ValidNeverDeadlocks
    <2> SUFFICES ASSUME DagInv, Circular, status = "failed", culprit = 0 PROVE CycleMembers(g) # {}
      BY DEF ValidNeverDeadlocks
    <2>1. IsGraph(g) /\ Open \in SUBSET Nodes(g)
      BY DEF DagInv, TypeOK, Open
    <2>2. Open # {} /\ \A n \in Open : \E e \in In(g, n) : e.src \in Open
      BY DEF Circular
    <2> QED
      BY <2>1, <2>2, CircularIsNotTaken
  <1> QED
    BY <1>1, <1>2, CircularStep, Invariance, PTL DEF Spec
=============================================================================
