------------------------ MODULE BackgroundWorkProofs ------------------------
(***************************************************************************)
(* For every limit and every set of tasks: the slots of the engine count   *)
(* the lanes that execute, no task executes twice, no slot idles while a   *)
(* task is queued, and only resumed lanes go beyond the limit.  The        *)
(* invariant is about the pool alone and is carried through each of the    *)
(* engine's methods; the callers only choose which method comes next.      *)
(***************************************************************************)
EXTENDS BackgroundWork, FiniteSetTheorems, TLAPS

Executing(p) == {t \in Tasks : p.status[t] = "running"}

\* A lane executes for each entry that says so, and for no other.
LanesAreEntries(p) == \A t \in Tasks : p.runs[t] = IF p.status[t] = "running" THEN 1 ELSE 0

\* The counter of foreground slots is the number of foreground entries.
ForegroundCounted(p) ==
  /\ p.foreground \subseteq Executing(p)
  /\ p.foregroundRunning = IF p.limit = 0 THEN 0 ELSE Cardinality(p.foreground)

\* Each call that waits for a slot waits once, and has no entry yet.
WaitersAreNew(p) ==
  /\ \A i \in 1..Len(p.slotWaiters) : p.status[p.slotWaiters[i]] = "gone"
  /\ \A i, j \in 1..Len(p.slotWaiters) : p.slotWaiters[i] = p.slotWaiters[j] => i = j

\* What is queued is in the queue, and there is a queue only under a limit.
QueuedIsInQueue(p) ==
  \A t \in Tasks : p.status[t] = "queued" =>
    /\ p.limit > 0
    /\ \E i \in 1..Len(p.laneQueue) : p.laneQueue[i] = t

Sound(p) ==
  /\ p \in Pool
  /\ LanesAreEntries(p) /\ ForegroundCounted(p) /\ WaitersAreNew(p) /\ QueuedIsInQueue(p)

\* Nothing waits in the queue for a slot that is free.
QueueIsNeeded(p) == \A t \in Tasks : p.status[t] = "queued" => runningCount(p) >= p.limit

\* The lanes that nobody resumed by hand are within the limit.
Unresumed(p) == {t \in Tasks : p.runs[t] > 0 /\ t \notin p.resumed}
KeepsLimit(p) == p.limit > 0 => Cardinality(Unresumed(p)) <= p.limit

PoolInv(p) == Sound(p) /\ QueueIsNeeded(p) /\ KeepsLimit(p)

-----------------------------------------------------------------------------
(* Numbers *)

\* A non-empty set of natural numbers has a least member.
LEMMA LeastNumber ==
  ASSUME NEW S, S \subseteq Nat, S # {}
  PROVE  \E n \in S : \A m \in S : n <= m
  <1> DEFINE T == {0..n : n \in S}
  <1>1. T \subseteq FiniteSubsetsOf(Nat) /\ T # {}
    <2>1. ASSUME NEW n \in S
          PROVE  0..n \in FiniteSubsetsOf(Nat)
      <3>1. n \in Int /\ 0 \in Int /\ 0..n \in SUBSET Nat
        OBVIOUS
      <3>2. IsFiniteSet(0..n)
        BY <3>1, FS_Interval
      <3> QED
        BY <3>1, <3>2 DEF FiniteSubsetsOf
    <2> QED
      BY <2>1
  <1>2. IsWellFoundedOn(StrictSubsetOrdering(Nat), FiniteSubsetsOf(Nat))
    BY FS_StrictSubsetOrderingWellFounded
  <1> HIDE DEF T
  <1>3. \E x \in T : \A y \in T : ~(<<y, x>> \in StrictSubsetOrdering(Nat))
    BY <1>1, <1>2, WFMin
  <1> USE DEF T
  <1>4. PICK n \in S : \A m \in S : ~(<<0..m, 0..n>> \in StrictSubsetOrdering(Nat))
    BY <1>3
  <1>5. ASSUME NEW m \in S, m < n
        PROVE  FALSE
    <2>1. 0..m \subseteq 0..n /\ 0..m # 0..n /\ 0..m \subseteq Nat /\ 0..n \subseteq Nat
      BY <1>5
    <2> QED
      BY <2>1, <1>4 DEF StrictSubsetOrdering
  <1> QED
    BY <1>4, <1>5

\* Every set of tasks is finite.
LEMMA TaskSets ==
  ASSUME NEW S, S \subseteq Tasks
  PROVE  IsFiniteSet(S) /\ Cardinality(S) \in Nat
  <1>1. IsFiniteSet(S)
    BY TasksAssumption, FS_Subset
  <1> QED
    BY <1>1, FS_CardinalityType

LEMMA Monotone ==
  ASSUME NEW S, NEW T, S \subseteq T, T \subseteq Tasks
  PROVE  Cardinality(S) <= Cardinality(T)
  BY TaskSets, FS_Subset

LEMMA Disjoint ==
  ASSUME NEW S, NEW T, S \subseteq Tasks, T \subseteq Tasks, S \cap T = {}
  PROVE  Cardinality(S \cup T) = Cardinality(S) + Cardinality(T)
  <1>1. /\ IsFiniteSet(S) /\ IsFiniteSet(T)
        /\ Cardinality(S) \in Nat /\ Cardinality(T) \in Nat
    BY TaskSets
  <1>2. Cardinality(S \cup T) = Cardinality(S) + Cardinality(T) - Cardinality(S \cap T)
    BY <1>1, FS_Union
  <1>3. Cardinality(S \cap T) = 0
    BY FS_EmptySet
  <1> QED
    BY <1>1, <1>2, <1>3

\* Under a limit runningCount is the number of entries that run.
LEMMA Counted ==
  ASSUME NEW p, p \in Pool, ForegroundCounted(p), p.limit > 0
  PROVE  runningCount(p) = Cardinality(Executing(p)) /\ runningCount(p) \in Nat
  <1>1. /\ p.foreground \subseteq Tasks /\ BackgroundRunning(p) \subseteq Tasks
        /\ p.foreground \cap BackgroundRunning(p) = {}
        /\ p.foreground \cup BackgroundRunning(p) = Executing(p)
    BY DEF ForegroundCounted, BackgroundRunning, Executing, Pool
  <1>2. Cardinality(Executing(p)) = Cardinality(p.foreground) + Cardinality(BackgroundRunning(p))
    BY <1>1, Disjoint
  <1>3. p.foregroundRunning = Cardinality(p.foreground)
    BY DEF ForegroundCounted, Pool
  <1>4. Cardinality(Executing(p)) \in Nat
    BY TaskSets DEF Executing
  <1> QED
    BY <1>2, <1>3, <1>4 DEF runningCount

\* If more entries run than before and no more are queued, the queue is still needed.
LEMMA MoreRunning ==
  ASSUME NEW p, NEW q, p \in Pool, q \in Pool, ForegroundCounted(p), ForegroundCounted(q),
         QueuedIsInQueue(p), q.limit = p.limit, Executing(p) \subseteq Executing(q), QueueIsNeeded(p),
         \A t \in Tasks : q.status[t] = "queued" => p.status[t] = "queued"
  PROVE  QueueIsNeeded(q)
  <1> SUFFICES ASSUME NEW t \in Tasks, q.status[t] = "queued"
               PROVE  runningCount(q) >= q.limit
    BY DEF QueueIsNeeded
  <1>1. p.limit > 0 /\ runningCount(p) >= p.limit /\ p.limit \in Nat
    BY DEF QueueIsNeeded, QueuedIsInQueue, Pool
  <1>2. /\ runningCount(p) = Cardinality(Executing(p)) /\ runningCount(p) \in Nat
        /\ runningCount(q) = Cardinality(Executing(q)) /\ runningCount(q) \in Nat
    BY <1>1, Counted
  <1>3. Cardinality(Executing(p)) <= Cardinality(Executing(q))
    BY Monotone DEF Executing
  <1> QED
    BY <1>1, <1>2, <1>3

\* If the lanes that execute are within the limit, so are those nobody resumed.
LEMMA FewRunning ==
  ASSUME NEW q, q \in Pool, LanesAreEntries(q), Cardinality(Executing(q)) <= q.limit
  PROVE  KeepsLimit(q)
  <1>1. Unresumed(q) \subseteq Executing(q) /\ Executing(q) \subseteq Tasks
    BY DEF Unresumed, Executing, LanesAreEntries
  <1>2. Cardinality(Unresumed(q)) <= Cardinality(Executing(q))
    BY <1>1, Monotone
  <1>3. Cardinality(Unresumed(q)) \in Nat /\ Cardinality(Executing(q)) \in Nat /\ q.limit \in Nat
    BY <1>1, TaskSets DEF Pool
  <1> QED
    BY <1>2, <1>3 DEF KeepsLimit

\* If no new lane counts, the limit is kept.
LEMMA SameRunning ==
  ASSUME NEW p, NEW q, p \in Pool, q \in Pool, q.limit = p.limit, KeepsLimit(p),
         Unresumed(q) \subseteq Unresumed(p)
  PROVE  KeepsLimit(q)
  <1>1. Cardinality(Unresumed(q)) <= Cardinality(Unresumed(p))
    BY Monotone DEF Unresumed
  <1>2. Cardinality(Unresumed(q)) \in Nat /\ Cardinality(Unresumed(p)) \in Nat /\ q.limit \in Nat
    BY TaskSets DEF Unresumed, Pool
  <1> QED
    BY <1>1, <1>2 DEF KeepsLimit

-----------------------------------------------------------------------------
(* drainQueuedLanes *)

\* One more entry of the queue is at most one more task to start.
LEMMA OneMore ==
  ASSUME NEW p, p \in Pool, NEW n \in Nat, n < Len(p.laneQueue)
  PROVE  Cardinality(StillQueued(p, n + 1)) <= Cardinality(StillQueued(p, n)) + 1
  <1> DEFINE x == p.laneQueue[n + 1]
  <1>1. /\ p.laneQueue \in Seq(Tasks) /\ Len(p.laneQueue) \in Nat
        /\ x \in Tasks
        /\ \A i \in 1..(n + 1) : p.laneQueue[i] \in Tasks
    BY DEF Pool
  <1>2. StillQueued(p, n + 1) \subseteq StillQueued(p, n) \cup {x}
    BY DEF StillQueued
  <1>3. StillQueued(p, n) \subseteq Tasks /\ StillQueued(p, n + 1) \subseteq Tasks
    BY <1>1 DEF StillQueued
  <1>4. /\ IsFiniteSet(StillQueued(p, n))
        /\ Cardinality(StillQueued(p, n)) \in Nat /\ Cardinality(StillQueued(p, n + 1)) \in Nat
    BY <1>3, TaskSets
  <1> HIDE DEF x
  <1>5. Cardinality(StillQueued(p, n) \cup {x}) \in {Cardinality(StillQueued(p, n)), Cardinality(StillQueued(p, n)) + 1}
    BY <1>4, FS_AddElement
  <1>6. Cardinality(StillQueued(p, n + 1)) <= Cardinality(StillQueued(p, n) \cup {x})
    BY <1>1, <1>2, <1>3, Monotone
  <1> QED
    BY <1>4, <1>5, <1>6

Free(p) == p.limit - runningCount(p)

\* The tasks drainQueuedLanes starts: all that are queued, or as many as there is room for.
LEMMA TakenFits ==
  ASSUME NEW p, p \in Pool, runningCount(p) \in Nat
  PROVE  LET n == Taken(p)
             begun == StillQueued(p, n)
         IN  /\ n \in 0..Len(p.laneQueue)
             /\ begun = {} \/ Cardinality(begun) <= Free(p)
             /\ n = Len(p.laneQueue) \/ Cardinality(begun) >= Free(p)
  <1> DEFINE len == Len(p.laneQueue)
             Enough(n) == Cardinality(StillQueued(p, n)) >= Free(p)
             Stops == {n \in 0..len : Enough(n) \/ n = len}
             Right(n) == (Enough(n) \/ n = len) /\ \A m \in 0..(n - 1) : ~Enough(m)
  <1>1. len \in Nat /\ p.laneQueue \in Seq(Tasks) /\ Free(p) \in Int
    BY DEF Pool, Free
  <1>2. Taken(p) = CHOOSE n \in 0..len : Right(n)
    BY DEF Taken, Free
  <1>3. \A n \in 0..len : StillQueued(p, n) \subseteq Tasks /\ Cardinality(StillQueued(p, n)) \in Nat
    <2>1. \A n \in 0..len : StillQueued(p, n) \subseteq Tasks
      BY <1>1 DEF StillQueued
    <2> QED
      BY <2>1, TaskSets
  <1>4. StillQueued(p, 0) = {} /\ Cardinality(StillQueued(p, 0)) = 0
    <2>1. StillQueued(p, 0) = {}
      BY DEF StillQueued
    <2> QED
      BY <2>1, FS_EmptySet
  <1>5. PICK least \in Stops : \A m \in Stops : least <= m
    <2>1. Stops \subseteq Nat /\ len \in Stops
      BY <1>1
    <2> HIDE DEF Stops
    <2> QED
      BY <2>1, LeastNumber
  <1>6. \A m \in 0..(least - 1) : ~Enough(m)
    <2> SUFFICES ASSUME NEW m \in 0..(least - 1), Enough(m)
                 PROVE  FALSE
      OBVIOUS
    <2>1. m \in Stops
      BY <1>1, <1>5
    <2> HIDE DEF Stops
    <2>2. least \in Nat /\ m \in Nat /\ m < least
      BY <1>1, <1>5 DEF Stops
    <2> QED
      BY <2>1, <2>2, <1>5
  <1>7. least \in 0..len /\ Right(least)
    BY <1>5, <1>6
  <1> DEFINE n == Taken(p)
  <1>8. n \in 0..len /\ Right(n)
    <2> HIDE DEF Right
    <2> QED
      BY <1>2, <1>7
  <1>9. CASE Free(p) <= 0
    <2>1. Enough(0)
      BY <1>1, <1>4, <1>9
    <2>2. n = 0
      BY <2>1, <1>1, <1>8
    <2> QED
      BY <2>1, <2>2, <1>4, <1>8
  <1>10. CASE Free(p) > 0 /\ n = 0
    BY <1>4, <1>8, <1>10
  <1>11. CASE Free(p) > 0 /\ n > 0
    <2>1. n - 1 \in Nat /\ n - 1 < len /\ (n - 1) + 1 = n
      BY <1>1, <1>8, <1>11
    <2>2. Cardinality(StillQueued(p, n)) <= Cardinality(StillQueued(p, n - 1)) + 1
      <3> HIDE DEF n
      <3> QED
        BY <2>1, OneMore
    <2>3. ~Enough(n - 1)
      BY <2>1, <1>8
    <2>4. Cardinality(StillQueued(p, n)) \in Nat /\ Cardinality(StillQueued(p, n - 1)) \in Nat
      BY <1>3, <1>8, <2>1
    <2>5. Cardinality(StillQueued(p, n)) <= Free(p)
      BY <2>2, <2>3, <2>4, <1>1
    <2> QED
      BY <2>5, <1>8
  <1> QED
    BY <1>1, <1>8, <1>9, <1>10, <1>11

LEMMA DrainKeeps ==
  ASSUME NEW p, Sound(p), KeepsLimit(p)
  PROVE  LET q == drainQueuedLanes(p)
         IN  Sound(q) /\ KeepsLimit(q) /\ QueueIsNeeded(q) /\ q.limit = p.limit
  <1>0. p \in Pool
    BY DEF Sound
  <1>1. CASE p.limit = 0
    <2>1. drainQueuedLanes(p) = p
      BY <1>1 DEF drainQueuedLanes
    <2>2. QueueIsNeeded(p)
      BY <1>1 DEF Sound, QueueIsNeeded, QueuedIsInQueue
    <2> QED
      BY <2>1, <2>2
  <1>2. CASE p.limit # 0
    <2> DEFINE n == Taken(p)
               begun == StillQueued(p, n)
               q == drainQueuedLanes(p)
    <2>1. p.limit \in Nat /\ p.limit > 0 /\ runningCount(p) = Cardinality(Executing(p)) /\ runningCount(p) \in Nat
      <3>1. p.limit \in Nat /\ p.limit > 0
        BY <1>0, <1>2 DEF Pool
      <3> QED
        BY <3>1, <1>0, Counted DEF Sound
    <2>2. /\ n \in 0..Len(p.laneQueue)
          /\ begun = {} \/ Cardinality(begun) <= Free(p)
          /\ n = Len(p.laneQueue) \/ Cardinality(begun) >= Free(p)
      BY <1>0, <2>1, TakenFits
    <2>3. /\ begun \subseteq Tasks
          /\ \A t \in begun : p.status[t] = "queued"
          /\ \A i \in 1..n : p.status[p.laneQueue[i]] = "queued" => p.laneQueue[i] \in begun
      <3> HIDE DEF n
      <3>1. \A i \in 1..n : p.laneQueue[i] \in Tasks
        BY <2>2, <1>0 DEF Pool
      <3> QED
        BY <3>1 DEF StillQueued
    <2>4. q = [p EXCEPT !.status = [t \in Tasks |-> IF t \in begun THEN "running" ELSE @[t]],
                        !.runs = [t \in Tasks |-> IF t \in begun THEN @[t] + 1 ELSE @[t]],
                        !.laneQueue = SubSeq(@, n + 1, Len(@))]
      BY <1>2 DEF drainQueuedLanes
    <2> HIDE DEF n, begun, q
    <2>5. SubSeq(p.laneQueue, n + 1, Len(p.laneQueue)) \in Seq(Tasks)
      BY <2>2, <1>0 DEF Pool
    <2>6. q \in Pool
      <3>1. p.status \in [Tasks -> Status] /\ p.runs \in [Tasks -> Nat]
        BY <1>0 DEF Pool
      <3>2. /\ [t \in Tasks |-> IF t \in begun THEN "running" ELSE p.status[t]] \in [Tasks -> Status]
            /\ [t \in Tasks |-> IF t \in begun THEN p.runs[t] + 1 ELSE p.runs[t]] \in [Tasks -> Nat]
        BY <3>1 DEF Status, Ended
      <3> QED
        BY <3>2, <2>4, <2>5, <1>0 DEF Pool
    <2>7. /\ q.limit = p.limit /\ q.foreground = p.foreground /\ q.foregroundRunning = p.foregroundRunning
          /\ q.slotWaiters = p.slotWaiters /\ q.resumed = p.resumed
          /\ q.laneQueue = SubSeq(p.laneQueue, n + 1, Len(p.laneQueue))
          /\ \A t \in Tasks : q.status[t] = IF t \in begun THEN "running" ELSE p.status[t]
          /\ \A t \in Tasks : q.runs[t] = IF t \in begun THEN p.runs[t] + 1 ELSE p.runs[t]
      BY <2>4, <1>0 DEF Pool
    <2>8. Executing(q) = Executing(p) \cup begun /\ Executing(p) \cap begun = {}
      BY <2>7, <2>3 DEF Executing
    <2>9. LanesAreEntries(q)
      BY <2>7, <2>3 DEF Sound, LanesAreEntries
    <2>10. ForegroundCounted(q)
      BY <2>7, <2>8 DEF Sound, ForegroundCounted
    <2>11. WaitersAreNew(q)
      <3>1. \A i \in 1..Len(p.slotWaiters) : p.slotWaiters[i] \in Tasks
        BY <1>0 DEF Pool
      <3> QED
        BY <3>1, <2>7, <2>3 DEF Sound, WaitersAreNew
    <2>12. \A t \in Tasks : q.status[t] = "queued" =>
             /\ p.status[t] = "queued"
             /\ \E i \in (n + 1)..Len(p.laneQueue) : p.laneQueue[i] = t
      <3> SUFFICES ASSUME NEW t \in Tasks, q.status[t] = "queued"
                   PROVE  /\ p.status[t] = "queued"
                          /\ \E i \in (n + 1)..Len(p.laneQueue) : p.laneQueue[i] = t
        OBVIOUS
      <3>1. t \notin begun /\ p.status[t] = "queued"
        BY <2>7
      <3>2. PICK i \in 1..Len(p.laneQueue) : p.laneQueue[i] = t
        BY <3>1 DEF Sound, QueuedIsInQueue
      <3>3. i \notin 1..n
        BY <3>1, <3>2, <2>3
      <3> QED
        BY <3>1, <3>2, <3>3, <2>2
    <2>13. QueuedIsInQueue(q)
      <3> SUFFICES ASSUME NEW t \in Tasks, q.status[t] = "queued"
                   PROVE  q.limit > 0 /\ \E i \in 1..Len(q.laneQueue) : q.laneQueue[i] = t
        BY DEF QueuedIsInQueue
      <3>1. PICK i \in (n + 1)..Len(p.laneQueue) : p.laneQueue[i] = t
        BY <2>12
      <3>2. p.laneQueue \in Seq(Tasks) /\ Len(p.laneQueue) \in Nat
        BY <1>0 DEF Pool
      <3>3. i - n \in 1..Len(q.laneQueue) /\ q.laneQueue[i - n] = t
        BY <3>1, <3>2, <2>2, <2>7
      <3> QED
        BY <3>3, <2>1, <2>7
    <2>14. Sound(q)
      BY <2>6, <2>9, <2>10, <2>11, <2>13 DEF Sound
    <2>15. Cardinality(Executing(q)) = Cardinality(Executing(p)) + Cardinality(begun)
      BY <2>8, <2>3, Disjoint DEF Executing
    <2>16. Cardinality(begun) \in Nat
      BY <2>3, TaskSets
    <2>17. KeepsLimit(q)
      <3>1. CASE begun = {}
        <4>1. Unresumed(q) \subseteq Unresumed(p)
          BY <3>1, <2>7 DEF Unresumed
        <4> QED
          BY <4>1, <1>0, <2>6, <2>7, SameRunning
      <3>2. CASE Cardinality(begun) <= Free(p)
        <4>1. Cardinality(Executing(q)) <= q.limit
          BY <3>2, <2>1, <2>7, <2>15, <2>16 DEF Free
        <4> QED
          BY <4>1, <2>6, <2>9, FewRunning
      <3> QED
        BY <3>1, <3>2, <2>2
    <2>18. QueueIsNeeded(q)
      <3>1. CASE n = Len(p.laneQueue)
        <4>1. Len(p.laneQueue) \in Nat
          BY <1>0 DEF Pool
        <4>2. (n + 1)..Len(p.laneQueue) = {}
          BY <3>1, <4>1
        <4> QED
          BY <4>2, <2>12 DEF QueueIsNeeded
      <3>2. CASE Cardinality(begun) >= Free(p)
        <4>1. runningCount(q) = Cardinality(Executing(q))
          BY <2>1, <2>6, <2>7, <2>10, Counted
        <4>2. runningCount(q) >= q.limit
          BY <3>2, <4>1, <2>1, <2>7, <2>15, <2>16 DEF Free
        <4> QED
          BY <4>2 DEF QueueIsNeeded
      <3> QED
        BY <3>1, <3>2, <2>2
    <2> QED
      BY <2>7, <2>14, <2>17, <2>18 DEF q
  <1> QED
    BY <1>1, <1>2

-----------------------------------------------------------------------------
(* wakeSlotWaiters *)

\* What taking slots for the foreground keeps; the calls that wait are left to the caller.
LEMMA TakesSlotsKeeps ==
  ASSUME NEW p, PoolInv(p), NEW S, S \subseteq Tasks, \A t \in S : p.status[t] \in {"gone", "unused"},
         p.limit = 0 \/ S = {} \/ Cardinality(S) <= Free(p)
  PROVE  LET q == TakesSlots(p, S)
         IN  /\ q \in Pool
             /\ LanesAreEntries(q) /\ ForegroundCounted(q) /\ QueuedIsInQueue(q)
             /\ QueueIsNeeded(q) /\ KeepsLimit(q)
             /\ q.limit = p.limit /\ q.slotWaiters = p.slotWaiters
             /\ \A t \in Tasks : q.status[t] = IF t \in S THEN "running" ELSE p.status[t]
  <1> DEFINE q == TakesSlots(p, S)
             taken == IF p.limit = 0 THEN p.foregroundRunning ELSE p.foregroundRunning + Cardinality(S)
  <1>0. p \in Pool /\ Sound(p) /\ QueueIsNeeded(p) /\ KeepsLimit(p)
    BY DEF PoolInv, Sound
  <1>1. Cardinality(S) \in Nat /\ taken \in Nat
    BY <1>0, TaskSets DEF Pool
  <1>2. q = [p EXCEPT !.status = [t \in Tasks |-> IF t \in S THEN "running" ELSE @[t]],
                      !.runs = [t \in Tasks |-> IF t \in S THEN @[t] + 1 ELSE @[t]],
                      !.foreground = @ \cup S, !.foregroundRunning = taken]
    BY DEF TakesSlots
  <1> HIDE DEF q, taken
  <1>3. q \in Pool
    <2>1. p.status \in [Tasks -> Status] /\ p.runs \in [Tasks -> Nat]
      BY <1>0 DEF Pool
    <2>2. /\ [t \in Tasks |-> IF t \in S THEN "running" ELSE p.status[t]] \in [Tasks -> Status]
          /\ [t \in Tasks |-> IF t \in S THEN p.runs[t] + 1 ELSE p.runs[t]] \in [Tasks -> Nat]
      BY <2>1 DEF Status, Ended
    <2> QED
      BY <2>2, <1>0, <1>1, <1>2 DEF Pool
  <1>4. /\ q.limit = p.limit /\ q.foreground = p.foreground \cup S /\ q.foregroundRunning = taken
        /\ q.slotWaiters = p.slotWaiters /\ q.resumed = p.resumed /\ q.laneQueue = p.laneQueue
        /\ \A t \in Tasks : q.status[t] = IF t \in S THEN "running" ELSE p.status[t]
        /\ \A t \in Tasks : q.runs[t] = IF t \in S THEN p.runs[t] + 1 ELSE p.runs[t]
    BY <1>2, <1>0 DEF Pool
  <1>5. Executing(q) = Executing(p) \cup S /\ Executing(p) \cap S = {}
    BY <1>4 DEF Executing
  <1>6. LanesAreEntries(q)
    BY <1>0, <1>4 DEF Sound, LanesAreEntries
  <1>7. ForegroundCounted(q)
    <2>1. p.foreground \cap S = {} /\ p.foreground \subseteq Tasks
      BY <1>0, <1>5 DEF Sound, ForegroundCounted, Executing
    <2>2. Cardinality(p.foreground \cup S) = Cardinality(p.foreground) + Cardinality(S)
      BY <2>1, Disjoint
    <2> QED
      BY <2>2, <1>0, <1>4, <1>5 DEF Sound, ForegroundCounted, taken
  <1>8. QueuedIsInQueue(q)
    BY <1>0, <1>4 DEF Sound, QueuedIsInQueue
  <1>9. QueueIsNeeded(q)
    <2>1. Executing(p) \subseteq Executing(q) /\ \A t \in Tasks : q.status[t] = "queued" => p.status[t] = "queued"
      BY <1>4, <1>5
    <2> QED
      BY <2>1, <1>0, <1>3, <1>4, <1>7, MoreRunning DEF Sound
  <1>10. KeepsLimit(q)
    <2>1. CASE p.limit = 0
      BY <2>1, <1>4 DEF KeepsLimit
    <2>2. CASE S = {}
      <3>1. Unresumed(q) \subseteq Unresumed(p)
        BY <2>2, <1>4 DEF Unresumed
      <3> QED
        BY <3>1, <1>0, <1>3, <1>4, SameRunning
    <2>3. CASE p.limit # 0 /\ Cardinality(S) <= Free(p)
      <3>1. p.limit \in Nat /\ p.limit > 0
        BY <2>3, <1>0 DEF Pool
      <3>2. runningCount(p) = Cardinality(Executing(p)) /\ runningCount(p) \in Nat
        BY <3>1, <1>0, Counted DEF Sound
      <3>3. Cardinality(Executing(q)) = Cardinality(Executing(p)) + Cardinality(S)
        BY <1>5, Disjoint DEF Executing
      <3>4. Cardinality(Executing(q)) <= q.limit
        BY <2>3, <3>1, <3>2, <3>3, <1>1, <1>4 DEF Free
      <3> QED
        BY <3>4, <1>3, <1>6, FewRunning
    <2> QED
      BY <2>1, <2>2, <2>3
  <1> QED
    BY <1>3, <1>4, <1>6, <1>7, <1>8, <1>9, <1>10 DEF q

LEMMA WakeKeeps ==
  ASSUME NEW p, PoolInv(p), p.limit # 0
  PROVE  PoolInv(wakeSlotWaiters(p)) /\ wakeSlotWaiters(p).limit = p.limit
  <1> DEFINE free == p.limit - runningCount(p)
             k == IF free <= 0 THEN 0 ELSE IF free < Len(p.slotWaiters) THEN free ELSE Len(p.slotWaiters)
             S == {p.slotWaiters[i] : i \in 1..k}
             r == TakesSlots(p, S)
             q == wakeSlotWaiters(p)
  <1>0. p \in Pool /\ Sound(p)
    BY DEF PoolInv, Sound
  <1>1. p.limit \in Nat /\ p.limit > 0 /\ runningCount(p) \in Nat
    <2>1. p.limit \in Nat /\ p.limit > 0
      BY <1>0 DEF Pool
    <2> QED
      BY <2>1, <1>0, Counted DEF Sound
  <1>2. p.slotWaiters \in Seq(Tasks) /\ Len(p.slotWaiters) \in Nat
    BY <1>0 DEF Pool
  <1>3. k \in 0..Len(p.slotWaiters) /\ (k = 0 \/ k <= Free(p))
    BY <1>1, <1>2 DEF Free
  <1>4. q = [r EXCEPT !.slotWaiters = SubSeq(@, k + 1, Len(@))]
    BY DEF wakeSlotWaiters
  <1> HIDE DEF k
  <1>5. /\ S \subseteq Tasks /\ \A t \in S : p.status[t] = "gone"
        /\ \A i \in (k + 1)..Len(p.slotWaiters) : p.slotWaiters[i] \notin S
    BY <1>0, <1>2, <1>3 DEF Sound, WaitersAreNew
  <1>6. S = {} \/ Cardinality(S) <= Free(p)
    <2>1. CASE k = 0
      BY <2>1
    <2>2. CASE k # 0
      <3>1. [i \in 1..k |-> p.slotWaiters[i]] \in Surjection(1..k, S)
        BY DEF Surjection
      <3>2. ExistsSurjection(1..k, S)
        BY <3>1 DEF ExistsSurjection
      <3>3. k \in Nat
        BY <1>3
      <3> HIDE DEF S
      <3>4. Cardinality(S) <= k
        BY <3>2, <3>3, FS_SurjCardinalityBound
      <3>5. Cardinality(S) \in Nat
        BY <1>5, TaskSets
      <3> QED
        BY <3>3, <3>4, <3>5, <2>2, <1>1, <1>3 DEF Free
    <2> QED
      BY <2>1, <2>2
  <1> HIDE DEF S, q
  <1>7. /\ r \in Pool
        /\ LanesAreEntries(r) /\ ForegroundCounted(r) /\ QueuedIsInQueue(r)
        /\ QueueIsNeeded(r) /\ KeepsLimit(r)
        /\ r.limit = p.limit /\ r.slotWaiters = p.slotWaiters
        /\ \A t \in Tasks : r.status[t] = IF t \in S THEN "running" ELSE p.status[t]
    <2>1. \A t \in S : p.status[t] \in {"gone", "unused"}
      BY <1>5
    <2> QED
      BY <2>1, <1>5, <1>6, TakesSlotsKeeps
  <1> HIDE DEF r
  <1>8. SubSeq(p.slotWaiters, k + 1, Len(p.slotWaiters)) \in Seq(Tasks)
    BY <1>2, <1>3
  <1>9. /\ q \in Pool
        /\ q.limit = r.limit /\ q.status = r.status /\ q.runs = r.runs /\ q.foreground = r.foreground
        /\ q.foregroundRunning = r.foregroundRunning /\ q.laneQueue = r.laneQueue /\ q.resumed = r.resumed
        /\ q.slotWaiters = SubSeq(p.slotWaiters, k + 1, Len(p.slotWaiters))
    BY <1>4, <1>7, <1>8 DEF Pool
  <1>10. WaitersAreNew(q)
    <2>1. Len(q.slotWaiters) = Len(p.slotWaiters) - k
      BY <1>2, <1>3, <1>9
    <2>2. \A i \in 1..Len(q.slotWaiters) :
            q.slotWaiters[i] = p.slotWaiters[i + k] /\ i + k \in (k + 1)..Len(p.slotWaiters)
      BY <1>2, <1>3, <1>9, <2>1
    <2>3. \A i \in 1..Len(p.slotWaiters) : p.slotWaiters[i] \in Tasks
      BY <1>2
    <2>4. \A i \in 1..Len(q.slotWaiters) : q.status[q.slotWaiters[i]] = "gone"
      BY SMTT(20), <2>2, <2>3, <1>0, <1>3, <1>5, <1>7, <1>9 DEF Sound, WaitersAreNew
    <2>5. \A i, j \in 1..Len(q.slotWaiters) : q.slotWaiters[i] = q.slotWaiters[j] => i = j
      <3> SUFFICES ASSUME NEW i \in 1..Len(q.slotWaiters), NEW j \in 1..Len(q.slotWaiters),
                          q.slotWaiters[i] = q.slotWaiters[j]
                   PROVE  i = j
        OBVIOUS
      <3>1. i + k \in 1..Len(p.slotWaiters) /\ j + k \in 1..Len(p.slotWaiters)
        BY <2>2, <1>2, <1>3
      <3>2. i + k = j + k
        BY <2>2, <3>1, <1>0 DEF Sound, WaitersAreNew
      <3> QED
        BY <3>2, <1>3
    <2> QED
      BY <2>4, <2>5 DEF WaitersAreNew
  <1>11. LanesAreEntries(q) /\ ForegroundCounted(q) /\ QueuedIsInQueue(q)
    BY <1>7, <1>9 DEF LanesAreEntries, ForegroundCounted, QueuedIsInQueue, Executing
  <1>12. runningCount(q) = runningCount(r) /\ Unresumed(q) = Unresumed(r)
    BY <1>9 DEF runningCount, BackgroundRunning, Unresumed
  <1>13. QueueIsNeeded(q) /\ KeepsLimit(q)
    BY <1>7, <1>9, <1>12 DEF QueueIsNeeded, KeepsLimit
  <1> QED
    BY <1>7, <1>9, <1>10, <1>11, <1>13 DEF q, PoolInv, Sound

-----------------------------------------------------------------------------
(* The methods *)

LEMMA FreshKeeps ==
  ASSUME NEW q, q \in Pool, q.foreground = {}, q.foregroundRunning = 0, q.slotWaiters = <<>>,
         q.runs = [t \in Tasks |-> 0], \A t \in Tasks : q.status[t] \in {"unused", "gone"}
  PROVE  PoolInv(q)
  <1>1. LanesAreEntries(q) /\ WaitersAreNew(q) /\ QueuedIsInQueue(q) /\ QueueIsNeeded(q)
    BY DEF LanesAreEntries, WaitersAreNew, QueuedIsInQueue, QueueIsNeeded
  <1>2. ForegroundCounted(q)
    BY FS_EmptySet DEF ForegroundCounted
  <1>3. KeepsLimit(q)
    <2>1. Unresumed(q) = {}
      BY DEF Unresumed
    <2>2. Cardinality(Unresumed(q)) = 0 /\ q.limit \in Nat
      BY <2>1, FS_EmptySet DEF Pool
    <2> QED
      BY <2>2 DEF KeepsLimit
  <1> QED
    BY <1>1, <1>2, <1>3 DEF PoolInv, Sound

LEMMA FreshPool ==
  ASSUME NEW limit \in Nat
  PROVE  /\ freshPool(limit) \in Pool /\ freshPool(limit).status = [t \in Tasks |-> "unused"]
         /\ freshPool(limit).foreground = {} /\ freshPool(limit).foregroundRunning = 0
         /\ freshPool(limit).slotWaiters = <<>> /\ freshPool(limit).runs = [t \in Tasks |-> 0]
  <1>1. /\ [t \in Tasks |-> "unused"] \in [Tasks -> Status] /\ [t \in Tasks |-> 0] \in [Tasks -> Nat]
        /\ <<>> \in Seq(Tasks)
    BY DEF Status
  <1> QED
    BY <1>1 DEF Pool, freshPool

\* A lane starts without a slot being asked for: only the limit is left to the caller.
LEMMA StartedKeeps ==
  ASSUME NEW p, PoolInv(p), NEW t \in Tasks, p.status[t] \notin {"running", "gone"}
  PROVE  LET q == Started(p, t)
         IN  /\ Sound(q) /\ QueueIsNeeded(q)
             /\ q.limit = p.limit /\ q.resumed = p.resumed
             /\ Executing(q) = Executing(p) \cup {t} /\ Executing(p) \cap {t} = {}
             /\ \A u \in Tasks : q.runs[u] = IF u = t THEN p.runs[u] + 1 ELSE p.runs[u]
  <1> DEFINE q == Started(p, t)
  <1>0. p \in Pool /\ Sound(p)
    BY DEF PoolInv, Sound
  <1>1. p.status \in [Tasks -> Status] /\ p.runs \in [Tasks -> Nat]
    BY <1>0 DEF Pool
  <1>2. /\ q.limit = p.limit /\ q.foreground = p.foreground /\ q.foregroundRunning = p.foregroundRunning
        /\ q.slotWaiters = p.slotWaiters /\ q.resumed = p.resumed /\ q.laneQueue = p.laneQueue
        /\ q.aborted = p.aborted
        /\ q.status = [p.status EXCEPT ![t] = "running"]
        /\ q.runs = [p.runs EXCEPT ![t] = @ + 1]
    BY <1>0 DEF Pool, Started
  <1>3. /\ [p.status EXCEPT ![t] = "running"] \in [Tasks -> Status]
        /\ [p.runs EXCEPT ![t] = @ + 1] \in [Tasks -> Nat]
    BY <1>1 DEF Status
  <1>4. q \in Pool
    BY <1>0, <1>3 DEF Pool, Started
  <1> HIDE DEF q
  <1>5. /\ q.limit = p.limit /\ q.foreground = p.foreground /\ q.foregroundRunning = p.foregroundRunning
        /\ q.slotWaiters = p.slotWaiters /\ q.resumed = p.resumed /\ q.laneQueue = p.laneQueue
        /\ \A u \in Tasks : q.status[u] = IF u = t THEN "running" ELSE p.status[u]
        /\ \A u \in Tasks : q.runs[u] = IF u = t THEN p.runs[u] + 1 ELSE p.runs[u]
    BY <1>0, <1>1, <1>2 DEF Pool
  <1>6. Executing(q) = Executing(p) \cup {t} /\ Executing(p) \cap {t} = {}
    BY <1>5 DEF Executing
  <1>7. LanesAreEntries(q) /\ ForegroundCounted(q) /\ QueuedIsInQueue(q)
    BY <1>0, <1>5, <1>6 DEF Sound, LanesAreEntries, ForegroundCounted, QueuedIsInQueue
  <1>8. WaitersAreNew(q)
    <2>1. \A i \in 1..Len(p.slotWaiters) : p.slotWaiters[i] \in Tasks
      BY <1>0 DEF Pool
    <2> QED
      BY <2>1, <1>0, <1>5 DEF Sound, WaitersAreNew
  <1>9. QueueIsNeeded(q)
    <2>1. Executing(p) \subseteq Executing(q) /\ \A u \in Tasks : q.status[u] = "queued" => p.status[u] = "queued"
      BY <1>5, <1>6
    <2> QED
      BY <2>1, <1>0, <1>4, <1>5, <1>7, MoreRunning DEF PoolInv, Sound
  <1> QED
    BY <1>4, <1>5, <1>6, <1>7, <1>8, <1>9 DEF q, Sound

\* One more lane fits where there is a slot.
LEMMA SlotFits ==
  ASSUME NEW p, PoolInv(p), HasSlot(p), p.limit # 0
  PROVE  /\ p.limit \in Nat /\ p.limit > 0
         /\ Cardinality(Executing(p)) \in Nat /\ Cardinality(Executing(p)) + 1 <= p.limit
         /\ 1 <= Free(p)
  <1>1. p \in Pool /\ ForegroundCounted(p) /\ p.limit \in Nat /\ p.limit > 0
    BY DEF PoolInv, Sound, Pool
  <1>2. runningCount(p) = Cardinality(Executing(p)) /\ runningCount(p) \in Nat
    BY <1>1, Counted
  <1> QED
    BY <1>1, <1>2 DEF HasSlot, Free

LEMMA SpawnBackgroundKeeps ==
  ASSUME NEW p, PoolInv(p), NEW t \in Tasks, p.status[t] = "unused"
  PROVE  PoolInv(spawnBackground(p, t))
  <1>0. p \in Pool /\ Sound(p)
    BY DEF PoolInv, Sound
  <1>1. CASE HasSlot(p)
    <2> DEFINE q == Started(p, t)
    <2>1. /\ Sound(q) /\ QueueIsNeeded(q) /\ q.limit = p.limit
          /\ Executing(q) = Executing(p) \cup {t} /\ Executing(p) \cap {t} = {}
      BY StartedKeeps
    <2> HIDE DEF q
    <2>2. KeepsLimit(q)
      <3>1. CASE p.limit = 0
        BY <3>1, <2>1 DEF KeepsLimit
      <3>2. CASE p.limit # 0
        <4>1. Cardinality(Executing(q)) = Cardinality(Executing(p)) + Cardinality({t})
          BY <2>1, Disjoint DEF Executing
        <4>2. Cardinality({t}) = 1
          BY FS_Singleton
        <4>3. Cardinality(Executing(q)) <= q.limit
          BY <1>1, <3>2, <4>1, <4>2, <2>1, SlotFits
        <4> QED
          BY <4>3, <2>1, FewRunning DEF Sound
      <3> QED
        BY <3>1, <3>2
    <2> QED
      BY <1>1, <2>1, <2>2 DEF spawnBackground, PoolInv, q
  <1>2. CASE ~HasSlot(p)
    <2> DEFINE q == [p EXCEPT !.status = [@ EXCEPT ![t] = "queued"], !.laneQueue = Append(@, t)]
    <2>1. p.status \in [Tasks -> Status] /\ p.laneQueue \in Seq(Tasks) /\ p.limit \in Nat
      BY <1>0 DEF Pool
    <2>2. [p.status EXCEPT ![t] = "queued"] \in [Tasks -> Status] /\ Append(p.laneQueue, t) \in Seq(Tasks)
      BY <2>1 DEF Status
    <2>3. q \in Pool
      BY <1>0, <2>2 DEF Pool
    <2>4. /\ q.limit = p.limit /\ q.foreground = p.foreground /\ q.foregroundRunning = p.foregroundRunning
          /\ q.slotWaiters = p.slotWaiters /\ q.resumed = p.resumed /\ q.laneQueue = Append(p.laneQueue, t)
          /\ q.runs = p.runs
          /\ \A u \in Tasks : q.status[u] = IF u = t THEN "queued" ELSE p.status[u]
      BY <1>0, <2>1 DEF Pool
    <2>5. spawnBackground(p, t) = q
      BY <1>2 DEF spawnBackground
    <2> HIDE DEF q
    <2>6. Executing(q) = Executing(p)
      BY <2>4 DEF Executing
    <2>7. LanesAreEntries(q) /\ ForegroundCounted(q)
      BY <1>0, <2>4, <2>6 DEF Sound, LanesAreEntries, ForegroundCounted
    <2>8. WaitersAreNew(q)
      <3>1. \A i \in 1..Len(p.slotWaiters) : p.slotWaiters[i] \in Tasks
        BY <1>0 DEF Pool
      <3> QED
        BY <3>1, <1>0, <2>4 DEF Sound, WaitersAreNew
    <2>9. p.limit > 0 /\ runningCount(p) >= p.limit
      <3>1. p.limit > 0
        BY <1>2, <2>1 DEF HasSlot
      <3>2. runningCount(p) \in Nat
        BY <3>1, <1>0, Counted DEF Sound
      <3> QED
        BY <3>1, <3>2, <1>2, <2>1 DEF HasSlot
    <2>10. QueuedIsInQueue(q)
      <3> SUFFICES ASSUME NEW u \in Tasks, q.status[u] = "queued"
                   PROVE  q.limit > 0 /\ \E i \in 1..Len(q.laneQueue) : q.laneQueue[i] = u
        BY DEF QueuedIsInQueue
      <3>1. CASE u = t
        <4>1. /\ Len(p.laneQueue) + 1 \in 1..Len(q.laneQueue)
              /\ q.laneQueue[Len(p.laneQueue) + 1] = t
          BY <2>1, <2>4
        <4> QED
          BY <3>1, <4>1, <2>4, <2>9
      <3>2. CASE u # t
        <4>1. PICK i \in 1..Len(p.laneQueue) : p.laneQueue[i] = u
          BY <3>2, <1>0, <2>4 DEF Sound, QueuedIsInQueue
        <4>2. i \in 1..Len(q.laneQueue) /\ q.laneQueue[i] = u
          BY <4>1, <2>1, <2>4
        <4> QED
          BY <4>2, <2>4, <2>9
      <3> QED
        BY <3>1, <3>2
    <2>11. runningCount(q) = runningCount(p) /\ Unresumed(q) = Unresumed(p)
      <3>1. BackgroundRunning(q) = BackgroundRunning(p)
        BY <2>4 DEF BackgroundRunning
      <3> QED
        BY <3>1, <2>4 DEF runningCount, Unresumed
    <2>12. QueueIsNeeded(q) /\ KeepsLimit(q)
      BY <2>4, <2>9, <2>11 DEF PoolInv, QueueIsNeeded, KeepsLimit
    <2> QED
      BY <2>3, <2>5, <2>7, <2>8, <2>10, <2>12 DEF PoolInv, Sound
  <1> QED
    BY <1>1, <1>2

LEMMA SpawnForegroundKeeps ==
  ASSUME NEW p, PoolInv(p), NEW t \in Tasks, p.status[t] = "unused"
  PROVE  PoolInv(spawnForeground(p, t))
  <1>0. p \in Pool /\ Sound(p)
    BY DEF PoolInv, Sound
  <1>0a. \A i \in 1..Len(p.slotWaiters) : p.slotWaiters[i] \in Tasks
    BY <1>0 DEF Pool
  <1>1. CASE HasSlot(p)
    <2> DEFINE q == TakesSlots(p, {t})
    <2>1. p.limit = 0 \/ Cardinality({t}) <= Free(p)
      <3>1. Cardinality({t}) = 1
        BY FS_Singleton
      <3> QED
        BY <3>1, <1>1, SlotFits
    <2>2. {t} \subseteq Tasks /\ \A u \in {t} : p.status[u] \in {"gone", "unused"}
      OBVIOUS
    <2>3. /\ q \in Pool
          /\ LanesAreEntries(q) /\ ForegroundCounted(q) /\ QueuedIsInQueue(q)
          /\ QueueIsNeeded(q) /\ KeepsLimit(q)
          /\ q.slotWaiters = p.slotWaiters
          /\ \A u \in Tasks : q.status[u] = IF u \in {t} THEN "running" ELSE p.status[u]
      BY <2>1, <2>2, TakesSlotsKeeps
    <2> HIDE DEF q
    <2>4. WaitersAreNew(q)
      BY <2>3, <1>0, <1>0a DEF Sound, WaitersAreNew
    <2> QED
      BY <1>1, <2>3, <2>4 DEF spawnForeground, PoolInv, Sound, q
  <1>2. CASE ~HasSlot(p)
    <2> DEFINE q == [p EXCEPT !.status = [@ EXCEPT ![t] = "gone"], !.slotWaiters = Append(@, t)]
    <2>1. p.status \in [Tasks -> Status] /\ p.slotWaiters \in Seq(Tasks)
      BY <1>0 DEF Pool
    <2>2. [p.status EXCEPT ![t] = "gone"] \in [Tasks -> Status] /\ Append(p.slotWaiters, t) \in Seq(Tasks)
      BY <2>1 DEF Status
    <2>3. q \in Pool
      BY <1>0, <2>2 DEF Pool
    <2>4. /\ q.limit = p.limit /\ q.foreground = p.foreground /\ q.foregroundRunning = p.foregroundRunning
          /\ q.slotWaiters = Append(p.slotWaiters, t) /\ q.resumed = p.resumed /\ q.laneQueue = p.laneQueue
          /\ q.runs = p.runs
          /\ \A u \in Tasks : q.status[u] = IF u = t THEN "gone" ELSE p.status[u]
      BY <1>0, <2>1 DEF Pool
    <2>5. spawnForeground(p, t) = q
      BY <1>2 DEF spawnForeground
    <2> HIDE DEF q
    <2>6. Executing(q) = Executing(p)
      BY <2>4 DEF Executing
    <2>7. LanesAreEntries(q) /\ ForegroundCounted(q) /\ QueuedIsInQueue(q)
      BY <1>0, <2>4, <2>6 DEF Sound, LanesAreEntries, ForegroundCounted, QueuedIsInQueue
    <2>8. WaitersAreNew(q)
      <3>1. /\ Len(q.slotWaiters) = Len(p.slotWaiters) + 1 /\ Len(p.slotWaiters) \in Nat
            /\ \A i \in 1..Len(p.slotWaiters) : q.slotWaiters[i] = p.slotWaiters[i] /\ p.slotWaiters[i] # t
            /\ q.slotWaiters[Len(p.slotWaiters) + 1] = t
        BY <2>1, <2>4, <1>0 DEF Sound, WaitersAreNew
      <3> QED
        BY <3>1, <1>0, <1>0a, <2>4 DEF Sound, WaitersAreNew
    <2>9. runningCount(q) = runningCount(p) /\ Unresumed(q) = Unresumed(p)
      <3>1. BackgroundRunning(q) = BackgroundRunning(p)
        BY <2>4 DEF BackgroundRunning
      <3> QED
        BY <3>1, <2>4 DEF runningCount, Unresumed
    <2>10. QueueIsNeeded(q) /\ KeepsLimit(q)
      BY <2>4, <2>9 DEF PoolInv, QueueIsNeeded, KeepsLimit
    <2> QED
      BY <2>3, <2>5, <2>7, <2>8, <2>10 DEF PoolInv, Sound
  <1> QED
    BY <1>1, <1>2

LEMMA ResumeKeeps ==
  ASSUME NEW p, PoolInv(p), NEW t \in Tasks, CanResume(p, t)
  PROVE  PoolInv(resumeTask(p, t))
  <1> DEFINE r == Started(p, t)
             q == resumeTask(p, t)
  <1>1. /\ Sound(r) /\ QueueIsNeeded(r) /\ r.limit = p.limit /\ r.resumed = p.resumed
        /\ \A u \in Tasks : r.runs[u] = IF u = t THEN p.runs[u] + 1 ELSE p.runs[u]
    BY StartedKeeps DEF CanResume, Ended
  <1>2. q = [r EXCEPT !.aborted = @ \ {t}, !.resumed = @ \cup {t}]
    BY DEF resumeTask
  <1> HIDE DEF r, q
  <1>3. r \in Pool /\ p \in Pool /\ KeepsLimit(p)
    BY <1>1 DEF Sound, PoolInv
  <1>4. /\ q \in Pool
        /\ q.limit = r.limit /\ q.status = r.status /\ q.runs = r.runs /\ q.foreground = r.foreground
        /\ q.foregroundRunning = r.foregroundRunning /\ q.laneQueue = r.laneQueue
        /\ q.slotWaiters = r.slotWaiters /\ q.resumed = r.resumed \cup {t}
    BY <1>2, <1>3 DEF Pool
  <1>5. Sound(q)
    BY <1>1, <1>4 DEF Sound, LanesAreEntries, ForegroundCounted, WaitersAreNew, QueuedIsInQueue, Executing
  <1>6. QueueIsNeeded(q)
    <2>1. runningCount(q) = runningCount(r)
      BY <1>4 DEF runningCount, BackgroundRunning
    <2> QED
      BY <2>1, <1>1, <1>4 DEF QueueIsNeeded
  <1>7. KeepsLimit(q)
    <2>1. Unresumed(q) \subseteq Unresumed(p)
      BY <1>1, <1>4 DEF Unresumed
    <2> QED
      BY <2>1, <1>1, <1>3, <1>4, SameRunning
  <1> QED
    BY <1>5, <1>6, <1>7 DEF PoolInv, q

LEMMA AbortedOnly ==
  ASSUME NEW p, PoolInv(p), NEW S \in SUBSET Tasks
  PROVE  PoolInv([p EXCEPT !.aborted = S])
  <1> DEFINE q == [p EXCEPT !.aborted = S]
  <1>0. p \in Pool
    BY DEF PoolInv, Sound
  <1>1. /\ q \in Pool
        /\ q.limit = p.limit /\ q.status = p.status /\ q.runs = p.runs /\ q.foreground = p.foreground
        /\ q.foregroundRunning = p.foregroundRunning /\ q.laneQueue = p.laneQueue
        /\ q.slotWaiters = p.slotWaiters /\ q.resumed = p.resumed
    BY <1>0 DEF Pool
  <1> HIDE DEF q
  <1>2. runningCount(q) = runningCount(p) /\ Unresumed(q) = Unresumed(p)
    BY <1>1 DEF runningCount, BackgroundRunning, Unresumed
  <1>3. PoolInv(q)
    BY <1>1, <1>2 DEF PoolInv, Sound, LanesAreEntries, ForegroundCounted, WaitersAreNew, QueuedIsInQueue,
                      QueueIsNeeded, KeepsLimit, Executing
  <1> QED
    BY <1>3 DEF q

\* What is left of a queue without one of its entries.
LEMMA WithoutEntry ==
  ASSUME NEW s \in Seq(Tasks), NEW i \in 1..Len(s)
  PROVE  /\ Without(s, i) \in Seq(Tasks)
         /\ \A j \in 1..Len(s) : j # i => \E k \in 1..Len(Without(s, i)) : Without(s, i)[k] = s[j]
  <1> DEFINE w == Without(s, i)
  <1>1. Len(s) \in Nat /\ Len(s) - 1 \in Nat /\ \A j \in 1..Len(s) : s[j] \in Tasks
    OBVIOUS
  <1>2. w = [j \in 1..(Len(s) - 1) |-> IF j < i THEN s[j] ELSE s[j + 1]]
    BY DEF Without
  <1> HIDE DEF w
  <1>3. w \in Seq(Tasks) /\ Len(w) = Len(s) - 1
    BY <1>1, <1>2
  <1>4. ASSUME NEW j \in 1..Len(s), j # i
        PROVE  \E k \in 1..Len(w) : w[k] = s[j]
    <2>1. CASE j < i
      <3>1. j \in 1..Len(w) /\ w[j] = s[j]
        BY <2>1, <1>1, <1>2, <1>3
      <3> QED
        BY <3>1
    <2>2. CASE j > i
      <3>1. j - 1 \in 1..Len(w) /\ w[j - 1] = s[j]
        BY <2>2, <1>1, <1>2, <1>3
      <3> QED
        BY <3>1
    <2> QED
      BY <2>1, <2>2, <1>4
  <1> QED
    BY <1>3, <1>4 DEF w

LEMMA StopKeeps ==
  ASSUME NEW p, PoolInv(p), NEW t \in Tasks
  PROVE  PoolInv(stopTask(p, t))
  <1>0. p \in Pool /\ Sound(p)
    BY DEF PoolInv, Sound
  <1>1. CASE p.status[t] # "queued"
    <2>1. stopTask(p, t) = [p EXCEPT !.aborted = p.aborted \cup {t}]
      BY <1>1 DEF stopTask
    <2>2. p.aborted \cup {t} \in SUBSET Tasks
      BY <1>0 DEF Pool
    <2> QED
      BY <2>1, <2>2, AbortedOnly
  <1>2. CASE p.status[t] = "queued"
    <2> DEFINE at == CHOOSE i \in DOMAIN p.laneQueue : p.laneQueue[i] = t
               w == Without(p.laneQueue, at)
               q == stopTask(p, t)
    <2>1. p.status \in [Tasks -> Status] /\ p.laneQueue \in Seq(Tasks)
      BY <1>0 DEF Pool
    <2>2. at \in 1..Len(p.laneQueue) /\ p.laneQueue[at] = t
      <3>1. \E i \in 1..Len(p.laneQueue) : p.laneQueue[i] = t
        BY <1>0, <1>2 DEF Sound, QueuedIsInQueue
      <3>2. DOMAIN p.laneQueue = 1..Len(p.laneQueue)
        BY <2>1
      <3> QED
        BY <3>1, <3>2
    <2> HIDE DEF at
    <2>3. /\ w \in Seq(Tasks)
          /\ \A j \in 1..Len(p.laneQueue) : j # at => \E k \in 1..Len(w) : w[k] = p.laneQueue[j]
      BY <2>1, <2>2, WithoutEntry
    <2>4. [p.status EXCEPT ![t] = "stopped"] \in [Tasks -> Status]
      BY <2>1 DEF Status, Ended
    <2>5. q = [p EXCEPT !.status = [p.status EXCEPT ![t] = "stopped"], !.laneQueue = w]
      BY <1>2 DEF stopTask, at
    <2> HIDE DEF w, q
    <2>6. q \in Pool
      BY <1>0, <2>3, <2>4, <2>5 DEF Pool
    <2>7. /\ q.limit = p.limit /\ q.foreground = p.foreground /\ q.foregroundRunning = p.foregroundRunning
          /\ q.slotWaiters = p.slotWaiters /\ q.resumed = p.resumed /\ q.laneQueue = w /\ q.runs = p.runs
          /\ \A u \in Tasks : q.status[u] = IF u = t THEN "stopped" ELSE p.status[u]
      BY <1>0, <2>1, <2>5 DEF Pool
    <2>8. Executing(q) = Executing(p)
      BY <1>2, <2>7 DEF Executing
    <2>9. LanesAreEntries(q) /\ ForegroundCounted(q)
      BY <1>0, <1>2, <2>7, <2>8 DEF Sound, LanesAreEntries, ForegroundCounted
    <2>10. WaitersAreNew(q)
      <3>1. \A i \in 1..Len(p.slotWaiters) : p.slotWaiters[i] \in Tasks
        BY <1>0 DEF Pool
      <3> QED
        BY <3>1, <1>0, <1>2, <2>7 DEF Sound, WaitersAreNew
    <2>11. QueuedIsInQueue(q)
      <3> SUFFICES ASSUME NEW u \in Tasks, q.status[u] = "queued"
                   PROVE  q.limit > 0 /\ \E i \in 1..Len(q.laneQueue) : q.laneQueue[i] = u
        BY DEF QueuedIsInQueue
      <3>1. u # t /\ p.status[u] = "queued"
        BY <2>7
      <3>2. PICK j \in 1..Len(p.laneQueue) : p.laneQueue[j] = u
        BY <3>1, <1>0 DEF Sound, QueuedIsInQueue
      <3>3. j # at
        BY <3>1, <3>2, <2>2
      <3> QED
        BY <3>1, <3>2, <3>3, <2>3, <2>7, <1>0 DEF Sound, QueuedIsInQueue
    <2>12. QueueIsNeeded(q) /\ KeepsLimit(q)
      <3>1. runningCount(q) = runningCount(p) /\ Unresumed(q) = Unresumed(p)
        <4>1. BackgroundRunning(q) = BackgroundRunning(p)
          BY <1>2, <2>7 DEF BackgroundRunning
        <4> QED
          BY <4>1, <2>7 DEF runningCount, Unresumed
      <3> QED
        BY <3>1, <2>7 DEF PoolInv, QueueIsNeeded, KeepsLimit
    <2> QED
      BY <2>6, <2>9, <2>10, <2>11, <2>12 DEF q, PoolInv, Sound
  <1> QED
    BY <1>1, <1>2

\* The lane of t is over, and nobody has looked at the queue yet.
LEMMA LaneOver ==
  ASSUME NEW p, PoolInv(p), NEW t \in Tasks, p.status[t] = "running",
         NEW q, q \in Pool, q.limit = p.limit, q.slotWaiters = p.slotWaiters, q.laneQueue = p.laneQueue,
         q.foreground = p.foreground \ {t},
         q.foregroundRunning = IF p.limit = 0 \/ t \notin p.foreground THEN p.foregroundRunning
                               ELSE p.foregroundRunning - 1,
         q.resumed \in {p.resumed, p.resumed \ {t}},
         \A u \in Tasks : q.status[u] = (IF u = t THEN q.status[t] ELSE p.status[u]),
         q.status[t] \in {"gone", "completed", "stopped"},
         \A u \in Tasks : q.runs[u] = IF u = t THEN p.runs[u] - 1 ELSE p.runs[u]
  PROVE  Sound(q) /\ KeepsLimit(q)
  <1>0. p \in Pool /\ Sound(p) /\ KeepsLimit(p) /\ p.limit \in Nat
    BY DEF PoolInv, Sound, Pool
  <1>1. LanesAreEntries(q)
    BY <1>0 DEF Sound, LanesAreEntries
  <1>2. Executing(q) = Executing(p) \ {t}
    BY DEF Executing
  <1>3. ForegroundCounted(q)
    <2>1. q.foreground \subseteq Executing(q)
      BY <1>0, <1>2 DEF Sound, ForegroundCounted
    <2>2. CASE p.limit = 0
      BY <2>1, <2>2, <1>0 DEF Sound, ForegroundCounted
    <2>3. CASE p.limit # 0
      <3>1. IsFiniteSet(p.foreground) /\ Cardinality(p.foreground) \in Nat
        BY <1>0, TaskSets DEF Pool
      <3>2. Cardinality(p.foreground \ {t}) =
              IF t \in p.foreground THEN Cardinality(p.foreground) - 1 ELSE Cardinality(p.foreground)
        BY <3>1, FS_RemoveElement
      <3> QED
        BY <2>1, <2>3, <3>1, <3>2, <1>0 DEF Sound, ForegroundCounted
    <2> QED
      BY <2>2, <2>3
  <1>4. WaitersAreNew(q)
    <2>1. \A i \in 1..Len(p.slotWaiters) : p.slotWaiters[i] \in Tasks
      BY <1>0 DEF Pool
    <2> QED
      BY <2>1, <1>0 DEF Sound, WaitersAreNew
  <1>5. QueuedIsInQueue(q)
    BY <1>0 DEF Sound, QueuedIsInQueue
  <1>6. KeepsLimit(q)
    <2>1. p.runs[t] = 1
      BY <1>0 DEF Sound, LanesAreEntries
    <2>2. Unresumed(q) \subseteq Unresumed(p)
      BY <2>1 DEF Unresumed
    <2> QED
      BY <2>2, <1>0, SameRunning
  <1> QED
    BY <1>1, <1>3, <1>4, <1>5, <1>6 DEF Sound

LEMMA LaneEndsKeeps ==
  ASSUME NEW p, PoolInv(p), NEW t \in Tasks, p.runs[t] > 0, NEW how \in Ended
  PROVE  PoolInv(laneEnds(p, t, how))
  <1>0. p \in Pool /\ Sound(p) /\ p.limit \in Nat
    BY DEF PoolInv, Sound, Pool
  <1>1. p.status[t] = "running" /\ p.runs[t] = 1
    BY <1>0 DEF Sound, LanesAreEntries
  <1>2. p.status \in [Tasks -> Status] /\ p.runs \in [Tasks -> Nat]
    BY <1>0 DEF Pool
  <1>3. /\ [p.status EXCEPT ![t] = how] \in [Tasks -> Status]
        /\ [p.status EXCEPT ![t] = "gone"] \in [Tasks -> Status]
        /\ [p.runs EXCEPT ![t] = @ - 1] \in [Tasks -> Nat]
    BY <1>1, <1>2 DEF Status, Ended
  <1>4. CASE t \notin p.foreground
    <2> DEFINE q == [p EXCEPT !.status[t] = how, !.runs[t] = @ - 1, !.resumed = @ \ {t}]
    <2>1. q \in Pool
      BY <1>0, <1>3 DEF Pool
    <2>2. /\ q.limit = p.limit /\ q.slotWaiters = p.slotWaiters /\ q.laneQueue = p.laneQueue
          /\ q.foreground = p.foreground /\ q.foregroundRunning = p.foregroundRunning
          /\ q.resumed = p.resumed \ {t}
          /\ \A u \in Tasks : q.status[u] = IF u = t THEN how ELSE p.status[u]
          /\ \A u \in Tasks : q.runs[u] = IF u = t THEN p.runs[u] - 1 ELSE p.runs[u]
      BY <1>0, <1>2 DEF Pool
    <2>3. laneEnds(p, t, how) = drainQueuedLanes(q)
      BY <1>4 DEF laneEnds, backgroundEnds
    <2> HIDE DEF q
    <2>4. Sound(q) /\ KeepsLimit(q)
      <3>1. p.foreground = p.foreground \ {t}
        BY <1>4
      <3> QED
        BY <3>1, <1>1, <1>4, <2>1, <2>2, LaneOver DEF Ended
    <2> QED
      BY <2>3, <2>4, DrainKeeps DEF PoolInv
  <1>5. CASE t \in p.foreground
    <2> DEFINE fewer == IF p.limit = 0 THEN p.foregroundRunning ELSE p.foregroundRunning - 1
               q == [p EXCEPT !.status[t] = "gone", !.runs[t] = @ - 1, !.foreground = @ \ {t},
                              !.foregroundRunning = IF p.limit = 0 THEN @ ELSE @ - 1]
    <2>1. fewer \in Nat
      <3>1. CASE p.limit = 0
        BY <3>1, <1>0 DEF Pool
      <3>2. CASE p.limit # 0
        <4>1. IsFiniteSet(p.foreground) /\ Cardinality(p.foreground) \in Nat
          BY <1>0, TaskSets DEF Pool
        <4>2. Cardinality(p.foreground) # 0
          BY <4>1, <1>5, FS_EmptySet
        <4> QED
          BY <3>2, <4>1, <4>2, <1>0 DEF Sound, ForegroundCounted
      <3> QED
        BY <3>1, <3>2
    <2>2. q = [p EXCEPT !.status[t] = "gone", !.runs[t] = @ - 1, !.foreground = @ \ {t}, !.foregroundRunning = fewer]
      OBVIOUS
    <2>3. laneEnds(p, t, how) = IF p.limit = 0 THEN q ELSE wakeSlotWaiters(drainQueuedLanes(q))
      BY <1>5 DEF laneEnds, foregroundEnds
    <2> HIDE DEF fewer, q
    <2>4. q \in Pool
      BY <2>1, <2>2, <1>0, <1>3 DEF Pool
    <2>5. /\ q.limit = p.limit /\ q.slotWaiters = p.slotWaiters /\ q.laneQueue = p.laneQueue
          /\ q.foreground = p.foreground \ {t} /\ q.foregroundRunning = fewer
          /\ q.resumed = p.resumed
          /\ \A u \in Tasks : q.status[u] = IF u = t THEN "gone" ELSE p.status[u]
          /\ \A u \in Tasks : q.runs[u] = IF u = t THEN p.runs[u] - 1 ELSE p.runs[u]
      BY <2>2, <1>0, <1>2 DEF Pool
    <2>6. Sound(q) /\ KeepsLimit(q)
      <3>1. q.foregroundRunning = IF p.limit = 0 \/ t \notin p.foreground THEN p.foregroundRunning
                                  ELSE p.foregroundRunning - 1
        BY <1>5, <2>5 DEF fewer
      <3> QED
        BY <3>1, <1>1, <2>4, <2>5, LaneOver
    <2>7. CASE p.limit = 0
      <3>1. QueueIsNeeded(q)
        BY <2>5, <2>6, <2>7 DEF Sound, QueuedIsInQueue, QueueIsNeeded
      <3> QED
        BY <3>1, <2>3, <2>6, <2>7 DEF PoolInv
    <2>8. CASE p.limit # 0
      <3>1. PoolInv(drainQueuedLanes(q)) /\ drainQueuedLanes(q).limit # 0
        BY <2>5, <2>6, <2>8, DrainKeeps DEF PoolInv
      <3> QED
        BY <3>1, <2>3, <2>8, WakeKeeps
    <2> QED
      BY <2>7, <2>8
  <1> QED
    BY <1>4, <1>5

-----------------------------------------------------------------------------
(* The callers *)

\* What has given the budget back, at most: messages that have left the queue, and processes
\* that have ended.
GivenBack == used.inputs - queueLen + used.crashes

\* Wake-ups that are not in the counter any more were charged to a budget given back since.
WakesCharged ==
  /\ wakeUsed <= AUTO_WAKE_MAX /\ queueLen <= used.inputs
  /\ wakes <= AUTO_WAKE_MAX * GivenBack + wakeUsed

BackgroundInv == TypeOK /\ PoolInv(pool) /\ WakesCharged

LEMMA InitBackground == Init => BackgroundInv
  <1> SUFFICES ASSUME Init
               PROVE  BackgroundInv
    OBVIOUS
  <1>1. PICK n \in Limits : pool = freshPool(n)
    BY DEF Init
  <1>2. n \in Nat
    BY LimitsAssumption
  <1>3. PoolInv(pool) /\ pool \in Pool
    BY <1>1, <1>2, FreshPool, FreshKeeps
  <1>4. TypeOK
    BY <1>3 DEF TypeOK, Init, Saved
  <1> QED
    <2>1. WakesCharged
      BY WakeAssumption DEF Init, WakesCharged, GivenBack
    <2> QED
      BY <1>3, <1>4, <2>1 DEF BackgroundInv

\* Whoever acts on the pool calls one of its methods.
LEMMA NextPool == BackgroundInv /\ [Next]_vars => PoolInv(pool)'
  <1> SUFFICES ASSUME BackgroundInv, [Next]_vars
               PROVE  PoolInv(pool')
    BY DEF PoolInv, Sound, QueueIsNeeded, KeepsLimit, Unresumed, LanesAreEntries, ForegroundCounted, WaitersAreNew,
           QueuedIsInQueue, Executing, runningCount, BackgroundRunning, Pool
  <1>0. PoolInv(pool) /\ pool \in Pool
    BY DEF BackgroundInv, PoolInv, Sound
  <1>1. CASE UNCHANGED pool
    BY <1>0, <1>1
  <1>2. CASE Cancel
    <2>1. pool.aborted \cup {t \in Tasks : pool.status[t] = "running"} \in SUBSET Tasks
      BY <1>0 DEF Pool
    <2> QED
      BY <1>0, <1>2, <2>1, AbortedOnly DEF Cancel, abortAll
  <1>3. ASSUME NEW t \in Tasks, DispatchBackground(t)
        PROVE  PoolInv(pool')
    BY <1>0, <1>3, SpawnBackgroundKeeps DEF DispatchBackground
  <1>4. ASSUME NEW t \in Tasks, DispatchForeground(t)
        PROVE  PoolInv(pool')
    BY <1>0, <1>4, SpawnForegroundKeeps DEF DispatchForeground
  <1>5. ASSUME NEW t \in Tasks, Stop(t)
        PROVE  PoolInv(pool')
    BY <1>0, <1>5, StopKeeps DEF Stop
  <1>6. ASSUME NEW t \in Tasks, Resume(t)
        PROVE  PoolInv(pool')
    BY <1>0, <1>6, ResumeKeeps DEF Resume
  <1>7. ASSUME NEW t \in Tasks, NEW how \in Ended, LaneEnds(t, how)
        PROVE  PoolInv(pool')
    BY <1>0, <1>7, LaneEndsKeeps DEF LaneEnds
  <1>8. CASE ProcessEnds
    <2> DEFINE left == [t \in Tasks |-> IF pool.status[t] = "unused" THEN "unused" ELSE "gone"]
               f == freshPool(pool.limit)
    <2>1. left \in [Tasks -> Status] /\ pool.limit \in Nat
      BY <1>0 DEF Pool, Status
    <2>2. /\ f \in Pool /\ f.foreground = {} /\ f.foregroundRunning = 0
          /\ f.slotWaiters = <<>> /\ f.runs = [t \in Tasks |-> 0]
      BY <2>1, FreshPool
    <2>3. pool' = [f EXCEPT !.status = left]
      BY <1>8 DEF ProcessEnds
    <2> HIDE DEF f
    <2>4. /\ pool' \in Pool /\ pool'.foreground = {} /\ pool'.foregroundRunning = 0
          /\ pool'.slotWaiters = <<>> /\ pool'.runs = [t \in Tasks |-> 0]
          /\ \A t \in Tasks : pool'.status[t] \in {"unused", "gone"}
      BY <2>1, <2>2, <2>3 DEF Pool
    <2> QED
      BY <2>4, FreshKeeps
  <1>9. CASE UserSpeaks \/ TurnEnds \/ WindowCloses \/ ProcessStarts \/ (\E t \in Tasks : Deadline(t)) \/ UNCHANGED vars
    <2>1. UNCHANGED pool
      BY <1>9 DEF UserSpeaks, TurnEnds, WindowCloses, ProcessStarts, Deadline, vars
    <2> QED
      BY <2>1, <1>1
  <1> QED
    BY <1>2, <1>3, <1>4, <1>5, <1>6, <1>7, <1>8, <1>9 DEF Next, TurnStep

LEMMA NextTypes == BackgroundInv /\ [Next]_vars => TypeOK'
  <1> SUFFICES ASSUME BackgroundInv, [Next]_vars
               PROVE  TypeOK'
    OBVIOUS
  <1>0. TypeOK /\ pool' \in Pool
    <2>1. PoolInv(pool)'
      BY NextPool
    <2> QED
      BY <2>1 DEF BackgroundInv, PoolInv, Sound
  <1>1. CASE UserSpeaks
    BY <1>0, <1>1 DEF UserSpeaks, BeginTurn, Alive, OnDisk, Waking, TypeOK
  <1>2. CASE TurnEnds
    BY <1>0, <1>2 DEF TurnEnds, BeginTurn, Alive, OnDisk, Waking, TypeOK
  <1>3. CASE Cancel
    BY <1>0, <1>3 DEF Cancel, Alive, OnDisk, Waking, TypeOK
  <1>4. ASSUME NEW t \in Tasks, TurnStep(t)
        PROVE  TypeOK'
    BY <1>0, <1>4 DEF TurnStep, DispatchBackground, DispatchForeground, Stop, Resume, Working, Alive, OnDisk,
                      Waking, TypeOK
  <1>5. ASSUME NEW t \in Tasks, Deadline(t)
        PROVE  TypeOK'
    BY <1>0, <1>5 DEF Deadline, Alive, OnDisk, Waking, TypeOK
  <1>6. ASSUME NEW t \in Tasks, NEW how \in Ended, LaneEnds(t, how)
        PROVE  TypeOK'
    <2>1. wakeBuf' \subseteq Tasks /\ calls' \subseteq Tasks
      BY <1>0, <1>6 DEF LaneEnds, TypeOK
    <2>2. wakeTimer' \in BOOLEAN /\ up' \in BOOLEAN
      <3>1. wakeTimer' = (wakeTimer \/ shouldAutoWake) /\ up' = up
        BY <1>6 DEF LaneEnds, Alive
      <3>2. (wakeTimer \/ shouldAutoWake) \in BOOLEAN
        BY Zenon
      <3> QED
        BY <3>1, <3>2, <1>0, Zenon DEF TypeOK
    <2>3. UNCHANGED <<turn, queueLen, wakeUsed, wakes, told, used, registry, attempts>>
      BY <1>6 DEF LaneEnds, OnDisk
    <2> QED
      BY <1>0, <2>1, <2>2, <2>3 DEF TypeOK
  <1>7. CASE WindowCloses
    <2>1. /\ UNCHANGED <<up, registry, attempts, calls, queueLen, used>>
          /\ wakeTimer' = FALSE /\ wakeBuf' = {}
          /\ turn' \in {turn, "working"} /\ wakeUsed' \in {wakeUsed, wakeUsed + 1}
          /\ wakes' \in {wakes, wakes + 1} /\ told' \in {told, told \cup wakeBuf}
      BY <1>7 DEF WindowCloses, Wakes, Alive, OnDisk
    <2>2. wakeTimer' \in BOOLEAN /\ up' \in BOOLEAN
      BY <1>0, <2>1, Zenon DEF TypeOK
    <2>3. wakeBuf' \subseteq Tasks /\ told' \subseteq Tasks /\ turn' \in {"idle", "working", "cancelling"}
      BY <1>0, <2>1 DEF TypeOK
    <2>4. wakeUsed' \in Nat /\ wakes' \in Nat
      BY <1>0, <2>1 DEF TypeOK
    <2> QED
      BY <1>0, <2>1, <2>2, <2>3, <2>4 DEF TypeOK
  <1>8. CASE ProcessEnds
    <2>1. registry' \in [Tasks -> Saved]
      BY <1>0, <1>8 DEF ProcessEnds, TypeOK, Saved
    <2> QED
      <3>1. /\ up' = FALSE /\ turn' = "idle" /\ calls' = {} /\ queueLen' = 0
            /\ wakeBuf' = {} /\ wakeTimer' = FALSE /\ wakeUsed' = 0
            /\ UNCHANGED <<attempts, wakes, told>> /\ used' = [used EXCEPT !.crashes = @ + 1]
        BY <1>8 DEF ProcessEnds
      <3>2. wakeTimer' \in BOOLEAN /\ up' \in BOOLEAN
        BY <3>1, Zenon
      <3>3. used' \in [inputs : Nat, resumes : Nat, crashes : Nat]
        BY <1>0, <3>1 DEF TypeOK
      <3> QED
        BY <1>0, <2>1, <3>1, <3>2, <3>3 DEF TypeOK
  <1>9. CASE ProcessStarts
    <2>1. registry' \in [Tasks -> Saved] /\ attempts' \in [Tasks -> Nat]
      BY <1>0, <1>9 DEF ProcessStarts, TypeOK, Saved
    <2> QED
      BY <1>0, <1>9, <2>1 DEF ProcessStarts, Waking, TypeOK
  <1>10. CASE UNCHANGED vars
    BY <1>0, <1>10 DEF vars, TypeOK
  <1> QED
    BY <1>1, <1>2, <1>3, <1>4, <1>5, <1>6, <1>7, <1>8, <1>9, <1>10 DEF Next

LEMMA MoreIsGiven ==
  ASSUME NEW m \in Nat, NEW n \in Nat, NEW k \in Nat
  PROVE  m * n <= m * (n + k) /\ (k > 0 => m * n + m <= m * (n + k))
  <1>1. m * (n + k) = m * n + m * k /\ m * n \in Nat /\ m * k \in Nat
    OBVIOUS
  <1>2. k > 0 => m * k >= m
    <2>1. ASSUME k > 0
          PROVE  m * k = m * (k - 1) + m /\ m * (k - 1) >= 0
      BY <2>1
    <2> QED
      BY <1>1, <2>1
  <1> QED
    BY <1>1, <1>2

LEMMA NextCharged == BackgroundInv /\ [Next]_vars => WakesCharged'
  <1> SUFFICES ASSUME BackgroundInv, [Next]_vars
               PROVE  WakesCharged'
    OBVIOUS
  <1>1. /\ WakesCharged /\ wakeUsed \in Nat /\ wakes \in Nat /\ AUTO_WAKE_MAX \in Nat
        /\ queueLen \in Nat /\ used \in [inputs : Nat, resumes : Nat, crashes : Nat]
    BY WakeAssumption DEF BackgroundInv, TypeOK
  <1>2. GivenBack \in Nat
    BY <1>1 DEF WakesCharged, GivenBack
  \* The counter is left alone, or is set back where something has given the budget back.
  <1>3. ASSUME NEW k \in Nat, GivenBack' = GivenBack + k, queueLen' <= used'.inputs, wakes' = wakes,
               wakeUsed' = wakeUsed \/ (k > 0 /\ wakeUsed' = 0)
        PROVE  WakesCharged'
    <2>1. /\ AUTO_WAKE_MAX * GivenBack <= AUTO_WAKE_MAX * (GivenBack + k)
          /\ k > 0 => AUTO_WAKE_MAX * GivenBack + AUTO_WAKE_MAX <= AUTO_WAKE_MAX * (GivenBack + k)
      BY <1>1, <1>2, MoreIsGiven
    <2> DEFINE old == AUTO_WAKE_MAX * GivenBack
               new == AUTO_WAKE_MAX * (GivenBack + k)
    <2>2. old \in Nat /\ new \in Nat
      BY <1>1, <1>2
    <2>3. AUTO_WAKE_MAX * GivenBack' = new
      BY <1>3
    <2>4. wakes <= old + wakeUsed /\ wakeUsed <= AUTO_WAKE_MAX
      BY <1>1 DEF WakesCharged
    <2>5. old <= new /\ (k > 0 => old + AUTO_WAKE_MAX <= new)
      BY <2>1
    <2> HIDE DEF old, new
    <2>6. wakeUsed' <= AUTO_WAKE_MAX /\ wakes' <= new + wakeUsed'
      BY <1>1, <1>3, <2>2, <2>4, <2>5
    <2> QED
      BY <1>3, <2>3, <2>6 DEF WakesCharged
  <1>4. CASE UNCHANGED <<wakes, wakeUsed, queueLen, used>>
    BY <1>1, <1>4 DEF WakesCharged, GivenBack
  <1>5. CASE shouldAutoWake /\ Wakes /\ UNCHANGED <<queueLen, used>>
    <2>1. wakeUsed' = wakeUsed + 1 /\ wakes' = wakes + 1 /\ wakeUsed < AUTO_WAKE_MAX /\ GivenBack' = GivenBack
      BY <1>5 DEF shouldAutoWake, Wakes, GivenBack
    <2> DEFINE old == AUTO_WAKE_MAX * GivenBack
    <2>2. old \in Nat /\ AUTO_WAKE_MAX * GivenBack' = old /\ wakes <= old + wakeUsed
      BY <1>1, <1>2, <2>1 DEF WakesCharged
    <2> HIDE DEF old
    <2>3. wakeUsed' <= AUTO_WAKE_MAX /\ wakes' <= old + wakeUsed' /\ queueLen' <= used'.inputs
      BY <1>1, <1>5, <2>1, <2>2 DEF WakesCharged
    <2> QED
      BY <2>2, <2>3 DEF WakesCharged
  <1>6. CASE UserSpeaks
    <2>1. /\ used' = [used EXCEPT !.inputs = @ + 1] /\ wakes' = wakes
          /\ \/ queueLen' = queueLen /\ wakeUsed' = 0
             \/ queueLen' = queueLen + 1 /\ wakeUsed' = wakeUsed
      BY <1>6 DEF UserSpeaks, BeginTurn, Waking
    <2>2. used'.inputs = used.inputs + 1 /\ used'.crashes = used.crashes /\ queueLen <= used.inputs
      BY <1>1, <2>1 DEF WakesCharged
    <2>3. CASE queueLen' = queueLen /\ wakeUsed' = 0
      <3>1. GivenBack' = GivenBack + 1 /\ queueLen' <= used'.inputs
        BY <1>1, <2>2, <2>3 DEF GivenBack
      <3> QED
        BY <1>3, <2>1, <2>3, <3>1
    <2>4. CASE queueLen' = queueLen + 1 /\ wakeUsed' = wakeUsed
      <3>1. GivenBack' = GivenBack + 0 /\ queueLen' <= used'.inputs
        BY <1>1, <2>2, <2>4 DEF GivenBack
      <3> QED
        BY <1>3, <2>1, <2>4, <3>1
    <2> QED
      BY <2>1, <2>3, <2>4
  <1>7. CASE TurnEnds /\ queueLen > 0
    <2>1. queueLen' = queueLen - 1 /\ wakeUsed' = 0 /\ wakes' = wakes /\ used' = used
      BY <1>1, <1>7 DEF TurnEnds, BeginTurn
    <2>2. GivenBack' = GivenBack + 1 /\ queueLen' <= used'.inputs
      BY <1>1, <2>1 DEF GivenBack, WakesCharged
    <2> QED
      BY <1>3, <2>1, <2>2
  <1>8. CASE Cancel
    <2>1. /\ queueLen' = 0 /\ used' = [used EXCEPT !.inputs = @ + 1]
          /\ UNCHANGED <<wakes, wakeUsed>>
      BY <1>8 DEF Cancel, Waking
    <2>2. GivenBack' = GivenBack + (queueLen + 1) /\ queueLen' <= used'.inputs /\ queueLen + 1 \in Nat
      BY <1>1, <2>1 DEF GivenBack
    <2> QED
      BY <1>3, <2>1, <2>2
  <1>9. CASE ProcessEnds
    <2>1. /\ queueLen' = 0 /\ used' = [used EXCEPT !.crashes = @ + 1]
          /\ wakes' = wakes /\ wakeUsed' = 0
      BY <1>9 DEF ProcessEnds
    <2>2. /\ GivenBack' = GivenBack + (queueLen + 1) /\ queueLen' <= used'.inputs
          /\ queueLen + 1 \in Nat /\ queueLen + 1 > 0
      BY <1>1, <2>1 DEF GivenBack
    <2> QED
      BY <1>3, <2>1, <2>2
  <1>10. ASSUME NEW t \in Tasks, TurnStep(t)
         PROVE  WakesCharged'
    <2>1. CASE Resume(t)
      <3>1. UNCHANGED <<wakes, wakeUsed, queueLen>> /\ used' = [used EXCEPT !.resumes = @ + 1]
        BY <2>1 DEF Resume, Working, Waking
      <3>2. used'.inputs = used.inputs /\ used'.crashes = used.crashes
        BY <1>1, <3>1
      <3> QED
        BY <1>1, <3>1, <3>2 DEF WakesCharged, GivenBack
    <2>2. CASE DispatchBackground(t) \/ DispatchForeground(t) \/ Stop(t)
      BY <1>4, <2>2 DEF DispatchBackground, DispatchForeground, Stop, Working, Waking
    <2> QED
      BY <1>10, <2>1, <2>2 DEF TurnStep
  <1>11. CASE \/ (TurnEnds /\ queueLen = 0) \/ ProcessStarts \/ UNCHANGED vars
              \/ \E t \in Tasks : Deadline(t) \/ \E how \in Ended : LaneEnds(t, how)
    BY <1>4, <1>11 DEF TurnEnds, Waking, ProcessStarts, vars, Deadline, LaneEnds
  <1>12. CASE WindowCloses
    BY <1>4, <1>5, <1>12 DEF WindowCloses
  <1>13. TurnEnds => queueLen = 0 \/ queueLen > 0
    BY <1>1
  <1> QED
    BY <1>6, <1>7, <1>8, <1>9, <1>10, <1>11, <1>12, <1>13 DEF Next

LEMMA BackgroundInvariant == Spec => []BackgroundInv
  <1>1. Init => BackgroundInv
    BY InitBackground
  <1>2. BackgroundInv /\ [Next]_vars => BackgroundInv'
    BY NextPool, NextTypes, NextCharged DEF BackgroundInv
  <1> QED
    BY <1>1, <1>2, PTL DEF Spec

\* The variables keep their types: no counter of lanes, slots or attempts goes below zero.
THEOREM BackgroundTypeCorrect == Spec => []TypeOK
  <1>1. BackgroundInv => TypeOK
    BY DEF BackgroundInv
  <1> QED
    BY <1>1, BackgroundInvariant, PTL

\* Whatever is dispatched, queued, resumed, stopped or timed out, runningCount is the number
\* of lanes that execute (kernel/engine.mjs, runningCount).
THEOREM SlotsAreExact == Spec => []SlotsExact
  <1>1. BackgroundInv => SlotsExact
    <2> SUFFICES ASSUME BackgroundInv, pool.limit > 0
                 PROVE  runningCount(pool) = Cardinality({t \in Tasks : pool.runs[t] > 0})
      BY DEF SlotsExact
    <2>1. runningCount(pool) = Cardinality(Executing(pool))
      BY Counted DEF BackgroundInv, PoolInv, Sound
    <2>2. Executing(pool) = {t \in Tasks : pool.runs[t] > 0}
      BY DEF Executing, BackgroundInv, PoolInv, Sound, LanesAreEntries
    <2> QED
      BY <2>1, <2>2
  <1> QED
    BY <1>1, BackgroundInvariant, PTL

\* No task is executed twice at once, by the queue and by a resume (drainQueuedLanes).
THEOREM NoTaskRunsTwice == Spec => []NoLaneTwice
  <1>1. BackgroundInv => NoLaneTwice
    BY DEF BackgroundInv, PoolInv, Sound, LanesAreEntries, NoLaneTwice
  <1> QED
    BY <1>1, BackgroundInvariant, PTL

\* No slot idles while a task is queued: each end of a lane drains the queue before anything
\* else can happen (runLaneExecution, releaseForegroundSlot).
THEOREM NoSlotIdles == Spec => []NoIdleSlot
  <1>1. BackgroundInv => NoIdleSlot
    BY DEF BackgroundInv, PoolInv, QueueIsNeeded, NoIdleSlot
  <1> QED
    BY <1>1, BackgroundInvariant, PTL

\* Lanes that were not resumed by hand stay within PONOS_LANE_MAX_CONCURRENT.
THEOREM LimitIsKept == Spec => []WithinLimit
  <1>1. BackgroundInv => WithinLimit
    BY DEF BackgroundInv, PoolInv, KeepsLimit, Unresumed, WithinLimit
  <1> QED
    BY <1>1, BackgroundInvariant, PTL

\* However many lanes are dispatched by turns that ended lanes have begun, such turns are at
\* most AUTO_WAKE_MAX for each message from outside and each process: the budget is given back
\* only by messages that begin a turn (handleUser) and by a new process.
THEOREM WakesAreBudgeted == Spec => []WakesWithinBudget
  <1>1. BackgroundInv => WakesWithinBudget
    <2> SUFFICES ASSUME BackgroundInv
                 PROVE  wakes <= AUTO_WAKE_MAX * (1 + used.inputs + used.crashes)
      BY DEF WakesWithinBudget
    <2>1. /\ WakesCharged /\ wakeUsed \in Nat /\ wakes \in Nat /\ AUTO_WAKE_MAX \in Nat
          /\ queueLen \in Nat /\ used.inputs \in Nat /\ used.crashes \in Nat
      BY WakeAssumption DEF BackgroundInv, TypeOK
    <2>2. GivenBack \in Nat /\ 1 + used.inputs + used.crashes = GivenBack + (1 + queueLen)
      BY <2>1 DEF WakesCharged, GivenBack
    <2>3. AUTO_WAKE_MAX * GivenBack + AUTO_WAKE_MAX <= AUTO_WAKE_MAX * (GivenBack + (1 + queueLen))
      <3>1. 1 + queueLen \in Nat /\ 1 + queueLen > 0
        BY <2>1
      <3> QED
        BY <2>1, <2>2, <3>1, MoreIsGiven
    <2> DEFINE old == AUTO_WAKE_MAX * GivenBack
               all == AUTO_WAKE_MAX * (1 + used.inputs + used.crashes)
    <2>4. old \in Nat /\ all \in Nat
      BY <2>1, <2>2
    <2>5. old + AUTO_WAKE_MAX <= all
      BY <2>2, <2>3
    <2>6. wakes <= old + wakeUsed /\ wakeUsed <= AUTO_WAKE_MAX
      BY <2>1 DEF WakesCharged
    <2> HIDE DEF old, all
    <2>7. wakes <= all
      BY <2>1, <2>4, <2>5, <2>6
    <2> QED
      BY <2>7 DEF all
  <1> QED
    BY <1>1, BackgroundInvariant, PTL
=============================================================================
