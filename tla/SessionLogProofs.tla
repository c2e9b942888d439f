--------------------------- MODULE SessionLogProofs ---------------------------
(***************************************************************************)
(* Theorems about SessionLog, for every earlier log and every bound: the   *)
(* file replayed is the memory of the process that writes it, a failure    *)
(* costs one entry, requests answer every call and nothing else, and       *)
(* thinking stays in its turn.  They rest on the replay of a file as a     *)
(* fold over its lines, which the first lemmas unroll.                     *)
(***************************************************************************)
EXTENDS SessionLog, SequenceTheorems, FiniteSetTheorems, WellFoundedInduction, TLAPS

(***************************************************************************)
(* Induction over the naturals, as a statement about a set of them.        *)
(***************************************************************************)

LEMMA NatSetInduction ==
  ASSUME NEW S, 0 \in S, \A n \in Nat : n \in S => n + 1 \in S
  PROVE  Nat \subseteq S
  <1> DEFINE T == {n \in Nat : n \notin S}
             R == OpToRel(<, Nat)
  <1>1. R = {ss \in Nat \X Nat : ss[1] < ss[2]}
    BY DEF OpToRel
  <1>2. IsWellFoundedOn(R, Nat)
    BY NatLessThanWellFounded
  <1> SUFFICES ASSUME T # {} PROVE FALSE
    OBVIOUS
  <1>3. T \subseteq Nat
    OBVIOUS
  <1> HIDE DEF R
  <1>4. PICK x \in T : \A y \in T : ~ (<<y, x>> \in R)
    <2> HIDE DEF T
    <2> QED
      BY <1>2, <1>3, WFMin
  <1>5. x - 1 \in Nat /\ x - 1 \notin S
    BY <1>4
  <1>6. <<x - 1, x>> \in R
    BY <1>1, <1>5
  <1> QED
    BY <1>4, <1>5, <1>6

\* A set of numbers has a least one.
LEMMA LeastOfNats ==
  ASSUME NEW T \in SUBSET Nat, T # {}
  PROVE  Min(T) \in T /\ \A y \in T : Min(T) <= y
  <1> DEFINE R == OpToRel(<, Nat)
  <1>1. R = {ss \in Nat \X Nat : ss[1] < ss[2]}
    BY DEF OpToRel
  <1>2. IsWellFoundedOn(R, Nat)
    BY NatLessThanWellFounded
  <1> HIDE DEF R
  <1>3. PICK x \in T : \A y \in T : ~ (<<y, x>> \in R)
    BY <1>2, WFMin
  <1>4. ASSUME NEW y \in T, y < x PROVE FALSE
    <2>1. <<y, x>> \in R
      BY <1>1, <1>4
    <2> QED
      BY <1>3, <2>1
  <1>5. \A y \in T : x <= y
    BY <1>4
  <1> QED
    BY <1>5 DEF Min

(***************************************************************************)
(* The replay of a file.  After each of its lines there is a memory: the   *)
(* replay is the last of them.                                             *)
(***************************************************************************)

Replay(s) == FoldLeft(Replayed, Empty, s)

IsFold(t, s, n) ==
    t = [T \in SUBSET (1..n) |->
            IF T = {} THEN Empty
            ELSE LET x == Max(T) IN Replayed(t[T \ {x}], s[x])]

LEMMA FoldsExist ==
  ASSUME NEW s, NEW n \in Nat
  PROVE  \E t : IsFold(t, s, n)
  <1> DEFINE N == {k \in Nat : \E t : IsFold(t, s, k)}
  <1>1. 0 \in N
    <2> DEFINE t == [T \in SUBSET (1..0) |-> Empty]
    <2>1. SUBSET (1..0) = {{}}
      OBVIOUS
    <2>2. IsFold(t, s, 0)
      BY <2>1 DEF IsFold
    <2> QED
      BY <2>2
  <1>2. ASSUME NEW k \in Nat, k \in N PROVE k + 1 \in N
    <2>1. PICK t : IsFold(t, s, k)
      BY <1>2
    <2> DEFINE u == [T \in SUBSET (1..(k + 1)) |->
                        IF k + 1 \in T THEN Replayed(t[T \ {k + 1}], s[k + 1]) ELSE t[T]]
    <2>2. ASSUME NEW T \in SUBSET (1..(k + 1)), k + 1 \in T
          PROVE  T # {} /\ Max(T) = k + 1 /\ u[T \ {k + 1}] = t[T \ {k + 1}]
      <3>1. \A y \in T : k + 1 >= y
        OBVIOUS
      <3>2. \A x \in T : (\A y \in T : x >= y) => x = k + 1
        BY <2>2
      <3>3. Max(T) = k + 1
        BY <2>2, <3>1, <3>2 DEF Max
      <3>4. T \ {k + 1} \in SUBSET (1..(k + 1)) /\ k + 1 \notin T \ {k + 1}
        OBVIOUS
      <3> QED
        BY <2>2, <3>3, <3>4
    <2>3. ASSUME NEW T \in SUBSET (1..(k + 1)), k + 1 \notin T, T # {}, NEW x
          PROVE  u[T \ {x}] = t[T \ {x}] /\ T \in SUBSET (1..k)
      <3>1. \A y \in T : y \in 1..k
        BY <2>3
      <3>2. T \ {x} \in SUBSET (1..(k + 1)) /\ k + 1 \notin T \ {x}
        BY <2>3
      <3> QED
        BY <3>1, <3>2
    <2>4. \A T \in SUBSET (1..(k + 1)) :
             u[T] = IF T = {} THEN Empty
                    ELSE LET x == Max(T) IN Replayed(u[T \ {x}], s[x])
      <3> TAKE T \in SUBSET (1..(k + 1))
      <3>1. CASE k + 1 \in T
        BY <3>1, <2>2
      <3>2. CASE T = {}
        BY <3>2, <2>1 DEF IsFold
      <3>3. CASE k + 1 \notin T /\ T # {}
        <4> DEFINE x == Max(T)
        <4>1. u[T] = t[T] /\ T \in SUBSET (1..k)
          BY <3>3, <2>3
        <4>2. t[T] = Replayed(t[T \ {x}], s[x])
          BY <3>3, <4>1, <2>1 DEF IsFold
        <4>3. u[T \ {x}] = t[T \ {x}]
          BY <3>3, <2>3
        <4> QED
          BY <3>3, <4>1, <4>2, <4>3
      <3> QED
        BY <3>1, <3>2, <3>3
    <2>5. IsFold(u, s, k + 1)
      <3> DEFINE v == [T \in SUBSET (1..(k + 1)) |->
                          IF T = {} THEN Empty
                          ELSE LET x == Max(T) IN Replayed(u[T \ {x}], s[x])]
      <3>1. \A T \in SUBSET (1..(k + 1)) : u[T] = v[T]
        BY <2>4
      <3>2. u = v
        BY <3>1
      <3> QED
        BY <3>2 DEF IsFold
    <2> QED
      BY <2>5
  <1> HIDE DEF N
  <1>3. Nat \subseteq N
    BY <1>1, <1>2, NatSetInduction
  <1> QED
    BY <1>3 DEF N

\* r holds the memory after each of the first n lines of s.
IsReplay(r, s, n) ==
    r[0] = Empty /\ \A i \in 1..n : r[i] = Replayed(r[i - 1], s[i])

LEMMA ReplayRuns ==
  ASSUME NEW S, NEW s \in Seq(S)
  PROVE  \E r : IsReplay(r, s, Len(s)) /\ Replay(s) = r[Len(s)]
  <1> DEFINE n == Len(s)
             t == CHOOSE t : IsFold(t, s, n)
             r == [i \in 0..n |-> t[1..i]]
  <1>1. n \in Nat /\ DOMAIN s = 1..n
    OBVIOUS
  <1>2. Replay(s) = t[1..n]
    BY <1>1 DEF Replay, FoldLeft, MapThenFoldSet, IsFold
  <1>3. IsFold(t, s, n)
    BY <1>1, FoldsExist
  <1> HIDE DEF t
  <1>4. r[0] = Empty
    <2>1. 1..0 = {} /\ {} \in SUBSET (1..n)
      OBVIOUS
    <2> QED
      BY <1>1, <1>3, <2>1 DEF IsFold
  <1>5. ASSUME NEW i \in 1..n PROVE r[i] = Replayed(r[i - 1], s[i])
    <2>1. 1..i \in SUBSET (1..n) /\ 1..i # {} /\ (1..i) \ {i} = 1..(i - 1)
      <3>1. i \in Nat /\ 1 <= i /\ i <= n
        BY <1>1
      <3> HIDE DEF n
      <3>2. 1..i \in SUBSET (1..n) /\ i \in 1..i
        BY <1>1, <3>1
      <3>3. \A j \in 1..i : j # i => j \in 1..(i - 1)
        BY <3>1
      <3>4. \A j \in 1..(i - 1) : j \in 1..i /\ j # i
        BY <3>1
      <3> QED
        BY <3>2, <3>3, <3>4
    <2>2. Max(1..i) = i
      <3>1. i \in 1..i /\ \A y \in 1..i : i >= y
        BY <1>1
      <3>2. \A x \in 1..i : (\A y \in 1..i : x >= y) => x = i
        BY <1>1
      <3> QED
        BY <3>1, <3>2 DEF Max
    <2>3. t[1..i] = Replayed(t[(1..i) \ {i}], s[i])
      BY <1>3, <2>1, <2>2 DEF IsFold
    <2>4. r[i] = t[1..i] /\ r[i - 1] = t[1..(i - 1)]
      BY <1>1
    <2> QED
      BY <2>1, <2>3, <2>4
  <1>6. IsReplay(r, s, n)
    BY <1>4, <1>5 DEF IsReplay
  <1>7. r[n] = t[1..n]
    BY <1>1
  <1> QED
    BY <1>2, <1>6, <1>7

LEMMA RunsAgree ==
  ASSUME NEW s, NEW u, NEW r, NEW q, NEW n \in Nat, NEW m \in Nat, NEW k \in Nat,
         IsReplay(r, s, n), IsReplay(q, u, m), k <= n, k <= m, \A i \in 1..k : s[i] = u[i]
  PROVE  r[k] = q[k]
  <1> DEFINE N == {i \in Nat : i <= k => r[i] = q[i]}
  <1>1. 0 \in N
    BY DEF IsReplay
  <1>2. ASSUME NEW i \in Nat, i \in N PROVE i + 1 \in N
    <2> SUFFICES ASSUME i + 1 <= k PROVE r[i + 1] = q[i + 1]
      OBVIOUS
    <2>1. i + 1 \in 1..k /\ i + 1 \in 1..n /\ i + 1 \in 1..m /\ (i + 1) - 1 = i
      OBVIOUS
    <2>2. r[i + 1] = Replayed(r[i], s[i + 1]) /\ q[i + 1] = Replayed(q[i], u[i + 1])
      BY <2>1 DEF IsReplay
    <2> QED
      BY <1>2, <2>1, <2>2
  <1> HIDE DEF N
  <1>3. Nat \subseteq N
    BY <1>1, <1>2, NatSetInduction
  <1> QED
    BY <1>3 DEF N

\* A line more is one more step of the replay.
LEMMA ReplayAppend ==
  ASSUME NEW S, NEW s \in Seq(S), NEW e \in S
  PROVE  Replay(Append(s, e)) = Replayed(Replay(s), e)
  <1> DEFINE n == Len(s)
             u == Append(s, e)
  <1>1. u \in Seq(S) /\ Len(u) = n + 1 /\ n \in Nat /\ u[n + 1] = e
        /\ \A i \in 1..n : s[i] = u[i]
    OBVIOUS
  <1>2. PICK r : IsReplay(r, s, n) /\ Replay(s) = r[n]
    BY ReplayRuns
  <1>3. PICK q : IsReplay(q, u, n + 1) /\ Replay(u) = q[n + 1]
    BY <1>1, ReplayRuns
  <1> HIDE DEF u, n
  <1>4. r[n] = q[n]
    BY <1>1, <1>2, <1>3, RunsAgree
  <1>5. q[n + 1] = Replayed(q[n], u[n + 1])
    BY <1>1, <1>3 DEF IsReplay
  <1> QED
    BY <1>1, <1>2, <1>3, <1>4, <1>5 DEF u

LEMMA ReplayNothing == Replay(<<>>) = Empty
  <1>1. <<>> \in Seq({}) /\ Len(<<>>) = 0
    OBVIOUS
  <1>2. PICK r : IsReplay(r, <<>>, 0) /\ Replay(<<>>) = r[0]
    BY <1>1, ReplayRuns
  <1> QED
    BY <1>2 DEF IsReplay

(***************************************************************************)
(* Memories.  Adds says what a memory becomes by an entry, appended or     *)
(* read back, under its number q: nothing else is looked at below.         *)
(***************************************************************************)

Entries == UNION {[D -> Entry] : D \in SUBSET Nat}
Memory == [nextSeq : Nat \ {0}, nodes : Seq(Nat), thinkingSeqs : SUBSET Nat, entries : Entries]

InUse(m) == ToSet(m.nodes) \union m.thinkingSeqs
WellFormed(m) ==
    /\ m \in Memory /\ InUse(m) \subseteq DOMAIN m.entries
    /\ \A s \in InUse(m) : s < m.nextSeq /\ m.entries[s].seq = s

NodesAfter(nodes, e, q) ==
    IF e.type \in {"start", "thinking"} THEN nodes
    ELSE IF e.type = "summary" THEN Spliced(nodes, e.covers, q)
    ELSE Append(nodes, q)
ThinkingAfter(seqs, e, q) == IF e.type = "thinking" THEN seqs \union {q} ELSE seqs

Adds(m, M, e, q) ==
    /\ M \in Memory
    /\ M.nodes = NodesAfter(m.nodes, e, q)
    /\ M.thinkingSeqs = ThinkingAfter(m.thinkingSeqs, e, q)
    /\ DOMAIN m.entries \subseteq DOMAIN M.entries
    /\ e.type # "start" => q \in DOMAIN M.entries /\ M.entries[q] = [e EXCEPT !.seq = q]
    /\ \A s \in DOMAIN m.entries : s # q \/ e.type = "start" => M.entries[s] = m.entries[s]

LEMMA EmptyIsWellFormed == WellFormed(Empty)
  <1>1. [s \in {} |-> Blank] \in [{} -> Entry]
    OBVIOUS
  <1>2. [s \in {} |-> Blank] \in Entries
    BY <1>1 DEF Entries
  <1>3. ToSet(<<>>) = {}
    BY DEF ToSet
  <1> QED
    BY <1>2, <1>3 DEF Empty, WellFormed, Memory, InUse

LEMMA KnownEntries ==
  ASSUME NEW m \in Memory, NEW e \in Entry
  PROVE  LET M == Known(m, e)
         IN  /\ M \in Memory
             /\ M.nextSeq = m.nextSeq /\ M.nodes = m.nodes /\ M.thinkingSeqs = m.thinkingSeqs
             /\ DOMAIN M.entries = DOMAIN m.entries \union {e.seq}
             /\ M.entries[e.seq] = e
             /\ \A s \in DOMAIN m.entries : s # e.seq => M.entries[s] = m.entries[s]
  <1> DEFINE f == m.entries
             g == [s \in DOMAIN f \union {e.seq} |-> IF s = e.seq THEN e ELSE f[s]]
             M == Known(m, e)
  <1>1. PICK D \in SUBSET Nat : f \in [D -> Entry]
    BY DEF Entries, Memory
  <1>2. e.seq \in Nat
    BY DEF Entry
  <1>3. g \in [D \union {e.seq} -> Entry] /\ D \union {e.seq} \in SUBSET Nat
    BY <1>1, <1>2
  <1>4. g \in Entries
    BY <1>3 DEF Entries
  <1>5. M = [m EXCEPT !.entries = g]
    BY DEF Known
  <1>6. M \in Memory /\ M.entries = g
        /\ M.nextSeq = m.nextSeq /\ M.nodes = m.nodes /\ M.thinkingSeqs = m.thinkingSeqs
    <2> HIDE DEF g, M
    <2> QED
      BY <1>4, <1>5 DEF Memory
  <1> QED
    BY <1>6

LEMMA MaxOfTwo ==
  ASSUME NEW a \in Nat, NEW b \in Nat
  PROVE  Max({a, b}) \in {a, b} /\ Max({a, b}) >= a /\ Max({a, b}) >= b
  <1>1. CASE a >= b
    <2>1. \A x \in {a, b} : (\A y \in {a, b} : x >= y) => x = a
      BY <1>1
    <2> QED
      BY <1>1, <2>1 DEF Max
  <1>2. CASE b >= a
    <2>1. \A x \in {a, b} : (\A y \in {a, b} : x >= y) => x = b
      BY <1>2
    <2> QED
      BY <1>2, <2>1 DEF Max
  <1> QED
    BY <1>1, <1>2

\* A summary takes the place of nodes and puts in nothing but itself.
LEMMA SplicedType ==
  ASSUME NEW nodes \in Seq(Nat), NEW covers, NEW q \in Nat
  PROVE  Spliced(nodes, covers, q) \in Seq(Nat)
         /\ ToSet(Spliced(nodes, covers, q)) \subseteq ToSet(nodes) \union {q}
  <1> DEFINE hit == {i \in DOMAIN nodes : nodes[i] \in covers}
             T == ToSet(nodes) \union {q}
             a == SubSeq(nodes, 1, Min(hit) - 1)
             b == SubSeq(nodes, Min(hit) + Cardinality(hit), Len(nodes))
  <1>1. nodes \in Seq(T) /\ T \subseteq Nat /\ DOMAIN nodes = 1..Len(nodes) /\ Len(nodes) \in Nat
    BY DEF ToSet
  <1>2. CASE hit = {}
    BY <1>2 DEF Spliced
  <1>3. CASE hit # {}
    <2>1. Min(hit) \in hit
      <3>1. hit \in SUBSET Nat
        BY <1>1
      <3> QED
        BY <1>3, <3>1, LeastOfNats
    <2>2. Min(hit) \in 1..Len(nodes)
      BY <1>1, <2>1
    <2>3. Cardinality(hit) \in Nat
      <3>1. hit \subseteq 1..Len(nodes)
        BY <1>1
      <3>2. IsFiniteSet(1..Len(nodes))
        BY <1>1, FS_Interval
      <3> QED
        BY <3>1, <3>2, FS_Subset, FS_CardinalityType
    <2>4. Spliced(nodes, covers, q) = a \o <<q>> \o b
      BY <1>3 DEF Spliced
    <2> HIDE DEF hit
    <2>5. a \in Seq(T)
      BY <1>1, <2>2, SubSeqProperties
    <2>6. b \in Seq(T)
      BY <1>1, <2>2, <2>3, SubSeqProperties
    <2>7. <<q>> \in Seq(T)
      OBVIOUS
    <2> HIDE DEF a, b, T
    <2>8. a \o <<q>> \o b \in Seq(T)
      BY <2>5, <2>6, <2>7
    <2>9. Spliced(nodes, covers, q) \in Seq(T)
      BY <2>4, <2>8
    <2>10. \A s \in Seq(T) : ToSet(s) \subseteq T
      BY DEF ToSet
    <2>11. ASSUME NEW s \in Seq(T) PROVE s \in Seq(Nat)
      <3>1. T \subseteq Nat
        BY <1>1
      <3>2. s \in Seq(T)
        BY <2>11
      <3>3. \A i \in 1..Len(s) : s[i] \in T
        BY <3>2
      <3>4. Len(s) \in Nat /\ DOMAIN s = 1..Len(s) /\ s = [i \in 1..Len(s) |-> s[i]]
        BY <3>2
      <3> QED
        BY <3>1, <3>3, <3>4
    <2> QED
      BY <2>9, <2>10, <2>11 DEF T
  <1> QED
    BY <1>2, <1>3

LEMMA AppendType ==
  ASSUME NEW nodes \in Seq(Nat), NEW q \in Nat
  PROVE  Append(nodes, q) \in Seq(Nat) /\ ToSet(Append(nodes, q)) = ToSet(nodes) \union {q}
  <1>1. Append(nodes, q) \in Seq(Nat) /\ Len(Append(nodes, q)) = Len(nodes) + 1
        /\ Append(nodes, q)[Len(nodes) + 1] = q
        /\ \A i \in 1..Len(nodes) : Append(nodes, q)[i] = nodes[i]
    OBVIOUS
  <1>2. DOMAIN Append(nodes, q) = 1..(Len(nodes) + 1) /\ DOMAIN nodes = 1..Len(nodes)
        /\ Len(nodes) \in Nat
    OBVIOUS
  <1>3. ASSUME NEW x \in ToSet(Append(nodes, q)) PROVE x \in ToSet(nodes) \union {q}
    BY <1>1, <1>2 DEF ToSet
  <1>4. ASSUME NEW x \in ToSet(nodes) PROVE x \in ToSet(Append(nodes, q))
    BY <1>1, <1>2 DEF ToSet
  <1>5. q \in ToSet(Append(nodes, q))
    BY <1>1, <1>2 DEF ToSet
  <1> QED
    BY <1>1, <1>3, <1>4, <1>5

\* Where an entry goes: the sequences it leaves name no other number anew.
LEMMA AfterTypes ==
  ASSUME NEW m \in Memory, NEW e, NEW q \in Nat
  PROVE  /\ NodesAfter(m.nodes, e, q) \in Seq(Nat)
         /\ ThinkingAfter(m.thinkingSeqs, e, q) \in SUBSET Nat
         /\ ToSet(NodesAfter(m.nodes, e, q)) \union ThinkingAfter(m.thinkingSeqs, e, q)
               \subseteq InUse(m) \union {q}
         /\ e.type = "start" =>
               ToSet(NodesAfter(m.nodes, e, q)) \union ThinkingAfter(m.thinkingSeqs, e, q) = InUse(m)
  <1>1. m.nodes \in Seq(Nat) /\ m.thinkingSeqs \in SUBSET Nat
    BY DEF Memory
  <1>2. NodesAfter(m.nodes, e, q) \in Seq(Nat)
        /\ ToSet(NodesAfter(m.nodes, e, q)) \subseteq ToSet(m.nodes) \union {q}
    BY <1>1, SplicedType, AppendType DEF NodesAfter
  <1>3. ThinkingAfter(m.thinkingSeqs, e, q) \in SUBSET Nat
        /\ ThinkingAfter(m.thinkingSeqs, e, q) \subseteq m.thinkingSeqs \union {q}
    BY <1>1 DEF ThinkingAfter
  <1>4. ToSet(NodesAfter(m.nodes, e, q)) \union ThinkingAfter(m.thinkingSeqs, e, q)
           \subseteq InUse(m) \union {q}
    BY <1>2, <1>3 DEF InUse
  <1>5. e.type = "start" => NodesAfter(m.nodes, e, q) = m.nodes
                            /\ ThinkingAfter(m.thinkingSeqs, e, q) = m.thinkingSeqs
    BY DEF NodesAfter, ThinkingAfter
  <1> QED
    BY <1>2, <1>3, <1>4, <1>5 DEF InUse

\* What the four ways of taking an entry in have in common.
LEMMA TakenIn ==
  ASSUME NEW m \in Memory, NEW e \in Entry, NEW M,
         M = CASE e.type = "start"    -> m
               [] e.type = "thinking" -> Thought(m, e)
               [] e.type = "summary"  -> Summed(m, e)
               [] OTHER               -> Projected(m, e)
  PROVE  Adds(m, M, e, e.seq) /\ M.nextSeq = m.nextSeq
  <1> DEFINE k == Known(m, e)
  <1>1. e.seq \in Nat /\ [e EXCEPT !.seq = e.seq] = e
    BY DEF Entry
  <1>2. /\ k \in Memory
        /\ k.nextSeq = m.nextSeq /\ k.nodes = m.nodes /\ k.thinkingSeqs = m.thinkingSeqs
        /\ DOMAIN k.entries = DOMAIN m.entries \union {e.seq}
        /\ k.entries[e.seq] = e
        /\ \A s \in DOMAIN m.entries : s # e.seq => k.entries[s] = m.entries[s]
    BY KnownEntries
  <1>3. NodesAfter(m.nodes, e, e.seq) \in Seq(Nat)
        /\ ThinkingAfter(m.thinkingSeqs, e, e.seq) \in SUBSET Nat
    BY <1>1, AfterTypes
  <1> HIDE DEF k
  <1>4. CASE e.type = "start"
    BY <1>4 DEF Adds, NodesAfter, ThinkingAfter
  <1>5. CASE e.type # "start"
    <2>1. M = [k EXCEPT !.nodes = NodesAfter(m.nodes, e, e.seq),
                        !.thinkingSeqs = ThinkingAfter(m.thinkingSeqs, e, e.seq)]
      <3>1. CASE e.type = "thinking"
        BY <1>2, <3>1 DEF k, Thought, NodesAfter, ThinkingAfter, Memory
      <3>2. CASE e.type = "summary"
        BY <1>2, <3>2 DEF k, Summed, NodesAfter, ThinkingAfter, Memory
      <3>3. CASE e.type \notin {"thinking", "summary"}
        BY <1>2, <1>5, <3>3 DEF k, Projected, NodesAfter, ThinkingAfter, Memory
      <3> QED
        BY <3>1, <3>2, <3>3
    <2>2. M \in Memory /\ M.nextSeq = k.nextSeq /\ M.entries = k.entries
          /\ M.nodes = NodesAfter(m.nodes, e, e.seq)
          /\ M.thinkingSeqs = ThinkingAfter(m.thinkingSeqs, e, e.seq)
      BY <1>2, <1>3, <2>1 DEF Memory
    <2> QED
      BY <1>1, <1>2, <1>5, <2>2 DEF Adds
  <1> QED
    BY <1>4, <1>5

\* The number an entry has when it is read back.
NumberIn(m, e) == IF e.seq = 0 THEN m.nextSeq ELSE e.seq
IsRead(e) == Parses(e) /\ e.type \notin Unnumbered

LEMMA ReplayedAdds ==
  ASSUME NEW m \in Memory, NEW e \in Entry, IsRead(e)
  PROVE  LET q == NumberIn(m, e)
         IN  /\ Adds(m, Replayed(m, e), e, q)
             /\ q \in Nat \ {0}
             /\ Replayed(m, e).nextSeq = Max({m.nextSeq, q}) + 1
  <1> DEFINE q == NumberIn(m, e)
             n == Max({m.nextSeq, q}) + 1
             c == [m EXCEPT !.nextSeq = n]
             f == [e EXCEPT !.seq = q]
             M == Replayed(m, e)
  <1>1. q \in Nat \ {0} /\ m.nextSeq \in Nat
    BY DEF NumberIn, Memory, Entry
  <1>2. n \in Nat \ {0}
    BY <1>1, MaxOfTwo
  <1> HIDE DEF q, n
  <1>3. c \in Memory /\ c.nextSeq = n /\ c.nodes = m.nodes
        /\ c.thinkingSeqs = m.thinkingSeqs /\ c.entries = m.entries
    BY <1>2 DEF Memory
  <1>4. f \in Entry /\ f.seq = q /\ f.type = e.type /\ f.covers = e.covers
        /\ [f EXCEPT !.seq = q] = [e EXCEPT !.seq = q]
    BY <1>1 DEF Entry
  <1>5. M = CASE e.type \in Unnumbered \/ ~Parses(e) -> m
              [] e.type = "start"    -> c
              [] e.type = "thinking" -> Thought(c, f)
              [] e.type = "summary"  -> Summed(c, f)
              [] OTHER               -> Projected(c, f)
    BY DEF Replayed, q, n, NumberIn
  <1> HIDE DEF c, f, M
  <1>6. M = CASE f.type = "start"    -> c
              [] f.type = "thinking" -> Thought(c, f)
              [] f.type = "summary"  -> Summed(c, f)
              [] OTHER               -> Projected(c, f)
    BY <1>4, <1>5 DEF IsRead
  <1>7. Adds(c, M, f, q) /\ M.nextSeq = n
    <2>1. c \in Memory /\ f \in Entry
      BY <1>3, <1>4
    <2>2. Adds(c, M, f, f.seq) /\ M.nextSeq = c.nextSeq
      BY <1>6, <2>1, TakenIn
    <2> QED
      BY <1>3, <1>4, <2>2
  <1>8. Adds(m, M, e, q)
    BY <1>3, <1>4, <1>7 DEF Adds, NodesAfter, ThinkingAfter
  <1> QED
    BY <1>1, <1>7, <1>8 DEF M, n, q

LEMMA RememberedAdds ==
  ASSUME NEW m \in Memory, NEW e \in Entry, e.seq = m.nextSeq
  PROVE  /\ Remembered(m, e) \in Memory
         /\ Remembered(m, e).nextSeq = m.nextSeq + 1
         /\ e.type # "meta" => Adds(m, Remembered(m, e), e, e.seq)
         /\ e.type = "meta" =>
               /\ Remembered(m, e).nodes = m.nodes
               /\ Remembered(m, e).thinkingSeqs = m.thinkingSeqs
               /\ DOMAIN m.entries \subseteq DOMAIN Remembered(m, e).entries
               /\ \A s \in DOMAIN m.entries : s # e.seq =>
                     Remembered(m, e).entries[s] = m.entries[s]
  <1> DEFINE c == [m EXCEPT !.nextSeq = @ + 1]
             M == Remembered(m, e)
  <1>1. c \in Memory /\ c.nextSeq = m.nextSeq + 1 /\ c.nodes = m.nodes
        /\ c.thinkingSeqs = m.thinkingSeqs /\ c.entries = m.entries
    <2>1. m.nextSeq + 1 \in Nat \ {0}
      BY DEF Memory
    <2>2. \A q \in Nat \ {0} :
             LET x == [m EXCEPT !.nextSeq = q]
             IN  /\ x \in Memory /\ x.nextSeq = q /\ x.nodes = m.nodes
                 /\ x.thinkingSeqs = m.thinkingSeqs /\ x.entries = m.entries
      BY DEF Memory
    <2> QED
      BY <2>1, <2>2
  <1>2. M = CASE e.type = "start"    -> c
              [] e.type = "meta"     -> Known(c, e)
              [] e.type = "thinking" -> Thought(c, e)
              [] e.type = "summary"  -> Summed(c, e)
              [] OTHER               -> Projected(c, e)
    BY DEF Remembered
  <1> HIDE DEF c, M
  <1>3. CASE e.type = "meta"
    <2>1. M = Known(c, e)
      BY <1>2, <1>3
    <2> QED
      BY <1>1, <1>3, <2>1, KnownEntries DEF M
  <1>4. CASE e.type # "meta"
    <2>1. M = CASE e.type = "start"    -> c
                [] e.type = "thinking" -> Thought(c, e)
                [] e.type = "summary"  -> Summed(c, e)
                [] OTHER               -> Projected(c, e)
      BY <1>2, <1>4
    <2>2. Adds(c, M, e, e.seq) /\ M.nextSeq = c.nextSeq
      BY <1>1, <2>1, TakenIn
    <2>3. Adds(m, M, e, e.seq) /\ M \in Memory
      BY <1>1, <2>2 DEF Adds, NodesAfter, ThinkingAfter
    <2> QED
      BY <1>1, <1>4, <2>2, <2>3 DEF M
  <1> QED
    BY <1>3, <1>4

LEMMA AddsKeepsForm ==
  ASSUME NEW m, WellFormed(m), NEW M, NEW e \in Entry, NEW q \in Nat, Adds(m, M, e, q),
         q < M.nextSeq, m.nextSeq <= M.nextSeq
  PROVE  WellFormed(M)
  <1>1. m \in Memory /\ M \in Memory
    BY DEF WellFormed, Adds
  <1>2. InUse(M) \subseteq InUse(m) \union {q} /\ (e.type = "start" => InUse(M) = InUse(m))
    <2>1. InUse(M) = ToSet(NodesAfter(m.nodes, e, q)) \union ThinkingAfter(m.thinkingSeqs, e, q)
      BY DEF Adds, InUse
    <2> QED
      BY <1>1, <2>1, AfterTypes
  <1>3. InUse(M) \subseteq DOMAIN M.entries
    BY <1>2 DEF Adds, WellFormed
  <1>4. \A s \in InUse(m) : s \in Nat
    BY <1>1 DEF InUse, Memory, ToSet
  <1>5. \A s \in InUse(M) : s < M.nextSeq
    BY <1>1, <1>2, <1>4 DEF WellFormed, Memory
  <1>6. ASSUME NEW s \in InUse(M) PROVE M.entries[s].seq = s
    <2>1. CASE e.type # "start" /\ s = q
      <3>1. M.entries[q] = [e EXCEPT !.seq = q]
        BY <2>1 DEF Adds
      <3> QED
        BY <2>1, <3>1 DEF Entry
    <2>2. CASE e.type = "start" \/ s # q
      <3>1. s \in InUse(m)
        BY <1>2, <2>2
      <3>2. M.entries[s] = m.entries[s]
        BY <2>2, <3>1 DEF Adds, WellFormed
      <3> QED
        BY <3>1, <3>2 DEF WellFormed
    <2> QED
      BY <2>1, <2>2
  <1> QED
    BY <1>1, <1>3, <1>5, <1>6 DEF WellFormed

LEMMA ReplayedKeepsForm ==
  ASSUME NEW m, WellFormed(m), NEW e \in Entry
  PROVE  /\ WellFormed(Replayed(m, e))
         /\ m.nextSeq <= Replayed(m, e).nextSeq
         /\ IsRead(e) => e.seq < Replayed(m, e).nextSeq
  <1>1. m \in Memory
    BY DEF WellFormed
  <1>2. CASE ~IsRead(e)
    <2>1. Replayed(m, e) = m
      BY <1>2 DEF Replayed, IsRead, Parses, Unnumbered
    <2> QED
      BY <1>1, <1>2, <2>1 DEF Memory
  <1>3. CASE IsRead(e)
    <2> DEFINE q == NumberIn(m, e)
               M == Replayed(m, e)
    <2>1. Adds(m, M, e, q) /\ q \in Nat \ {0} /\ M.nextSeq = Max({m.nextSeq, q}) + 1
      BY <1>1, <1>3, ReplayedAdds
    <2>2. m.nextSeq \in Nat \ {0} /\ e.seq \in Nat /\ (e.seq = q \/ e.seq = 0)
      BY <1>1 DEF Memory, Entry, NumberIn
    <2> HIDE DEF q, M
    <2>3. q < M.nextSeq /\ m.nextSeq <= M.nextSeq /\ M.nextSeq \in Nat
      BY <2>1, <2>2, MaxOfTwo
    <2>4. WellFormed(M)
      BY <2>1, <2>3, AddsKeepsForm
    <2>5. e.seq < M.nextSeq
      BY <2>1, <2>2, <2>3
    <2> QED
      BY <2>3, <2>4, <2>5 DEF M
  <1> QED
    BY <1>2, <1>3

LEMMA RememberedKeepsForm ==
  ASSUME NEW m, WellFormed(m), NEW e \in Entry, e.seq = m.nextSeq
  PROVE  WellFormed(Remembered(m, e))
  <1> DEFINE M == Remembered(m, e)
  <1>1. m \in Memory /\ m.nextSeq \in Nat /\ M \in Memory /\ M.nextSeq = m.nextSeq + 1
    BY RememberedAdds DEF WellFormed, Memory
  <1>2. CASE e.type # "meta"
    <2>1. Adds(m, M, e, e.seq)
      BY <1>1, <1>2, RememberedAdds
    <2> HIDE DEF M
    <2>2. WellFormed(M)
      BY <1>1, <2>1, AddsKeepsForm
    <2> QED
      BY <2>2 DEF M
  <1>3. CASE e.type = "meta"
    <2>1. InUse(M) = InUse(m) /\ DOMAIN m.entries \subseteq DOMAIN M.entries
      BY <1>1, <1>3, RememberedAdds DEF InUse
    <2> HIDE DEF M
    <2>2. \A s \in InUse(m) : s \in Nat
      BY <1>1 DEF InUse, Memory, ToSet
    <2>3. \A s \in InUse(m) :
             /\ s \in DOMAIN m.entries /\ s < m.nextSeq /\ m.entries[s].seq = s
             /\ s < M.nextSeq /\ s # e.seq
      BY <1>1, <2>2 DEF WellFormed
    <2>4. \A s \in InUse(m) : M.entries[s] = m.entries[s]
      <3>1. \A s \in DOMAIN m.entries : s # e.seq => M.entries[s] = m.entries[s]
        BY <1>1, <1>3, RememberedAdds DEF M
      <3> QED
        BY <2>3, <3>1
    <2>5. WellFormed(M)
      BY <1>1, <2>1, <2>3, <2>4 DEF WellFormed
    <2> QED
      BY <2>5 DEF M
  <1> QED
    BY <1>2, <1>3

(***************************************************************************)
(* Two memories are alike when they hand on the same messages: only what   *)
(* usage a message carries may differ, and the number that comes next may  *)
(* be lower in the one that was read back, for it does not count metas.    *)
(***************************************************************************)

Mute(e) == [e EXCEPT !.usage = FALSE]
Alike(m, M) ==
    /\ m.nodes = M.nodes /\ m.thinkingSeqs = M.thinkingSeqs
    /\ M.nextSeq <= m.nextSeq
    /\ \A s \in InUse(m) : Mute(m.entries[s]) = Mute(M.entries[s])

LEMMA MutedFields ==
  ASSUME NEW e \in Entry, NEW f \in Entry, Mute(e) = Mute(f)
  PROVE  /\ e.seq = f.seq /\ e.type = f.type /\ e.covers = f.covers
         /\ e.id = f.id /\ e.uses = f.uses
         /\ \A q \in Nat : Mute([e EXCEPT !.seq = q]) = Mute([f EXCEPT !.seq = q])
  <1>1. e.seq = f.seq /\ e.type = f.type /\ e.covers = f.covers /\ e.id = f.id
        /\ e.uses = f.uses /\ e.turn = f.turn /\ e.thought = f.thought
    BY DEF Mute, Entry
  <1>2. ASSUME NEW q \in Nat PROVE Mute([e EXCEPT !.seq = q]) = Mute([f EXCEPT !.seq = q])
    BY <1>1 DEF Mute, Entry
  <1> QED
    BY <1>1, <1>2

LEMMA AddsAlike ==
  ASSUME NEW m, NEW M, WellFormed(m), WellFormed(M), Alike(m, M),
         NEW e \in Entry, NEW f \in Entry, Mute(e) = Mute(f),
         NEW n, NEW N, NEW q \in Nat, Adds(m, n, e, q), Adds(M, N, f, q),
         N.nextSeq <= n.nextSeq
  PROVE  Alike(n, N)
  <1>1. e.type = f.type /\ e.covers = f.covers
        /\ Mute([e EXCEPT !.seq = q]) = Mute([f EXCEPT !.seq = q])
    BY MutedFields
  <1>2. n.nodes = N.nodes /\ n.thinkingSeqs = N.thinkingSeqs
    BY <1>1 DEF Adds, Alike, NodesAfter, ThinkingAfter
  <1>3. m \in Memory /\ InUse(m) \subseteq DOMAIN m.entries /\ InUse(m) \subseteq DOMAIN M.entries
    BY DEF WellFormed, Alike, InUse
  <1>4. InUse(n) = ToSet(NodesAfter(m.nodes, e, q)) \union ThinkingAfter(m.thinkingSeqs, e, q)
    BY DEF Adds, InUse
  <1>5. InUse(n) \subseteq InUse(m) \union {q} /\ (e.type = "start" => InUse(n) = InUse(m))
    BY <1>3, <1>4, AfterTypes
  <1>6. ASSUME NEW s \in InUse(n) PROVE Mute(n.entries[s]) = Mute(N.entries[s])
    <2>1. CASE s = q /\ e.type # "start"
      <3>1. n.entries[s] = [e EXCEPT !.seq = q] /\ N.entries[s] = [f EXCEPT !.seq = q]
        BY <1>1, <2>1 DEF Adds
      <3> QED
        BY <1>1, <3>1
    <2>2. CASE s # q \/ e.type = "start"
      <3>1. s \in InUse(m)
        BY <1>5, <1>6, <2>2
      <3>2. n.entries[s] = m.entries[s] /\ N.entries[s] = M.entries[s]
        BY <1>1, <1>3, <2>2, <3>1 DEF Adds
      <3> QED
        BY <3>1, <3>2 DEF Alike
    <2> QED
      BY <2>1, <2>2
  <1> QED
    BY <1>2, <1>6 DEF Alike

\* An entry appended is remembered as it will be read back.
LEMMA AppendedAlike ==
  ASSUME NEW m, NEW M, WellFormed(m), WellFormed(M), Alike(m, M),
         NEW e \in Entry, e.seq = m.nextSeq, Parses(e), e.type # "transcript"
  PROVE  Alike(Remembered(m, e), Replayed(M, e))
  <1> DEFINE n == Remembered(m, e)
             N == Replayed(M, e)
  <1>1. m \in Memory /\ M \in Memory /\ m.nextSeq \in Nat \ {0} /\ M.nextSeq \in Nat \ {0}
    BY DEF WellFormed, Memory
  <1>2. n.nextSeq = m.nextSeq + 1
    BY <1>1, RememberedAdds
  <1>3. CASE e.type = "meta"
    <2>1. N = M
      BY <1>3 DEF Replayed, Parses, Unnumbered
    <2>2. n.nodes = m.nodes /\ n.thinkingSeqs = m.thinkingSeqs
          /\ \A s \in DOMAIN m.entries : s # e.seq => n.entries[s] = m.entries[s]
      BY <1>1, <1>3, RememberedAdds
    <2>3. InUse(n) = InUse(m)
      BY <2>2 DEF InUse
    <2>4. \A s \in InUse(m) : s \in DOMAIN m.entries /\ s # e.seq
      BY <1>1 DEF WellFormed
    <2> HIDE DEF n, N
    <2>5. \A s \in InUse(n) : Mute(n.entries[s]) = Mute(N.entries[s])
      BY <2>1, <2>2, <2>3, <2>4 DEF Alike
    <2>6. N.nextSeq <= n.nextSeq
      BY <1>1, <1>2, <2>1 DEF Alike
    <2>7. Alike(n, N)
      BY <2>1, <2>2, <2>5, <2>6 DEF Alike
    <2> QED
      BY <2>7 DEF n, N
  <1>4. CASE e.type # "meta"
    <2>1. IsRead(e)
      BY <1>4 DEF IsRead, Unnumbered
    <2>2. Adds(m, n, e, e.seq)
      BY <1>1, <1>4, RememberedAdds
    <2>3. NumberIn(M, e) = e.seq
      BY <1>1 DEF NumberIn
    <2>4. Adds(M, N, e, e.seq) /\ N.nextSeq = Max({M.nextSeq, e.seq}) + 1
      BY <1>1, <2>1, <2>3, ReplayedAdds
    <2>5. N.nextSeq <= n.nextSeq
      BY <1>1, <1>2, <2>4, MaxOfTwo DEF Alike
    <2> HIDE DEF n, N
    <2>6. Alike(n, N)
      BY <1>1, <2>2, <2>4, <2>5, AddsAlike
    <2> QED
      BY <2>6 DEF n, N
  <1> QED
    BY <1>3, <1>4

\* Usage makes no difference to the replay.
LEMMA ReplayedAlike ==
  ASSUME NEW m, NEW M, WellFormed(m), WellFormed(M), Alike(m, M), m.nextSeq = M.nextSeq,
         NEW e \in Entry, NEW f \in Entry, Mute(e) = Mute(f)
  PROVE  Alike(Replayed(m, e), Replayed(M, f))
         /\ Replayed(m, e).nextSeq = Replayed(M, f).nextSeq
  <1> DEFINE n == Replayed(m, e)
             N == Replayed(M, f)
  <1>1. m \in Memory /\ M \in Memory
    BY DEF WellFormed
  <1>2. e.seq = f.seq /\ e.type = f.type
    BY MutedFields
  <1>3. CASE ~IsRead(e)
    <2>1. n = m /\ N = M
      BY <1>2, <1>3 DEF Replayed, IsRead, Parses, Unnumbered
    <2> QED
      BY <2>1
  <1>4. CASE IsRead(e)
    <2> DEFINE q == NumberIn(m, e)
    <2>1. IsRead(f) /\ NumberIn(M, f) = q
      BY <1>2, <1>4 DEF IsRead, Parses, NumberIn
    <2>2. Adds(m, n, e, q) /\ q \in Nat /\ n.nextSeq = Max({m.nextSeq, q}) + 1
      BY <1>1, <1>4, ReplayedAdds
    <2>3. Adds(M, N, f, q) /\ N.nextSeq = Max({M.nextSeq, q}) + 1
      BY <1>1, <2>1, ReplayedAdds
    <2> HIDE DEF q, n, N
    <2>4. n.nextSeq = N.nextSeq
      BY <2>2, <2>3
    <2>5. n.nextSeq \in Nat
      BY <2>2 DEF Adds, Memory
    <2>6. Alike(n, N)
      BY <2>2, <2>3, <2>4, <2>5, AddsAlike
    <2> QED
      BY <2>4, <2>6 DEF n, N
  <1> QED
    BY <1>3, <1>4

(***************************************************************************)
(* Replays of whole files.                                                 *)
(***************************************************************************)

LEMMA ReplayIsWellFormed ==
  ASSUME NEW s \in Seq(Entry)
  PROVE  /\ WellFormed(Replay(s))
         /\ \A i \in DOMAIN s : IsRead(s[i]) => s[i].seq < Replay(s).nextSeq
  <1>1. PICK r : IsReplay(r, s, Len(s)) /\ Replay(s) = r[Len(s)]
    BY ReplayRuns
  <1>2. Len(s) \in Nat /\ DOMAIN s = 1..Len(s) /\ \A i \in 1..Len(s) : s[i] \in Entry
    OBVIOUS
  <1> DEFINE Fine(k) == WellFormed(r[k]) /\ \A i \in 1..k : IsRead(s[i]) => s[i].seq < r[k].nextSeq
             N == {k \in Nat : k <= Len(s) => Fine(k)}
  <1>3. 0 \in N
    BY <1>1, EmptyIsWellFormed DEF IsReplay
  <1>4. ASSUME NEW k \in Nat, k \in N PROVE k + 1 \in N
    <2> SUFFICES ASSUME k + 1 <= Len(s) PROVE Fine(k + 1)
      OBVIOUS
    <2>1. k + 1 \in 1..Len(s) /\ (k + 1) - 1 = k
      BY <1>2
    <2>2. r[k + 1] = Replayed(r[k], s[k + 1]) /\ s[k + 1] \in Entry
      BY <1>1, <1>2, <2>1 DEF IsReplay
    <2>3. Fine(k)
      BY <1>2, <1>4
    <2>4. /\ WellFormed(r[k + 1]) /\ r[k].nextSeq <= r[k + 1].nextSeq
          /\ IsRead(s[k + 1]) => s[k + 1].seq < r[k + 1].nextSeq
      BY <2>2, <2>3, ReplayedKeepsForm
    <2>5. r[k].nextSeq \in Nat /\ r[k + 1].nextSeq \in Nat
      BY <2>3, <2>4 DEF WellFormed, Memory
    <2>6. ASSUME NEW i \in 1..(k + 1), IsRead(s[i]) PROVE s[i].seq < r[k + 1].nextSeq
      <3>1. CASE i = k + 1
        BY <2>4, <2>6, <3>1
      <3>2. CASE i \in 1..k
        <4>1. s[i].seq < r[k].nextSeq
          BY <2>3, <2>6, <3>2
        <4>2. s[i].seq \in Nat
          BY <1>2, <2>1, <3>2 DEF Entry
        <4> QED
          BY <2>4, <2>5, <4>1, <4>2
      <3> QED
        BY <3>1, <3>2
    <2> QED
      BY <2>4, <2>6
  <1> HIDE DEF N, Fine
  <1>5. Nat \subseteq N
    BY <1>3, <1>4, NatSetInduction
  <1>6. Fine(Len(s))
    BY <1>2, <1>5 DEF N
  <1> QED
    BY <1>1, <1>2, <1>6 DEF Fine

LEMMA AlikeItself == ASSUME NEW m, WellFormed(m) PROVE Alike(m, m)
  BY DEF Alike, WellFormed, Memory

LEMMA ReplayMuted ==
  ASSUME NEW s \in Seq(Entry), NEW u \in Seq(Entry), Len(s) = Len(u),
         \A i \in 1..Len(s) : Mute(s[i]) = Mute(u[i])
  PROVE  Alike(Replay(s), Replay(u))
  <1>1. PICK r : IsReplay(r, s, Len(s)) /\ Replay(s) = r[Len(s)]
    BY ReplayRuns
  <1>2. PICK q : IsReplay(q, u, Len(s)) /\ Replay(u) = q[Len(s)]
    BY ReplayRuns
  <1>3. Len(s) \in Nat /\ \A i \in 1..Len(s) : s[i] \in Entry /\ u[i] \in Entry
    OBVIOUS
  <1> DEFINE Fine(k) == WellFormed(r[k]) /\ WellFormed(q[k])
                        /\ Alike(r[k], q[k]) /\ r[k].nextSeq = q[k].nextSeq
             N == {k \in Nat : k <= Len(s) => Fine(k)}
  <1>4. 0 \in N
    BY <1>1, <1>2, EmptyIsWellFormed, AlikeItself DEF IsReplay
  <1>5. ASSUME NEW k \in Nat, k \in N PROVE k + 1 \in N
    <2> SUFFICES ASSUME k + 1 <= Len(s) PROVE Fine(k + 1)
      OBVIOUS
    <2>1. k + 1 \in 1..Len(s) /\ (k + 1) - 1 = k
      BY <1>3
    <2>2. /\ r[k + 1] = Replayed(r[k], s[k + 1]) /\ s[k + 1] \in Entry
          /\ q[k + 1] = Replayed(q[k], u[k + 1]) /\ u[k + 1] \in Entry
          /\ Mute(s[k + 1]) = Mute(u[k + 1])
      BY <1>1, <1>2, <1>3, <2>1 DEF IsReplay
    <2>3. Fine(k)
      BY <1>3, <1>5
    <2>4. WellFormed(r[k + 1]) /\ WellFormed(q[k + 1])
      BY <2>2, <2>3, ReplayedKeepsForm
    <2>5. Alike(r[k + 1], q[k + 1]) /\ r[k + 1].nextSeq = q[k + 1].nextSeq
      BY <2>2, <2>3, ReplayedAlike
    <2> QED
      BY <2>4, <2>5
  <1> HIDE DEF N, Fine
  <1>6. Nat \subseteq N
    BY <1>4, <1>5, NatSetInduction
  <1>7. Fine(Len(s))
    BY <1>3, <1>6 DEF N
  <1> QED
    BY <1>1, <1>2, <1>7 DEF Fine

LEMMA BlankIsEntry == Blank \in Entry /\ Garbage \in Entry
  <1>1. {} \in SUBSET (Int \X Int) /\ {} \in SUBSET Nat
    OBVIOUS
  <1>2. Blank \in Entry
    BY <1>1 DEF Blank, Entry
  <1> QED
    BY <1>2 DEF Garbage, Entry

LEMMA RebuiltIsWellFormed ==
  ASSUME NEW d \in Disk
  PROVE  /\ WellFormed(RebuildSurface(d))
         /\ ~Foreign(d) => RebuildSurface(d) = Replay(d.lines)
  <1>1. d.lines \in Seq(Entry)
    BY DEF Disk
  <1>2. Garbage \in Entry
    BY BlankIsEntry
  <1>3. Stripped(d.lines) \in Seq(Entry)
    <2>1. ASSUME NEW i \in DOMAIN d.lines PROVE [d.lines[i] EXCEPT !.uses = {}] \in Entry
      <3>1. d.lines[i] \in Entry
        BY <1>1
      <3> DEFINE e == d.lines[i]
      <3> HIDE DEF e
      <3>2. {} \in SUBSET (Int \X Int)
        OBVIOUS
      <3>3. e \in Entry => [e EXCEPT !.uses = {}] \in Entry
        BY <3>2 DEF Entry
      <3> QED
        BY <3>1, <3>3 DEF e
    <2>2. DOMAIN d.lines = 1..Len(d.lines) /\ Len(d.lines) \in Nat
      BY <1>1
    <2> QED
      BY <1>2, <2>1, <2>2 DEF Stripped
  <1>4. RebuildSurface(d) = Replay(IF Foreign(d) THEN Stripped(d.lines) ELSE d.lines)
    BY DEF RebuildSurface, Replay
  <1> QED
    BY <1>1, <1>3, <1>4, ReplayIsWellFormed

(***************************************************************************)
(* Files.                                                                  *)
(***************************************************************************)

LEMMA FrontOf ==
  ASSUME NEW S, NEW u \in Seq(S), u # <<>>
  PROVE  /\ Len(u) \in Nat \ {0} /\ DOMAIN u = 1..Len(u)
         /\ Front(u) \in Seq(S) /\ Len(Front(u)) = Len(u) - 1
         /\ \A i \in 1..(Len(u) - 1) : Front(u)[i] = u[i]
  <1>1. Len(u) \in Nat /\ Len(u) # 0 /\ DOMAIN u = 1..Len(u)
    OBVIOUS
  <1>2. Len(u) - 1 \in Int /\ 1 \in Int /\ \A i \in 1..(Len(u) - 1) : u[i] \in S
    BY <1>1
  <1>3. /\ SubSeq(u, 1, Len(u) - 1) \in Seq(S)
        /\ Len(SubSeq(u, 1, Len(u) - 1)) = IF 1 <= Len(u) - 1 THEN (Len(u) - 1) - 1 + 1 ELSE 0
        /\ \A i \in 1..((Len(u) - 1) - 1 + 1) : SubSeq(u, 1, Len(u) - 1)[i] = u[1 + i - 1]
    BY <1>2, SubSeqProperties
  <1> QED
    BY <1>1, <1>3 DEF Front

LEMMA AppendTo ==
  ASSUME NEW S, NEW u \in Seq(S), NEW e \in S
  PROVE  /\ Append(u, e) \in Seq(S) /\ Append(u, e) # <<>>
         /\ Len(u) \in Nat /\ Len(Append(u, e)) = Len(u) + 1
         /\ Append(u, e)[Len(u) + 1] = e
         /\ \A i \in 1..Len(u) : Append(u, e)[i] = u[i]
  OBVIOUS

\* What an append makes of the lines: one more, or the torn one spoiled.
LEMMA ExtendedLines ==
  ASSUME NEW d \in Disk, WellEnded(d), NEW line \in Entry, NEW end,
         NEW s, s = Extended(d, line, end).lines
  PROVE  /\ s \in Seq(Entry) /\ s # <<>> /\ Len(d.lines) \in Nat
         /\ d.end = "closed" => /\ s = Append(d.lines, line)
                                /\ Len(s) = Len(d.lines) + 1 /\ s[Len(s)] = line
                                /\ \A i \in 1..Len(d.lines) : s[i] = d.lines[i]
         /\ d.end # "closed" => /\ Len(s) = Len(d.lines) /\ s[Len(s)] = Garbage
                                /\ \A i \in 1..(Len(d.lines) - 1) : s[i] = d.lines[i]
  <1>1. d.lines \in Seq(Entry)
    BY DEF Disk
  <1>2. s = IF d.end = "closed" THEN Append(d.lines, line) ELSE Append(Front(d.lines), Garbage)
    BY DEF Extended
  <1>3. Garbage \in Entry
    BY BlankIsEntry
  <1>4. CASE d.end = "closed"
    BY <1>1, <1>2, <1>4, AppendTo
  <1>5. CASE d.end # "closed"
    <2>1. /\ Len(d.lines) \in Nat \ {0}
          /\ Front(d.lines) \in Seq(Entry) /\ Len(Front(d.lines)) = Len(d.lines) - 1
          /\ \A i \in 1..(Len(d.lines) - 1) : Front(d.lines)[i] = d.lines[i]
      BY <1>1, <1>5, FrontOf DEF WellEnded
    <2>2. s = Append(Front(d.lines), Garbage)
      BY <1>2, <1>5
    <2>3. /\ s \in Seq(Entry) /\ s # <<>>
          /\ Len(s) = Len(Front(d.lines)) + 1
          /\ s[Len(Front(d.lines)) + 1] = Garbage
          /\ \A i \in 1..Len(Front(d.lines)) : s[i] = Front(d.lines)[i]
      BY <1>3, <2>1, <2>2, AppendTo
    <2> QED
      BY <1>5, <2>1, <2>3
  <1> QED
    BY <1>4, <1>5

LEMMA ExtendedType ==
  ASSUME NEW d \in Disk, WellEnded(d), NEW line \in Entry,
         NEW end \in {"closed", "whole", "half"}, end = "half" => ~Parses(line)
  PROVE  Extended(d, line, end) \in Disk /\ WellEnded(Extended(d, line, end))
  <1> DEFINE x == Extended(d, line, end)
  <1>1. x.exists = TRUE
    BY DEF Extended
  <1>2. x.end = IF end = "whole" /\ d.end # "closed" THEN "half" ELSE end
    BY DEF Extended
  <1>3. x.lines \in Seq(Entry) /\ x.lines # <<>>
    BY ExtendedLines
  <1>4. x = [exists |-> x.exists, lines |-> x.lines, end |-> x.end]
    BY DEF Extended
  <1>5. ~Parses(Garbage)
    BY DEF Parses, Garbage, Blank
  <1>6. Last(x.lines) = IF d.end = "closed" THEN line ELSE Garbage
    BY ExtendedLines DEF Last
  <1> HIDE DEF x
  <1>7. x.end \in {"closed", "whole", "half"}
    BY <1>2
  <1>8. x \in Disk
    BY <1>1, <1>3, <1>4, <1>7 DEF Disk
  <1>9. x.end = "half" => ~Parses(Last(x.lines))
    BY <1>2, <1>5, <1>6
  <1> QED
    BY <1>1, <1>3, <1>8, <1>9 DEF WellEnded, x

LEMMA WrittenType ==
  ASSUME NEW d \in Disk, WellEnded(d), NEW e \in Entry,
         NEW x \in {Written(d, e), d} \union CutShort(d, e)
  PROVE  x \in Disk /\ WellEnded(x)
  <1>1. Garbage \in Entry /\ ~Parses(Garbage)
    BY BlankIsEntry DEF Parses, Garbage, Blank
  <1> QED
    BY <1>1, ExtendedType DEF Written, CutShort

LEMMA RepairedType ==
  ASSUME NEW d \in Disk, WellEnded(d), d.exists, NEW x, x = RepairTornTail(d)
  PROVE  /\ x \in Disk /\ WellEnded(x) /\ x.end = "closed" /\ x.exists
         /\ \A i \in DOMAIN d.lines : Parses(d.lines[i]) =>
               i \in DOMAIN x.lines /\ x.lines[i] = d.lines[i]
         /\ \A i \in DOMAIN x.lines : i \in DOMAIN d.lines /\ x.lines[i] = d.lines[i]
  <1>1. d.lines \in Seq(Entry)
    BY DEF Disk
  <1>2. CASE d.end = "closed"
    BY <1>2 DEF RepairTornTail
  <1>3. CASE d.end = "whole"
    <2>1. x = [d EXCEPT !.end = "closed"]
      BY <1>3 DEF RepairTornTail
    <2> QED
      BY <2>1 DEF Disk, WellEnded
  <1>4. CASE d.end = "half"
    <2>1. /\ Len(d.lines) \in Nat \ {0} /\ DOMAIN d.lines = 1..Len(d.lines)
          /\ Front(d.lines) \in Seq(Entry) /\ Len(Front(d.lines)) = Len(d.lines) - 1
          /\ \A i \in 1..(Len(d.lines) - 1) : Front(d.lines)[i] = d.lines[i]
      BY <1>1, <1>4, FrontOf DEF WellEnded
    <2>2. ~Parses(d.lines[Len(d.lines)])
      BY <1>4 DEF WellEnded, Last
    <2>3. x = [d EXCEPT !.end = "closed", !.lines = Front(@)]
      BY <1>4 DEF RepairTornTail
    <2>4. x \in Disk /\ x.end = "closed" /\ x.lines = Front(d.lines) /\ x.exists
      BY <2>1, <2>3 DEF Disk
    <2>5. DOMAIN x.lines = 1..(Len(d.lines) - 1)
      BY <2>1, <2>4
    <2>6. WellEnded(x)
      BY <2>4 DEF WellEnded
    <2>7. \A i \in DOMAIN x.lines : i \in DOMAIN d.lines /\ x.lines[i] = d.lines[i]
      BY <2>1, <2>4, <2>5
    <2>8. ASSUME NEW i \in DOMAIN d.lines, Parses(d.lines[i])
          PROVE  i \in DOMAIN x.lines /\ x.lines[i] = d.lines[i]
      <3>1. i \in 1..(Len(d.lines) - 1)
        BY <2>1, <2>2, <2>8
      <3> QED
        BY <2>1, <2>4, <2>5, <3>1
    <2> QED
      BY <2>4, <2>6, <2>7, <2>8
  <1> QED
    BY <1>2, <1>3, <1>4 DEF Disk

(***************************************************************************)
(* Types, and the steps of a session as far as the theorems tell them      *)
(* apart: a process writes an entry, or does something else.               *)
(***************************************************************************)

Talk == [phase : Phases, turn : Nat, thought : Nat, said : Nat, landing : SUBSET Nat]
Past == [made : Nat, born : Nat, kept : SUBSET Nat, sound : BOOLEAN, faults : Nat,
         crashes : Nat, fresh : Nat, since : Nat]

\* The message a usage may go to is one of this process's own.
SaidIsKnown ==
    talk.said # 0 =>
        /\ talk.said \in DOMAIN mem.entries /\ talk.said < mem.nextSeq
        /\ mem.entries[talk.said].seq = talk.said
        /\ mem.entries[talk.said].type = "assistant"

LogTypes ==
    /\ disk \in Disk /\ WellEnded(disk)
    /\ WellFormed(mem)
    /\ talk \in Talk /\ skip \in Nat /\ past \in Past
    /\ SaidIsKnown
    /\ talk.phase = "calls" => talk.said # 0

\* A process appends e: what the actions have in common that do so.
Appending(e) ==
    /\ AppendEntry(e)
    /\ e \in Entry /\ e.seq = mem.nextSeq /\ e.id = Next1
    /\ Parses(e) /\ e.type # "transcript"
    /\ talk.phase # "down" /\ talk'.phase # "down" /\ talk' \in Talk
    /\ \/ talk'.said \in {0, talk.said}
       \/ talk'.said = mem.nextSeq /\ e.type = "assistant"
    /\ talk'.phase = "calls" => talk'.said # 0
    /\ Owned(e)
    /\ e.type = "results" => talk.phase = "calls" /\ e.uses = mem.entries[talk.said].uses
    /\ talk'.phase = "calls" =>
          \/ talk.phase = "calls" /\ talk'.said = talk.said /\ e.type = "meta"
          \/ talk'.said = mem.nextSeq /\ e.type = "assistant"

EntryKinds == {"user", "assistant", "results", "thinking", "start", "summary", "meta"}

\* What it writes, by the kind of the entry: where in the turn, and of which turn.
InPlace(e) ==
    /\ e.type \in EntryKinds
    /\ talk.phase = "idle" => e.type \in {"user", "meta"}
    /\ e.type = "meta" => talk' = talk
    /\ e.type \in {"thinking", "start", "summary"} =>
          talk.phase = "turn" /\ talk'.phase = "turn" /\ talk'.turn = talk.turn
    /\ e.type = "thinking" => e.turn = talk.turn
    /\ e.type = "assistant" /\ e.uses # {} => talk.phase = "turn" /\ e.turn = talk.turn
    /\ e.type = "summary" => talk.landing # {} /\ e.covers = talk.landing
    /\ e.type = "start" => \E i \in CutPoints(DeriveMessages(mem)) :
                              talk'.landing = {mem.nodes[j] : j \in 1..(i - 1)}
    /\ e.type \notin {"start", "meta"} => talk'.landing = {}

LEMMA NewEntry ==
  ASSUME LogTypes, NEW type \in EntryKinds
  PROVE  /\ New(type) \in Entry
         /\ New(type).type = type /\ New(type).seq = mem.nextSeq /\ New(type).id = Next1
         /\ New(type).uses = {} /\ New(type).turn = talk.turn
  <1>1. Next1 \in Int /\ mem.nextSeq \in Nat /\ talk.turn \in Int
    BY DEF LogTypes, WellFormed, Memory, Talk, Past, Next1
  <1>2. type \in {"user", "assistant", "results", "thinking", "start", "summary",
                  "transcript", "meta", "garbage"}
    BY DEF EntryKinds
  <1>3. Blank \in Entry /\ Blank.uses = {}
    BY BlankIsEntry DEF Blank
  <1>4. New(type) = [Blank EXCEPT !.id = Next1, !.seq = mem.nextSeq, !.type = type, !.turn = talk.turn]
    BY DEF New
  <1> HIDE DEF Next1
  <1> QED
    BY <1>1, <1>2, <1>3, <1>4 DEF Entry

\* The other parts of an entry do not touch what it is.
Twins(f, e) == f \in Entry /\ f.type = e.type /\ f.seq = e.seq /\ f.id = e.id

LEMMA EntryChanges ==
  ASSUME NEW e \in Entry
  PROVE  /\ \A x \in Int : Twins([e EXCEPT !.turn = x], e)
         /\ \A x \in Int : Twins([e EXCEPT !.thought = x], e)
         /\ \A x \in SUBSET (Int \X Int) : Twins([e EXCEPT !.uses = x], e)
         /\ \A x \in SUBSET Nat : Twins([e EXCEPT !.covers = x], e)
         /\ \A x \in SUBSET (Int \X Int), y \in Int :
               Twins([e EXCEPT !.uses = x, !.thought = y], e)
  BY DEF Entry, Twins

LEMMA AppendingSteps ==
  ASSUME LogTypes,
         \/ UserSays \/ Injects \/ FlushesThinking \/ Calls \/ Results \/ Says
         \/ Cancelled \/ AppendMeta \/ CompactionStart \/ CompactionLands
  PROVE  \E e : Appending(e) /\ InPlace(e)
  <1>1. talk \in Talk /\ Next1 \in Nat /\ mem.nextSeq \in Nat \ {0} /\ mem \in Memory
    BY DEF LogTypes, WellFormed, Memory, Past, Next1
  <1>2. Silent \in Talk /\ Silent.phase = "idle" /\ Silent.said = 0
    BY DEF Silent, Talk, Phases
  <1>3. \A type \in EntryKinds :
           /\ New(type) \in Entry /\ New(type).type = type
           /\ New(type).seq = mem.nextSeq /\ New(type).id = Next1 /\ New(type).uses = {}
           /\ New(type).turn = talk.turn
    BY NewEntry
  <1>4. \A e \in Entry : e.type \in EntryKinds => Parses(e) /\ e.type # "transcript"
    BY DEF Parses, EntryKinds
  <1>0. Silent.landing = {}
    BY DEF Silent
  <1> HIDE DEF Next1, Silent, New
  <1>5. CASE UserSays
    <2> DEFINE e == [New("user") EXCEPT !.turn = Next1]
    <2>1. e \in Entry /\ e.type = "user" /\ e.seq = mem.nextSeq /\ e.id = Next1
      <3>1. /\ New("user") \in Entry /\ New("user").type = "user"
            /\ New("user").seq = mem.nextSeq /\ New("user").id = Next1
        BY <1>3 DEF EntryKinds
      <3>2. Twins(e, New("user"))
        BY <1>1, <3>1 DEF Talk, Twins, Entry
      <3> QED
        BY <3>1, <3>2 DEF Twins
    <2>2. talk' \in Talk /\ talk'.phase = "turn" /\ talk'.said = 0
          /\ talk'.landing = {}
      BY <1>0, <1>1, <1>2, <1>5 DEF UserSays, Talk, Phases
    <2>3. AppendEntry(e) /\ talk.phase = "idle"
      BY <1>5 DEF UserSays, Writing
    <2> HIDE DEF e
    <2>8. Appending(e)
      BY <1>4, <2>1, <2>2, <2>3 DEF Appending, EntryKinds, Owned
    <2>9. InPlace(e)
      BY <2>1, <2>2, <2>3 DEF InPlace, EntryKinds
    <2> QED
      BY <2>8, <2>9
  <1>6. CASE Injects
    BY <1>1, <1>3, <1>4, <1>6 DEF Appending, InPlace, Injects, Writing, EntryKinds, Talk, Owned
  <1>7. CASE FlushesThinking
    <2> DEFINE e == New("thinking")
    <2>1. talk' \in Talk /\ talk'.phase = "turn" /\ talk'.said = talk.said
          /\ talk'.turn = talk.turn /\ talk'.landing = {}
      BY <1>1, <1>7 DEF FlushesThinking, Writing, Talk
    <2>2. AppendEntry(e) /\ talk.phase = "turn"
      BY <1>7 DEF FlushesThinking, Writing
    <2>8. Appending(e)
      BY <1>3, <1>4, <2>1, <2>2 DEF Appending, EntryKinds, Owned
    <2>9. InPlace(e)
      BY <1>3, <2>1, <2>2 DEF InPlace, EntryKinds
    <2> QED
      BY <2>8, <2>9
  <1>8. CASE Calls
    <2>1. PICK n \in 1..MaxCalls :
            AppendEntry([New("assistant") EXCEPT !.uses = {Next1} \X (1..n), !.thought = talk.thought])
      BY <1>8 DEF Calls
    <2> DEFINE e == [New("assistant") EXCEPT !.uses = {Next1} \X (1..n), !.thought = talk.thought]
    <2>2. {Next1} \X (1..n) \in SUBSET (Int \X Int) /\ talk.thought \in Int
      BY <1>1 DEF Talk
    <2>3. e \in Entry /\ e.type = "assistant" /\ e.seq = mem.nextSeq /\ e.id = Next1
          /\ e.uses = {Next1} \X (1..n) /\ e.turn = talk.turn
      <3>1. /\ New("assistant") \in Entry /\ New("assistant").type = "assistant"
            /\ New("assistant").seq = mem.nextSeq /\ New("assistant").id = Next1
            /\ New("assistant").turn = talk.turn
        BY <1>3 DEF EntryKinds
      <3>2. Twins(e, New("assistant"))
        BY <1>1, <2>2, <3>1, EntryChanges
      <3>3. e.uses = {Next1} \X (1..n) /\ e.turn = talk.turn
        BY <3>1 DEF Entry
      <3> QED
        BY <3>1, <3>2, <3>3 DEF Twins
    <2>4. talk' \in Talk /\ talk'.phase = "calls" /\ talk'.said = mem.nextSeq
          /\ talk'.landing = {}
      BY <1>1, <1>8 DEF Calls, Writing, Talk, Phases
    <2>5. AppendEntry(e) /\ talk.phase = "turn"
      BY <1>8, <2>1 DEF Calls, Writing
    <2> HIDE DEF e
    <2>6. e.uses \subseteq {e.id} \X Int
      BY <2>3
    <2>8. Appending(e)
      BY <1>1, <1>4, <2>3, <2>4, <2>5, <2>6 DEF Appending, EntryKinds, Owned
    <2>9. InPlace(e)
      BY <2>3, <2>4, <2>5 DEF InPlace, EntryKinds
    <2> QED
      BY <2>8, <2>9
  <1>9. CASE Results
    <2> DEFINE u == mem.entries[talk.said].uses
               e == [New("results") EXCEPT !.uses = u]
    <2>1. u \in SUBSET (Int \X Int)
      <3>1. talk.said \in DOMAIN mem.entries
        BY <1>9 DEF Results, Writing, LogTypes, SaidIsKnown
      <3>2. mem.entries[talk.said] \in Entry
        <4>1. mem.entries \in Entries
          BY <1>1 DEF Memory
        <4> QED
          BY <3>1, <4>1 DEF Entries
      <3> QED
        BY <3>2 DEF Entry
    <2>2. AppendEntry(e) /\ talk.phase = "calls"
      BY <1>9 DEF Results, Writing
    <2> HIDE DEF u
    <2>3. e \in Entry /\ e.type = "results" /\ e.seq = mem.nextSeq /\ e.id = Next1 /\ e.uses = u
      <3>1. /\ New("results") \in Entry /\ New("results").type = "results"
            /\ New("results").seq = mem.nextSeq /\ New("results").id = Next1
        BY <1>3 DEF EntryKinds
      <3>2. Twins(e, New("results"))
        BY <1>1, <2>1, <3>1, EntryChanges
      <3>3. e.uses = u
        BY <3>1 DEF Entry
      <3> QED
        BY <3>1, <3>2, <3>3 DEF Twins
    <2>4. talk' \in Talk /\ talk'.phase = "turn" /\ talk'.said = talk.said
          /\ talk'.landing = {}
      BY <1>1, <1>9 DEF Results, Writing, Talk, Phases
    <2> HIDE DEF e
    <2>8. Appending(e)
      BY <1>4, <2>2, <2>3, <2>4 DEF Appending, EntryKinds, Owned, u
    <2>9. InPlace(e)
      BY <2>2, <2>3, <2>4 DEF InPlace, EntryKinds
    <2> QED
      BY <2>8, <2>9
  <1>10. CASE Says
    <2> DEFINE e == [New("assistant") EXCEPT !.thought = talk.thought]
    <2>1. e \in Entry /\ e.type = "assistant" /\ e.seq = mem.nextSeq /\ e.id = Next1
          /\ e.uses = {}
      <3>1. /\ New("assistant") \in Entry /\ New("assistant").type = "assistant"
            /\ New("assistant").seq = mem.nextSeq /\ New("assistant").id = Next1
            /\ New("assistant").uses = {}
        BY <1>3 DEF EntryKinds
      <3>2. Twins(e, New("assistant"))
        BY <1>1, <3>1 DEF Talk, Twins, Entry
      <3>3. e.uses = {}
        BY <3>1 DEF Entry
      <3> QED
        BY <3>1, <3>2, <3>3 DEF Twins
    <2>2. talk' \in Talk /\ talk'.phase \in {"idle", "turn"} /\ talk'.said \in {0, mem.nextSeq}
          /\ talk'.landing = {}
      BY <1>0, <1>1, <1>2, <1>10 DEF Says, Writing, Talk, Phases
    <2>3. AppendEntry(e) /\ talk.phase = "turn"
      BY <1>10 DEF Says, Writing
    <2> HIDE DEF e
    <2>8. Appending(e)
      BY <1>4, <2>1, <2>2, <2>3 DEF Appending, EntryKinds, Owned
    <2>9. InPlace(e)
      BY <2>1, <2>2, <2>3 DEF InPlace, EntryKinds
    <2> QED
      BY <2>8, <2>9
  <1>11. CASE Cancelled
    <2> DEFINE e == New("assistant")
    <2>1. AppendEntry(e) /\ talk.phase \in {"turn", "calls"} /\ talk' = Silent
      BY <1>11 DEF Cancelled
    <2>8. Appending(e)
      BY <1>2, <1>3, <1>4, <2>1 DEF Appending, EntryKinds, Owned
    <2>9. InPlace(e)
      BY <1>0, <1>3, <2>1 DEF InPlace, EntryKinds
    <2> QED
      BY <2>8, <2>9
  <1>12. CASE AppendMeta
    <2>1. AppendEntry(New("meta")) /\ talk.phase # "down" /\ talk' = talk
      BY <1>12 DEF AppendMeta
    <2>2. talk.phase = "calls" => talk.said # 0
      BY DEF LogTypes
    <2> QED
      BY <1>1, <1>3, <1>4, <2>1, <2>2 DEF Appending, InPlace, EntryKinds, Owned
  <1>13. CASE CompactionStart
    <2> DEFINE e == [New("start") EXCEPT !.covers = talk'.landing]
    <2>1. PICK i \in CutPoints(DeriveMessages(mem)) :
            talk' = [talk EXCEPT !.landing = {mem.nodes[j] : j \in 1..(i - 1)}]
      BY <1>13 DEF CompactionStart
    <2>2. i \in 2..Len(mem.nodes)
      <3>1. mem.nodes \in Seq(Nat) /\ DOMAIN mem.nodes = 1..Len(mem.nodes) /\ Len(mem.nodes) \in Nat
        BY <1>1 DEF Memory
      <3>2. Len(DeriveMessages(mem)) = Len(mem.nodes)
        BY <3>1 DEF DeriveMessages
      <3> QED
        BY <3>2 DEF CutPoints
    <2>3. {mem.nodes[j] : j \in 1..(i - 1)} \in SUBSET Nat
      BY <1>1, <2>2 DEF Memory
    <2>4. talk' \in Talk /\ talk'.phase = talk.phase /\ talk'.said = talk.said
          /\ talk'.turn = talk.turn
      BY <1>1, <2>1, <2>3 DEF Talk
    <2>5. e \in Entry /\ e.type = "start" /\ e.seq = mem.nextSeq /\ e.id = Next1
      <3>1. /\ New("start") \in Entry /\ New("start").type = "start"
            /\ New("start").seq = mem.nextSeq /\ New("start").id = Next1
        BY <1>3 DEF EntryKinds
      <3>2. Twins(e, New("start"))
        BY <1>1, <2>4, <3>1, EntryChanges DEF Talk
      <3> QED
        BY <3>1, <3>2 DEF Twins
    <2>6. AppendEntry(e) /\ talk.phase = "turn"
      BY <1>13 DEF CompactionStart, Writing
    <2> HIDE DEF e
    <2>8. Appending(e)
      BY <1>4, <2>4, <2>5, <2>6 DEF Appending, EntryKinds, Owned
    <2>9. InPlace(e)
      BY <2>1, <2>4, <2>5, <2>6 DEF InPlace, EntryKinds
    <2> QED
      BY <2>8, <2>9
  <1>14. CASE CompactionLands
    <2> DEFINE e == [New("summary") EXCEPT !.covers = talk.landing]
    <2>1. talk' \in Talk /\ talk'.phase = talk.phase /\ talk'.said = talk.said
          /\ talk'.turn = talk.turn /\ talk'.landing = {} /\ talk.landing # {}
      BY <1>1, <1>14 DEF CompactionLands, Talk
    <2>2. e \in Entry /\ e.type = "summary" /\ e.seq = mem.nextSeq /\ e.id = Next1
          /\ e.covers = talk.landing
      <3>1. /\ New("summary") \in Entry /\ New("summary").type = "summary"
            /\ New("summary").seq = mem.nextSeq /\ New("summary").id = Next1
        BY <1>3 DEF EntryKinds
      <3>2. Twins(e, New("summary"))
        BY <1>1, <3>1 DEF Talk, Twins, Entry
      <3>3. e.covers = talk.landing
        BY <3>1 DEF Entry
      <3> QED
        BY <3>1, <3>2, <3>3 DEF Twins
    <2>3. AppendEntry(e) /\ talk.phase = "turn"
      BY <1>14 DEF CompactionLands
    <2> HIDE DEF e
    <2>8. Appending(e)
      BY <1>4, <2>1, <2>2, <2>3 DEF Appending, EntryKinds, Owned
    <2>9. InPlace(e)
      BY <2>1, <2>2, <2>3 DEF InPlace, EntryKinds
    <2> QED
      BY <2>8, <2>9
  <1> QED
    BY <1>5, <1>6, <1>7, <1>8, <1>9, <1>10, <1>11, <1>12, <1>13, <1>14

\* What an append leaves of the entry a usage may go to.
LEMMA AppendingSaid ==
  ASSUME LogTypes, NEW e, Appending(e)
  PROVE  /\ SaidIsKnown'
         /\ talk'.said # 0 =>
               \/ talk'.said = talk.said /\ mem'.entries[talk'.said] = mem.entries[talk.said]
               \/ talk'.said = mem.nextSeq /\ mem'.entries[talk'.said] = e
  <1>1. mem \in Memory /\ mem.nextSeq \in Nat /\ e \in Entry /\ e.seq = mem.nextSeq
    BY DEF LogTypes, WellFormed, Memory, Appending
  <1>2. mem' = Remembered(mem, e)
    BY DEF Appending, AppendEntry
  <1>3. mem'.nextSeq = mem.nextSeq + 1
    BY <1>1, <1>2, RememberedAdds
  <1>4. \A s \in DOMAIN mem.entries : s # e.seq =>
           s \in DOMAIN mem'.entries /\ mem'.entries[s] = mem.entries[s]
    <2>1. CASE e.type = "meta"
      BY <1>1, <1>2, <2>1, RememberedAdds
    <2>2. CASE e.type # "meta"
      <3>1. Adds(mem, mem', e, e.seq)
        BY <1>1, <1>2, <2>2, RememberedAdds
      <3> QED
        BY <3>1 DEF Adds
    <2> QED
      BY <2>1, <2>2
  <1>5. e.type = "assistant" => e.seq \in DOMAIN mem'.entries /\ mem'.entries[e.seq] = e
    <2>1. [e EXCEPT !.seq = e.seq] = e
      BY <1>1 DEF Entry
    <2>2. e.type = "assistant" => Adds(mem, mem', e, e.seq)
      BY <1>1, <1>2, RememberedAdds
    <2> QED
      BY <2>1, <2>2 DEF Adds
  <1>6. CASE talk'.said = 0
    BY <1>6 DEF SaidIsKnown
  <1>7. CASE talk'.said # 0 /\ talk'.said = talk.said
    <2>1. /\ talk.said \in DOMAIN mem.entries /\ talk.said < mem.nextSeq
          /\ mem.entries[talk.said].seq = talk.said
          /\ mem.entries[talk.said].type = "assistant"
      BY <1>7 DEF LogTypes, SaidIsKnown
    <2>2. talk.said \in Nat
      BY DEF LogTypes, Talk
    <2>3. talk.said \in DOMAIN mem'.entries /\ mem'.entries[talk.said] = mem.entries[talk.said]
      BY <1>1, <1>4, <2>1, <2>2
    <2>4. talk.said < mem'.nextSeq
      BY <1>1, <1>3, <2>1, <2>2
    <2> QED
      BY <1>7, <2>1, <2>3, <2>4 DEF SaidIsKnown
  <1>8. CASE talk'.said = mem.nextSeq /\ e.type = "assistant"
    BY <1>1, <1>3, <1>5, <1>8 DEF SaidIsKnown
  <1> QED
    BY <1>6, <1>7, <1>8 DEF Appending

LEMMA AppendingTypes ==
  ASSUME LogTypes, NEW e, Appending(e)
  PROVE  LogTypes'
  <1>1. WellFormed(mem')
    BY RememberedKeepsForm DEF LogTypes, Appending, AppendEntry
  <1>2. disk' \in Disk /\ WellEnded(disk')
    <2>1. disk' \in {Written(disk, e), disk} \union CutShort(disk, e)
      BY DEF Appending, AppendEntry, WriteEntry
    <2> QED
      BY <2>1, WrittenType DEF LogTypes, Appending
  <1>3. past' \in Past
    <2>1. past \in Past /\ Next1 \in Nat /\ e.id = Next1
      BY DEF LogTypes, Appending, Past, Next1
    <2>2. \/ past' = [past EXCEPT !.made = Next1,
                                  !.kept = IF e.type = "meta" THEN @ ELSE @ \union {e.id}]
          \/ past' = [past EXCEPT !.made = Next1, !.faults = @ + 1, !.sound = FALSE]
      BY DEF Appending, AppendEntry, WriteEntry
    <2> HIDE DEF Next1
    <2>3. past.kept \union {e.id} \in SUBSET Nat
      BY <2>1 DEF Past
    <2> DEFINE K == IF e.type = "meta" THEN past.kept ELSE past.kept \union {e.id}
    <2>4. K \in SUBSET Nat
      BY <2>1, <2>3 DEF Past
    <2>5. \/ past' = [past EXCEPT !.made = Next1, !.kept = K]
          \/ past' = [past EXCEPT !.made = Next1, !.faults = @ + 1, !.sound = FALSE]
      BY <2>2
    <2> HIDE DEF K
    <2>6. CASE past' = [past EXCEPT !.made = Next1, !.kept = K]
      BY <2>1, <2>4, <2>6 DEF Past
    <2>7. CASE past' = [past EXCEPT !.made = Next1, !.faults = @ + 1, !.sound = FALSE]
      <3>1. past.faults + 1 \in Nat
        BY <2>1 DEF Past
      <3> QED
        BY <2>1, <2>7, <3>1 DEF Past
    <2> QED
      BY <2>5, <2>6, <2>7
  <1>4. SaidIsKnown'
    BY AppendingSaid
  <1> QED
    BY <1>1, <1>2, <1>3, <1>4 DEF LogTypes, Appending, AppendEntry

LEMMA DownIsTalk == Silent \in Talk /\ Down \in Talk /\ Silent.said = 0 /\ Down.said = 0
                    /\ Silent.phase = "idle" /\ Down.phase = "down"
  BY DEF Silent, Down, Talk, Phases

LEMMA GreatestUpTo ==
  ASSUME NEW n \in Nat, NEW T \in SUBSET (1..n), T # {}
  PROVE  Max(T) \in T /\ \A y \in T : Max(T) >= y
  <1> DEFINE U == {n - x : x \in T}
  <1>0. \A x \in T : x \in 1..n
    OBVIOUS
  <1>1. U \in SUBSET Nat /\ U # {}
    <2>1. \A u \in U : u \in Nat
      BY <1>0
    <2>2. PICK x \in T : TRUE
      OBVIOUS
    <2>3. n - x \in U
      BY <2>2
    <2> QED
      BY <2>1, <2>3
  <1>2. Min(U) \in U /\ \A y \in U : Min(U) <= y
    BY <1>1, LeastOfNats
  <1>3. PICK x \in T : Min(U) = n - x
    BY <1>2
  <1>4. ASSUME NEW y \in T PROVE x >= y
    <2>1. n - x <= n - y
      BY <1>2, <1>3
    <2> QED
      BY <1>0, <2>1
  <1> QED
    BY <1>4 DEF Max

\* The line a usage goes to has the number of the message, if there is one.
LEMMA LineOfIs ==
  ASSUME NEW d \in Disk, NEW q \in Nat, NEW same,
         same = {i \in DOMAIN d.lines : Parses(d.lines[i]) /\ d.lines[i].seq = q}
  PROVE  /\ same = {} => LineOf(d, q) = 0
         /\ same # {} => LineOf(d, q) \in same
         /\ \A k \in same : /\ \A j \in same : j <= k
                            /\ \E j \in same : j > Len(d.lines) - TAIL_SCAN
                            => LineOf(d, q) = k
  <1> DEFINE near == {i \in same : i > Len(d.lines) - TAIL_SCAN}
  <1>1. d.lines \in Seq(Entry) /\ Len(d.lines) \in Nat /\ DOMAIN d.lines = 1..Len(d.lines)
    BY DEF Disk
  <1>2. near \in SUBSET (1..Len(d.lines)) /\ same \in SUBSET Nat /\ same \in SUBSET (1..Len(d.lines))
    BY <1>1
  <1>3. LineOf(d, q) = CASE near # {} -> Max(near)
                         [] near = {} /\ same # {} -> Min(same)
                         [] OTHER -> 0
    BY DEF LineOf
  <1>4. near # {} => /\ LineOf(d, q) = Max(near)
                     /\ Max(near) \in near /\ \A y \in near : Max(near) >= y
    BY <1>1, <1>2, <1>3, GreatestUpTo
  <1>5. near = {} /\ same # {} => LineOf(d, q) = Min(same) /\ Min(same) \in same
    BY <1>2, <1>3, LeastOfNats
  <1>6. ASSUME NEW k \in same, \A j \in same : j <= k,
               \E j \in same : j > Len(d.lines) - TAIL_SCAN
        PROVE  LineOf(d, q) = k
    <2>1. PICK j \in same : j > Len(d.lines) - TAIL_SCAN
      BY <1>6
    <2>2. k \in near
      BY <1>1, <1>2, <1>6, <2>1, TailAssumption
    <2>3. Max(near) <= k /\ Max(near) >= k /\ Max(near) \in Nat
      BY <1>2, <1>4, <1>6, <2>2
    <2>4. k \in Nat
      BY <1>2
    <2> QED
      BY <1>4, <2>2, <2>3, <2>4
  <1>7. near \subseteq same
    OBVIOUS
  <1>8. same = {} => LineOf(d, q) = 0
    BY <1>3, <1>7
  <1> HIDE DEF near
  <1> QED
    BY <1>4, <1>5, <1>6, <1>7, <1>8

\* Another entry in place of the line of its number.
LEMMA RewrittenType ==
  ASSUME NEW d \in Disk, WellEnded(d), NEW e \in Entry, Parses(e), NEW x, x = Rewritten(d, e)
  PROVE  /\ x \in Disk /\ WellEnded(x) /\ x.end = d.end
         /\ Len(x.lines) = Len(d.lines)
         /\ \A i \in DOMAIN d.lines :
               x.lines[i] = IF i = LineOf(d, e.seq) THEN e ELSE d.lines[i]
  <1> DEFINE i == LineOf(d, e.seq)
  <1>1. d.lines \in Seq(Entry) /\ Len(d.lines) \in Nat /\ DOMAIN d.lines = 1..Len(d.lines)
    BY DEF Disk
  <1>2. x = IF i = 0 THEN d ELSE [d EXCEPT !.lines[i] = e]
    BY DEF Rewritten
  <1>3. i # 0 => i \in DOMAIN d.lines /\ Parses(d.lines[i])
    <2> DEFINE same == {j \in DOMAIN d.lines : Parses(d.lines[j]) /\ d.lines[j].seq = e.seq}
    <2>1. (same = {} => i = 0) /\ (same # {} => i \in same)
      BY LineOfIs DEF Entry
    <2> QED
      BY <2>1
  <1> HIDE DEF i
  <1>4. CASE i = 0
    BY <1>1, <1>2, <1>4 DEF i
  <1>5. CASE i # 0
    <2> DEFINE s == [d.lines EXCEPT ![i] = e]
    <2>1. x = [d EXCEPT !.lines = s]
      BY <1>2, <1>5
    <2>2. s \in Seq(Entry) /\ Len(s) = Len(d.lines) /\ DOMAIN s = DOMAIN d.lines
          /\ \A j \in DOMAIN d.lines : s[j] = IF j = i THEN e ELSE d.lines[j]
      <3>1. s = [j \in 1..Len(d.lines) |-> IF j = i THEN e ELSE d.lines[j]]
        BY <1>1
      <3> HIDE DEF s
      <3> QED
        BY <1>1, <3>1
    <2> HIDE DEF s
    <2>3. x \in Disk /\ x.end = d.end /\ x.lines = s /\ x.exists = d.exists
      BY <2>1, <2>2 DEF Disk
    <2>4. d.lines # <<>> /\ s # <<>>
      BY <1>1, <1>3, <1>5, <2>2
    <2>5. d.exists
      BY <2>4 DEF WellEnded, NoFile
    <2>6. d.end = "half" => ~Parses(s[Len(s)])
      <3> SUFFICES ASSUME d.end = "half" PROVE ~Parses(s[Len(s)])
        OBVIOUS
      <3>1. ~Parses(d.lines[Len(d.lines)])
        BY DEF WellEnded, Last
      <3>2. Len(d.lines) \in DOMAIN d.lines /\ Len(d.lines) # i
        BY <1>1, <1>3, <1>5, <2>4, <3>1
      <3> QED
        BY <2>2, <3>1, <3>2
    <2>7. WellEnded(x)
      BY <2>3, <2>4, <2>5, <2>6 DEF WellEnded, Last
    <2> QED
      BY <2>2, <2>3, <2>7 DEF i
  <1> QED
    BY <1>4, <1>5

LEMMA SomeFaults ==
  ASSUME past \in Past
  PROVE  /\ [past EXCEPT !.faults = @ + 1, !.sound = FALSE] \in Past
         /\ [past EXCEPT !.crashes = @ + 1] \in Past
         /\ [past EXCEPT !.fresh = @ + 1, !.since = past.made] \in Past
         /\ [past EXCEPT !.born = past.made, !.sound = TRUE] \in Past
         /\ [past EXCEPT !.born = past.made, !.sound = FALSE, !.faults = @ + 1] \in Past
         /\ \A id : [past EXCEPT !.crashes = @ + 1, !.kept = @ \ {id}] \in Past
  <1>1. past.faults + 1 \in Nat /\ past.crashes + 1 \in Nat /\ past.fresh + 1 \in Nat
        /\ past.made \in Nat /\ \A id : past.kept \ {id} \in SUBSET Nat
    BY DEF Past
  <1> QED
    BY <1>1 DEF Past

\* What a usage written later is written as, and what the memory becomes.
LEMMA UsageEntry ==
  ASSUME LogTypes, talk.said # 0, NEW e, e = [mem.entries[talk.said] EXCEPT !.usage = TRUE],
         NEW M, M = Known(mem, e)
  PROVE  /\ e \in Entry /\ Parses(e) /\ e.seq = talk.said /\ e.type # "transcript"
         /\ Mute(e) = Mute(mem.entries[talk.said]) /\ e.id = mem.entries[talk.said].id
         /\ WellFormed(M)
         /\ M.nodes = mem.nodes /\ M.thinkingSeqs = mem.thinkingSeqs /\ M.nextSeq = mem.nextSeq
         /\ \A s \in InUse(mem) : Mute(M.entries[s]) = Mute(mem.entries[s])
  <1> DEFINE f == mem.entries[talk.said]
  <1>1. f \in Entry /\ f.seq = talk.said /\ f.type = "assistant" /\ mem \in Memory
    <2>1. mem \in Memory /\ talk.said \in DOMAIN mem.entries
          /\ f.seq = talk.said /\ f.type = "assistant"
      BY DEF LogTypes, SaidIsKnown, WellFormed
    <2>2. PICK D \in SUBSET Nat : mem.entries \in [D -> Entry]
      BY <2>1 DEF Memory, Entries
    <2> QED
      BY <2>1, <2>2
  <1> HIDE DEF f
  <1>2. e = [f EXCEPT !.usage = TRUE]
    BY DEF f
  <1>3. e \in Entry /\ e.seq = talk.said /\ e.type = "assistant" /\ e.id = f.id /\ Mute(e) = Mute(f)
    BY <1>1, <1>2 DEF Entry, Mute
  <1>4. /\ M \in Memory
        /\ M.nextSeq = mem.nextSeq /\ M.nodes = mem.nodes /\ M.thinkingSeqs = mem.thinkingSeqs
        /\ DOMAIN M.entries = DOMAIN mem.entries \union {e.seq}
        /\ M.entries[e.seq] = e
        /\ \A s \in DOMAIN mem.entries : s # e.seq => M.entries[s] = mem.entries[s]
    BY <1>1, <1>3, KnownEntries
  <1>5. InUse(M) = InUse(mem) /\ InUse(mem) \subseteq DOMAIN mem.entries
    BY <1>4 DEF InUse, LogTypes, WellFormed
  <1>6. WellFormed(M)
    <2>1. \A s \in InUse(mem) :
             s \in DOMAIN mem.entries /\ s < mem.nextSeq /\ mem.entries[s].seq = s
      BY DEF LogTypes, WellFormed
    <2>2. \A s \in InUse(mem) : M.entries[s].seq = s
      BY <1>3, <1>4, <2>1
    <2> QED
      BY <1>4, <1>5, <2>1, <2>2 DEF WellFormed
  <1>7. ASSUME NEW s \in InUse(mem) PROVE Mute(M.entries[s]) = Mute(mem.entries[s])
    <2>1. CASE s = talk.said
      BY <1>3, <1>4, <2>1 DEF f
    <2>2. CASE s # talk.said
      BY <1>3, <1>4, <1>5, <2>2
    <2> QED
      BY <2>1, <2>2
  <1>8. Parses(e)
    BY <1>3 DEF Parses
  <1> QED
    BY <1>3, <1>4, <1>6, <1>7, <1>8 DEF f

LEMMA TranscriptEntry ==
  ASSUME Next1 \in Nat, NEW e, e = [Blank EXCEPT !.id = Next1, !.type = "transcript"]
  PROVE  e \in Entry /\ e.id = Next1 /\ e.seq = 0 /\ e.type = "transcript" /\ Parses(e)
  <1>1. Blank \in Entry /\ Blank.seq = 0
    BY BlankIsEntry DEF Blank
  <1> HIDE DEF Next1
  <1> QED
    <2>1. Next1 \in Int
      OBVIOUS
    <2>2. e \in Entry /\ e.id = Next1 /\ e.seq = 0 /\ e.type = "transcript"
      BY <1>1, <2>1 DEF Entry
    <2> QED
      BY <2>2 DEF Parses

LEMMA LogTypesInit == ASSUME Init PROVE LogTypes
  <1>1. disk \in Disk /\ WellEnded(disk)
    BY OldLogsAssumption DEF Init
  <1>2. NoPast \in Past
    BY DEF NoPast, Past
  <1> QED
    BY <1>1, <1>2, EmptyIsWellFormed, DownIsTalk DEF Init, LogTypes, SaidIsKnown

LEMMA OtherSteps ==
  ASSUME LogTypes,
         \/ SetEntryUsage \/ Fails \/ SetFreshWindow \/ CreatesSession \/ Resumes \/ Dies
         \/ UNCHANGED vars
  PROVE  LogTypes' /\ (talk'.said # 0 => UNCHANGED talk)
  <1>1. /\ disk \in Disk /\ WellEnded(disk) /\ WellFormed(mem)
        /\ talk \in Talk /\ skip \in Nat /\ past \in Past /\ Next1 \in Nat
    BY DEF LogTypes, Past, Next1
  <1>2. Garbage \in Entry /\ ~Parses(Garbage)
    BY BlankIsEntry DEF Parses, Garbage, Blank
  <1> HIDE DEF Next1
  <1>3. CASE SetEntryUsage
    <2> DEFINE e == [mem.entries[talk.said] EXCEPT !.usage = TRUE]
    <2>1. /\ talk.said # 0 /\ mem' = Known(mem, e) /\ disk' \in {disk, Rewritten(disk, e)}
          /\ talk' = Silent /\ skip' = skip /\ past' = past
      BY <1>3 DEF SetEntryUsage
    <2>2. e \in Entry /\ Parses(e) /\ WellFormed(mem')
      BY <2>1, UsageEntry
    <2> HIDE DEF e
    <2>3. disk' \in Disk /\ WellEnded(disk')
      BY <1>1, <2>1, <2>2, RewrittenType
    <2> QED
      BY <1>1, <2>1, <2>2, <2>3, DownIsTalk DEF LogTypes, SaidIsKnown
  <1>4. CASE Fails
    BY <1>1, <1>4, DownIsTalk DEF Fails, LogTypes, SaidIsKnown
  <1>5. CASE SetFreshWindow
    <2>1. Len(mem.nodes) \in Nat
      BY <1>1 DEF WellFormed, Memory
    <2>2. /\ disk' = disk /\ mem' = mem /\ talk' = talk /\ skip' = Len(mem.nodes)
          /\ past' = [past EXCEPT !.fresh = @ + 1, !.since = past.made]
      BY <1>5 DEF SetFreshWindow
    <2>3. past' \in Past
      BY <1>1, <2>2, SomeFaults
    <2> QED
      BY <2>1, <2>2, <2>3 DEF LogTypes, SaidIsKnown
  <1>6. CASE CreatesSession
    <2> DEFINE e == [Blank EXCEPT !.id = Next1, !.type = "transcript"]
    <2>1. WriteEntry(e) /\ talk' = Silent /\ mem' = Empty /\ skip' = 0
      BY <1>6 DEF CreatesSession
    <2>2. e \in Entry /\ e.id = Next1 /\ e.type # "meta"
      BY <1>1, TranscriptEntry
    <2> HIDE DEF e
    <2>3. disk' \in {Written(disk, e), disk} \union CutShort(disk, e)
      BY <2>1 DEF WriteEntry
    <2>4. disk' \in Disk /\ WellEnded(disk')
      BY <1>1, <2>2, <2>3, WrittenType
    <2>5. CASE past' = [past EXCEPT !.made = Next1, !.kept = @ \union {e.id}]
      <3>1. past.kept \union {e.id} \in SUBSET Nat
        BY <1>1, <2>2 DEF Past
      <3> QED
        BY <1>1, <2>1, <2>4, <2>5, <3>1, DownIsTalk, EmptyIsWellFormed
           DEF LogTypes, SaidIsKnown, Past
    <2>6. CASE past' = [past EXCEPT !.made = Next1, !.faults = @ + 1, !.sound = FALSE]
      <3>1. past' \in Past
        BY <1>1, <2>6, SomeFaults DEF Past
      <3> QED
        BY <2>1, <2>4, <3>1, DownIsTalk, EmptyIsWellFormed DEF LogTypes, SaidIsKnown
    <2> QED
      BY <2>1, <2>2, <2>5, <2>6 DEF WriteEntry
  <1>7. CASE Resumes
    <2>1. disk' \in {RepairTornTail(disk), disk} /\ disk.exists /\ mem' = RebuildSurface(disk')
          /\ talk' = Silent /\ skip' = 0
      BY <1>7 DEF Resumes
    <2>2. disk' \in Disk /\ WellEnded(disk')
      BY <1>1, <2>1, RepairedType
    <2>3. WellFormed(mem')
      BY <2>1, <2>2, RebuiltIsWellFormed
    <2>4. past' \in Past
      BY <1>1, <1>7, SomeFaults DEF Resumes
    <2> QED
      BY <2>1, <2>2, <2>3, <2>4, DownIsTalk DEF LogTypes, SaidIsKnown
  <1>8. CASE Dies
    <2>1. mem' = Empty /\ talk' = Down /\ skip' = 0
      BY <1>8 DEF Dies
    <2>2. past' \in Past
      <3>1. \/ past' = [past EXCEPT !.crashes = @ + 1]
            \/ past' = [past EXCEPT !.crashes = @ + 1, !.kept = @ \ {Last(disk.lines).id}]
        BY <1>8 DEF Dies
      <3> QED
        BY <1>1, <3>1, SomeFaults
    <2>3. disk' \in Disk /\ WellEnded(disk')
      <3>1. CASE disk' = disk
        BY <1>1, <3>1
      <3>2. CASE disk' = Extended(disk, Garbage, "half")
        BY <1>1, <1>2, <3>2, ExtendedType
      <3>3. CASE disk.lines # <<>> /\ disk' = [disk EXCEPT !.end = "whole"]
        <4>1. disk.exists
          BY <1>1, <3>3 DEF WellEnded, NoFile
        <4> QED
          BY <1>1, <3>3, <4>1 DEF Disk, WellEnded
      <3> QED
        BY <1>8, <3>1, <3>2, <3>3 DEF Dies
    <2> QED
      BY <2>1, <2>2, <2>3, DownIsTalk, EmptyIsWellFormed DEF LogTypes, SaidIsKnown
  <1>9. CASE UNCHANGED vars
    BY <1>9 DEF vars, LogTypes, SaidIsKnown
  <1> QED
    BY <1>3, <1>4, <1>5, <1>6, <1>7, <1>8, <1>9, DownIsTalk
       DEF SetEntryUsage, Fails, SetFreshWindow, CreatesSession, Resumes, Dies, vars

LEMMA LogTypesStep == ASSUME LogTypes, [Next]_vars PROVE LogTypes'
  BY AppendingSteps, AppendingTypes, OtherSteps DEF Next

LEMMA LogTypesMeanTypeOK == ASSUME LogTypes PROVE TypeOK
  <1>1. disk.end \in {"closed", "whole", "half"} /\ disk.exists \in BOOLEAN /\ talk.phase \in Phases
    BY DEF LogTypes, Disk, Talk
  <1> QED
    BY <1>1 DEF LogTypes, WellFormed, InUse, TypeOK

\* Every value of the log, the memory and the turn is of its kind, and every
\* node and thinking in memory has its entry, under its own number.
THEOREM LogTypeCorrect == Spec => [](LogTypes /\ TypeOK)
<1>1. Init => LogTypes
  BY LogTypesInit
<1>2. LogTypes /\ [Next]_vars => LogTypes'
  BY LogTypesStep
<1>3. LogTypes => TypeOK
  BY LogTypesMeanTypeOK
<1> QED BY <1>1, <1>2, <1>3, PTL DEF Spec

(***************************************************************************)
(* The file replayed is the memory.  A usage is written to the line of its *)
(* number among the last TAIL_SCAN; the comment there (session.mjs:45-47)  *)
(* holds that the message is always among them.  Where it is not, an older *)
(* meta of the same number can be the line that is found, and the file     *)
(* would be replayed with the message in its place.                        *)
(***************************************************************************)

UsageIsNear ==
    past.sound /\ talk.said # 0 =>
        \E i \in DOMAIN disk.lines :
            /\ i > Len(disk.lines) - TAIL_SCAN
            /\ Parses(disk.lines[i]) /\ disk.lines[i].seq = talk.said

\* The message a usage may go to has its line, the last one of its number.
IsLineOf(k, lines, m, said) ==
    /\ Mute(lines[k]) = Mute(m.entries[said])
    /\ \A j \in DOMAIN lines : j > k /\ Parses(lines[j]) => lines[j].seq # said

Replayable ==
    Running /\ past.sound =>
        /\ disk.end = "closed"
        /\ ~Foreign(disk) => Alike(mem, Replay(disk.lines))
        /\ talk.said # 0 => \E k \in DOMAIN disk.lines : IsLineOf(k, disk.lines, mem, talk.said)

LEMMA AlikeMeansSurface ==
  ASSUME NEW m, NEW M, Alike(m, M)
  PROVE  Surface(M) = Surface(m)
  <1>1. m.nodes = M.nodes /\ m.thinkingSeqs = M.thinkingSeqs
        /\ \A s \in ToSet(m.nodes) \union m.thinkingSeqs :
              [M.entries[s] EXCEPT !.usage = FALSE] = [m.entries[s] EXCEPT !.usage = FALSE]
    BY DEF Alike, InUse, Mute
  <1>2. [s \in ToSet(M.nodes) \union M.thinkingSeqs |-> [M.entries[s] EXCEPT !.usage = FALSE]]
      = [s \in ToSet(m.nodes) \union m.thinkingSeqs |-> [m.entries[s] EXCEPT !.usage = FALSE]]
    BY <1>1
  <1> QED
    BY <1>1, <1>2 DEF Surface

LEMMA ReplayableMeansReloads ==
  ASSUME LogTypes, Replayable PROVE ReloadRebuildsSurface
  <1> SUFFICES ASSUME Running, past.sound, ~Foreign(disk)
               PROVE  Surface(RebuildSurface(disk)) = Surface(mem)
    BY DEF ReloadRebuildsSurface
  <1>1. RebuildSurface(disk) = Replay(disk.lines)
    BY RebuiltIsWellFormed DEF LogTypes
  <1>2. Alike(mem, Replay(disk.lines))
    BY DEF Replayable
  <1> QED
    BY <1>1, <1>2, AlikeMeansSurface

LEMMA AppendingReplays ==
  ASSUME LogTypes, Replayable, NEW e, Appending(e)
  PROVE  Replayable'
  <1> SUFFICES ASSUME past'.sound
               PROVE  /\ disk'.end = "closed"
                      /\ ~Foreign(disk') => Alike(mem', Replay(disk'.lines))
                      /\ talk'.said # 0 =>
                            \E k \in DOMAIN disk'.lines :
                               IsLineOf(k, disk'.lines, mem', talk'.said)
    BY DEF Replayable
  <1>1. /\ e \in Entry /\ e.seq = mem.nextSeq /\ Parses(e) /\ e.type # "transcript"
        /\ mem' = Remembered(mem, e) /\ WriteEntry(e) /\ talk.phase # "down"
    BY DEF Appending, AppendEntry
  <1>2. /\ disk \in Disk /\ WellEnded(disk) /\ WellFormed(mem) /\ past \in Past
        /\ disk.lines \in Seq(Entry)
    BY DEF LogTypes, Disk
  <1>3. past.sound /\ disk' = Written(disk, e)
    BY <1>1, <1>2 DEF WriteEntry, Past
  <1>4. Running /\ disk.end = "closed"
    BY <1>1, <1>3 DEF Running, Replayable
  <1>5. disk'.lines = Append(disk.lines, e) /\ disk'.end = "closed"
    BY <1>3, <1>4 DEF Written, Extended
  <1> DEFINE u == disk.lines
             s == disk'.lines
  <1>6. /\ Len(u) \in Nat /\ DOMAIN u = 1..Len(u) /\ DOMAIN s = 1..(Len(u) + 1)
        /\ s[Len(u) + 1] = e
        /\ \A i \in 1..Len(u) : s[i] = u[i]
    BY <1>1, <1>2, <1>5, AppendTo
  <1>7. ~Foreign(disk') => ~Foreign(disk)
    <2> SUFFICES ASSUME Foreign(disk), NEW i \in DOMAIN s PROVE s[i].type # "transcript"
      BY DEF Foreign
    <2> QED
      BY <1>1, <1>6 DEF Foreign
  <1>8. ASSUME ~Foreign(disk') PROVE Alike(mem', Replay(disk'.lines))
    <2>1. Alike(mem, Replay(u))
      BY <1>3, <1>4, <1>7, <1>8 DEF Replayable
    <2>2. Replay(s) = Replayed(Replay(u), e)
      BY <1>1, <1>2, <1>5, ReplayAppend
    <2>3. WellFormed(Replay(u))
      BY <1>2, ReplayIsWellFormed
    <2> QED
      BY <1>1, <1>2, <2>1, <2>2, <2>3, AppendedAlike
  <1>9. ASSUME talk'.said # 0
        PROVE  \E k \in DOMAIN s : IsLineOf(k, s, mem', talk'.said)
    <2>1. \/ talk'.said = talk.said /\ mem'.entries[talk'.said] = mem.entries[talk.said]
          \/ talk'.said = mem.nextSeq /\ mem'.entries[talk'.said] = e
      BY <1>9, AppendingSaid
    <2>2. CASE talk'.said = talk.said /\ mem'.entries[talk'.said] = mem.entries[talk.said]
      <3>1. PICK k \in DOMAIN u : IsLineOf(k, u, mem, talk.said)
        BY <1>3, <1>4, <1>9, <2>2 DEF Replayable
      <3>2. talk.said < mem.nextSeq /\ talk.said \in Nat /\ mem.nextSeq \in Nat
        BY <1>2, <1>9, <2>2 DEF LogTypes, SaidIsKnown, Talk, WellFormed, Memory
      <3>3. e.seq # talk.said
        BY <1>1, <3>2
      <3>4. k \in DOMAIN s /\ s[k] = u[k]
        BY <1>6, <3>1
      <3>5. ASSUME NEW j \in DOMAIN s, j > k, Parses(s[j]) PROVE s[j].seq # talk.said
        <4>1. CASE j = Len(u) + 1
          BY <1>6, <3>3, <4>1
        <4>2. CASE j \in 1..Len(u)
          BY <1>6, <3>1, <3>5, <4>2 DEF IsLineOf
        <4> QED
          BY <1>6, <4>1, <4>2
      <3>6. IsLineOf(k, s, mem', talk'.said)
        BY <2>2, <3>1, <3>4, <3>5 DEF IsLineOf
      <3> QED
        BY <3>4, <3>6
    <2>3. CASE talk'.said = mem.nextSeq /\ mem'.entries[talk'.said] = e
      <3>1. Len(u) + 1 \in DOMAIN s /\ \A j \in DOMAIN s : ~(j > Len(u) + 1)
        BY <1>6
      <3>2. IsLineOf(Len(u) + 1, s, mem', talk'.said)
        BY <1>6, <2>3, <3>1 DEF IsLineOf
      <3> QED
        BY <3>1, <3>2
    <2> QED
      BY <2>1, <2>2, <2>3
  <1> QED
    BY <1>5, <1>8, <1>9

\* A usage written later changes a line in its usage only.
LEMMA UsageLines ==
  ASSUME LogTypes, Replayable, UsageIsNear, SetEntryUsage, past.sound
  PROVE  /\ disk' \in Disk /\ Len(disk'.lines) = Len(disk.lines)
         /\ \A i \in 1..Len(disk.lines) : Mute(disk'.lines[i]) = Mute(disk.lines[i])
         /\ disk'.end = "closed"
  <1> DEFINE e == [mem.entries[talk.said] EXCEPT !.usage = TRUE]
             u == disk.lines
             s == disk'.lines
  <1>1. /\ talk.said # 0 /\ talk.phase = "turn" /\ mem' = Known(mem, e)
        /\ disk' \in {disk, Rewritten(disk, e)}
    BY DEF SetEntryUsage, Writing
  <1>2. /\ e \in Entry /\ Parses(e) /\ e.seq = talk.said
        /\ Mute(e) = Mute(mem.entries[talk.said])
    BY <1>1, UsageEntry
  <1> HIDE DEF e
  <1>3. Running /\ disk \in Disk /\ WellEnded(disk) /\ talk.said \in Nat
    BY <1>1 DEF Running, LogTypes, Talk
  <1>4. u \in Seq(Entry) /\ Len(u) \in Nat /\ DOMAIN u = 1..Len(u)
    BY <1>3 DEF Disk
  <1>5. disk.end = "closed"
    BY <1>3 DEF Replayable
  <1>6. CASE disk' = disk
    BY <1>3, <1>5, <1>6
  <1>7. CASE disk' = Rewritten(disk, e)
    <2>1. PICK k \in DOMAIN u : IsLineOf(k, u, mem, talk.said)
      BY <1>1, <1>3 DEF Replayable
    <2> DEFINE same == {i \in DOMAIN u : Parses(u[i]) /\ u[i].seq = talk.said}
    <2>2. Mute(u[k]) = Mute(e) /\ u[k] \in Entry
      BY <1>2, <1>4, <2>1 DEF IsLineOf
    <2>3. u[k].seq = e.seq /\ u[k].type = e.type
      BY <1>2, <2>2, MutedFields
    <2>4. k \in same
      BY <1>2, <2>3 DEF Parses
    <2>5. \A j \in same : j <= k
      BY <1>4, <2>1 DEF IsLineOf
    <2>6. \E j \in same : j > Len(u) - TAIL_SCAN
      BY <1>1 DEF UsageIsNear
    <2>7. LineOf(disk, talk.said) = k
      BY <1>3, <2>4, <2>5, <2>6, LineOfIs
    <2>8. /\ disk' \in Disk /\ disk'.end = disk.end /\ Len(s) = Len(u)
          /\ \A i \in DOMAIN u : s[i] = IF i = k THEN e ELSE u[i]
      BY <1>2, <1>3, <1>7, <2>7, RewrittenType
    <2> QED
      BY <1>4, <1>5, <2>2, <2>8
  <1> QED
    BY <1>1, <1>6, <1>7

LEMMA UsageReplays ==
  ASSUME LogTypes, Replayable, UsageIsNear, SetEntryUsage
  PROVE  Replayable'
  <1> DEFINE e == [mem.entries[talk.said] EXCEPT !.usage = TRUE]
             u == disk.lines
             s == disk'.lines
  <1>1. /\ talk.said # 0 /\ talk.phase = "turn" /\ mem' = Known(mem, e)
        /\ disk' \in {disk, Rewritten(disk, e)}
        /\ talk' = Silent /\ past' = past
    BY DEF SetEntryUsage, Writing
  <1>2. /\ e \in Entry /\ Parses(e) /\ e.seq = talk.said /\ e.type # "transcript"
        /\ Mute(e) = Mute(mem.entries[talk.said])
        /\ mem'.nodes = mem.nodes /\ mem'.thinkingSeqs = mem.thinkingSeqs
        /\ mem'.nextSeq = mem.nextSeq
        /\ \A n \in InUse(mem) : Mute(mem'.entries[n]) = Mute(mem.entries[n])
    BY <1>1, UsageEntry
  <1> HIDE DEF e
  <1> SUFFICES ASSUME past.sound
               PROVE  /\ disk'.end = "closed"
                      /\ ~Foreign(disk') => Alike(mem', Replay(disk'.lines))
    BY <1>1, DownIsTalk DEF Replayable
  <1>3. Running /\ disk \in Disk /\ WellEnded(disk) /\ talk.said \in Nat
    BY <1>1 DEF Running, LogTypes, Talk
  <1>4. u \in Seq(Entry) /\ Len(u) \in Nat /\ DOMAIN u = 1..Len(u)
    BY <1>3 DEF Disk
  <1>5. /\ s \in Seq(Entry) /\ disk'.end = "closed" /\ Len(s) = Len(u)
        /\ \A i \in 1..Len(u) : Mute(s[i]) = Mute(u[i])
    <2>1. /\ disk' \in Disk /\ Len(s) = Len(u) /\ disk'.end = "closed"
          /\ \A i \in 1..Len(u) : Mute(s[i]) = Mute(u[i])
      BY UsageLines
    <2>2. s \in Seq(Entry)
      BY <2>1 DEF Disk
    <2> QED
      BY <2>1, <2>2
  <1>6. ~Foreign(disk') => ~Foreign(disk)
    <2>1. \A i \in 1..Len(u) : s[i].type = u[i].type
      BY <1>4, <1>5, MutedFields
    <2>2. DOMAIN s = 1..Len(u)
      BY <1>5
    <2> QED
      BY <1>4, <2>1, <2>2 DEF Foreign
  <1>7. ASSUME ~Foreign(disk') PROVE Alike(mem', Replay(s))
    <2>1. Alike(mem, Replay(u))
      BY <1>3, <1>6, <1>7 DEF Replayable
    <2>2. Alike(Replay(u), Replay(s))
      BY <1>4, <1>5, ReplayMuted
    <2>3. WellFormed(Replay(u)) /\ WellFormed(Replay(s)) /\ WellFormed(mem)
      BY <1>4, <1>5, ReplayIsWellFormed DEF LogTypes
    <2>4. Replay(u).nextSeq \in Nat /\ Replay(s).nextSeq \in Nat /\ mem.nextSeq \in Nat
      BY <2>3 DEF WellFormed, Memory
    <2>5. InUse(mem') = InUse(mem) /\ InUse(Replay(u)) = InUse(mem)
      BY <1>2, <2>1 DEF InUse, Alike
    <2> HIDE DEF u, s
    <2>6. Replay(s).nextSeq <= mem'.nextSeq
      BY <1>2, <2>1, <2>2, <2>4 DEF Alike
    <2>7. \A n \in InUse(mem') : Mute(mem'.entries[n]) = Mute(Replay(s).entries[n])
      BY <1>2, <2>1, <2>2, <2>5 DEF Alike
    <2> QED
      BY <1>2, <2>1, <2>2, <2>6, <2>7 DEF Alike
  <1> QED
    BY <1>5, <1>7

LEMMA OthersReplay ==
  ASSUME LogTypes, Replayable,
         \/ Fails \/ SetFreshWindow \/ CreatesSession \/ Resumes \/ Dies
         \/ UNCHANGED vars
  PROVE  Replayable'
  <1>1. disk \in Disk /\ WellEnded(disk) /\ past \in Past /\ Next1 \in Nat
    BY DEF LogTypes, Past, Next1
  <1> HIDE DEF Next1
  <1>2. CASE Fails
    <2>1. talk' = Silent /\ disk' = disk /\ mem' = mem /\ past' = past /\ talk.phase # "down"
      BY <1>2 DEF Fails
    <2> QED
      BY <2>1, DownIsTalk DEF Replayable, Running
  <1>3. CASE SetFreshWindow
    <2>1. talk' = talk /\ disk' = disk /\ mem' = mem /\ past'.sound = past.sound
      BY <1>1, <1>3 DEF SetFreshWindow, Past
    <2> QED
      BY <2>1 DEF Replayable, Running
  <1>4. CASE CreatesSession
    <2> DEFINE e == [Blank EXCEPT !.id = Next1, !.type = "transcript"]
    <2>1. WriteEntry(e) /\ talk' = Silent /\ mem' = Empty /\ disk = NoFile
      BY <1>1, <1>4 DEF CreatesSession, WellEnded
    <2>2. e \in Entry /\ e.type = "transcript"
      BY <1>1, TranscriptEntry
    <2> HIDE DEF e
    <2> SUFFICES ASSUME past'.sound
                 PROVE  disk'.end = "closed" /\ Alike(mem', Replay(disk'.lines))
      BY <2>1, DownIsTalk DEF Replayable
    <2>3. disk' = Written(disk, e)
      BY <1>1, <2>1 DEF WriteEntry, Past
    <2>4. disk'.end = "closed" /\ disk'.lines = Append(<<>>, e)
      BY <2>1, <2>3 DEF Written, Extended, NoFile
    <2>5. <<>> \in Seq(Entry)
      OBVIOUS
    <2>6. Replay(disk'.lines) = Replayed(Empty, e)
      BY <2>2, <2>4, <2>5, ReplayAppend, ReplayNothing
    <2>7. Replayed(Empty, e) = Empty
      BY <2>2 DEF Replayed, Unnumbered
    <2> QED
      BY <2>1, <2>4, <2>6, <2>7, EmptyIsWellFormed, AlikeItself
  <1>5. CASE Resumes
    <2>1. talk' = Silent /\ mem' = RebuildSurface(disk') /\ disk.exists
      BY <1>5 DEF Resumes
    <2> SUFFICES ASSUME past'.sound
                 PROVE  disk'.end = "closed"
                        /\ (~Foreign(disk') => Alike(mem', Replay(disk'.lines)))
      BY <2>1, DownIsTalk DEF Replayable
    <2>2. disk' = RepairTornTail(disk)
      BY <1>1, <1>5 DEF Resumes, Past
    <2>3. disk' \in Disk /\ disk'.end = "closed"
      BY <1>1, <2>1, <2>2, RepairedType
    <2>4. WellFormed(mem') /\ (~Foreign(disk') => mem' = Replay(disk'.lines))
      BY <2>1, <2>3, RebuiltIsWellFormed
    <2> QED
      BY <2>3, <2>4, AlikeItself
  <1>6. CASE Dies
    BY <1>6, DownIsTalk DEF Dies, Replayable, Running
  <1>7. CASE UNCHANGED vars
    BY <1>7 DEF vars, Replayable, Running, IsLineOf
  <1> QED
    BY <1>2, <1>3, <1>4, <1>5, <1>6, <1>7

LEMMA ReplayableStep ==
  ASSUME LogTypes, Replayable, UsageIsNear, [Next]_vars PROVE Replayable'
  BY AppendingSteps, AppendingReplays, UsageReplays, OthersReplay DEF Next

\* A process that died would be resumed with the messages it has given the
\* model: through compactions, orphaned starts, usage written later, torn ends.
THEOREM ReloadsRebuildTheSurface == Spec /\ []UsageIsNear => []ReloadRebuildsSurface
<1>1. Init => LogTypes /\ Replayable
  BY LogTypesInit, DownIsTalk DEF Init, Replayable, Running
<1>2. LogTypes /\ Replayable /\ UsageIsNear /\ [Next]_vars => LogTypes' /\ Replayable'
  BY LogTypesStep, ReplayableStep
<1>3. LogTypes /\ Replayable => ReloadRebuildsSurface
  BY ReplayableMeansReloads
<1> QED BY <1>1, <1>2, <1>3, PTL DEF Spec

(***************************************************************************)
(* What failures cost.  As long as every log that is resumed carries the   *)
(* line of its transcript, an entry that was kept is read back, but for    *)
(* one for each append the disk spoiled.  A log without that line is read  *)
(* without its results, and their numbers are given out again: then a      *)
(* usage can be written over a result, where it does not find its message  *)
(* near the end.                                                           *)
(***************************************************************************)

ReadsItsOwn == Resumes => ~Foreign(disk')

Shows(lines, x) == \E i \in DOMAIN lines : Parses(lines[i]) /\ lines[i].id = x
Loss(kept, lines) == {x \in kept : ~Shows(lines, x)}

\* A torn line is not one that was kept, nor is it the one of a usage then.
TornIsUnkept ==
    disk.end # "closed" /\ Parses(Last(disk.lines)) =>
        /\ Last(disk.lines).id \notin past.kept
        /\ talk.said # 0 /\ Last(disk.lines).seq = talk.said =>
              mem.entries[talk.said].id \notin past.kept

\* Identities are given out once, and to keep: not to metas.
KeptLines ==
    /\ past.kept \subseteq 1..past.made
    /\ talk.said # 0 => mem.entries[talk.said].id <= past.made
    /\ \A i \in DOMAIN disk.lines :
          /\ disk.lines[i].id <= past.made
          /\ disk.lines[i].id \in past.kept =>
                /\ Parses(disk.lines[i]) /\ disk.lines[i].type # "meta"
                /\ disk.lines[i].type = "transcript" => disk.lines[i].seq = 0

\* No line that was kept has a number still to come, or that of another message.
NumbersAhead ==
    Running =>
        \A i \in DOMAIN disk.lines :
            disk.lines[i].id \in past.kept =>
                /\ disk.lines[i].seq < mem.nextSeq
                /\ talk.said # 0 /\ disk.lines[i].seq = talk.said =>
                      disk.lines[i].id = mem.entries[talk.said].id

\* A torn end will spoil the next append.
Debt == IF Running /\ disk.end # "closed" THEN 1 ELSE 0
Costs == Cardinality(Loss(past.kept, disk.lines)) + Debt <= past.faults

Insured == TornIsUnkept /\ KeptLines /\ NumbersAhead /\ Costs

LEMMA LossIsFinite ==
  ASSUME NEW kept, NEW n \in Nat, kept \subseteq 1..n, NEW lines
  PROVE  IsFiniteSet(Loss(kept, lines)) /\ Cardinality(Loss(kept, lines)) \in Nat
  <1>1. IsFiniteSet(1..n)
    BY FS_Interval
  <1>2. Loss(kept, lines) \subseteq 1..n
    BY DEF Loss
  <1> QED
    BY <1>1, <1>2, FS_Subset, FS_CardinalityType

\* Nothing is lost where all that was shown is shown still, one entry where
\* one more is to be kept.
LEMMA LossGrows ==
  ASSUME NEW kept, NEW n \in Nat, kept \subseteq 1..n, NEW lines, NEW now,
         \A x \in kept : Shows(lines, x) => Shows(now, x)
  PROVE  /\ Cardinality(Loss(kept, now)) <= Cardinality(Loss(kept, lines))
         /\ \A some \in SUBSET kept :
               Cardinality(Loss(some, now)) <= Cardinality(Loss(kept, lines))
         /\ \A x : Cardinality(Loss(kept \union {x}, now)) <= Cardinality(Loss(kept, lines)) + 1
         /\ \A x : Shows(now, x) =>
               Cardinality(Loss(kept \union {x}, now)) <= Cardinality(Loss(kept, lines))
  <1> DEFINE L == Loss(kept, lines)
  <1>1. IsFiniteSet(L) /\ Cardinality(L) \in Nat
    BY LossIsFinite
  <1>2. \A T : T \subseteq L => Cardinality(T) <= Cardinality(L)
    BY <1>1, FS_Subset
  <1>3. ASSUME NEW some \in SUBSET kept PROVE Loss(some, now) \subseteq L
    BY DEF Loss
  <1>4. ASSUME NEW x PROVE Cardinality(Loss(kept \union {x}, now)) <= Cardinality(L) + 1
    <2>1. IsFiniteSet(L \union {x}) /\ Cardinality(L \union {x}) \in {Cardinality(L), Cardinality(L) + 1}
      BY <1>1, FS_AddElement
    <2>2. Loss(kept \union {x}, now) \subseteq L \union {x}
      BY DEF Loss
    <2>3. /\ Cardinality(Loss(kept \union {x}, now)) \in Nat
          /\ Cardinality(Loss(kept \union {x}, now)) <= Cardinality(L \union {x})
      BY <2>1, <2>2, FS_Subset, FS_CardinalityType
    <2> HIDE DEF L
    <2> QED
      BY <1>1, <2>1, <2>3
  <1>5. ASSUME NEW x, Shows(now, x) PROVE Loss(kept \union {x}, now) \subseteq L
    BY <1>5 DEF Loss
  <1> QED
    BY <1>2, <1>3, <1>4, <1>5

\* What the end of a torn file does to the lines that follow.
LEMMA ExtendedShows ==
  ASSUME NEW d \in Disk, WellEnded(d), NEW line \in Entry, NEW end,
         NEW s, s = Extended(d, line, end).lines
  PROVE  /\ d.end = "closed" /\ Parses(line) => Shows(s, line.id)
         /\ \A x : Shows(d.lines, x) =>
               \/ Shows(s, x)
               \/ d.end # "closed" /\ Parses(Last(d.lines)) /\ Last(d.lines).id = x
         /\ \A i \in DOMAIN s :
               \/ s[i] = Garbage \/ s[i] = line
               \/ i \in DOMAIN d.lines /\ s[i] = d.lines[i]
  <1>1. d.lines \in Seq(Entry) /\ Len(d.lines) \in Nat /\ DOMAIN d.lines = 1..Len(d.lines)
    BY DEF Disk
  <1>2. CASE d.end = "closed"
    <2>1. /\ s \in Seq(Entry) /\ Len(s) = Len(d.lines) + 1 /\ s[Len(s)] = line
          /\ \A i \in 1..Len(d.lines) : s[i] = d.lines[i]
      BY <1>2, ExtendedLines
    <2>2. DOMAIN s = 1..(Len(d.lines) + 1) /\ s[Len(d.lines) + 1] = line
      BY <2>1
    <2>3. \A i \in DOMAIN d.lines : i \in DOMAIN s /\ s[i] = d.lines[i]
      BY <1>1, <2>1, <2>2
    <2>4. \A x : Shows(d.lines, x) => Shows(s, x)
      BY <2>3 DEF Shows
    <2>5. Len(d.lines) + 1 \in DOMAIN s
      BY <1>1, <2>2
    <2>6. Parses(line) => Shows(s, line.id)
      BY <2>2, <2>5 DEF Shows
    <2>7. \A i \in DOMAIN s : s[i] = line \/ (i \in DOMAIN d.lines /\ s[i] = d.lines[i])
      <3>1. \A i \in DOMAIN s : i = Len(d.lines) + 1 \/ i \in 1..Len(d.lines)
        BY <1>1, <2>2
      <3> QED
        BY <1>1, <2>1, <2>2, <3>1
    <2> QED
      BY <1>2, <2>4, <2>6, <2>7
  <1>3. CASE d.end # "closed"
    <2>1. /\ s \in Seq(Entry) /\ Len(s) = Len(d.lines) /\ s[Len(s)] = Garbage /\ s # <<>>
          /\ \A i \in 1..(Len(d.lines) - 1) : s[i] = d.lines[i]
      BY <1>3, ExtendedLines
    <2>2. DOMAIN s = 1..Len(d.lines) /\ s[Len(d.lines)] = Garbage
      BY <2>1
    <2>3. ASSUME NEW x, Shows(d.lines, x), ~(Parses(Last(d.lines)) /\ Last(d.lines).id = x)
          PROVE  Shows(s, x)
      <3>1. PICK i \in DOMAIN d.lines : Parses(d.lines[i]) /\ d.lines[i].id = x
        BY <2>3 DEF Shows
      <3>2. i # Len(d.lines)
        BY <2>3, <3>1 DEF Last
      <3>3. i \in 1..(Len(d.lines) - 1)
        BY <1>1, <3>1, <3>2
      <3> QED
        BY <1>1, <2>1, <2>2, <3>1, <3>3 DEF Shows
    <2>4. \A i \in DOMAIN s : s[i] = Garbage \/ (i \in DOMAIN d.lines /\ s[i] = d.lines[i])
      <3>1. \A i \in DOMAIN s : i = Len(d.lines) \/ i \in 1..(Len(d.lines) - 1)
        BY <1>1, <2>2
      <3> QED
        BY <1>1, <2>1, <2>2, <3>1
    <2> QED
      BY <1>3, <2>3, <2>4
  <1> QED
    BY <1>2, <1>3

\* What a write leaves, whether the disk takes it or not.
LEMMA WritingLines ==
  ASSUME LogTypes, TornIsUnkept, NEW e \in Entry, Parses(e), e.id = Next1, WriteEntry(e)
  PROVE  /\ past.made \in Nat /\ past'.made = past.made + 1 /\ e.id = past.made + 1
         /\ past.kept \subseteq past'.kept
         /\ \A x \in past'.kept : x \in past.kept \/ (x = e.id /\ e.type # "meta")
         /\ \A i \in DOMAIN disk'.lines :
               \/ disk'.lines[i] = Garbage \/ disk'.lines[i] = e
               \/ i \in DOMAIN disk.lines /\ disk'.lines[i] = disk.lines[i]
         /\ \A x \in past.kept : Shows(disk.lines, x) => Shows(disk'.lines, x)
         /\ \/ /\ disk'.end = "closed" /\ past'.faults = past.faults
               /\ \/ past'.kept = past.kept
                  \/ past'.kept = past.kept \union {e.id}
               /\ disk.end = "closed" => Shows(disk'.lines, e.id)
            \/ past'.kept = past.kept /\ past'.faults = past.faults + 1
         /\ disk'.end # "closed" /\ Parses(Last(disk'.lines)) =>
               disk' = disk \/ Last(disk'.lines) = e
  <1>1. /\ disk \in Disk /\ WellEnded(disk) /\ past \in Past /\ Garbage \in Entry
    BY BlankIsEntry DEF LogTypes
  <1>2. past.made \in Nat /\ Next1 = past.made + 1
    BY <1>1 DEF Past, Next1
  <1>3. /\ past'.made = Next1 /\ past.kept \subseteq past'.kept
        /\ \A x \in past'.kept : x \in past.kept \/ (x = e.id /\ e.type # "meta")
    <2> DEFINE K == IF e.type = "meta" THEN past.kept ELSE past.kept \union {e.id}
    <2>1. \/ past' = [past EXCEPT !.made = Next1, !.kept = K]
          \/ past' = [past EXCEPT !.made = Next1, !.faults = @ + 1, !.sound = FALSE]
      BY <1>1 DEF WriteEntry
    <2>2. past.kept \subseteq K /\ \A x \in K : x \in past.kept \/ (x = e.id /\ e.type # "meta")
      OBVIOUS
    <2> HIDE DEF K, Next1
    <2> QED
      BY <1>1, <2>1, <2>2 DEF Past
  <1>4. \/ disk' = disk
        \/ \E line \in Entry, end \in {"closed", "whole", "half"} :
              (line = e \/ line = Garbage) /\ disk' = Extended(disk, line, end)
    <2>1. disk' \in {Written(disk, e), disk} \union CutShort(disk, e)
      BY <1>1 DEF WriteEntry
    <2> QED
      BY <1>1, <2>1 DEF Written, CutShort
  <1>5. /\ \A i \in DOMAIN disk'.lines :
              \/ disk'.lines[i] = Garbage \/ disk'.lines[i] = e
              \/ i \in DOMAIN disk.lines /\ disk'.lines[i] = disk.lines[i]
        /\ \A x \in past.kept : Shows(disk.lines, x) => Shows(disk'.lines, x)
    <2>1. CASE disk' = disk
      BY <2>1
    <2>2. ASSUME NEW line \in Entry, NEW end \in {"closed", "whole", "half"},
                 line = e \/ line = Garbage, disk' = Extended(disk, line, end)
          PROVE  /\ \A i \in DOMAIN disk'.lines :
                       \/ disk'.lines[i] = Garbage \/ disk'.lines[i] = e
                       \/ i \in DOMAIN disk.lines /\ disk'.lines[i] = disk.lines[i]
                 /\ \A x \in past.kept : Shows(disk.lines, x) => Shows(disk'.lines, x)
      <3>1. /\ \A x : Shows(disk.lines, x) =>
                  \/ Shows(disk'.lines, x)
                  \/ disk.end # "closed" /\ Parses(Last(disk.lines)) /\ Last(disk.lines).id = x
            /\ \A i \in DOMAIN disk'.lines :
                  \/ disk'.lines[i] = Garbage \/ disk'.lines[i] = line
                  \/ i \in DOMAIN disk.lines /\ disk'.lines[i] = disk.lines[i]
        BY <1>1, <2>2, ExtendedShows
      <3>2. \A x \in past.kept :
               ~(disk.end # "closed" /\ Parses(Last(disk.lines)) /\ Last(disk.lines).id = x)
        BY DEF TornIsUnkept
      <3> QED
        BY <2>2, <3>1, <3>2
    <2> QED
      BY <1>4, <2>1, <2>2
  <1>6. \/ /\ disk' = Written(disk, e) /\ past'.faults = past.faults
           /\ \/ past'.kept = past.kept
              \/ past'.kept = past.kept \union {e.id}
        \/ past'.kept = past.kept /\ past'.faults = past.faults + 1
    BY <1>1 DEF WriteEntry, Past
  <1>7. disk' = Written(disk, e) => disk'.end = "closed"
    BY DEF Written, Extended
  <1>8. disk' = Written(disk, e) /\ disk.end = "closed" => Shows(disk'.lines, e.id)
    BY <1>1, ExtendedShows DEF Written
  <1>9. disk'.end # "closed" /\ Parses(Last(disk'.lines)) => disk' = disk \/ Last(disk'.lines) = e
    <2>1. disk' \in {disk, Extended(disk, e, "whole"), Extended(disk, Garbage, "half"), Written(disk, e)}
      BY DEF WriteEntry, CutShort
    <2>2. ~Parses(Garbage)
      BY DEF Garbage, Parses
    <2>3. CASE disk' = Extended(disk, e, "whole")
      BY <1>1, <2>2, <2>3, ExtendedLines DEF Last
    <2>4. CASE disk' = Extended(disk, Garbage, "half")
      BY <1>1, <2>2, <2>4, ExtendedLines DEF Last
    <2> QED
      BY <1>7, <2>1, <2>3, <2>4
  <1> QED
    BY <1>2, <1>3, <1>5, <1>6, <1>7, <1>8, <1>9

LEMMA AppendingInsures ==
  ASSUME LogTypes, Insured, NEW e, Appending(e)
  PROVE  Insured'
  <1>0. LogTypes /\ TornIsUnkept /\ e \in Entry /\ Parses(e) /\ e.id = Next1 /\ WriteEntry(e)
    BY DEF Insured, Appending, AppendEntry
  <1>1. /\ e \in Entry /\ e.seq = mem.nextSeq /\ Parses(e) /\ e.type # "transcript"
        /\ Running /\ Running' /\ mem' = Remembered(mem, e)
    BY DEF Appending, AppendEntry, Running
  <1>2. /\ mem.nextSeq \in Nat /\ mem'.nextSeq = mem.nextSeq + 1
        /\ past \in Past /\ past.faults \in Nat /\ disk \in Disk /\ WellEnded(disk)
    <2>1. mem \in Memory
      BY DEF LogTypes, WellFormed
    <2> QED
      BY <1>1, <2>1, RememberedAdds DEF LogTypes, Memory, Past
  <1>3. /\ past.made \in Nat /\ past'.made = past.made + 1 /\ e.id = past.made + 1
        /\ past.kept \subseteq past'.kept
        /\ \A x \in past'.kept : x \in past.kept \/ (x = e.id /\ e.type # "meta")
    BY <1>0, WritingLines
  <1>4. /\ \A i \in DOMAIN disk'.lines :
              \/ disk'.lines[i] = Garbage \/ disk'.lines[i] = e
              \/ i \in DOMAIN disk.lines /\ disk'.lines[i] = disk.lines[i]
        /\ \A x \in past.kept : Shows(disk.lines, x) => Shows(disk'.lines, x)
    BY <1>0, WritingLines
  <1>5. \/ /\ disk'.end = "closed" /\ past'.faults = past.faults
           /\ \/ past'.kept = past.kept
              \/ past'.kept = past.kept \union {e.id}
           /\ disk.end = "closed" => Shows(disk'.lines, e.id)
        \/ past'.kept = past.kept /\ past'.faults = past.faults + 1
    BY <1>0, WritingLines
  <1>6. talk'.said # 0 =>
           \/ /\ talk'.said = talk.said /\ talk.said < mem.nextSeq
              /\ mem'.entries[talk'.said] = mem.entries[talk.said]
           \/ talk'.said = mem.nextSeq /\ mem'.entries[talk'.said] = e
    BY AppendingSaid DEF LogTypes, SaidIsKnown
  <1>7. /\ past.kept \subseteq 1..past.made
        /\ talk.said # 0 => mem.entries[talk.said].id <= past.made
        /\ \A i \in DOMAIN disk.lines :
              /\ disk.lines[i].id <= past.made
              /\ disk.lines[i].id \in past.kept =>
                    /\ Parses(disk.lines[i]) /\ disk.lines[i].type # "meta"
                    /\ disk.lines[i].type = "transcript" => disk.lines[i].seq = 0
    BY DEF Insured, KeptLines
  <1>8. /\ talk.said \in Nat
        /\ talk.said # 0 => mem.entries[talk.said].id \in Int
        /\ \A i \in DOMAIN disk.lines : disk.lines[i].id \in Int /\ disk.lines[i].seq \in Nat
    <2>1. talk.said \in Nat
      BY DEF LogTypes, Talk
    <2>2. ASSUME talk.said # 0 PROVE mem.entries[talk.said] \in Entry
      <3>1. talk.said \in DOMAIN mem.entries /\ mem \in Memory
        BY <2>2 DEF LogTypes, SaidIsKnown, WellFormed
      <3> QED
        BY SMTT(20), <3>1 DEF Memory, Entries
    <2>3. \A i \in DOMAIN disk.lines : disk.lines[i] \in Entry
      BY <1>2 DEF Disk
    <2> QED
      BY <2>1, <2>2, <2>3 DEF Entry
  <1>9. Garbage.id = 0 /\ ~Parses(Garbage)
    BY DEF Garbage, Blank, Parses
  <1>10. e.id \notin past.kept /\ 0 \notin past'.kept
    BY <1>3, <1>7
  <1>11. ASSUME NEW i \in DOMAIN disk'.lines, disk'.lines[i].id \in past'.kept
         PROVE  \/ disk'.lines[i] = e /\ e.type # "meta"
                \/ /\ i \in DOMAIN disk.lines /\ disk'.lines[i] = disk.lines[i]
                   /\ disk.lines[i].id \in past.kept
    <2>1. disk'.lines[i] # Garbage
      BY <1>9, <1>10, <1>11
    <2>2. CASE disk'.lines[i] = e
      BY <1>3, <1>10, <1>11, <2>2
    <2>3. CASE i \in DOMAIN disk.lines /\ disk'.lines[i] = disk.lines[i]
      <3>1. disk.lines[i].id # e.id
        BY <1>3, <1>7, <1>8, <2>3
      <3> QED
        BY <1>3, <1>11, <2>3, <3>1
    <2> QED
      BY <1>4, <2>1, <2>2, <2>3
  <1>12. KeptLines'
    <2>1. past'.kept \subseteq 1..past'.made
      BY <1>3, <1>7
    <2>2. talk'.said # 0 => mem'.entries[talk'.said].id <= past'.made
      BY <1>3, <1>6, <1>7, <1>8
    <2>3. \A i \in DOMAIN disk'.lines : disk'.lines[i].id <= past'.made
      BY <1>3, <1>4, <1>7, <1>8, <1>9
    <2>4. ASSUME NEW i \in DOMAIN disk'.lines, disk'.lines[i].id \in past'.kept
          PROVE  /\ Parses(disk'.lines[i]) /\ disk'.lines[i].type # "meta"
                 /\ disk'.lines[i].type = "transcript" => disk'.lines[i].seq = 0
      BY <1>1, <1>7, <1>11, <2>4
    <2> QED
      BY <2>1, <2>2, <2>3, <2>4 DEF KeptLines
  <1>13. NumbersAhead'
    <2> SUFFICES ASSUME NEW i \in DOMAIN disk'.lines, disk'.lines[i].id \in past'.kept
                 PROVE  /\ disk'.lines[i].seq < mem'.nextSeq
                        /\ talk'.said # 0 /\ disk'.lines[i].seq = talk'.said =>
                              disk'.lines[i].id = mem'.entries[talk'.said].id
      BY DEF NumbersAhead
    <2>1. CASE disk'.lines[i] = e
      BY <1>1, <1>2, <1>6, <1>8, <2>1
    <2>2. CASE /\ i \in DOMAIN disk.lines /\ disk'.lines[i] = disk.lines[i]
               /\ disk.lines[i].id \in past.kept
      <3>1. /\ disk.lines[i].seq < mem.nextSeq
            /\ talk.said # 0 /\ disk.lines[i].seq = talk.said =>
                  disk.lines[i].id = mem.entries[talk.said].id
        BY <1>1, <2>2 DEF Insured, NumbersAhead
      <3> QED
        BY <1>2, <1>6, <1>8, <2>2, <3>1
    <2> QED
      BY <1>11, <2>1, <2>2
  <1>14. TornIsUnkept'
    <2> SUFFICES ASSUME disk'.end # "closed", Parses(Last(disk'.lines))
                 PROVE  /\ Last(disk'.lines).id \notin past'.kept
                        /\ talk'.said # 0 /\ Last(disk'.lines).seq = talk'.said =>
                              mem'.entries[talk'.said].id \notin past'.kept
      BY DEF TornIsUnkept
    <2>1. past'.kept = past.kept
      BY <1>5
    <2>2. disk' = disk \/ Last(disk'.lines) = e
      BY <1>0, WritingLines
    <2>3. CASE Last(disk'.lines) = e
      BY <1>1, <1>6, <1>8, <1>10, <2>1, <2>3
    <2>4. CASE disk' = disk
      <3>1. /\ Last(disk.lines).id \notin past.kept
            /\ talk.said # 0 /\ Last(disk.lines).seq = talk.said =>
                  mem.entries[talk.said].id \notin past.kept
        BY <2>4 DEF Insured, TornIsUnkept
      <3> QED
        BY <1>6, <1>10, <2>1, <2>4, <3>1
    <2> QED
      BY <2>2, <2>3, <2>4
  <1>15. Costs'
    <2> DEFINE L == Cardinality(Loss(past.kept, disk.lines))
               M == Cardinality(Loss(past'.kept, disk'.lines))
    <2>1. L \in Nat /\ M \in Nat
      BY <1>3, <1>7, <1>12, LossIsFinite DEF KeptLines
    <2>2. /\ past'.kept = past.kept => M <= L
          /\ past'.kept = past.kept \union {e.id} => M <= L + 1
          /\ past'.kept = past.kept \union {e.id} /\ Shows(disk'.lines, e.id) => M <= L
      BY <1>3, <1>4, <1>7, LossGrows
    <2>3. L + Debt <= past.faults
      BY DEF Insured, Costs
    <2>4. /\ Debt = IF disk.end = "closed" THEN 0 ELSE 1
          /\ Debt' = IF disk'.end = "closed" THEN 0 ELSE 1
      BY <1>1 DEF Debt
    <2> HIDE DEF L, M
    <2>5. M + Debt' <= past'.faults
      BY <1>2, <1>5, <2>1, <2>2, <2>3, <2>4
    <2> QED
      BY <2>5 DEF Costs, M
  <1> QED
    BY <1>12, <1>13, <1>14, <1>15 DEF Insured

LEMMA UsageInsures ==
  ASSUME LogTypes, Insured, SetEntryUsage
  PROVE  Insured'
  <1> DEFINE e == [mem.entries[talk.said] EXCEPT !.usage = TRUE]
             u == disk.lines
             s == disk'.lines
             k == LineOf(disk, talk.said)
  <1>1. /\ talk.said # 0 /\ talk.phase = "turn" /\ mem' = Known(mem, e)
        /\ disk' \in {disk, Rewritten(disk, e)}
        /\ talk' = Silent /\ past' = past
    BY DEF SetEntryUsage, Writing
  <1>2. /\ e \in Entry /\ Parses(e) /\ e.seq = talk.said /\ e.type = "assistant"
        /\ e.id = mem.entries[talk.said].id /\ mem'.nextSeq = mem.nextSeq
    <2>1. /\ e \in Entry /\ Parses(e) /\ e.seq = talk.said
          /\ e.id = mem.entries[talk.said].id /\ mem'.nextSeq = mem.nextSeq
          /\ Mute(e) = Mute(mem.entries[talk.said])
      BY <1>1, UsageEntry
    <2>2. mem.entries[talk.said] \in Entry /\ mem.entries[talk.said].type = "assistant"
      <3>1. /\ talk.said \in DOMAIN mem.entries /\ mem \in Memory
            /\ mem.entries[talk.said].type = "assistant"
        BY <1>1 DEF LogTypes, SaidIsKnown, WellFormed
      <3>2. PICK D \in SUBSET Nat : mem.entries \in [D -> Entry]
        BY <3>1 DEF Memory, Entries
      <3> QED
        BY <3>1, <3>2
    <2> HIDE DEF e
    <2> QED
      BY <2>1, <2>2, MutedFields
  <1> HIDE DEF e
  <1>3. Running /\ Running' /\ talk'.said = 0
    BY <1>1, DownIsTalk DEF Running
  <1>4. /\ disk \in Disk /\ WellEnded(disk) /\ past \in Past /\ talk.said \in Nat
        /\ u \in Seq(Entry) /\ Len(u) \in Nat /\ DOMAIN u = 1..Len(u)
    BY DEF LogTypes, Disk, Talk
  <1>5. k = 0 \/ (k \in DOMAIN u /\ Parses(u[k]) /\ u[k].seq = talk.said)
    <2> DEFINE same == {i \in DOMAIN u : Parses(u[i]) /\ u[i].seq = talk.said}
    <2>1. (same = {} => k = 0) /\ (same # {} => k \in same)
      BY <1>4, LineOfIs
    <2> QED
      BY <2>1
  <1> HIDE DEF k
  <1>6. /\ disk'.end = disk.end /\ Len(s) = Len(u) /\ DOMAIN s = DOMAIN u
        /\ \/ s = u
           \/ \A i \in DOMAIN u : s[i] = IF i = k THEN e ELSE u[i]
    <2>1. CASE disk' = disk
      BY <2>1
    <2>2. CASE disk' = Rewritten(disk, e)
      <3>1. /\ disk' \in Disk /\ disk'.end = disk.end /\ Len(s) = Len(u)
            /\ \A i \in DOMAIN u : s[i] = IF i = k THEN e ELSE u[i]
        BY <1>2, <1>4, <2>2, RewrittenType DEF k
      <3>2. DOMAIN s = 1..Len(s)
        BY <3>1 DEF Disk
      <3> QED
        BY <1>4, <3>1, <3>2
    <2> QED
      BY <1>1, <2>1, <2>2
  <1>7. \A i \in DOMAIN s :
           \/ s[i] = u[i]
           \/ i = k /\ k # 0 /\ s[i] = e /\ Parses(u[i]) /\ u[i].seq = talk.said
    BY <1>4, <1>5, <1>6
  \* The line that is written anew is that of the message, or not kept.
  <1>8. ASSUME NEW i \in DOMAIN u, u[i].id \in past.kept
        PROVE  u[i].seq < mem.nextSeq /\ (u[i].seq = talk.said => u[i].id = e.id)
    BY <1>1, <1>2, <1>3, <1>8 DEF Insured, NumbersAhead
  <1>9. KeptLines'
    <2>1. /\ past.kept \subseteq 1..past.made /\ e.id <= past.made
          /\ \A i \in DOMAIN u :
                /\ u[i].id <= past.made
                /\ u[i].id \in past.kept =>
                      /\ Parses(u[i]) /\ u[i].type # "meta"
                      /\ u[i].type = "transcript" => u[i].seq = 0
      BY <1>1, <1>2 DEF Insured, KeptLines
    <2>2. e.type # "meta" /\ e.type # "transcript"
      BY <1>2
    <2>3. \A i \in DOMAIN s :
                /\ s[i].id <= past.made
                /\ s[i].id \in past.kept =>
                      /\ Parses(s[i]) /\ s[i].type # "meta"
                      /\ s[i].type = "transcript" => s[i].seq = 0
      BY <1>2, <1>6, <1>7, <2>1, <2>2
    <2> QED
      BY <1>1, <1>3, <2>1, <2>3 DEF KeptLines
  <1>10. NumbersAhead'
    <2>1. e.seq < mem.nextSeq
      BY <1>1, <1>2 DEF LogTypes, SaidIsKnown
    <2>2. \A i \in DOMAIN s : s[i].id \in past.kept => s[i].seq < mem.nextSeq
      BY <1>6, <1>7, <1>8, <2>1
    <2> QED
      BY <1>1, <1>2, <1>3, <2>2 DEF NumbersAhead
  <1>11. TornIsUnkept'
    <2> SUFFICES ASSUME disk'.end # "closed", Parses(Last(s))
                 PROVE  Last(s).id \notin past.kept
      BY <1>1, <1>3 DEF TornIsUnkept
    <2>1. Len(u) \in DOMAIN u /\ Last(u) = u[Len(u)] /\ Last(s) = s[Len(u)]
      <3>1. u # <<>>
        BY <1>6 DEF LogTypes, WellEnded
      <3> QED
        BY <1>4, <1>6, <3>1 DEF Last
    <2>2. CASE Last(s) = Last(u)
      BY <1>6, <2>2 DEF Insured, TornIsUnkept
    <2>3. CASE Last(s) = e /\ Parses(Last(u)) /\ Last(u).seq = talk.said
      BY <1>1, <1>2, <1>6, <2>3 DEF Insured, TornIsUnkept
    <2> QED
      BY <1>6, <1>7, <2>1, <2>2, <2>3
  <1>12. Costs'
    <2>1. ASSUME NEW x \in past.kept, Shows(u, x) PROVE Shows(s, x)
      <3>1. PICK i \in DOMAIN u : Parses(u[i]) /\ u[i].id = x
        BY <2>1 DEF Shows
      <3>2. CASE s[i] = u[i]
        BY <1>6, <3>1, <3>2 DEF Shows
      <3>3. CASE s[i] = e /\ u[i].seq = talk.said
        <4>1. e.id = x
          BY <1>8, <3>1, <3>3
        <4> QED
          BY <1>2, <1>6, <3>1, <3>3, <4>1 DEF Shows
      <3> QED
        BY <1>6, <1>7, <3>1, <3>2, <3>3
    <2>2. past.made \in Nat /\ past.kept \subseteq 1..past.made
      BY <1>4 DEF Insured, KeptLines, Past
    <2> DEFINE L == Cardinality(Loss(past.kept, u))
               M == Cardinality(Loss(past.kept, s))
    <2>3. M <= L /\ L \in Nat /\ M \in Nat
      BY <2>1, <2>2, LossGrows, LossIsFinite
    <2>4. L + Debt <= past.faults /\ past.faults \in Nat
      BY <1>4 DEF Insured, Costs, Past
    <2>5. Debt' = Debt /\ Debt \in Nat
      BY <1>3, <1>6 DEF Debt
    <2> HIDE DEF L, M
    <2>6. M + Debt' <= past.faults
      BY <2>3, <2>4, <2>5
    <2> QED
      BY <1>1, <2>6 DEF Costs, M
  <1> QED
    BY <1>9, <1>10, <1>11, <1>12 DEF Insured

\* What a state of no running turn owes, where the next one has the same lines.
LEMMA OthersInsure ==
  ASSUME LogTypes, Insured, [ReadsItsOwn]_vars,
         \/ Fails \/ SetFreshWindow \/ CreatesSession \/ Resumes \/ Dies
         \/ UNCHANGED vars
  PROVE  Insured'
  <1>1. /\ disk \in Disk /\ WellEnded(disk) /\ past \in Past /\ WellFormed(mem)
        /\ disk.lines \in Seq(Entry) /\ DOMAIN disk.lines = 1..Len(disk.lines)
        /\ past.made \in Nat /\ past.faults \in Nat
    BY DEF LogTypes, Disk, Past
  <1>2. /\ past.kept \subseteq 1..past.made
        /\ \A i \in DOMAIN disk.lines :
              /\ disk.lines[i] \in Entry /\ disk.lines[i].id <= past.made
              /\ disk.lines[i].id \in past.kept =>
                    /\ Parses(disk.lines[i]) /\ disk.lines[i].type # "meta"
                    /\ disk.lines[i].type = "transcript" => disk.lines[i].seq = 0
    BY <1>1 DEF Insured, KeptLines
  <1>3. Garbage \in Entry /\ Garbage.id = 0 /\ ~Parses(Garbage) /\ 0 \notin past.kept
    BY <1>2, BlankIsEntry DEF Garbage, Blank, Parses
  <1> DEFINE L == Cardinality(Loss(past.kept, disk.lines))
             M == Cardinality(Loss(past'.kept, disk'.lines))
  <1>4. L \in Nat /\ L + Debt <= past.faults
        /\ Debt = IF Running /\ disk.end # "closed" THEN 1 ELSE 0
    BY <1>1, <1>2, LossIsFinite DEF Insured, Costs, Debt
  <1>5. CASE Fails
    <2>1. talk' = Silent /\ disk' = disk /\ mem' = mem /\ past' = past /\ Running /\ Running'
      BY <1>5, DownIsTalk DEF Fails, Running
    <2> QED
      BY <2>1, DownIsTalk
         DEF Insured, TornIsUnkept, KeptLines, NumbersAhead, Costs, Debt
  <1>6. CASE SetFreshWindow
    <2>1. /\ talk' = talk /\ disk' = disk /\ mem' = mem
          /\ past'.kept = past.kept /\ past'.made = past.made /\ past'.faults = past.faults
      BY <1>1, <1>6 DEF SetFreshWindow, Past
    <2> QED
      BY <2>1 DEF Insured, TornIsUnkept, KeptLines, NumbersAhead, Costs, Debt, Running
  <1>7. CASE CreatesSession
    <2> DEFINE e == [Blank EXCEPT !.id = Next1, !.type = "transcript"]
    <2>1. /\ WriteEntry(e) /\ talk' = Silent /\ mem' = Empty /\ disk = NoFile
          /\ ~Running /\ Running' /\ talk'.said = 0
      BY <1>1, <1>7, DownIsTalk DEF CreatesSession, WellEnded, Running
    <2>2. Next1 \in Nat
      BY <1>1 DEF Next1
    <2>3. e \in Entry /\ e.type = "transcript" /\ e.seq = 0 /\ e.id = Next1 /\ Parses(e)
      BY <2>2, TranscriptEntry
    <2> HIDE DEF e
    <2>4. LogTypes /\ TornIsUnkept
      BY DEF Insured
    <2>5. /\ past'.made = past.made + 1 /\ e.id = past.made + 1
          /\ past.kept \subseteq past'.kept
          /\ \A x \in past'.kept : x \in past.kept \/ (x = e.id /\ e.type # "meta")
      BY <2>1, <2>3, <2>4, WritingLines
    <2>6. \A x \in past.kept : Shows(disk.lines, x) => Shows(disk'.lines, x)
      BY <2>1, <2>3, <2>4, WritingLines
    <2>7. \A i \in DOMAIN disk'.lines : disk'.lines[i] = Garbage \/ disk'.lines[i] = e
      <3>1. \A i \in DOMAIN disk'.lines :
               \/ disk'.lines[i] = Garbage \/ disk'.lines[i] = e
               \/ i \in DOMAIN disk.lines /\ disk'.lines[i] = disk.lines[i]
        BY <2>1, <2>3, <2>4, WritingLines
      <3>2. DOMAIN disk.lines = {}
        BY <2>1 DEF NoFile
      <3> QED
        BY <3>1, <3>2
    <2>8. \/ /\ disk'.end = "closed" /\ past'.faults = past.faults
             /\ \/ past'.kept = past.kept
                \/ past'.kept = past.kept \union {e.id}
             /\ disk.end = "closed" => Shows(disk'.lines, e.id)
          \/ past'.kept = past.kept /\ past'.faults = past.faults + 1
      BY <2>1, <2>3, <2>4, WritingLines
    <2>9. disk'.end # "closed" /\ Parses(Last(disk'.lines)) => disk' = disk \/ Last(disk'.lines) = e
      BY <2>1, <2>3, <2>4, WritingLines
    <2>10. disk.end = "closed"
      BY <2>1 DEF NoFile
    <2>11. past'.kept \subseteq 1..past'.made /\ 0 \notin past'.kept
      BY <1>1, <1>2, <2>5
    <2>12. KeptLines'
      BY <1>1, <1>3, <2>1, <2>3, <2>5, <2>7, <2>11 DEF KeptLines
    <2>13. NumbersAhead'
      BY <1>3, <2>1, <2>3, <2>7, <2>11 DEF NumbersAhead, Empty
    <2>14. TornIsUnkept'
      BY <1>1, <1>2, <2>1, <2>5, <2>8, <2>9, <2>10 DEF TornIsUnkept
    <2>15. M \in Nat
      BY <1>1, <2>5, <2>11, LossIsFinite
    <2>16. /\ past'.kept = past.kept => M <= L
           /\ past'.kept = past.kept \union {e.id} /\ Shows(disk'.lines, e.id) => M <= L
      BY <1>1, <1>2, <2>6, LossGrows
    <2>17. Debt' = IF disk'.end # "closed" THEN 1 ELSE 0
      BY <2>1 DEF Debt
    <2> HIDE DEF L, M
    <2>18. M + Debt' <= past'.faults
      BY <1>1, <1>4, <2>1, <2>8, <2>10, <2>15, <2>16, <2>17
    <2> QED
      BY <2>12, <2>13, <2>14, <2>18 DEF Insured, Costs, M
  <1>8. CASE Resumes
    <2>1. /\ talk' = Silent /\ mem' = RebuildSurface(disk') /\ disk.exists
          /\ ~Running /\ Running' /\ talk'.said = 0
      BY <1>8, DownIsTalk DEF Resumes, Running
    <2>2. ~Foreign(disk')
      <3>1. CASE ReadsItsOwn
        BY <1>8, <3>1 DEF ReadsItsOwn
      <3>2. CASE UNCHANGED vars
        BY <2>1, <3>2 DEF vars, Running
      <3> QED
        BY <3>1, <3>2
    <2>3. /\ past'.kept = past.kept /\ past'.made = past.made
          /\ \/ disk' = RepairTornTail(disk) /\ past'.faults = past.faults
             \/ disk' = disk /\ past'.faults = past.faults + 1
      BY <1>1, <1>8 DEF Resumes, Past
    <2>4. /\ disk' \in Disk
          /\ \A i \in DOMAIN disk.lines : Parses(disk.lines[i]) =>
                i \in DOMAIN disk'.lines /\ disk'.lines[i] = disk.lines[i]
          /\ \A i \in DOMAIN disk'.lines : i \in DOMAIN disk.lines /\ disk'.lines[i] = disk.lines[i]
      BY <1>1, <2>1, <2>3, RepairedType
    <2>5. disk' = disk \/ disk'.end = "closed"
      BY <1>1, <2>1, <2>3, RepairedType
    <2>6. KeptLines'
      BY <1>2, <2>1, <2>3, <2>4 DEF KeptLines
    <2>7. NumbersAhead'
      <3>1. mem' = Replay(disk'.lines) /\ disk'.lines \in Seq(Entry)
        BY <2>1, <2>2, <2>4, RebuiltIsWellFormed DEF Disk
      <3>2. /\ WellFormed(mem')
            /\ \A i \in DOMAIN disk'.lines : IsRead(disk'.lines[i]) => disk'.lines[i].seq < mem'.nextSeq
        BY <3>1, ReplayIsWellFormed
      <3>3. mem'.nextSeq \in Nat \ {0}
        BY <3>2 DEF WellFormed, Memory
      <3>4. ASSUME NEW i \in DOMAIN disk'.lines, disk'.lines[i].id \in past.kept
            PROVE  disk'.lines[i].seq < mem'.nextSeq
        <4>1. /\ Parses(disk'.lines[i]) /\ disk'.lines[i].type # "meta"
              /\ disk'.lines[i].type = "transcript" => disk'.lines[i].seq = 0
          BY <1>2, <2>4, <3>4
        <4>2. disk'.lines[i].type = "transcript" \/ IsRead(disk'.lines[i])
          BY <4>1 DEF IsRead, Unnumbered
        <4> QED
          BY <3>2, <3>3, <4>1, <4>2
      <3> QED
        BY <2>1, <2>3, <3>4 DEF NumbersAhead
    <2>8. TornIsUnkept'
      BY <2>1, <2>3, <2>5 DEF Insured, TornIsUnkept
    <2>9. \A x \in past.kept : Shows(disk.lines, x) => Shows(disk'.lines, x)
      BY <2>4 DEF Shows
    <2>10. M <= L /\ M \in Nat
      BY <1>1, <1>2, <2>3, <2>9, LossGrows, LossIsFinite
    <2>11. Debt = 0 /\ Debt' = IF disk'.end # "closed" THEN 1 ELSE 0
      BY <2>1 DEF Debt
    <2>12. disk' = RepairTornTail(disk) => disk'.end = "closed"
      BY <1>1, <2>1, RepairedType
    <2> HIDE DEF L, M
    <2>13. M + Debt' <= past'.faults
      BY <1>1, <1>4, <2>3, <2>10, <2>11, <2>12
    <2> QED
      BY <2>6, <2>7, <2>8, <2>13 DEF Insured, Costs, M
  <1>9. CASE Dies
    <2>1. ~Running' /\ talk'.said = 0
      BY <1>9, DownIsTalk DEF Dies, Running
    <2>2. past'.made = past.made /\ past'.faults = past.faults
      BY <1>1, <1>9 DEF Dies, Past
    <2>3. \/ disk' = disk /\ past'.kept = past.kept
          \/ disk' = Extended(disk, Garbage, "half") /\ past'.kept = past.kept
          \/ /\ disk' = [disk EXCEPT !.end = "whole"]
             /\ past'.kept = past.kept \ {Last(disk.lines).id}
      BY <1>1, <1>9 DEF Dies, Past
    <2>4. /\ past'.kept \subseteq past.kept
          /\ \A i \in DOMAIN disk'.lines :
                \/ disk'.lines[i] = Garbage
                \/ i \in DOMAIN disk.lines /\ disk'.lines[i] = disk.lines[i]
          /\ \A x \in past.kept : Shows(disk.lines, x) => Shows(disk'.lines, x)
      <3>1. CASE disk'.lines = disk.lines /\ past'.kept \subseteq past.kept
        BY <3>1
      <3>2. CASE disk' = Extended(disk, Garbage, "half") /\ past'.kept = past.kept
        <4> DEFINE s == disk'.lines
        <4>0. s = Extended(disk, Garbage, "half").lines
          BY <3>2
        <4> HIDE DEF s
        <4>1. /\ \A x : Shows(disk.lines, x) =>
                    \/ Shows(s, x)
                    \/ disk.end # "closed" /\ Parses(Last(disk.lines)) /\ Last(disk.lines).id = x
              /\ \A i \in DOMAIN s :
                    \/ s[i] = Garbage
                    \/ i \in DOMAIN disk.lines /\ s[i] = disk.lines[i]
          <5>1. disk \in Disk /\ WellEnded(disk) /\ Garbage \in Entry
            BY <1>1, <1>3
          <5> QED
            BY <4>0, <5>1, ExtendedShows
        <4>2. \A x \in past.kept :
                 ~(disk.end # "closed" /\ Parses(Last(disk.lines)) /\ Last(disk.lines).id = x)
          BY DEF Insured, TornIsUnkept
        <4> QED
          BY <3>2, <4>1, <4>2 DEF s
      <3>3. disk' = [disk EXCEPT !.end = "whole"] => disk'.lines = disk.lines
        BY <1>1 DEF Disk
      <3> QED
        BY <2>3, <3>1, <3>2, <3>3
    <2>5. KeptLines'
      BY <1>1, <1>2, <1>3, <2>1, <2>2, <2>4 DEF KeptLines
    <2>6. NumbersAhead'
      BY <2>1 DEF NumbersAhead
    <2>7. TornIsUnkept'
      <3> SUFFICES ASSUME disk'.end # "closed", Parses(Last(disk'.lines))
                   PROVE  Last(disk'.lines).id \notin past'.kept
        BY <2>1 DEF TornIsUnkept
      <3>1. CASE disk' = disk /\ past'.kept = past.kept
        BY <3>1 DEF Insured, TornIsUnkept
      <3>2. CASE disk' = Extended(disk, Garbage, "half")
        BY <1>1, <1>3, <3>2, ExtendedLines DEF Last
      <3>3. CASE /\ disk' = [disk EXCEPT !.end = "whole"]
                 /\ past'.kept = past.kept \ {Last(disk.lines).id}
        <4>1. disk'.lines = disk.lines
          BY <1>1, <3>3 DEF Disk
        <4> QED
          BY <3>3, <4>1
      <3> QED
        BY <2>3, <3>1, <3>2, <3>3
    <2>8. M <= L /\ M \in Nat
      <3>1. past'.kept \subseteq 1..past.made
        BY <1>2, <2>4
      <3> QED
        BY <1>1, <1>2, <2>4, <3>1, LossGrows, LossIsFinite
    <2>9. Debt' = 0 /\ Debt \in Nat
      BY <2>1 DEF Debt
    <2> HIDE DEF L, M
    <2>10. M + Debt' <= past'.faults
      BY <1>1, <1>4, <2>2, <2>8, <2>9
    <2> QED
      BY <2>5, <2>6, <2>7, <2>10 DEF Insured, Costs, M
  <1>10. CASE UNCHANGED vars
    BY <1>10 DEF vars, Insured, TornIsUnkept, KeptLines, NumbersAhead, Costs, Debt, Running
  <1> QED
    BY <1>5, <1>6, <1>7, <1>8, <1>9, <1>10

LEMMA InsuredInit == ASSUME Init PROVE Insured
  <1>1. disk \in OldLogs /\ talk.said = 0 /\ ~Running /\ past.kept = {} /\ past.made = 0
        /\ past.faults = 0
    BY DownIsTalk DEF Init, NoPast, Running
  <1>2. \A i \in DOMAIN disk.lines : disk.lines[i].id <= 0
    BY <1>1, OldLogsAssumption
  <1>3. Loss(past.kept, disk.lines) = {}
    BY <1>1 DEF Loss
  <1>4. Costs
    BY <1>1, <1>3, FS_EmptySet DEF Costs, Debt
  <1> QED
    BY <1>1, <1>2, <1>4 DEF Insured, TornIsUnkept, KeptLines, NumbersAhead

LEMMA InsuredStep ==
  ASSUME LogTypes, Insured, [ReadsItsOwn]_vars, [Next]_vars PROVE Insured'
  BY AppendingSteps, AppendingInsures, UsageInsures, OthersInsure DEF Next

LEMMA InsuredMeansCosts == ASSUME LogTypes, Insured PROVE FailureCostsOneEntry
  <1>1. past.kept \ {e.id : e \in ReadLines(disk)} = Loss(past.kept, disk.lines)
    <2>1. ReadLines(disk) = {e \in {disk.lines[i] : i \in DOMAIN disk.lines} : Parses(e)}
      BY DEF ReadLines, ToSet
    <2> QED
      BY <2>1 DEF Loss, Shows
  <1>2. past.made \in Nat /\ past.faults \in Nat
    BY DEF LogTypes, Past
  <1>3. Cardinality(Loss(past.kept, disk.lines)) \in Nat
    BY <1>2, LossIsFinite DEF Insured, KeptLines
  <1>4. Debt \in Nat
    BY DEF Debt
  <1>5. Cardinality(Loss(past.kept, disk.lines)) + Debt <= past.faults
    BY DEF Insured, Costs
  <1>6. Cardinality(Loss(past.kept, disk.lines)) <= past.faults
    BY <1>2, <1>3, <1>4, <1>5
  <1> QED
    BY <1>1, <1>6 DEF FailureCostsOneEntry

\* An entry but a meta whose append returned is read back, but for one for
\* each append or repair the disk spoiled: a torn end costs one entry, and a
\* usage written later none.
THEOREM FailuresCostOneEntry == Spec /\ [][ReadsItsOwn]_vars => []FailureCostsOneEntry
<1>1. Init => LogTypes /\ Insured
  BY LogTypesInit, InsuredInit
<1>2. LogTypes /\ Insured /\ [ReadsItsOwn]_vars /\ [Next]_vars => LogTypes' /\ Insured'
  BY LogTypesStep, InsuredStep
<1>3. LogTypes /\ Insured => FailureCostsOneEntry
  BY InsuredMeansCosts
<1> QED BY <1>1, <1>2, <1>3, PTL DEF Spec

(***************************************************************************)
(* A list flattened out of pieces.                                         *)
(***************************************************************************)

IsFlattening(f, b, n) ==
    f = [i \in 1..n |-> IF i = 1 THEN b[i] ELSE f[i - 1] \o b[i]]

LEMMA FlatteningsExist ==
  ASSUME NEW b, NEW n \in Nat
  PROVE  \E f : IsFlattening(f, b, n)
  <1> DEFINE N == {k \in Nat : \E f : IsFlattening(f, b, k)}
  <1>1. 0 \in N
    <2> DEFINE f == [i \in 1..0 |-> b]
    <2>1. 1..0 = {}
      OBVIOUS
    <2>2. IsFlattening(f, b, 0)
      BY <2>1 DEF IsFlattening
    <2> QED
      BY <2>2
  <1>2. ASSUME NEW k \in Nat, k \in N PROVE k + 1 \in N
    <2>1. PICK f : IsFlattening(f, b, k)
      BY <1>2
    <2> DEFINE g == [i \in 1..(k + 1) |->
                        IF i = 1 THEN b[i] ELSE IF i = k + 1 THEN f[k] \o b[i] ELSE f[i]]
               h == [i \in 1..(k + 1) |-> IF i = 1 THEN b[i] ELSE g[i - 1] \o b[i]]
    <2>2. \A i \in 1..k : f[i] = IF i = 1 THEN b[i] ELSE f[i - 1] \o b[i]
      BY <2>1 DEF IsFlattening
    <2>3. \A i \in 1..k : g[i] = f[i]
      BY <2>2
    <2>4. ASSUME NEW i \in 1..(k + 1) PROVE g[i] = h[i]
      <3>1. g[i] = IF i = 1 THEN b[i] ELSE IF i = k + 1 THEN f[k] \o b[i] ELSE f[i]
        BY DEF g
      <3>2. h[i] = IF i = 1 THEN b[i] ELSE g[i - 1] \o b[i]
        BY DEF h
      <3> HIDE DEF g, h
      <3>3. CASE i = 1
        BY <3>1, <3>2, <3>3
      <3>4. CASE i # 1
        <4>1. i - 1 \in 1..k /\ g[i - 1] = f[i - 1]
          BY <2>3, <3>4
        <4>2. CASE i = k + 1
          <5>1. i - 1 = k
            BY <4>2
          <5> QED
            BY <3>1, <3>2, <3>4, <4>1, <4>2, <5>1
        <4>3. CASE i # k + 1
          <5>1. i \in 1..k
            BY <4>3
          <5>2. g[i] = f[i] /\ f[i] = f[i - 1] \o b[i]
            BY <2>2, <2>3, <3>4, <5>1
          <5> QED
            BY <3>2, <3>4, <4>1, <5>2
        <4> QED
          BY <4>2, <4>3
      <3> QED
        BY <3>3, <3>4
    <2>5. g = h
      BY <2>4
    <2>6. IsFlattening(g, b, k + 1)
      BY <2>5 DEF IsFlattening
    <2> QED
      BY <2>6
  <1> HIDE DEF N
  <1>3. Nat \subseteq N
    BY <1>1, <1>2, NatSetInduction
  <1> QED
    BY <1>3 DEF N

\* Entry x of a list of n pieces: it is the o-th of the i-th of them, and
\* what follows it is the next one of that piece or the first of the next.
IsOf(out, b, n, x, i, o) ==
    /\ i \in 1..n /\ o \in 1..Len(b[i]) /\ out[x] = b[i][o]
    /\ o < Len(b[i]) => x + 1 \in 1..Len(out) /\ out[x + 1] = b[i][o + 1]
    /\ o = Len(b[i]) /\ i < n => x + 1 \in 1..Len(out) /\ out[x + 1] = b[i + 1][1]
    /\ o = Len(b[i]) /\ i = n => x = Len(out)

LEMMA OnePieceMore ==
  ASSUME NEW S, NEW b, NEW n \in Nat, NEW out \in Seq(S), NEW piece \in Seq(S), piece # <<>>,
         b[n + 1] = piece, \A x \in 1..Len(out) : \E i, o : IsOf(out, b, n, x, i, o)
  PROVE  /\ out \o piece \in Seq(S)
         /\ \A x \in 1..Len(out \o piece) : \E i, o : IsOf(out \o piece, b, n + 1, x, i, o)
  <1> DEFINE now == out \o piece
             L == Len(out)
             P == Len(piece)
  <1>1. L \in Nat /\ P \in Nat /\ P # 0 /\ now \in Seq(S) /\ Len(now) = L + P
        /\ \A i \in 1..(L + P) : now[i] = IF i <= L THEN out[i] ELSE piece[i - L]
    BY ConcatProperties
  <1> HIDE DEF now
  <1>2. ASSUME NEW x \in 1..L PROVE \E i, o : IsOf(now, b, n + 1, x, i, o)
    <2>1. PICK i, o : IsOf(out, b, n, x, i, o)
      BY <1>2
    <2> HIDE DEF L, P
    <2>0. x \in 1..Len(out) /\ i \in 1..n /\ o \in 1..Len(b[i]) /\ out[x] = b[i][o]
      BY <2>1 DEF IsOf, L
    <2>2. now[x] = b[i][o] /\ i \in 1..(n + 1)
      BY <1>1, <2>0 DEF L
    <2>3. o < Len(b[i]) => x + 1 \in 1..Len(now) /\ now[x + 1] = b[i][o + 1]
      <3> SUFFICES ASSUME o < Len(b[i])
                   PROVE  x + 1 \in 1..Len(now) /\ now[x + 1] = b[i][o + 1]
        OBVIOUS
      <3>1. x + 1 \in 1..Len(out) /\ out[x + 1] = b[i][o + 1]
        BY <2>1 DEF IsOf
      <3> QED
        BY <1>1, <3>1 DEF L
    <2>4. o = Len(b[i]) /\ i < n => x + 1 \in 1..Len(now) /\ now[x + 1] = b[i + 1][1]
      BY SMTT(20), <1>1, <2>1 DEF IsOf, L
    <2>5. o = Len(b[i]) /\ i = n => x + 1 \in 1..Len(now) /\ now[x + 1] = b[i + 1][1]
      <3> SUFFICES ASSUME o = Len(b[i]), i = n
                   PROVE  x + 1 \in 1..Len(now) /\ now[x + 1] = b[i + 1][1]
        OBVIOUS
      <3>1. x = L
        BY <2>1 DEF IsOf, L
      <3> QED
        BY <1>1, <3>1
    <2> QED
      <3>1. o = Len(b[i]) /\ i < n + 1 => i < n \/ i = n
        BY <2>0
      <3>2. ~(i = n + 1)
        BY <2>0
      <3>3. IsOf(now, b, n + 1, x, i, o)
        BY <2>0, <2>2, <2>3, <2>4, <2>5, <3>1, <3>2 DEF IsOf
      <3> QED
        BY <3>3
  <1>3. ASSUME NEW x \in (L + 1)..(L + P) PROVE IsOf(now, b, n + 1, x, n + 1, x - L)
    <2> HIDE DEF L
    <2>1. n + 1 \in 1..(n + 1) /\ x - L \in 1..P /\ now[x] = piece[x - L]
      BY <1>1
    <2>2. x - L < P => x + 1 \in 1..(L + P) /\ now[x + 1] = piece[(x - L) + 1]
      BY <1>1
    <2> QED
      BY <1>1, <2>1, <2>2 DEF IsOf
  <1>4. \A x \in 1..(L + P) : x \in 1..L \/ x \in (L + 1)..(L + P)
    BY <1>1
  <1> QED
    BY <1>1, <1>2, <1>3, <1>4 DEF now

LEMMA FlattenedPlaces ==
  ASSUME NEW S, NEW b \in Seq(Seq(S)), \A i \in 1..Len(b) : b[i] # <<>>,
         NEW out, out = FlattenSeq(b)
  PROVE  /\ out \in Seq(S)
         /\ \A x \in 1..Len(out) : \E i, o : IsOf(out, b, Len(b), x, i, o)
  <1> DEFINE n == Len(b)
             f == CHOOSE f : IsFlattening(f, b, n)
  <1>1. n \in Nat /\ \A i \in 1..n : b[i] \in Seq(S)
    OBVIOUS
  <1>2. CASE n = 0
    <2>1. out = b /\ b = <<>>
      BY <1>2 DEF FlattenSeq
    <2> QED
      BY <2>1
  <1>3. CASE n # 0
    <2>1. out = f[n]
      BY <1>3 DEF FlattenSeq, IsFlattening
    <2>2. IsFlattening(f, b, n)
      BY <1>1, FlatteningsExist
    <2> HIDE DEF f
    <2>3. \A i \in 1..n : f[i] = IF i = 1 THEN b[i] ELSE f[i - 1] \o b[i]
      BY <2>2 DEF IsFlattening
    <2> DEFINE Fine(k) == /\ f[k] \in Seq(S)
                          /\ \A x \in 1..Len(f[k]) : \E i, o : IsOf(f[k], b, k, x, i, o)
               N == {k \in Nat : k \in 1..n => Fine(k)}
    <2>4. 0 \in N
      OBVIOUS
    <2>5. ASSUME NEW k \in Nat, k \in N PROVE k + 1 \in N
      <3> SUFFICES ASSUME k + 1 \in 1..n PROVE Fine(k + 1)
        OBVIOUS
      <3>1. b[k + 1] \in Seq(S) /\ b[k + 1] # <<>>
        BY <1>1
      <3>2. CASE k = 0
        <4>1. f[1] = b[1] /\ k + 1 = 1
          BY <2>3, <3>2
        <4>2. <<>> \in Seq(S) /\ <<>> \o b[1] = b[1] /\ Len(<<>>) = 0
          BY <3>1, <4>1
        <4>3. \A x \in 1..Len(<<>>) : \E i, o : IsOf(<<>>, b, 0, x, i, o)
          BY <4>2
        <4>4. b[0 + 1] = b[1] /\ b[1] \in Seq(S) /\ b[1] # <<>>
          BY <3>1, <4>1
        <4>5. /\ <<>> \o b[1] \in Seq(S)
              /\ \A x \in 1..Len(<<>> \o b[1]) : \E i, o : IsOf(<<>> \o b[1], b, 0 + 1, x, i, o)
          BY <4>2, <4>3, <4>4, OnePieceMore
        <4>6. 0 + 1 = k + 1
          BY <3>2
        <4> QED
          BY <4>1, <4>2, <4>5, <4>6
      <3>3. CASE k # 0
        <4>1. k \in 1..n /\ Fine(k)
          BY <2>5, <3>3
        <4>2. f[k + 1] = f[k] \o b[k + 1]
          <5>1. k + 1 \in 1..n /\ k + 1 # 1 /\ (k + 1) - 1 = k
            BY <3>3
          <5>2. f[k + 1] = f[(k + 1) - 1] \o b[k + 1]
            BY <2>3, <5>1
          <5> QED
            BY <5>1, <5>2
        <4> DEFINE g == f[k]
        <4>3. g \in Seq(S) /\ \A x \in 1..Len(g) : \E i, o : IsOf(g, b, k, x, i, o)
          BY <4>1
        <4> HIDE DEF g
        <4>4. /\ g \o b[k + 1] \in Seq(S)
              /\ \A x \in 1..Len(g \o b[k + 1]) : \E i, o : IsOf(g \o b[k + 1], b, k + 1, x, i, o)
          BY <3>1, <4>3, OnePieceMore
        <4> QED
          BY <4>2, <4>4 DEF g
      <3> QED
        BY <3>2, <3>3
    <2> HIDE DEF Fine, N
    <2>6. Nat \subseteq N
      BY <2>4, <2>5, NatSetInduction
    <2>7. Fine(n)
      BY <1>1, <1>3, <2>6 DEF N
    <2> QED
      BY <2>1, <2>7 DEF Fine
  <1> QED
    BY <1>2, <1>3

(***************************************************************************)
(* Requests.  Where no call is answered further away than in the next      *)
(* message, the messages that are patched answer every call there.         *)
(***************************************************************************)

AreMessages(msgs) == \A i \in 1..Len(msgs) : \E e, thinking : msgs[i] = Message(e, thinking)
AnsweredNext(msgs) == \A i, j \in 1..Len(msgs) :
    /\ i < j /\ msgs[i].type = "assistant" /\ msgs[j].type = "results"
    /\ msgs[i].uses \cap msgs[j].uses # {}
    => j = i + 1

Joins(msgs, i) == i + 1 \in DOMAIN msgs /\ msgs[i + 1].type = "results"
Filled(msgs, i) ==
    IF i > 1 /\ msgs[i].type = "results"
    THEN [msgs[i] EXCEPT !.uses = @ \union Orphans(msgs, i - 1)] ELSE msgs[i]
Piece(msgs, i) ==
    <<Filled(msgs, i)>> \o IF Orphans(msgs, i) = {} \/ Joins(msgs, i) THEN <<>>
                           ELSE <<Answers(Orphans(msgs, i))>>

LEMMA PatchIsFlattening ==
  ASSUME NEW msgs
  PROVE  PatchOrphanToolUses(msgs) = FlattenSeq([i \in DOMAIN msgs |-> Piece(msgs, i)])
  BY DEF PatchOrphanToolUses, Piece, Filled, Joins

LEMMA FilledIs ==
  ASSUME NEW S, NEW msgs \in Seq(S), AreMessages(msgs), NEW i \in 1..Len(msgs)
  PROVE  LET m == Filled(msgs, i)
         IN  /\ m.type = msgs[i].type /\ msgs[i].uses \subseteq m.uses
             /\ msgs[i].type # "results" => m.uses = msgs[i].uses
             /\ msgs[i].type = "results" /\ i > 1 => Orphans(msgs, i - 1) \subseteq m.uses
  <1> DEFINE o == Orphans(msgs, i - 1)
  <1>1. PICK e, t : msgs[i] = Message(e, t)
    BY DEF AreMessages
  <1> HIDE DEF o
  <1>2. LET m == [msgs[i] EXCEPT !.uses = @ \union o]
        IN  m.type = msgs[i].type /\ m.uses = msgs[i].uses \union o
    BY <1>1 DEF Message
  <1>3. Filled(msgs, i) = IF i > 1 /\ msgs[i].type = "results"
                          THEN [msgs[i] EXCEPT !.uses = @ \union o] ELSE msgs[i]
    BY DEF Filled, o
  <1> QED
    BY <1>2, <1>3 DEF o

LEMMA AnswersAre ==
  ASSUME NEW uses
  PROVE  Answers(uses).type = "results" /\ Answers(uses).uses = uses
  BY DEF Answers, Message, Blank

LEMMA PieceIs ==
  ASSUME NEW msgs, NEW i
  PROVE  /\ Piece(msgs, i) # <<>> /\ Piece(msgs, i)[1] = Filled(msgs, i)
         /\ Orphans(msgs, i) = {} \/ Joins(msgs, i) => Len(Piece(msgs, i)) = 1
         /\ Orphans(msgs, i) # {} /\ ~Joins(msgs, i) =>
               /\ Len(Piece(msgs, i)) = 2
               /\ Piece(msgs, i)[2] = Answers(Orphans(msgs, i))
         /\ \A S : Filled(msgs, i) \in S /\ Answers(Orphans(msgs, i)) \in S => Piece(msgs, i) \in Seq(S)
  <1> DEFINE f == Filled(msgs, i)
             a == Answers(Orphans(msgs, i))
  <1>1. CASE Orphans(msgs, i) = {} \/ Joins(msgs, i)
    <2>1. Piece(msgs, i) = <<f>>
      <3>1. Piece(msgs, i) = <<f>> \o <<>>
        BY <1>1 DEF Piece
      <3> HIDE DEF f
      <3> QED
        BY <3>1
    <2> HIDE DEF f, a
    <2>2. <<f>> # <<>> /\ Len(<<f>>) = 1 /\ <<f>>[1] = f /\ \A S : f \in S => <<f>> \in Seq(S)
      OBVIOUS
    <2> QED
      BY <1>1, <2>1, <2>2 DEF f
  <1>2. CASE ~(Orphans(msgs, i) = {} \/ Joins(msgs, i))
    <2>1. Piece(msgs, i) = <<f>> \o <<a>>
      BY <1>2 DEF Piece
    <2> HIDE DEF f, a
    <2>2. \A S : f \in S /\ a \in S =>
             LET p == <<f>> \o <<a>>
             IN  p \in Seq(S) /\ p # <<>> /\ Len(p) = 2 /\ p[1] = f /\ p[2] = a
      <3> TAKE S
      <3> SUFFICES ASSUME f \in S, a \in S
                   PROVE  LET p == <<f>> \o <<a>>
                          IN  p \in Seq(S) /\ p # <<>> /\ Len(p) = 2 /\ p[1] = f /\ p[2] = a
        OBVIOUS
      <3>1. <<f>> \in Seq(S) /\ <<a>> \in Seq(S) /\ Len(<<f>>) = 1 /\ Len(<<a>>) = 1
            /\ <<f>>[1] = f /\ <<a>>[1] = a
        OBVIOUS
      <3> DEFINE p == <<f>> \o <<a>>
      <3>2. p \in Seq(S) /\ Len(p) = 1 + 1
            /\ \A k \in 1..(1 + 1) : p[k] = IF k <= 1 THEN <<f>>[k] ELSE <<a>>[k - 1]
        BY <3>1, ConcatProperties
      <3> HIDE DEF p
      <3>3. p[1] = f /\ p[2] = a /\ p # <<>>
        BY <3>1, <3>2
      <3> QED
        BY <3>2, <3>3 DEF p
    <2> QED
      BY <1>2, <2>1, <2>2 DEF f, a
  <1> QED
    BY <1>1, <1>2

LEMMA PatchAnswers ==
  ASSUME NEW S, NEW msgs \in Seq(S), AreMessages(msgs), AnsweredNext(msgs),
         NEW out, out = PatchOrphanToolUses(msgs)
  PROVE  \A x \in DOMAIN out :
            out[x].type = "assistant" /\ out[x].uses # {} =>
              /\ x < Len(out)
              /\ out[x + 1].type = "results" /\ out[x].uses \subseteq out[x + 1].uses
  <1> DEFINE n == Len(msgs)
             b == [i \in DOMAIN msgs |-> Piece(msgs, i)]
             T == {Filled(msgs, i) : i \in 1..n} \union {Answers(Orphans(msgs, i)) : i \in 1..n}
  <1>1. n \in Nat /\ DOMAIN msgs = 1..n
    OBVIOUS
  <1>2. out = FlattenSeq(b)
    BY PatchIsFlattening
  <1>3. \A i \in 1..n : Piece(msgs, i) \in Seq(T)
    BY PieceIs
  <1>4. b \in Seq(Seq(T)) /\ Len(b) = n /\ \A i \in 1..n : b[i] = Piece(msgs, i) /\ b[i] # <<>>
    <2>1. b = [i \in 1..n |-> Piece(msgs, i)]
      BY <1>1
    <2> HIDE DEF b, T
    <2> QED
      BY <1>1, <1>3, <2>1, PieceIs
  <1> HIDE DEF b, T
  <1>5. out \in Seq(T) /\ \A x \in 1..Len(out) : \E i, o : IsOf(out, b, n, x, i, o)
    BY <1>2, <1>4, FlattenedPlaces
  <1>6. Len(out) \in Nat /\ DOMAIN out = 1..Len(out)
    BY <1>5
  <1> SUFFICES ASSUME NEW x \in 1..Len(out), out[x].type = "assistant", out[x].uses # {}
               PROVE  x + 1 \in 1..Len(out) /\ out[x + 1].type = "results"
                      /\ out[x].uses \subseteq out[x + 1].uses
    BY <1>6
  <1>7. PICK i, o : IsOf(out, b, n, x, i, o)
    BY <1>5
  <1>8. /\ i \in 1..n /\ o \in 1..Len(b[i]) /\ out[x] = b[i][o]
        /\ o < Len(b[i]) => x + 1 \in 1..Len(out) /\ out[x + 1] = b[i][o + 1]
        /\ o = Len(b[i]) /\ i < n => x + 1 \in 1..Len(out) /\ out[x + 1] = b[i + 1][1]
    BY <1>7 DEF IsOf
  <1>9. o = 1 /\ out[x] = Filled(msgs, i)
    <2>1. Len(b[i]) \in {1, 2}
      BY <1>4, <1>8, PieceIs
    <2>2. CASE o = 2
      <3>1. b[i] = Piece(msgs, i) /\ Len(b[i]) # 1
        <4>1. b[i] = Piece(msgs, i)
          BY <1>4, <1>8
        <4>2. Len(b[i]) # 1
          <5>1. SUFFICES ASSUME Len(b[i]) = 1 PROVE FALSE
            OBVIOUS
          <5>2. o \in 1..1
            BY <1>8, <5>1
          <5>3. o = 1
            BY <5>2
          <5> QED
            BY <2>2, <5>3
        <4> QED
          BY <4>1, <4>2
      <3>2. ~(Orphans(msgs, i) = {} \/ Joins(msgs, i))
        BY <3>1, PieceIs
      <3>3. b[i][2] = Answers(Orphans(msgs, i))
        BY <3>1, <3>2, PieceIs
      <3>4. out[x] = Answers(Orphans(msgs, i))
        BY <1>8, <2>2, <3>3
      <3> QED
        BY <3>4, AnswersAre
    <2>3. o \in {1, 2}
      BY <1>8, <2>1
    <2> QED
      BY <1>4, <1>8, <2>2, <2>3, PieceIs
  <1>10. msgs[i].type = "assistant" /\ out[x].uses = msgs[i].uses
    BY <1>8, <1>9, FilledIs
  <1>11. ASSUME NEW u \in msgs[i].uses, u \notin Orphans(msgs, i)
         PROVE  i + 1 \in 1..n /\ msgs[i + 1].type = "results" /\ u \in msgs[i + 1].uses
    <2>1. PICK j \in 1..n : j > i /\ msgs[j].type = "results" /\ u \in msgs[j].uses
      BY <1>1, <1>10, <1>11 DEF Orphans
    <2>2. j = i + 1
      BY <1>8, <1>10, <2>1 DEF AnsweredNext
    <2> QED
      BY <2>1, <2>2
  <1>12. CASE Joins(msgs, i)
    <2>1. i + 1 \in 1..n /\ msgs[i + 1].type = "results" /\ Len(b[i]) = 1
      <3>1. i + 1 \in 1..n /\ msgs[i + 1].type = "results"
        BY <1>1, <1>12 DEF Joins
      <3>2. Len(Piece(msgs, i)) = 1
        BY <1>12, PieceIs
      <3> QED
        BY <1>4, <1>8, <3>1, <3>2
    <2>2. x + 1 \in 1..Len(out) /\ out[x + 1] = Filled(msgs, i + 1)
      BY <1>1, <1>4, <1>8, <1>9, <2>1, PieceIs
    <2>3. /\ out[x + 1].type = "results" /\ msgs[i + 1].uses \subseteq out[x + 1].uses
          /\ Orphans(msgs, i) \subseteq out[x + 1].uses
      <3>1. (i + 1) - 1 = i /\ i + 1 > 1
        BY <1>8
      <3> QED
        BY <2>1, <2>2, <3>1, FilledIs
    <2> QED
      BY <1>10, <1>11, <2>2, <2>3
  <1>13. CASE ~Joins(msgs, i)
    <2>1. msgs[i].uses \subseteq Orphans(msgs, i)
      BY <1>1, <1>11, <1>13 DEF Joins
    <2>2. Orphans(msgs, i) # {}
      BY <1>10, <2>1
    <2>3. Len(b[i]) = 2 /\ b[i][2] = Answers(Orphans(msgs, i))
      BY <1>4, <1>8, <1>13, <2>2, PieceIs
    <2>4. x + 1 \in 1..Len(out) /\ out[x + 1] = Answers(Orphans(msgs, i))
      BY <1>8, <1>9, <2>3
    <2> QED
      BY <1>10, <2>1, <2>4, AnswersAre
  <1> QED
    BY <1>12, <1>13

\* No call of a message is answered further away than in the next one.
Paired(m) == \A i, j \in DOMAIN m.nodes :
    /\ i < j
    /\ m.entries[m.nodes[i]].type = "assistant" /\ m.entries[m.nodes[j]].type = "results"
    /\ m.entries[m.nodes[i]].uses \cap m.entries[m.nodes[j]].uses # {}
    => j = i + 1

\* The messages of a request before they are patched.
Sent == SubSeq(DeriveMessages(mem), skip + 1, Len(mem.nodes))

LEMMA ShownMessages ==
  ASSUME LogTypes
  PROVE  /\ RequestMessages = PatchOrphanToolUses(Sent) /\ AreMessages(Sent)
         /\ \E S : Sent \in Seq(S)
         /\ \A i \in 1..Len(Sent) :
               /\ skip + i \in 1..Len(mem.nodes)
               /\ Sent[i].type = mem.entries[mem.nodes[skip + i]].type
               /\ Sent[i].uses = mem.entries[mem.nodes[skip + i]].uses
  <1> DEFINE all == DeriveMessages(mem)
             n == Len(mem.nodes)
             msgs == SubSeq(all, skip + 1, n)
             S == {all[i] : i \in 1..n}
  <1>1. n \in Nat /\ DOMAIN mem.nodes = 1..n /\ skip \in Nat
    BY DEF LogTypes, WellFormed, Memory
  <1>2. /\ all \in Seq(S) /\ Len(all) = n
        /\ \A i \in 1..n : LET e == mem.entries[mem.nodes[i]] IN
              /\ \E thinking : all[i] = Message(e, thinking)
              /\ all[i].type = e.type /\ all[i].uses = e.uses
    <2> DEFINE entry(i) == mem.entries[mem.nodes[i]]
               thinking(i) == IF entry(i).type = "assistant" /\ entry(i).uses # {}
                              THEN ThinkingBetween(mem, i) ELSE {}
    <2>1. all = [i \in 1..n |-> Message(entry(i), thinking(i))]
      BY <1>1 DEF DeriveMessages
    <2> HIDE DEF all, entry, thinking
    <2>2. all \in Seq(S) /\ Len(all) = n
      <3>1. DOMAIN all = 1..n /\ all = [i \in 1..n |-> all[i]]
        BY <2>1
      <3>2. \A i \in 1..n : all[i] \in S
        OBVIOUS
      <3> HIDE DEF S
      <3>3. all \in Seq(S)
        BY <1>1, <3>1, <3>2
      <3> QED
        BY <1>1, <3>1, <3>3
    <2>3. \A e, t : Message(e, t).type = e.type /\ Message(e, t).uses = e.uses
      BY DEF Message
    <2>4. \A i \in 1..n : all[i] = Message(entry(i), thinking(i))
      BY <2>1
    <2>5. \A i \in 1..n : all[i].type = entry(i).type /\ all[i].uses = entry(i).uses
      BY <2>3, <2>4
    <2> QED
      BY <2>2, <2>4, <2>5 DEF entry
  <1> HIDE DEF all, S
  <1>3. \A i \in (skip + 1)..n : all[i] \in S
    BY <1>1, <1>2
  <1>4. /\ msgs \in Seq(S) /\ Len(msgs) = IF skip + 1 <= n THEN n - (skip + 1) + 1 ELSE 0
        /\ \A i \in 1..(n - (skip + 1) + 1) : msgs[i] = all[(skip + 1) + i - 1]
    <2>1. skip + 1 \in Int /\ n \in Int
      BY <1>1
    <2> HIDE DEF n
    <2> QED
      BY <1>3, <2>1, SubSeqProperties
  <1> HIDE DEF msgs
  <1>5. \A i \in 1..Len(msgs) : skip + i \in 1..n /\ msgs[i] = all[skip + i]
    BY <1>1, <1>4
  <1>6. AreMessages(msgs)
    BY <1>2, <1>5 DEF AreMessages
  <1> QED
    BY <1>2, <1>4, <1>5, <1>6 DEF RequestMessages, Sent, msgs, all

LEMMA PairedAnswers == ASSUME LogTypes, Paired(mem) PROVE EveryCallIsAnswered
  <1>1. /\ RequestMessages = PatchOrphanToolUses(Sent) /\ AreMessages(Sent)
        /\ \A i \in 1..Len(Sent) :
              /\ skip + i \in 1..Len(mem.nodes)
              /\ Sent[i].type = mem.entries[mem.nodes[skip + i]].type
              /\ Sent[i].uses = mem.entries[mem.nodes[skip + i]].uses
    BY ShownMessages
  <1>2. PICK S : Sent \in Seq(S)
    BY ShownMessages
  <1>3. DOMAIN mem.nodes = 1..Len(mem.nodes) /\ Len(mem.nodes) \in Nat /\ skip \in Nat
        /\ Len(Sent) \in Nat
    BY <1>2 DEF LogTypes, WellFormed, Memory
  <1> HIDE DEF Sent
  <1>4. AnsweredNext(Sent)
    <2> SUFFICES ASSUME NEW i \in 1..Len(Sent), NEW j \in 1..Len(Sent), i < j,
                        Sent[i].type = "assistant", Sent[j].type = "results",
                        Sent[i].uses \cap Sent[j].uses # {}
                 PROVE  j = i + 1
      BY DEF AnsweredNext
    <2>1. skip + i \in 1..Len(mem.nodes) /\ skip + j \in 1..Len(mem.nodes) /\ skip + i < skip + j
      BY <1>1, <1>3
    <2>2. skip + j = (skip + i) + 1
      BY <1>1, <1>3, <2>1 DEF Paired
    <2> QED
      BY <1>3, <2>2
  <1> QED
    BY <1>1, <1>2, <1>4, PatchAnswers DEF EveryCallIsAnswered

(***************************************************************************)
(* Memories in which no call of a message is answered further away than in *)
(* the next one, and what an entry leaves of that.                         *)
(***************************************************************************)

\* Where a splice leaves what it keeps: before the summary or behind it, and
\* at least one node further apart when it stands between.
IsSplice(new, nodes, q, x, c) ==
    \A i \in 1..Len(new) :
       \/ i = x /\ new[i] = q
       \/ i < x /\ i \in 1..Len(nodes) /\ new[i] = nodes[i]
       \/ i > x /\ i + c - 1 \in 1..Len(nodes) /\ new[i] = nodes[i + c - 1]

LEMMA SplicedPlaces ==
  ASSUME NEW nodes \in Seq(Nat), NEW covers, NEW q \in Nat,
         NEW new, new = Spliced(nodes, covers, q), new # nodes
  PROVE  \E x \in Nat, c \in Nat \ {0} : IsSplice(new, nodes, q, x, c)
  <1> DEFINE hit == {i \in DOMAIN nodes : nodes[i] \in covers}
             n == Len(nodes)
             x == Min(hit)
             c == Cardinality(hit)
             a == SubSeq(nodes, 1, x - 1)
             z == SubSeq(nodes, x + c, n)
             T == Nat
  <1>1. n \in Nat /\ DOMAIN nodes = 1..n /\ \A i \in 1..n : nodes[i] \in Nat
    OBVIOUS
  <1>2. hit # {} /\ new = a \o <<q>> \o z
    BY DEF Spliced
  <1>3. x \in 1..n
    <2>1. hit \in SUBSET Nat
      BY <1>1
    <2>2. x \in hit
      BY <1>2, <2>1, LeastOfNats
    <2> QED
      BY <1>1, <2>2
  <1>4. c \in Nat /\ c # 0
    <2>1. hit \subseteq 1..n
      BY <1>1
    <2>2. IsFiniteSet(1..n)
      BY <1>1, FS_Interval
    <2>3. IsFiniteSet(hit)
      BY <2>1, <2>2, FS_Subset
    <2> HIDE DEF hit
    <2> QED
      BY <1>2, <2>3, FS_CardinalityType, FS_EmptySet
  <1> HIDE DEF hit, n, x, c
  <1>5. a \in Seq(Nat) /\ Len(a) = x - 1 /\ \A i \in 1..(x - 1) : a[i] = nodes[i]
    <2>1. 1 \in Int /\ x - 1 \in Int /\ \A i \in 1..(x - 1) : nodes[i] \in Nat
      BY <1>1, <1>3
    <2>2. /\ a \in Seq(Nat) /\ Len(a) = IF 1 <= x - 1 THEN (x - 1) - 1 + 1 ELSE 0
          /\ \A i \in 1..((x - 1) - 1 + 1) : a[i] = nodes[1 + i - 1]
      BY <2>1, SubSeqProperties
    <2> HIDE DEF a
    <2> QED
      BY <1>1, <1>3, <2>2
  <1>6. /\ z \in Seq(Nat) /\ Len(z) = IF x + c <= n THEN n - (x + c) + 1 ELSE 0
        /\ \A i \in 1..(n - (x + c) + 1) : z[i] = nodes[(x + c) + i - 1]
    <2>1. x + c \in Int /\ n \in Int /\ \A i \in (x + c)..n : nodes[i] \in Nat
      BY <1>1, <1>3, <1>4
    <2> QED
      BY <2>1, SubSeqProperties
  <1> HIDE DEF a, z
  <1>7. /\ a \o <<q>> \in Seq(Nat) /\ Len(a \o <<q>>) = x
        /\ \A i \in 1..x : (a \o <<q>>)[i] = IF i <= x - 1 THEN a[i] ELSE q
    <2>1. <<q>> \in Seq(Nat) /\ Len(<<q>>) = 1 /\ <<q>>[1] = q
      OBVIOUS
    <2>2. /\ a \o <<q>> \in Seq(Nat) /\ Len(a \o <<q>>) = (x - 1) + 1
          /\ \A i \in 1..((x - 1) + 1) : (a \o <<q>>)[i] = IF i <= x - 1 THEN a[i] ELSE <<q>>[i - (x - 1)]
      BY <1>5, <2>1, ConcatProperties
    <2>3. \A i \in 1..x : ~(i <= x - 1) => i - (x - 1) = 1
      BY <1>1, <1>3
    <2>4. (x - 1) + 1 = x
      BY <1>1, <1>3
    <2> QED
      BY <2>1, <2>2, <2>3, <2>4
  <1>8. /\ Len(new) = x + Len(z)
        /\ \A i \in 1..(x + Len(z)) : new[i] = IF i <= x THEN (a \o <<q>>)[i] ELSE z[i - x]
    <2> DEFINE A == a \o <<q>>
    <2>1. A \in Seq(Nat) /\ Len(A) = x /\ z \in Seq(Nat) /\ new = A \o z
      BY <1>2, <1>6, <1>7
    <2> HIDE DEF A
    <2>2. /\ Len(A \o z) = Len(A) + Len(z)
          /\ \A i \in 1..(Len(A) + Len(z)) : (A \o z)[i] = IF i <= Len(A) THEN A[i] ELSE z[i - Len(A)]
      BY <2>1, ConcatProperties
    <2>3. /\ Len(new) = x + Len(z)
          /\ \A i \in 1..(x + Len(z)) : new[i] = IF i <= x THEN A[i] ELSE z[i - x]
      BY <2>1, <2>2
    <2> QED
      BY <2>3 DEF A
  <1>9. ASSUME NEW i \in 1..Len(new)
        PROVE  \/ i = x /\ new[i] = q
               \/ i < x /\ i \in 1..n /\ new[i] = nodes[i]
               \/ i > x /\ i + c - 1 \in 1..n /\ new[i] = nodes[i + c - 1]
    <2>1. i \in 1..(x + Len(z)) /\ x \in Nat /\ Len(z) \in Nat
      BY <1>1, <1>3, <1>6, <1>8
    <2>2. CASE i < x
      <3>1. i \in 1..x /\ i <= x - 1 /\ i \in 1..n /\ i \in 1..(x - 1) /\ i <= x
        BY <1>1, <1>3, <2>1, <2>2
      <3> QED
        BY <1>5, <1>7, <1>8, <2>1, <2>2, <3>1
    <2>3. CASE i = x
      <3>1. i \in 1..x /\ ~(i <= x - 1) /\ i <= x
        BY <1>1, <1>3, <2>1, <2>3
      <3> QED
        BY <1>7, <1>8, <2>1, <2>3, <3>1
    <2>4. CASE i > x
      <3>1. new[i] = z[i - x] /\ i - x \in 1..Len(z)
        BY <1>8, <2>1, <2>4
      <3>2. x + c <= n /\ i - x \in 1..(n - (x + c) + 1)
        BY <1>1, <1>3, <1>4, <1>6, <3>1
      <3>3. z[i - x] = nodes[(x + c) + (i - x) - 1] /\ (x + c) + (i - x) - 1 = i + c - 1
            /\ i + c - 1 \in 1..n
        BY <1>1, <1>3, <1>4, <1>6, <2>1, <3>2
      <3> QED
        BY <2>4, <3>1, <3>3
    <2> QED
      BY <1>1, <1>3, <2>1, <2>2, <2>3, <2>4
  <1>10. x \in Nat /\ c \in Nat \ {0}
    BY <1>1, <1>3, <1>4
  <1> QED
    BY <1>9, <1>10 DEF n, IsSplice

\* Two nodes that an entry leaves stand for two nodes before it, and are not
\* next to each other unless they have been, nor does the order change.
LEMMA PlacesAfter ==
  ASSUME NEW m \in Memory, NEW e, NEW q \in Nat, q \notin ToSet(m.nodes),
         NEW new, new = NodesAfter(m.nodes, e, q)
  PROVE  /\ \A i \in 1..Len(new) : new[i] = q \/ \E k \in 1..Len(m.nodes) : new[i] = m.nodes[k]
         /\ \A i, j \in 1..Len(new) : i < j /\ new[i] # q /\ new[j] # q =>
               \E k, l \in 1..Len(m.nodes) :
                  /\ k < l /\ new[i] = m.nodes[k] /\ new[j] = m.nodes[l]
                  /\ l = k + 1 => j = i + 1
         /\ e.type \notin {"start", "thinking", "summary"} =>
               /\ Len(new) = Len(m.nodes) + 1 /\ new[Len(new)] = q
               /\ \A i \in 1..Len(m.nodes) : new[i] = m.nodes[i]
  <1>1. m.nodes \in Seq(Nat) /\ Len(m.nodes) \in Nat /\ DOMAIN m.nodes = 1..Len(m.nodes)
    BY DEF Memory
  <1>2. CASE new = m.nodes
    <2>1. ~(e.type \notin {"start", "thinking", "summary"})
      <3> SUFFICES ASSUME e.type \notin {"start", "thinking", "summary"} PROVE FALSE
        OBVIOUS
      <3>1. new = Append(m.nodes, q)
        BY DEF NodesAfter
      <3> QED
        BY <1>1, <1>2, <3>1, AppendTo
    <2> QED
      BY <1>2, <2>1
  <1>3. CASE e.type \notin {"start", "thinking", "summary"}
    <2>1. new = Append(m.nodes, q)
      BY <1>3 DEF NodesAfter
    <2>2. /\ Len(new) = Len(m.nodes) + 1 /\ new[Len(m.nodes) + 1] = q
          /\ \A i \in 1..Len(m.nodes) : new[i] = m.nodes[i]
      BY <1>1, <2>1, AppendTo
    <2>3. ASSUME NEW i \in 1..Len(new), new[i] # q
          PROVE  i \in 1..Len(m.nodes) /\ new[i] = m.nodes[i]
      <3>1. i # Len(m.nodes) + 1
        BY <2>2, <2>3
      <3>2. i \in 1..Len(m.nodes)
        BY <1>1, <2>2, <3>1
      <3> QED
        BY <2>2, <3>2
    <2> QED
      BY <1>3, <2>2, <2>3
  <1>4. CASE e.type = "summary" /\ new # m.nodes
    <2>1. new = Spliced(m.nodes, e.covers, q)
      BY <1>4 DEF NodesAfter
    <2>2. PICK x \in Nat, c \in Nat \ {0} : IsSplice(new, m.nodes, q, x, c)
      BY <1>1, <1>4, <2>1, SplicedPlaces
    <2> DEFINE g(i) == IF i < x THEN i ELSE i + c - 1
    <2>3. ASSUME NEW i \in 1..Len(new), new[i] # q
          PROVE  i # x /\ g(i) \in 1..Len(m.nodes) /\ new[i] = m.nodes[g(i)]
      <3>0. \/ i = x /\ new[i] = q
            \/ i < x /\ i \in 1..Len(m.nodes) /\ new[i] = m.nodes[i]
            \/ i > x /\ i + c - 1 \in 1..Len(m.nodes) /\ new[i] = m.nodes[i + c - 1]
        BY <2>2 DEF IsSplice
      <3>1. i # x => i < x \/ i > x
        OBVIOUS
      <3>2. i # x
        <4> SUFFICES ASSUME i = x PROVE FALSE
          OBVIOUS
        <4>1. ~(i < x) /\ ~(i > x)
          OBVIOUS
        <4> QED
          BY <2>3, <3>0, <4>1
      <3>3. CASE i < x
        BY <2>3, <3>0, <3>3
      <3>4. CASE i > x
        BY <2>3, <3>0, <3>4
      <3> QED
        BY <3>1, <3>2, <3>3, <3>4
    <2>4. ASSUME NEW i \in 1..Len(new), NEW j \in 1..Len(new), i < j, i # x, j # x
          PROVE  g(i) < g(j) /\ (g(j) = g(i) + 1 => j = i + 1)
      <3>1. i \in Nat /\ j \in Nat
        OBVIOUS
      <3>2. CASE j < x
        BY <2>4, <3>1, <3>2
      <3>3. CASE i > x
        BY <2>4, <3>1, <3>3
      <3>4. CASE i < x /\ x < j
        <4>1. g(i) = i /\ g(j) = j + c - 1
          BY <3>1, <3>4
        <4> QED
          BY <3>1, <3>4, <4>1
      <3> QED
        BY <2>4, <3>1, <3>2, <3>3, <3>4
    <2> HIDE DEF g
    <2>5. ASSUME NEW i \in 1..Len(new), NEW j \in 1..Len(new), i < j, new[i] # q, new[j] # q
          PROVE  \E k, l \in 1..Len(m.nodes) :
                    /\ k < l /\ new[i] = m.nodes[k] /\ new[j] = m.nodes[l]
                    /\ l = k + 1 => j = i + 1
      BY <2>3, <2>4, <2>5
    <2> QED
      BY <1>4, <2>3, <2>5
  <1>5. e.type \in {"start", "thinking"} => new = m.nodes
    BY DEF NodesAfter
  <1> QED
    BY <1>2, <1>3, <1>4, <1>5

\* An entry keeps the messages paired, if results come right after the calls
\* they share.
LEMMA PairedAfter ==
  ASSUME NEW m, WellFormed(m), Paired(m), NEW M, NEW e \in Entry, NEW q \in Nat,
         Adds(m, M, e, q), q \notin InUse(m),
         e.type = "results" =>
            \A i \in DOMAIN m.nodes :
               LET f == m.entries[m.nodes[i]]
               IN  f.type = "assistant" /\ f.uses \cap e.uses # {} => i = Len(m.nodes)
  PROVE  Paired(M)
  <1>1. m \in Memory /\ M \in Memory /\ q \notin ToSet(m.nodes)
    BY DEF WellFormed, Adds, InUse
  <1>2. /\ DOMAIN m.nodes = 1..Len(m.nodes) /\ Len(m.nodes) \in Nat
        /\ DOMAIN M.nodes = 1..Len(M.nodes) /\ Len(M.nodes) \in Nat
    BY <1>1 DEF Memory
  <1>3. M.nodes = NodesAfter(m.nodes, e, q)
    BY DEF Adds
  <1> DEFINE new == M.nodes
  <1>4. /\ \A i \in 1..Len(new) : new[i] = q \/ \E k \in 1..Len(m.nodes) : new[i] = m.nodes[k]
        /\ \A i, j \in 1..Len(new) : i < j /\ new[i] # q /\ new[j] # q =>
              \E k, l \in 1..Len(m.nodes) :
                 /\ k < l /\ new[i] = m.nodes[k] /\ new[j] = m.nodes[l]
                 /\ l = k + 1 => j = i + 1
        /\ e.type \notin {"start", "thinking", "summary"} =>
              /\ Len(new) = Len(m.nodes) + 1 /\ new[Len(new)] = q
              /\ \A i \in 1..Len(m.nodes) : new[i] = m.nodes[i]
    BY <1>1, <1>3, PlacesAfter
  <1>5. \A k \in 1..Len(m.nodes) : m.nodes[k] # q /\ M.entries[m.nodes[k]] = m.entries[m.nodes[k]]
    <2>1. \A k \in 1..Len(m.nodes) : m.nodes[k] \in InUse(m)
      BY <1>2 DEF InUse, ToSet
    <2> QED
      BY <2>1 DEF WellFormed, Adds
  <1>6. q \in ToSet(new) => M.entries[q].type = e.type /\ M.entries[q].uses = e.uses
    <2> SUFFICES ASSUME q \in ToSet(new)
                 PROVE  M.entries[q].type = e.type /\ M.entries[q].uses = e.uses
      OBVIOUS
    <2>1. e.type # "start"
      <3> SUFFICES ASSUME e.type = "start" PROVE FALSE
        OBVIOUS
      <3>1. new = m.nodes
        BY <1>3 DEF NodesAfter
      <3> QED
        BY <1>1, <3>1
    <2>2. M.entries[q] = [e EXCEPT !.seq = q]
      BY <2>1 DEF Adds
    <2> QED
      BY <2>2 DEF Entry
  <1> SUFFICES ASSUME NEW i \in 1..Len(new), NEW j \in 1..Len(new), i < j,
                      M.entries[new[i]].type = "assistant", M.entries[new[j]].type = "results",
                      M.entries[new[i]].uses \cap M.entries[new[j]].uses # {}
               PROVE  j = i + 1
    BY <1>2 DEF Paired
  <1>7. CASE new[i] # q /\ new[j] # q
    <2>1. PICK k \in 1..Len(m.nodes), l \in 1..Len(m.nodes) :
             /\ k < l /\ new[i] = m.nodes[k] /\ new[j] = m.nodes[l]
             /\ l = k + 1 => j = i + 1
      BY <1>4, <1>7
    <2>2. M.entries[m.nodes[k]] = m.entries[m.nodes[k]] /\ M.entries[m.nodes[l]] = m.entries[m.nodes[l]]
      BY <1>5
    <2>3. l = k + 1
      BY <1>2, <2>1, <2>2 DEF Paired
    <2> QED
      BY <2>1, <2>3
  <1>8. CASE new[j] = q
    <2>1. q \in ToSet(new)
      BY <1>2, <1>8 DEF ToSet
    <2>2. e.type = "results" /\ e.uses = M.entries[new[j]].uses
      BY <1>6, <1>8, <2>1
    <2>3. /\ Len(new) = Len(m.nodes) + 1 /\ new[Len(new)] = q
          /\ \A k \in 1..Len(m.nodes) : new[k] = m.nodes[k]
      BY <1>4, <2>2
    <2>4. j = Len(m.nodes) + 1
      <3>1. j \notin 1..Len(m.nodes)
        BY <1>5, <1>8, <2>3
      <3> QED
        BY <1>2, <2>3, <3>1
    <2>5. i \in 1..Len(m.nodes)
      BY <1>2, <2>4
    <2>6. m.entries[m.nodes[i]] = M.entries[new[i]]
      BY <1>5, <2>3, <2>5
    <2>7. i = Len(m.nodes)
      BY <1>2, <2>2, <2>5, <2>6
    <2> QED
      BY <2>4, <2>7
  <1>9. CASE new[i] = q /\ new[j] # q
    <2>1. q \in ToSet(new)
      BY <1>2, <1>9 DEF ToSet
    <2>2. e.type = "assistant"
      BY <1>6, <1>9, <2>1
    <2>3. /\ Len(new) = Len(m.nodes) + 1
          /\ \A k \in 1..Len(m.nodes) : new[k] = m.nodes[k]
      BY <1>4, <2>2
    <2>4. i \notin 1..Len(m.nodes)
      BY <1>5, <1>9, <2>3
    <2> QED
      BY <1>2, <2>3, <2>4
  <1> QED
    BY <1>7, <1>8, <1>9

(***************************************************************************)
(* A tidy file that is in the order in which it was written is replayed as *)
(* paired messages.                                                        *)
(***************************************************************************)

Shown(s) == {e \in ToSet(s) : Parses(e)}
Ordered(s) == \A i, j \in DOMAIN s :
    i < j /\ Parses(s[i]) /\ Parses(s[j]) => s[i].id < s[j].id

LEMMA ShownLines ==
  ASSUME NEW s \in Seq(Entry)
  PROVE  /\ \A i \in 1..Len(s) : Parses(s[i]) => s[i] \in Shown(s) /\ s[i] \in Entry
         /\ \A e \in Shown(s) : e \in Entry /\ e.id \in Int /\ e.seq \in Nat
  <1>1. \A i \in 1..Len(s) : Parses(s[i]) => s[i] \in Shown(s) /\ s[i] \in Entry
    BY DEF Shown, ToSet
  <1>2. \A e \in Shown(s) : e \in Entry
    BY DEF Shown, ToSet
  <1>3. \A e \in Entry : e.id \in Int /\ e.seq \in Nat
    BY DEF Entry
  <1> QED
    BY <1>1, <1>2, <1>3

LEMMA InUseAfter ==
  ASSUME NEW m \in Memory, NEW M, NEW e, NEW q \in Nat, Adds(m, M, e, q)
  PROVE  InUse(M) \subseteq InUse(m) \union {q} /\ (e.type = "start" => InUse(M) = InUse(m))
  <1>1. InUse(M) = ToSet(NodesAfter(m.nodes, e, q)) \union ThinkingAfter(m.thinkingSeqs, e, q)
    BY DEF Adds, InUse
  <1> QED
    BY <1>1, AfterTypes

\* What is in use comes from a line, and a message of the assistant that no
\* later line follows is the last.
FromLines(m, s, k) == \A n \in InUse(m) :
    \E p \in 1..k : IsRead(s[p]) /\ s[p].seq = n /\ m.entries[n] = s[p]
LatestIsLast(m, s, k) == \A i \in DOMAIN m.nodes :
    LET f == m.entries[m.nodes[i]]
    IN  /\ f.type = "assistant"
        /\ \A l \in 1..k : s[l].type \in NodeTypes => s[l].id <= f.id
        => i = Len(m.nodes)

LEMMA OrderedStep ==
  ASSUME NEW s \in Seq(Entry), Ordered(s), Tidy(Shown(s)),
         NEW k \in Nat, k + 1 \in 1..Len(s),
         NEW m, WellFormed(m), Paired(m), FromLines(m, s, k), LatestIsLast(m, s, k),
         NEW M, M = Replayed(m, s[k + 1])
  PROVE  WellFormed(M) /\ Paired(M) /\ FromLines(M, s, k + 1) /\ LatestIsLast(M, s, k + 1)
  <1> DEFINE e == s[k + 1]
  <1>1. e \in Entry /\ m \in Memory /\ WellFormed(M) /\ DOMAIN s = 1..Len(s) /\ Len(s) \in Nat
    BY ReplayedKeepsForm DEF WellFormed
  <1>2. \A p \in 1..k : p \in 1..(k + 1) /\ p \in DOMAIN s /\ p < k + 1 /\ s[p] \in Entry
    BY <1>1
  <1>3. \A e1, e2 \in Shown(s) :
           /\ Owned(e1) /\ (e1.type \notin Unnumbered => e1.seq > 0)
           /\ e1.type = "results" /\ e2.type \in NodeTypes =>
                 \A u \in e1.uses : ~(u[1] < e2.id /\ e2.id < e1.id)
           /\ {e1.type, e2.type} \cap Unnumbered = {} /\ e1.id < e2.id => e1.seq < e2.seq
    BY DEF Tidy
  <1>4. \A p \in 1..k : Parses(s[p]) /\ Parses(e) => s[p].id < e.id
    BY <1>1, <1>2 DEF Ordered
  <1>5. CASE ~IsRead(e)
    <2>1. M = m
      BY <1>5 DEF Replayed, IsRead, Parses, Unnumbered
    <2>2. FromLines(M, s, k + 1)
      BY <1>2, <2>1 DEF FromLines
    <2>3. LatestIsLast(M, s, k + 1)
      BY <1>2, <2>1 DEF LatestIsLast
    <2> QED
      BY <1>1, <2>1, <2>2, <2>3
  <1>6. CASE IsRead(e)
    <2> DEFINE q == e.seq
    <2>1. e \in Shown(s) /\ Parses(e) /\ e.type \notin Unnumbered
      BY <1>6, ShownLines DEF IsRead
    <2>2. q \in Nat /\ q > 0 /\ NumberIn(m, e) = q
      BY SMTT(20), <1>1, <1>3, <2>1 DEF Entry, NumberIn
    <2>3. Adds(m, M, e, q)
      BY <1>1, <1>6, <2>2, ReplayedAdds
    <2> HIDE DEF q
    <2>4. ASSUME NEW n \in InUse(m)
          PROVE  /\ n # q /\ n \in DOMAIN m.entries /\ M.entries[n] = m.entries[n]
                 /\ m.entries[n] \in Shown(s) /\ m.entries[n].id < e.id
                 /\ \E p \in 1..(k + 1) : IsRead(s[p]) /\ s[p].seq = n /\ m.entries[n] = s[p]
      <3>1. PICK p \in 1..k : IsRead(s[p]) /\ s[p].seq = n /\ m.entries[n] = s[p]
        BY DEF FromLines
      <3>2. s[p] \in Shown(s) /\ s[p].id < e.id /\ s[p].type \notin Unnumbered /\ s[p] \in Entry
        <4>1. p \in 1..Len(s)
          BY <1>1, <1>2
        <4> QED
          BY <1>4, <2>1, <3>1, <4>1, ShownLines DEF IsRead
      <3>3. s[p].seq < q
        BY <1>3, <2>1, <3>2 DEF q
      <3>4. n # q
        BY <2>2, <3>1, <3>2, <3>3 DEF Entry
      <3>5. n \in DOMAIN m.entries /\ M.entries[n] = m.entries[n]
        BY <2>3, <3>4 DEF Adds, WellFormed
      <3> QED
        BY <1>2, <3>1, <3>2, <3>4, <3>5
    <2>5. /\ InUse(M) \subseteq InUse(m) \union {q}
          /\ e.type = "start" => InUse(M) = InUse(m)
      BY <1>1, <2>2, <2>3, InUseAfter
    <2>6. e.type # "start" => M.entries[q] = e
      <3>1. [e EXCEPT !.seq = q] = e
        BY <1>1 DEF Entry, q
      <3> QED
        BY <2>3, <3>1 DEF Adds
    <2>7. FromLines(M, s, k + 1)
      <3> SUFFICES ASSUME NEW n \in InUse(M)
                   PROVE  \E p \in 1..(k + 1) : IsRead(s[p]) /\ s[p].seq = n /\ M.entries[n] = s[p]
        BY DEF FromLines
      <3>1. CASE n \in InUse(m)
        BY <2>4, <3>1
      <3>2. CASE n \notin InUse(m)
        <4>1. n = q /\ e.type # "start"
          BY <2>5, <3>2
        <4>2. k + 1 \in 1..(k + 1)
          OBVIOUS
        <4> QED
          BY <1>6, <2>6, <4>1, <4>2 DEF q
      <3> QED
        BY <3>1, <3>2
    <2>8. \A i \in DOMAIN m.nodes : m.nodes[i] \in InUse(m)
      BY DEF InUse, ToSet
    <2>9. ASSUME e.type = "results", NEW i \in DOMAIN m.nodes,
                 m.entries[m.nodes[i]].type = "assistant",
                 m.entries[m.nodes[i]].uses \cap e.uses # {}
          PROVE  i = Len(m.nodes)
      <3> DEFINE f == m.entries[m.nodes[i]]
      <3>1. f \in Shown(s) /\ f.id < e.id
        BY <2>4, <2>8
      <3>2. PICK u \in e.uses : u \in f.uses
        BY <2>9
      <3>3. u[1] = f.id
        BY <1>3, <2>9, <3>1, <3>2 DEF Owned
      <3>4. ASSUME NEW l \in 1..k, s[l].type \in NodeTypes PROVE s[l].id <= f.id
        <4>1. Parses(s[l])
          BY <3>4 DEF NodeTypes, Parses
        <4>2. s[l].id < e.id /\ s[l] \in Shown(s) /\ s[l] \in Entry
          <5>1. l \in 1..Len(s)
            BY <1>1, <1>2
          <5> QED
            BY <1>4, <2>1, <4>1, <5>1, ShownLines
        <4>3. ~(f.id < s[l].id)
          BY <1>3, <2>1, <2>9, <3>2, <3>3, <3>4, <4>2
        <4>4. s[l].id \in Int /\ f.id \in Int
          BY <3>1, <4>2, ShownLines
        <4> QED
          BY <4>3, <4>4
      <3> QED
        BY <2>9, <3>4 DEF LatestIsLast
    <2>10. q \notin InUse(m)
      BY <2>4
    <2>11. Paired(M)
      BY <1>1, <2>2, <2>3, <2>9, <2>10, PairedAfter
    <2>12. LatestIsLast(M, s, k + 1)
      <3> SUFFICES ASSUME NEW i \in DOMAIN M.nodes, M.entries[M.nodes[i]].type = "assistant",
                          \A l \in 1..(k + 1) :
                             s[l].type \in NodeTypes => s[l].id <= M.entries[M.nodes[i]].id
                   PROVE  i = Len(M.nodes)
        BY DEF LatestIsLast
      <3>1. CASE e.type \notin NodeTypes
        <4>1. M.nodes = m.nodes
          <5>1. e.type \in {"thinking", "start"}
            BY <1>1, <2>1, <3>1 DEF Entry, NodeTypes, Unnumbered, Parses
          <5> QED
            BY <2>3, <5>1 DEF Adds, NodesAfter
        <4>2. M.entries[M.nodes[i]] = m.entries[m.nodes[i]]
          BY <2>4, <2>8, <4>1
        <4> QED
          BY <1>2, <4>1, <4>2 DEF LatestIsLast
      <3>2. CASE e.type \in NodeTypes
        <4>1. e.id <= M.entries[M.nodes[i]].id
          <5>1. k + 1 \in 1..(k + 1)
            OBVIOUS
          <5> QED
            BY <3>2, <5>1
        <4>2. M.nodes[i] \notin InUse(m)
          <5> SUFFICES ASSUME M.nodes[i] \in InUse(m) PROVE FALSE
            OBVIOUS
          <5>1. M.entries[M.nodes[i]] = m.entries[M.nodes[i]]
                /\ m.entries[M.nodes[i]].id < e.id /\ m.entries[M.nodes[i]] \in Shown(s)
            BY <2>4
          <5>2. m.entries[M.nodes[i]].id \in Int /\ e.id \in Int
            BY <1>1, <5>1, ShownLines DEF Entry
          <5>3. e.id <= m.entries[M.nodes[i]].id
            BY <4>1, <5>1
          <5>4. m.entries[M.nodes[i]].id < e.id
            BY <5>1
          <5> QED
            BY <5>2, <5>3, <5>4
        <4>3. M.nodes[i] \in InUse(M)
          BY DEF InUse, ToSet
        <4>4. M.nodes[i] = q /\ e.type # "start"
          BY <2>5, <4>2, <4>3
        <4>5. e.type = "assistant"
          BY <2>6, <4>4
        <4>6. M.nodes = NodesAfter(m.nodes, e, q)
          BY <2>3 DEF Adds
        <4>7. q \notin ToSet(m.nodes)
          BY <2>10 DEF InUse
        <4>8. Len(M.nodes) = Len(m.nodes) + 1 /\ \A j \in 1..Len(m.nodes) : M.nodes[j] = m.nodes[j]
          <5>1. M.nodes = Append(m.nodes, q)
            BY <4>5, <4>6 DEF NodesAfter
          <5>2. m.nodes \in Seq(Nat) /\ q \in Nat
            BY <1>1, <2>2 DEF Memory
          <5> QED
            BY <5>1, <5>2, AppendTo
        <4>9. DOMAIN M.nodes = 1..Len(M.nodes) /\ DOMAIN m.nodes = 1..Len(m.nodes) /\ Len(m.nodes) \in Nat
          BY <1>1 DEF WellFormed, Memory
        <4>10. i \notin 1..Len(m.nodes)
          BY <2>8, <4>2, <4>8, <4>9
        <4> QED
          BY <4>8, <4>9, <4>10
      <3> QED
        BY <3>1, <3>2
    <2> QED
      BY <1>1, <2>7, <2>11, <2>12
  <1> QED
    BY <1>5, <1>6

LEMMA OrderedReplay ==
  ASSUME NEW s \in Seq(Entry), Ordered(s), Tidy(Shown(s))
  PROVE  Paired(Replay(s)) /\ FromLines(Replay(s), s, Len(s))
  <1>1. PICK r : IsReplay(r, s, Len(s)) /\ Replay(s) = r[Len(s)]
    BY ReplayRuns
  <1>2. Len(s) \in Nat
    OBVIOUS
  <1> DEFINE Fine(k) == /\ WellFormed(r[k]) /\ Paired(r[k])
                        /\ FromLines(r[k], s, k) /\ LatestIsLast(r[k], s, k)
             N == {k \in Nat : k <= Len(s) => Fine(k)}
  <1>3. 0 \in N
    <2>1. r[0] = Empty
      BY <1>1 DEF IsReplay
    <2>2. Empty.nodes = <<>> /\ DOMAIN Empty.nodes = {} /\ InUse(Empty) = {}
      BY DEF Empty, InUse, ToSet
    <2> QED
      BY <2>1, <2>2, EmptyIsWellFormed DEF Paired, FromLines, LatestIsLast
  <1>4. ASSUME NEW k \in Nat, k \in N PROVE k + 1 \in N
    <2> SUFFICES ASSUME k + 1 <= Len(s) PROVE Fine(k + 1)
      OBVIOUS
    <2>1. k + 1 \in 1..Len(s) /\ (k + 1) - 1 = k
      BY <1>2
    <2>2. r[k + 1] = Replayed(r[k], s[k + 1])
      BY <1>1, <2>1 DEF IsReplay
    <2>3. WellFormed(r[k]) /\ Paired(r[k]) /\ FromLines(r[k], s, k) /\ LatestIsLast(r[k], s, k)
      BY <1>2, <1>4
    <2> HIDE DEF Fine
    <2>4. WellFormed(r[k + 1]) /\ Paired(r[k + 1]) /\ FromLines(r[k + 1], s, k + 1)
          /\ LatestIsLast(r[k + 1], s, k + 1)
      BY <2>1, <2>2, <2>3, OrderedStep
    <2> QED
      BY <2>4 DEF Fine
  <1> HIDE DEF N, Fine
  <1>5. Nat \subseteq N
    BY <1>3, <1>4, NatSetInduction
  <1>6. Fine(Len(s))
    BY <1>2, <1>5 DEF N
  <1> QED
    BY <1>1, <1>6 DEF Fine

\* A log of another tool is replayed without calls and without results.
Bare(e) == e.uses = {} /\ e.type # "results"

LEMMA BareReplay ==
  ASSUME NEW s \in Seq(Entry), \A i \in 1..Len(s) : Bare(s[i])
  PROVE  \A n \in InUse(Replay(s)) : Bare(Replay(s).entries[n])
  <1>1. PICK r : IsReplay(r, s, Len(s)) /\ Replay(s) = r[Len(s)]
    BY ReplayRuns
  <1>2. Len(s) \in Nat /\ \A i \in 1..Len(s) : s[i] \in Entry
    OBVIOUS
  <1> DEFINE Fine(k) == WellFormed(r[k]) /\ \A n \in InUse(r[k]) : Bare(r[k].entries[n])
             N == {k \in Nat : k <= Len(s) => Fine(k)}
  <1>3. 0 \in N
    <2>1. r[0] = Empty /\ InUse(Empty) = {}
      BY <1>1 DEF IsReplay, Empty, InUse, ToSet
    <2> QED
      BY <2>1, EmptyIsWellFormed
  <1>4. ASSUME NEW k \in Nat, k \in N PROVE k + 1 \in N
    <2> SUFFICES ASSUME k + 1 <= Len(s) PROVE Fine(k + 1)
      OBVIOUS
    <2> DEFINE e == s[k + 1]
               m == r[k]
               M == r[k + 1]
    <2>1. k + 1 \in 1..Len(s) /\ (k + 1) - 1 = k
      BY <1>2
    <2>2. M = Replayed(m, e) /\ e \in Entry /\ Bare(e)
      BY <1>1, <1>2, <2>1 DEF IsReplay
    <2>3. WellFormed(m) /\ \A n \in InUse(m) : Bare(m.entries[n])
      BY <1>2, <1>4
    <2> SUFFICES WellFormed(M) /\ \A n \in InUse(M) : Bare(M.entries[n])
      OBVIOUS
    <2> HIDE DEF e, m, M
    <2>4. WellFormed(M) /\ m \in Memory
      BY <2>2, <2>3, ReplayedKeepsForm DEF WellFormed
    <2>5. CASE ~IsRead(e)
      <3>1. M = m
        BY <2>2, <2>5 DEF Replayed, IsRead, Parses, Unnumbered
      <3> QED
        BY <2>3, <3>1
    <2>6. CASE IsRead(e)
      <3> DEFINE q == NumberIn(m, e)
      <3>1. Adds(m, M, e, q) /\ q \in Nat
        BY <2>2, <2>4, <2>6, ReplayedAdds
      <3> HIDE DEF q
      <3>2. /\ InUse(M) \subseteq InUse(m) \union {q}
            /\ e.type = "start" => InUse(M) = InUse(m)
        BY <2>4, <3>1, InUseAfter
      <3>3. ASSUME NEW n \in InUse(M) PROVE Bare(M.entries[n])
        <4>1. CASE n = q /\ e.type # "start"
          <5>1. M.entries[q] = [e EXCEPT !.seq = q]
            BY <3>1, <4>1 DEF Adds
          <5>2. [e EXCEPT !.seq = q].uses = e.uses /\ [e EXCEPT !.seq = q].type = e.type
            BY <2>2 DEF Entry
          <5> QED
            BY <2>2, <4>1, <5>1, <5>2 DEF Bare
        <4>2. CASE n # q \/ e.type = "start"
          <5>1. n \in InUse(m)
            BY <3>2, <4>2
          <5>2. n \in DOMAIN m.entries /\ M.entries[n] = m.entries[n]
            BY <2>3, <3>1, <4>2, <5>1 DEF Adds, WellFormed
          <5> QED
            BY <2>3, <5>1, <5>2
        <4> QED
          BY <4>1, <4>2
      <3> QED
        BY <2>4, <3>3
    <2> QED
      BY <2>5, <2>6
  <1> HIDE DEF N, Fine
  <1>5. Nat \subseteq N
    BY <1>3, <1>4, NatSetInduction
  <1>6. Fine(Len(s))
    BY <1>2, <1>5 DEF N
  <1> QED
    BY <1>1, <1>6 DEF Fine

(***************************************************************************)
(* Sessions.  The results of a batch are appended to a memory that ends    *)
(* with it, and a file that stays in order is tidy, so that it is replayed *)
(* as paired messages.                                                     *)
(***************************************************************************)

\* The lines there are, and the one the usage of a message may become.
Told == ReadLines(disk) \union
        IF talk.said = 0 THEN {} ELSE {[mem.entries[talk.said] EXCEPT !.usage = TRUE]}

Filed ==
    /\ \A e \in Told : e.id <= past.made
    /\ ~Foreign(disk) =>
          /\ Tidy(Told)
          /\ Running => \A e \in Told : e.type \notin Unnumbered => e.seq < mem.nextSeq

NodeCalls == \A n \in ToSet(mem.nodes) :
    mem.entries[n].type = "assistant" => \A u \in mem.entries[n].uses : u[1] <= past.made

\* A batch that waits for its results is the last there is.
CallsLast == talk.phase = "calls" =>
    LET e == mem.entries[talk.said]
    IN  /\ mem.nodes # <<>> /\ mem.nodes[Len(mem.nodes)] = talk.said
        /\ \A f \in Told : f.type \in NodeTypes => f.id <= e.id
        /\ \A i \in 1..(Len(mem.nodes) - 1) :
              LET f == mem.entries[mem.nodes[i]]
              IN  f.type = "assistant" => f.uses \cap e.uses = {}

Answerable == Paired(mem) /\ NodeCalls /\ CallsLast /\ Filed

LEMMA TidyLess == ASSUME NEW A, Tidy(A), NEW B \in SUBSET A PROVE Tidy(B)
  BY DEF Tidy

LEMMA TidyTwin ==
  ASSUME NEW A, Tidy(A), NEW e \in A, NEW f,
         f.id = e.id, f.seq = e.seq, f.type = e.type, f.uses = e.uses
  PROVE  Tidy(A \union {f})
  <1> DEFINE o(x) == IF x = f THEN e ELSE x
  <1>1. \A x \in A \union {f} :
           /\ o(x) \in A
           /\ o(x).id = x.id /\ o(x).seq = x.seq /\ o(x).type = x.type /\ o(x).uses = x.uses
    OBVIOUS
  <1> HIDE DEF o
  <1>2. \A x \in A \union {f} : Owned(x) /\ (x.type \notin Unnumbered => x.seq > 0)
    BY <1>1 DEF Tidy, Owned
  <1>3. ASSUME NEW x \in A \union {f}, NEW y \in A \union {f}
        PROVE  /\ x.type = "results" /\ y.type \in NodeTypes =>
                     \A u \in x.uses : ~(u[1] < y.id /\ y.id < x.id)
               /\ {x.type, y.type} \cap Unnumbered = {} /\ x.id < y.id => x.seq < y.seq
    <2>1. /\ o(x).type = "results" /\ o(y).type \in NodeTypes =>
                \A u \in o(x).uses : ~(u[1] < o(y).id /\ o(y).id < o(x).id)
          /\ {o(x).type, o(y).type} \cap Unnumbered = {} /\ o(x).id < o(y).id => o(x).seq < o(y).seq
      BY <1>1 DEF Tidy
    <2>2. /\ o(x).id = x.id /\ o(x).seq = x.seq /\ o(x).type = x.type /\ o(x).uses = x.uses
          /\ o(y).id = y.id /\ o(y).seq = y.seq /\ o(y).type = y.type
      BY <1>1
    <2> QED
      BY <2>1, <2>2
  <1> QED
    BY <1>2, <1>3 DEF Tidy

\* A later entry with a higher number, the results of the last batch at most.
LEMMA TidyMore ==
  ASSUME NEW A \in SUBSET Entry, Tidy(A), NEW made \in Nat, NEW e \in Entry, e.id = made + 1,
         Owned(e), e.type \notin Unnumbered => e.seq > 0,
         \A a \in A : a.id <= made /\ (a.type \notin Unnumbered => a.seq < e.seq),
         NEW x \in Int, \A a \in A : e.type = "results" /\ a.type \in NodeTypes => a.id <= x,
         e.type = "results" => e.uses \subseteq {x} \X Int
  PROVE  Tidy(A \union {e})
  <1>1. \A a \in A : a.id \in Int /\ a.id <= made /\ ~(e.id < a.id)
    BY DEF Entry
  <1>2. \A a \in A \union {e} : Owned(a) /\ (a.type \notin Unnumbered => a.seq > 0)
    BY DEF Tidy
  <1>3. ASSUME NEW a \in A \union {e}, NEW b \in A \union {e},
               {a.type, b.type} \cap Unnumbered = {}, a.id < b.id
        PROVE  a.seq < b.seq
    <2>1. CASE a \in A /\ b \in A
      BY <1>3, <2>1 DEF Tidy
    <2>2. CASE a = e
      BY <1>1, <1>3, <2>2
    <2>3. CASE a \in A /\ b = e
      BY <1>3, <2>3
    <2> QED
      BY <2>1, <2>2, <2>3
  <1>4. ASSUME NEW a \in A \union {e}, NEW b \in A \union {e},
               a.type = "results", b.type \in NodeTypes, NEW u \in a.uses,
               u[1] < b.id, b.id < a.id
        PROVE  FALSE
    <2>1. CASE a \in A /\ b \in A
      BY <1>4, <2>1 DEF Tidy
    <2>2. CASE a \in A /\ b = e
      BY <1>1, <1>4, <2>2
    <2>3. CASE a = e /\ b \in A
      <3>1. u[1] = x
        BY <1>4, <2>3
      <3>2. b.id <= x /\ b.id \in Int
        BY <1>1, <1>4, <2>3
      <3> QED
        BY <1>4, <3>1, <3>2
    <2>4. CASE a = e /\ b = e
      BY <1>1, <1>4, <2>4
    <2> QED
      BY <2>1, <2>2, <2>3, <2>4
  <1> QED
    BY <1>2, <1>3, <1>4 DEF Tidy

\* What a write adds to a file, whether or not the disk takes it.
LEMMA WritingReads ==
  ASSUME LogTypes, NEW e \in Entry, WriteEntry(e)
  PROVE  /\ past'.made = past.made + 1
         /\ ReadLines(disk') \subseteq ReadLines(disk) \union {e}
         /\ e.type # "transcript" /\ Foreign(disk) => Foreign(disk')
  <1>1. disk \in Disk /\ WellEnded(disk) /\ past \in Past /\ Garbage \in Entry
        /\ ~Parses(Garbage) /\ Garbage.type = "garbage"
    BY BlankIsEntry DEF LogTypes, Garbage, Parses, Blank
  <1>2. past'.made = past.made + 1
    <2>1. \E K, F, B : past' = [past EXCEPT !.made = Next1, !.kept = K, !.faults = F, !.sound = B]
      <3>1. CASE past' = [past EXCEPT !.made = Next1,
                               !.kept = IF e.type = "meta" THEN @ ELSE @ \union {e.id}]
        <4> DEFINE K == IF e.type = "meta" THEN past.kept ELSE past.kept \union {e.id}
        <4>1. past' = [past EXCEPT !.made = Next1, !.kept = K]
          BY <3>1
        <4> HIDE DEF K, Next1
        <4>2. past' = [past EXCEPT !.made = Next1, !.kept = K,
                                   !.faults = past.faults, !.sound = past.sound]
          BY <1>1, <4>1 DEF Past
        <4> QED
          BY <4>2
      <3>2. CASE past' = [past EXCEPT !.made = Next1, !.faults = @ + 1, !.sound = FALSE]
        <4>1. past' = [past EXCEPT !.made = Next1, !.kept = past.kept,
                                   !.faults = past.faults + 1, !.sound = FALSE]
          BY <1>1, <3>2 DEF Past
        <4> QED
          BY <4>1
      <3> QED
        BY <3>1, <3>2 DEF WriteEntry
    <2> QED
      BY <1>1, <2>1 DEF Past, Next1
  <1>3. \/ disk' = disk
        \/ \E line \in Entry, end \in {"closed", "whole", "half"} :
              (line = e \/ line = Garbage) /\ disk' = Extended(disk, line, end)
    <2>1. disk' \in {Written(disk, e), disk} \union CutShort(disk, e)
      BY <1>1 DEF WriteEntry
    <2> QED
      BY <1>1, <2>1 DEF Written, CutShort
  <1>4. \A i \in DOMAIN disk'.lines :
           \/ disk'.lines[i] = Garbage \/ disk'.lines[i] = e
           \/ i \in DOMAIN disk.lines /\ disk'.lines[i] = disk.lines[i]
    <2>1. CASE disk' = disk
      BY <2>1
    <2>2. ASSUME NEW line \in Entry, NEW end \in {"closed", "whole", "half"},
                 line = e \/ line = Garbage, disk' = Extended(disk, line, end)
          PROVE  \A i \in DOMAIN disk'.lines :
                    \/ disk'.lines[i] = Garbage \/ disk'.lines[i] = e
                    \/ i \in DOMAIN disk.lines /\ disk'.lines[i] = disk.lines[i]
      <3>1. \A i \in DOMAIN disk'.lines :
               \/ disk'.lines[i] = Garbage \/ disk'.lines[i] = line
               \/ i \in DOMAIN disk.lines /\ disk'.lines[i] = disk.lines[i]
        BY <1>1, <2>2, ExtendedShows
      <3> QED
        BY <2>2, <3>1
    <2> QED
      BY <1>3, <2>1, <2>2
  <1>5. ReadLines(disk') \subseteq ReadLines(disk) \union {e}
    BY <1>1, <1>4 DEF ReadLines, ToSet
  <1>6. e.type # "transcript" /\ Foreign(disk) => Foreign(disk')
    BY <1>1, <1>4 DEF Foreign
  <1> QED
    BY <1>2, <1>5, <1>6

LEMMA SaidEntry ==
  ASSUME LogTypes, talk.said # 0, NEW f, f = [mem.entries[talk.said] EXCEPT !.usage = TRUE]
  PROVE  /\ mem.entries[talk.said] \in Entry /\ f \in Entry
         /\ f.id = mem.entries[talk.said].id /\ f.seq = talk.said /\ f.type = "assistant"
         /\ f.uses = mem.entries[talk.said].uses /\ talk.said < mem.nextSeq
  <1>1. mem \in Memory /\ talk.said \in DOMAIN mem.entries /\ talk.said < mem.nextSeq
        /\ mem.entries[talk.said].seq = talk.said /\ mem.entries[talk.said].type = "assistant"
    BY DEF LogTypes, SaidIsKnown, WellFormed
  <1>2. PICK D \in SUBSET Nat : mem.entries \in [D -> Entry]
    BY <1>1 DEF Memory, Entries
  <1>3. mem.entries[talk.said] \in Entry
    BY <1>1, <1>2
  <1> QED
    BY <1>1, <1>3 DEF Entry

LEMMA ToldAreEntries ==
  ASSUME LogTypes PROVE Told \in SUBSET Entry /\ ReadLines(disk) \in SUBSET Entry
  <1>1. ReadLines(disk) \in SUBSET Entry
    BY DEF LogTypes, Disk, ReadLines, ToSet
  <1> QED
    BY <1>1, SaidEntry DEF Told

\* What an append may add to what there is: the entry, and its usage later.
LEMMA ToldAfter ==
  ASSUME LogTypes, NEW e, Appending(e)
  PROVE  Told' \subseteq Told \union {e, [e EXCEPT !.usage = TRUE]}
  <1>1. ReadLines(disk') \subseteq ReadLines(disk) \union {e}
    BY WritingReads DEF Appending, AppendEntry
  <1>2. talk'.said # 0 =>
           \/ talk'.said = talk.said /\ mem'.entries[talk'.said] = mem.entries[talk.said]
           \/ talk'.said = mem.nextSeq /\ mem'.entries[talk'.said] = e
    BY AppendingSaid
  <1>3. talk'.said # 0 =>
           [mem'.entries[talk'.said] EXCEPT !.usage = TRUE] \in Told \union {[e EXCEPT !.usage = TRUE]}
    BY <1>2 DEF Told
  <1> QED
    BY <1>1, <1>3 DEF Told

LEMMA AppendingFiled ==
  ASSUME LogTypes, Answerable, NEW e, Appending(e)
  PROVE  Filed'
  <1> DEFINE f == [e EXCEPT !.usage = TRUE]
  <1>1. /\ e \in Entry /\ e.seq = mem.nextSeq /\ e.id = past.made + 1 /\ Parses(e)
        /\ e.type # "transcript" /\ Owned(e) /\ WriteEntry(e) /\ mem' = Remembered(mem, e)
        /\ Running
    BY DEF Appending, AppendEntry, Next1, Running
  <1>2. /\ mem \in Memory /\ mem.nextSeq \in Nat \ {0} /\ past.made \in Nat
        /\ mem'.nextSeq = mem.nextSeq + 1
    BY <1>1, RememberedAdds DEF LogTypes, WellFormed, Memory, Past
  <1>3. past'.made = past.made + 1 /\ (Foreign(disk) => Foreign(disk'))
    BY <1>1, WritingReads
  <1>4. f \in Entry /\ f.id = e.id /\ f.seq = e.seq /\ f.type = e.type /\ f.uses = e.uses
    BY <1>1 DEF Entry
  <1>5. Told' \subseteq Told \union {e, f}
    BY ToldAfter
  <1>6. Told \in SUBSET Entry
    BY ToldAreEntries
  <1>7. \A a \in Told : a.id \in Int /\ a.seq \in Nat /\ a.id <= past.made
    BY <1>6 DEF Entry, Answerable, Filed
  <1> HIDE DEF f
  <1>8. \A a \in Told' : a.id <= past'.made
    BY <1>1, <1>2, <1>3, <1>4, <1>5, <1>7
  <1>9. ASSUME ~Foreign(disk')
        PROVE  /\ Tidy(Told')
               /\ \A a \in Told' : a.type \notin Unnumbered => a.seq < mem'.nextSeq
    <2>1. Tidy(Told) /\ \A a \in Told : a.type \notin Unnumbered => a.seq < mem.nextSeq
      BY <1>1, <1>3, <1>9 DEF Answerable, Filed
    <2>2. Tidy(Told \union {e})
      <3> DEFINE x == IF e.type = "results" THEN mem.entries[talk.said].id ELSE 0
      <3>1. e.type = "results" =>
               /\ talk.phase = "calls" /\ talk.said # 0
               /\ e.uses = mem.entries[talk.said].uses
        BY DEF Appending, LogTypes
      <3>2. e.type = "results" => mem.entries[talk.said].id \in Int
        <4>1. talk.said # 0 => mem.entries[talk.said].id \in Int
          BY SaidEntry DEF Entry
        <4> QED
          BY <3>1, <4>1
      <3>3. x \in Int
        BY <3>2
      <3>4. \A a \in Told : e.type = "results" /\ a.type \in NodeTypes => a.id <= x
        BY <3>1 DEF Answerable, CallsLast
      <3>5. e.type = "results" => e.uses \subseteq {x} \X Int
        <4> SUFFICES ASSUME e.type = "results" PROVE e.uses \subseteq {x} \X Int
          OBVIOUS
        <4> DEFINE g == [mem.entries[talk.said] EXCEPT !.usage = TRUE]
        <4>1. g \in Told
          BY <3>1 DEF Told
        <4>2. g.type = "assistant" /\ g.id = x /\ g.uses = e.uses
          BY <3>1, SaidEntry
        <4> HIDE DEF g, x
        <4>3. Owned(g)
          BY <2>1, <4>1 DEF Tidy
        <4> QED
          BY <4>2, <4>3 DEF Owned
      <3> HIDE DEF x
      <3>6. \A a \in Told : a.id <= past.made /\ (a.type \notin Unnumbered => a.seq < e.seq)
        BY <1>1, <1>7, <2>1
      <3>7. e.seq > 0
        BY <1>1, <1>2
      <3> QED
        BY <1>1, <1>2, <1>6, <2>1, <3>3, <3>4, <3>5, <3>6, <3>7, TidyMore
    <2>3. Tidy((Told \union {e}) \union {f})
      BY <1>4, <2>2, TidyTwin
    <2>4. Tidy(Told')
      <3>1. Told' \in SUBSET ((Told \union {e}) \union {f})
        BY <1>5
      <3> QED
        BY <2>3, <3>1, TidyLess
    <2>5. \A a \in Told' : a.type \notin Unnumbered => a.seq < mem'.nextSeq
      BY <1>1, <1>2, <1>4, <1>5, <1>7, <2>1
    <2> QED
      BY <2>4, <2>5
  <1> QED
    BY <1>8, <1>9 DEF Filed

LEMMA AppendingPairs ==
  ASSUME LogTypes, Answerable, NEW e, Appending(e)
  PROVE  Paired(mem')
  <1>1. /\ e \in Entry /\ e.seq = mem.nextSeq /\ mem' = Remembered(mem, e)
        /\ WellFormed(mem) /\ mem \in Memory /\ mem.nextSeq \in Nat
    BY DEF Appending, AppendEntry, LogTypes, WellFormed, Memory
  <1>2. \A s \in InUse(mem) : s \in DOMAIN mem.entries /\ s \in Nat /\ s # e.seq
    BY <1>1 DEF WellFormed, InUse, Memory, ToSet
  <1>3. CASE e.type = "meta"
    <2>1. /\ mem'.nodes = mem.nodes
          /\ \A s \in DOMAIN mem.entries : s # e.seq => mem'.entries[s] = mem.entries[s]
      BY <1>1, <1>3, RememberedAdds
    <2>2. \A i \in DOMAIN mem.nodes : mem.nodes[i] \in InUse(mem)
      BY DEF InUse, ToSet
    <2>3. \A i \in DOMAIN mem.nodes : mem'.entries[mem.nodes[i]] = mem.entries[mem.nodes[i]]
      BY <1>2, <2>1, <2>2
    <2> QED
      BY <2>1, <2>3 DEF Answerable, Paired
  <1>4. CASE e.type # "meta"
    <2>1. Adds(mem, mem', e, e.seq)
      BY <1>1, <1>4, RememberedAdds
    <2>2. ASSUME e.type = "results", NEW i \in DOMAIN mem.nodes,
                 mem.entries[mem.nodes[i]].type = "assistant",
                 mem.entries[mem.nodes[i]].uses \cap e.uses # {}
          PROVE  i = Len(mem.nodes)
      <3>1. talk.phase = "calls" /\ e.uses = mem.entries[talk.said].uses
        BY <2>2 DEF Appending
      <3>2. \A j \in 1..(Len(mem.nodes) - 1) :
               mem.entries[mem.nodes[j]].type = "assistant" =>
                  mem.entries[mem.nodes[j]].uses \cap e.uses = {}
        BY <3>1 DEF Answerable, CallsLast
      <3>3. i \notin 1..(Len(mem.nodes) - 1)
        BY <2>2, <3>2
      <3>4. i \in 1..Len(mem.nodes) /\ Len(mem.nodes) \in Nat
        BY <1>1 DEF Memory
      <3> QED
        BY <3>3, <3>4
    <2>3. e.seq \notin InUse(mem) /\ e.seq \in Nat
      BY <1>1, <1>2
    <2> QED
      BY <1>1, <2>1, <2>2, <2>3, PairedAfter DEF Answerable
  <1> QED
    BY <1>3, <1>4

\* What an append leaves of the nodes: the ones before it, but for its own.
LEMMA NodesAppended ==
  ASSUME LogTypes, NEW e, Appending(e)
  PROVE  /\ \A n \in ToSet(mem'.nodes) :
               \/ n \in ToSet(mem.nodes) /\ mem'.entries[n] = mem.entries[n]
               \/ mem'.entries[n].type = e.type /\ mem'.entries[n].uses = e.uses
         /\ e.type = "meta" => mem'.nodes = mem.nodes
         /\ e.type = "assistant" => mem'.nodes = Append(mem.nodes, mem.nextSeq)
         /\ \A n \in ToSet(mem.nodes) : mem'.entries[n] = mem.entries[n]
  <1>1. /\ e \in Entry /\ e.seq = mem.nextSeq /\ mem' = Remembered(mem, e)
        /\ WellFormed(mem) /\ mem \in Memory /\ mem.nextSeq \in Nat
    BY DEF Appending, AppendEntry, LogTypes, WellFormed, Memory
  <1>2. \A s \in InUse(mem) : s \in DOMAIN mem.entries /\ s \in Nat /\ s # e.seq
    BY <1>1 DEF WellFormed, InUse, Memory, ToSet
  <1>3. ToSet(mem.nodes) \subseteq InUse(mem)
    BY DEF InUse
  <1>4. CASE e.type = "meta"
    <2>1. /\ mem'.nodes = mem.nodes
          /\ \A s \in DOMAIN mem.entries : s # e.seq => mem'.entries[s] = mem.entries[s]
      BY <1>1, <1>4, RememberedAdds
    <2> QED
      BY <1>2, <1>3, <1>4, <2>1
  <1>5. CASE e.type # "meta"
    <2>1. Adds(mem, mem', e, e.seq)
      BY <1>1, <1>5, RememberedAdds
    <2>2. \A n \in ToSet(mem.nodes) : mem'.entries[n] = mem.entries[n]
      BY <1>2, <1>3, <2>1 DEF Adds
    <2>3. mem'.nodes = NodesAfter(mem.nodes, e, e.seq)
      BY <2>1 DEF Adds
    <2>4. e.type = "assistant" => mem'.nodes = Append(mem.nodes, mem.nextSeq)
      BY <1>1, <2>3 DEF NodesAfter
    <2>5. e.type # "start" => mem'.entries[e.seq].type = e.type /\ mem'.entries[e.seq].uses = e.uses
      <3>1. [e EXCEPT !.seq = e.seq] = e
        BY <1>1 DEF Entry
      <3> QED
        BY <2>1, <3>1 DEF Adds
    <2>6. ToSet(mem'.nodes) \subseteq ToSet(mem.nodes) \union {e.seq}
          /\ (e.type = "start" => mem'.nodes = mem.nodes)
      <3>1. mem.nodes \in Seq(Nat) /\ e.seq \in Nat
        BY <1>1 DEF Memory
      <3>2. e.type \in {"start", "thinking"} => mem'.nodes = mem.nodes
        BY <2>3 DEF NodesAfter
      <3>3. e.type = "summary" => mem'.nodes = Spliced(mem.nodes, e.covers, e.seq)
        BY <2>3 DEF NodesAfter
      <3>4. e.type \notin {"start", "thinking", "summary"} => mem'.nodes = Append(mem.nodes, e.seq)
        BY <2>3 DEF NodesAfter
      <3>5. ToSet(Spliced(mem.nodes, e.covers, e.seq)) \subseteq ToSet(mem.nodes) \union {e.seq}
        BY <3>1, SplicedType
      <3>6. ToSet(Append(mem.nodes, e.seq)) = ToSet(mem.nodes) \union {e.seq}
        BY <3>1, AppendType
      <3> QED
        BY <3>2, <3>3, <3>4, <3>5, <3>6
    <2> QED
      BY <1>5, <2>2, <2>4, <2>5, <2>6
  <1> QED
    BY <1>4, <1>5

LEMMA AppendingAnswerable ==
  ASSUME LogTypes, Answerable, NEW e, Appending(e)
  PROVE  Answerable'
  <1> DEFINE f == [e EXCEPT !.usage = TRUE]
  <1>1. /\ e \in Entry /\ e.seq = mem.nextSeq /\ e.id = past.made + 1 /\ Owned(e) /\ Parses(e)
        /\ mem' = Remembered(mem, e) /\ WriteEntry(e) /\ past.made \in Nat /\ e.id \in Int
        /\ f.id = e.id /\ f.type = e.type
    BY DEF Appending, AppendEntry, Next1, LogTypes, Past, Entry
  <1>2. past'.made = past.made + 1 /\ Told' \subseteq Told \union {e, f}
    BY <1>1, WritingReads, ToldAfter
  <1>3. /\ \A n \in ToSet(mem'.nodes) :
              \/ n \in ToSet(mem.nodes) /\ mem'.entries[n] = mem.entries[n]
              \/ mem'.entries[n].type = e.type /\ mem'.entries[n].uses = e.uses
        /\ e.type = "meta" => mem'.nodes = mem.nodes
        /\ e.type = "assistant" => mem'.nodes = Append(mem.nodes, mem.nextSeq)
        /\ \A n \in ToSet(mem.nodes) : mem'.entries[n] = mem.entries[n]
    BY NodesAppended
  <1>4. mem.nodes \in Seq(Nat) /\ Len(mem.nodes) \in Nat /\ DOMAIN mem.nodes = 1..Len(mem.nodes)
        /\ mem.nextSeq \in Nat
    BY DEF LogTypes, WellFormed, Memory
  <1>5. \A i \in 1..Len(mem.nodes) : mem.nodes[i] \in ToSet(mem.nodes)
    BY <1>4 DEF ToSet
  <1> HIDE DEF f
  <1>6. e.type = "assistant" => \A u \in e.uses : u[1] = past.made + 1
    BY <1>1 DEF Owned
  <1>7. NodeCalls'
    <2> SUFFICES ASSUME NEW n \in ToSet(mem'.nodes), mem'.entries[n].type = "assistant",
                        NEW u \in mem'.entries[n].uses
                 PROVE  u[1] <= past'.made
      BY DEF NodeCalls
    <2>1. CASE n \in ToSet(mem.nodes) /\ mem'.entries[n] = mem.entries[n]
      <3>1. mem \in Memory /\ n \in DOMAIN mem.entries
        BY <2>1 DEF LogTypes, WellFormed, InUse
      <3>2. PICK D \in SUBSET Nat : mem.entries \in [D -> Entry]
        BY <3>1 DEF Memory, Entries
      <3>3. mem.entries[n] \in Entry
        BY <3>1, <3>2
      <3>4. u \in Int \X Int
        BY <2>1, <3>3 DEF Entry
      <3>5. u[1] <= past.made /\ u[1] \in Int
        BY <2>1, <3>4 DEF Answerable, NodeCalls
      <3> QED
        BY <1>1, <1>2, <3>5
    <2>2. CASE mem'.entries[n].type = e.type /\ mem'.entries[n].uses = e.uses
      BY <1>1, <1>2, <1>6, <2>2
    <2> QED
      BY <1>3, <2>1, <2>2
  <1>8. CallsLast'
    <2> SUFFICES ASSUME talk'.phase = "calls" PROVE CallsLast'
      BY DEF CallsLast
    <2>1. talk'.said # 0 /\
             \/ talk.phase = "calls" /\ talk'.said = talk.said /\ e.type = "meta"
             \/ talk'.said = mem.nextSeq /\ e.type = "assistant"
      BY DEF Appending
    <2>2. \/ talk'.said = talk.said /\ mem'.entries[talk'.said] = mem.entries[talk.said]
          \/ talk'.said = mem.nextSeq /\ mem'.entries[talk'.said] = e
      BY <2>1, AppendingSaid
    <2>3. CASE talk.phase = "calls" /\ talk'.said = talk.said /\ e.type = "meta"
      <3>1. talk.said # mem.nextSeq
        BY <1>4, <2>1, <2>3 DEF LogTypes, SaidIsKnown, Talk
      <3>2. mem'.entries[talk'.said] = mem.entries[talk.said] /\ mem'.nodes = mem.nodes
        BY <1>3, <2>2, <2>3, <3>1
      <3>3. \A g \in Told' : g.type \in NodeTypes => g \in Told
        BY <1>1, <1>2, <2>3 DEF NodeTypes
      <3>4. \A i \in 1..(Len(mem.nodes) - 1) : mem'.entries[mem.nodes[i]] = mem.entries[mem.nodes[i]]
        BY <1>3, <1>4, <1>5
      <3> QED
        BY <2>3, <3>2, <3>3, <3>4 DEF Answerable, CallsLast
    <2>4. CASE talk'.said = mem.nextSeq /\ e.type = "assistant"
      <3>1. mem'.entries[talk'.said] = e
        <4>1. talk.said # 0 => talk.said # mem.nextSeq
          BY <1>4 DEF LogTypes, SaidIsKnown, Talk
        <4> QED
          BY <2>1, <2>2, <2>4, <4>1
      <3>2. mem'.nodes = Append(mem.nodes, mem.nextSeq)
        BY <1>3, <2>4
      <3>3. /\ Len(mem'.nodes) = Len(mem.nodes) + 1 /\ mem'.nodes[Len(mem.nodes) + 1] = mem.nextSeq
            /\ mem'.nodes # <<>> /\ \A i \in 1..Len(mem.nodes) : mem'.nodes[i] = mem.nodes[i]
        BY <1>4, <3>2, AppendTo
      <3>4. \A g \in Told' : g.id <= e.id
        <4>1. \A g \in Told : g.id \in Int /\ g.id <= past.made
          BY ToldAreEntries DEF Entry, Answerable, Filed
        <4> QED
          BY <1>1, <1>2, <4>1
      <3>5. ASSUME NEW i \in 1..(Len(mem'.nodes) - 1),
                   mem'.entries[mem'.nodes[i]].type = "assistant"
            PROVE  mem'.entries[mem'.nodes[i]].uses \cap e.uses = {}
        <4>1. i \in 1..Len(mem.nodes)
          BY <1>4, <3>3
        <4>2. mem'.entries[mem'.nodes[i]] = mem.entries[mem.nodes[i]] /\ mem.nodes[i] \in ToSet(mem.nodes)
          BY <1>3, <1>5, <3>3, <4>1
        <4>3. \A u \in mem.entries[mem.nodes[i]].uses : u[1] <= past.made
          BY <3>5, <4>2 DEF Answerable, NodeCalls
        <4>4. \A u \in e.uses : ~(u[1] <= past.made)
          BY <1>1, <1>6, <2>4
        <4> QED
          BY <4>2, <4>3, <4>4
      <3> QED
        BY <2>4, <3>1, <3>3, <3>4, <3>5 DEF CallsLast
    <2> QED
      BY <2>1, <2>3, <2>4
  <1> QED
    BY <1>7, <1>8, AppendingPairs, AppendingFiled DEF Answerable

(***************************************************************************)
(* The steps that append nothing, and the theorem.                         *)
(***************************************************************************)

\* A file that shows nothing new is as tidy as it was.
LEMMA FiledStays ==
  ASSUME LogTypes, Filed, talk'.said = 0, ReadLines(disk') \subseteq Told,
         past'.made = past.made, Foreign(disk) => Foreign(disk'),
         Running' => Running /\ mem'.nextSeq = mem.nextSeq
  PROVE  Filed'
  <1>1. Told' \in SUBSET Told
    BY DEF Told
  <1>2. ~Foreign(disk') => Tidy(Told')
    BY <1>1, TidyLess DEF Filed
  <1>3. \A e \in Told' : e.id <= past'.made
    BY <1>1 DEF Filed
  <1>4. ~Foreign(disk') /\ Running' => \A e \in Told' : e.type \notin Unnumbered => e.seq < mem'.nextSeq
    BY <1>1 DEF Filed
  <1> QED
    BY <1>2, <1>3, <1>4 DEF Filed

LEMMA ForgottenAnswerable ==
  ASSUME LogTypes, mem' = Empty, talk' \in {Silent, Down}, Filed' PROVE Answerable'
  <1>1. DOMAIN Empty.nodes = {} /\ ToSet(Empty.nodes) = {}
    BY DEF Empty, ToSet
  <1>2. talk'.phase # "calls"
    BY DownIsTalk
  <1> QED
    BY <1>1, <1>2 DEF Answerable, Paired, NodeCalls, CallsLast

LEMMA UsageAnswerable == ASSUME LogTypes, Answerable, SetEntryUsage PROVE Answerable'
  <1> DEFINE e == [mem.entries[talk.said] EXCEPT !.usage = TRUE]
  <1>1. /\ talk.said # 0 /\ mem' = Known(mem, e) /\ disk' \in {disk, Rewritten(disk, e)}
        /\ talk' = Silent /\ past' = past /\ Running
    BY DEF SetEntryUsage, Writing, Running
  <1>2. e \in Told
    BY <1>1 DEF Told
  <1>3. /\ e \in Entry /\ Parses(e) /\ e.type # "transcript" /\ WellFormed(mem')
        /\ mem'.nodes = mem.nodes /\ mem'.nextSeq = mem.nextSeq
        /\ \A s \in InUse(mem) : Mute(mem'.entries[s]) = Mute(mem.entries[s])
    BY <1>1, UsageEntry
  <1> HIDE DEF e
  <1>4. /\ Len(disk'.lines) = Len(disk.lines)
        /\ \A i \in 1..Len(disk.lines) : disk'.lines[i] \in {e, disk.lines[i]}
        /\ DOMAIN disk.lines = 1..Len(disk.lines) /\ DOMAIN disk'.lines = 1..Len(disk.lines)
    <2>1. disk \in Disk /\ WellEnded(disk) /\ disk.lines \in Seq(Entry)
      BY DEF LogTypes, Disk
    <2>2. CASE disk' = disk
      BY <2>1, <2>2
    <2>3. CASE disk' = Rewritten(disk, e)
      <3>1. /\ disk' \in Disk /\ Len(disk'.lines) = Len(disk.lines)
            /\ \A i \in DOMAIN disk.lines :
                  disk'.lines[i] = IF i = LineOf(disk, e.seq) THEN e ELSE disk.lines[i]
        BY <1>3, <2>1, <2>3, RewrittenType
      <3>2. disk'.lines \in Seq(Entry)
        BY <3>1 DEF Disk
      <3> QED
        BY <2>1, <3>1, <3>2
    <2> QED
      BY <1>1, <2>2, <2>3
  <1>5. ReadLines(disk') \subseteq Told
    <2> SUFFICES ASSUME NEW i \in 1..Len(disk.lines), Parses(disk'.lines[i])
                 PROVE  disk'.lines[i] \in Told
      BY <1>4 DEF ReadLines, ToSet
    <2>1. disk'.lines[i] = e \/ disk'.lines[i] = disk.lines[i]
      BY <1>4
    <2>2. disk'.lines[i] = disk.lines[i] => disk'.lines[i] \in Told
      BY <1>4 DEF Told, ReadLines, ToSet
    <2> QED
      BY <1>2, <2>1, <2>2
  <1>6. Foreign(disk) => Foreign(disk')
    BY <1>3, <1>4 DEF Foreign
  <1>7. Filed'
    BY <1>1, <1>3, <1>5, <1>6, FiledStays, DownIsTalk DEF Answerable
  <1>8. \A n \in ToSet(mem.nodes) : /\ mem'.entries[n].type = mem.entries[n].type
                                    /\ mem'.entries[n].uses = mem.entries[n].uses
    <2> SUFFICES ASSUME NEW n \in ToSet(mem.nodes)
                 PROVE  /\ mem'.entries[n].type = mem.entries[n].type
                        /\ mem'.entries[n].uses = mem.entries[n].uses
      OBVIOUS
    <2>1. n \in InUse(mem) /\ n \in InUse(mem')
      BY <1>3 DEF InUse
    <2>2. n \in DOMAIN mem.entries /\ n \in DOMAIN mem'.entries
      BY <1>3, <2>1 DEF LogTypes, WellFormed
    <2>3. PICK D \in SUBSET Nat : mem.entries \in [D -> Entry]
      BY DEF LogTypes, WellFormed, Memory, Entries
    <2>4. PICK D1 \in SUBSET Nat : mem'.entries \in [D1 -> Entry]
      BY <1>3 DEF WellFormed, Memory, Entries
    <2>5. mem.entries[n] \in Entry
      BY <2>2, <2>3
    <2>6. mem'.entries[n] \in Entry
      BY <2>2, <2>4
    <2> QED
      BY <1>3, <2>1, <2>5, <2>6, MutedFields
  <1>9. \A i \in DOMAIN mem.nodes : mem.nodes[i] \in ToSet(mem.nodes)
    BY DEF ToSet
  <1>10. Paired(mem')
    BY <1>3, <1>8, <1>9 DEF Answerable, Paired
  <1>11. NodeCalls'
    BY <1>1, <1>3, <1>8 DEF Answerable, NodeCalls
  <1>12. CallsLast'
    BY <1>1, DownIsTalk DEF CallsLast
  <1> QED
    BY <1>7, <1>10, <1>11, <1>12 DEF Answerable

LEMMA StrippedLines ==
  ASSUME NEW d \in Disk, Foreign(d)
  PROVE  \A n \in InUse(RebuildSurface(d)) : Bare(RebuildSurface(d).entries[n])
  <1> DEFINE s == Stripped(d.lines)
  <1>1. d.lines \in Seq(Entry) /\ DOMAIN d.lines = 1..Len(d.lines) /\ Len(d.lines) \in Nat
    BY DEF Disk
  <1>2. \A e \in Entry : /\ [e EXCEPT !.uses = {}] \in Entry
                         /\ e.type # "results" => Bare([e EXCEPT !.uses = {}])
    BY DEF Entry, Bare
  <1>3. Garbage \in Entry /\ Bare(Garbage)
    BY BlankIsEntry DEF Garbage, Blank, Bare
  <1>4. \A i \in 1..Len(d.lines) : d.lines[i] \in Entry
    BY <1>1
  <1>5. s \in Seq(Entry) /\ Len(s) = Len(d.lines) /\ \A i \in 1..Len(s) : Bare(s[i])
    <2> DEFINE line(i) == IF d.lines[i].type = "results" THEN Garbage
                          ELSE [d.lines[i] EXCEPT !.uses = {}]
               n == Len(d.lines)
    <2>1. s = [i \in 1..n |-> line(i)] /\ n \in Nat
      BY <1>1 DEF Stripped
    <2>2. \A i \in 1..n : line(i) \in Entry /\ Bare(line(i))
      BY <1>2, <1>3, <1>4
    <2> HIDE DEF s, line, n
    <2>3. s \in Seq(Entry) /\ Len(s) = n /\ \A i \in 1..n : s[i] = line(i)
      BY <2>1, <2>2
    <2> QED
      BY <2>2, <2>3 DEF n
  <1>6. RebuildSurface(d) = Replay(s)
    BY DEF RebuildSurface, Replay
  <1> HIDE DEF s
  <1> QED
    BY <1>5, <1>6, BareReplay

LEMMA ResumingAnswerable == ASSUME LogTypes, Answerable, InOrder', Resumes PROVE Answerable'
  <1>1. /\ disk.exists /\ disk' \in {RepairTornTail(disk), disk}
        /\ mem' = RebuildSurface(disk') /\ talk' = Silent
    BY DEF Resumes
  <1>2. past'.made = past.made /\ past.made \in Nat
    BY DEF LogTypes, Past, Resumes
  <1>3. /\ disk' \in Disk
        /\ \A i \in DOMAIN disk'.lines : i \in DOMAIN disk.lines /\ disk'.lines[i] = disk.lines[i]
        /\ \A i \in DOMAIN disk.lines : Parses(disk.lines[i]) =>
              i \in DOMAIN disk'.lines /\ disk'.lines[i] = disk.lines[i]
    BY <1>1, RepairedType DEF LogTypes
  <1>4. ReadLines(disk') \in SUBSET ReadLines(disk) /\ ReadLines(disk') = Shown(disk'.lines)
    BY <1>3 DEF ReadLines, ToSet, Shown
  <1>5. Foreign(disk) => Foreign(disk')
    BY <1>3 DEF Foreign
  <1>6. Told' = ReadLines(disk') /\ talk'.phase # "calls" /\ ReadLines(disk') \in SUBSET Told
    BY <1>1, <1>4, DownIsTalk DEF Told
  <1>7. /\ \A e \in Told' : e.id <= past'.made
        /\ ~Foreign(disk') => Tidy(Told')
    BY <1>2, <1>5, <1>6, TidyLess DEF Answerable, Filed
  <1>8. disk'.lines \in Seq(Entry) /\ Len(disk'.lines) \in Nat /\ DOMAIN disk'.lines = 1..Len(disk'.lines)
    BY <1>3 DEF Disk
  <1>9. mem' = RebuildSurface(disk') /\ WellFormed(mem')
    BY <1>1, <1>3, RebuiltIsWellFormed
  <1>10. \A i \in DOMAIN mem'.nodes : mem'.nodes[i] \in InUse(mem') /\ mem'.nodes[i] \in ToSet(mem'.nodes)
    BY DEF InUse, ToSet
  <1>11. CASE Foreign(disk')
    <2>1. \A n \in InUse(mem') : mem'.entries[n].uses = {}
      BY <1>3, <1>9, <1>11, StrippedLines DEF Bare
    <2>2. Paired(mem') /\ NodeCalls'
      BY <1>10, <2>1 DEF Paired, NodeCalls, InUse
    <2> QED
      BY <1>6, <1>7, <1>11, <2>2 DEF Answerable, CallsLast, Filed
  <1>12. CASE ~Foreign(disk')
    <2>1. mem' = Replay(disk'.lines)
      BY <1>3, <1>9, <1>12, RebuiltIsWellFormed
    <2>2. Ordered(disk'.lines)
      BY DEF InOrder, Ordered
    <2>3. Paired(mem') /\ FromLines(mem', disk'.lines, Len(disk'.lines))
      BY <1>4, <1>6, <1>7, <1>8, <1>12, <2>1, <2>2, OrderedReplay
    <2>4. NodeCalls'
      <3> SUFFICES ASSUME NEW n \in ToSet(mem'.nodes), mem'.entries[n].type = "assistant",
                          NEW u \in mem'.entries[n].uses
                   PROVE  u[1] <= past'.made
        BY DEF NodeCalls
      <3>1. n \in InUse(mem')
        BY DEF InUse
      <3>2. PICK p \in 1..Len(disk'.lines) :
               IsRead(disk'.lines[p]) /\ mem'.entries[n] = disk'.lines[p]
        BY <2>3, <3>1 DEF FromLines
      <3>3. disk'.lines[p] \in Told'
        BY <1>6, <1>8, <3>2 DEF ReadLines, ToSet, IsRead
      <3>4. Owned(disk'.lines[p]) /\ disk'.lines[p].id <= past'.made
        BY <1>7, <1>12, <3>3 DEF Tidy
      <3> QED
        BY <3>2, <3>4 DEF Owned
    <2>5. \A e \in Told' : e.type \notin Unnumbered => e.seq < mem'.nextSeq
      <3> SUFFICES ASSUME NEW i \in 1..Len(disk'.lines), Parses(disk'.lines[i]),
                          disk'.lines[i].type \notin Unnumbered
                   PROVE  disk'.lines[i].seq < mem'.nextSeq
        BY <1>6, <1>8 DEF ReadLines, ToSet
      <3>1. IsRead(disk'.lines[i])
        BY DEF IsRead
      <3> QED
        BY <1>8, <2>1, <3>1, ReplayIsWellFormed
    <2> QED
      BY <1>6, <1>7, <2>3, <2>4, <2>5 DEF Answerable, CallsLast, Filed
  <1> QED
    BY <1>11, <1>12

LEMMA OthersAnswerable ==
  ASSUME LogTypes, Answerable, InOrder',
         \/ SetEntryUsage \/ Fails \/ SetFreshWindow \/ CreatesSession \/ Resumes \/ Dies
         \/ UNCHANGED vars
  PROVE  Answerable'
  <1>1. disk \in Disk /\ WellEnded(disk) /\ past \in Past /\ past.made \in Nat
        /\ Next1 \in Nat /\ Next1 = past.made + 1
    BY DEF LogTypes, Past, Next1
  <1> HIDE DEF Next1
  <1>2. CASE Fails
    <2>1. disk' = disk /\ mem' = mem /\ past' = past /\ talk' = Silent /\ Running
      BY <1>2 DEF Fails, Running
    <2>2. Filed'
      BY <2>1, FiledStays, DownIsTalk DEF Answerable, Told
    <2> QED
      BY <2>1, <2>2, DownIsTalk DEF Answerable, NodeCalls, CallsLast
  <1>3. CASE SetFreshWindow
    <2>1. disk' = disk /\ mem' = mem /\ talk' = talk /\ past'.made = past.made
      BY <1>1, <1>3 DEF SetFreshWindow, Past
    <2> QED
      BY <2>1 DEF Answerable, NodeCalls, CallsLast, Filed, Told, Running
  <1>4. CASE CreatesSession
    <2> DEFINE e == [Blank EXCEPT !.id = Next1, !.type = "transcript"]
    <2>1. WriteEntry(e) /\ talk' = Silent /\ mem' = Empty /\ disk = NoFile
      BY <1>1, <1>4 DEF CreatesSession, WellEnded
    <2>2. e \in Entry /\ e.id = Next1 /\ e.type = "transcript"
      BY <1>1, TranscriptEntry
    <2> HIDE DEF e
    <2>3. ReadLines(disk) = {}
      BY <2>1 DEF ReadLines, NoFile, ToSet
    <2>4. past'.made = past.made + 1 /\ ReadLines(disk') \subseteq {e}
      BY <2>1, <2>2, <2>3, WritingReads
    <2>5. Told' \subseteq {e}
      BY <2>1, <2>4, DownIsTalk DEF Told
    <2>6. Tidy(Told')
      BY <2>2, <2>5 DEF Tidy, Owned, Unnumbered
    <2>7. Filed'
      BY <1>1, <2>2, <2>4, <2>5, <2>6 DEF Filed, Unnumbered
    <2> QED
      BY <2>1, <2>7, ForgottenAnswerable
  <1>5. CASE Dies
    <2>1. mem' = Empty /\ talk' = Down /\ past'.made = past.made
      BY <1>1, <1>5 DEF Dies, Past
    <2>2. Garbage \in Entry /\ ~Parses(Garbage) /\ Garbage.type = "garbage"
      BY BlankIsEntry DEF Parses, Garbage, Blank
    <2>3. \A i \in DOMAIN disk'.lines :
             \/ disk'.lines[i] = Garbage
             \/ i \in DOMAIN disk.lines /\ disk'.lines[i] = disk.lines[i]
      <3>1. CASE disk' = disk
        BY <3>1
      <3>2. CASE disk' = Extended(disk, Garbage, "half")
        <4>1. \A i \in DOMAIN Extended(disk, Garbage, "half").lines :
                 LET s == Extended(disk, Garbage, "half").lines
                 IN  \/ s[i] = Garbage
                     \/ i \in DOMAIN disk.lines /\ s[i] = disk.lines[i]
          BY <1>1, <2>2, ExtendedShows
        <4> QED
          BY <3>2, <4>1
      <3>3. CASE disk' = [disk EXCEPT !.end = "whole"]
        BY <1>1, <3>3 DEF Disk
      <3> QED
        BY <1>5, <3>1, <3>2, <3>3 DEF Dies
    <2>4. ReadLines(disk') \subseteq Told
      BY <2>2, <2>3 DEF ReadLines, ToSet, Told
    <2>5. Foreign(disk) => Foreign(disk')
      BY <2>2, <2>3 DEF Foreign
    <2>6. Filed'
      BY <2>1, <2>4, <2>5, FiledStays, DownIsTalk DEF Answerable, Running
    <2> QED
      BY <2>1, <2>6, ForgottenAnswerable
  <1>6. CASE UNCHANGED vars
    BY <1>6 DEF vars, Answerable, NodeCalls, CallsLast, Filed, Told, Running
  <1> QED
    BY <1>2, <1>3, <1>4, <1>5, <1>6, UsageAnswerable, ResumingAnswerable

LEMMA AnswerableInit == ASSUME Init PROVE Answerable
  <1>1. disk \in OldLogs /\ mem = Empty /\ talk = Down /\ past.made = 0
    BY DEF Init, NoPast
  <1>2. Told = ReadLines(disk) /\ ~Running /\ talk.phase # "calls"
    BY <1>1, DownIsTalk DEF Told, Running
  <1>3. Filed
    BY <1>1, <1>2, OldLogsAssumption, OldBatchesAssumption DEF Filed, ReadLines, ToSet
  <1>4. DOMAIN Empty.nodes = {} /\ ToSet(Empty.nodes) = {}
    BY DEF Empty, ToSet
  <1> QED
    BY <1>1, <1>2, <1>3, <1>4 DEF Answerable, Paired, NodeCalls, CallsLast

LEMMA AnswerableStep ==
  ASSUME LogTypes, Answerable, InOrder', [Next]_vars PROVE Answerable'
  BY AppendingSteps, AppendingAnswerable, OthersAnswerable DEF Next

\* As long as the file stays in the order in which it was written, every
\* request answers every call of a message in the message right after it,
\* whatever was lost, cancelled, folded or cut off before.
THEOREM CallsAreAnswered == Spec /\ []InOrder => []EveryCallIsAnswered
<1>1. Init => LogTypes /\ Answerable
  BY LogTypesInit, AnswerableInit
<1>2. LogTypes /\ Answerable /\ InOrder' /\ [Next]_vars => LogTypes' /\ Answerable'
  BY LogTypesStep, AnswerableStep
<1>3. LogTypes /\ Answerable => EveryCallIsAnswered
  BY PairedAnswers DEF Answerable
<1> QED BY <1>1, <1>2, <1>3, PTL DEF Spec

(***************************************************************************)
(* Settled memories: what an entry makes of one, in memory and read back.  *)
(***************************************************************************)

\* Greatest of a set of naturals below a bound.
LEMMA GreatestBelow ==
  ASSUME NEW n \in Nat, NEW T \in SUBSET Nat, \A y \in T : y < n, T # {}
  PROVE  Max(T) \in T /\ \A y \in T : Max(T) >= y
  <1>1. CASE T = {0}
    <2>1. \E x \in T : \A y \in T : x >= y
      BY <1>1
    <2> QED
      BY <2>1 DEF Max
  <1>2. CASE T # {0}
    <2> DEFINE U == T \ {0}
    <2>1. U \in SUBSET (1..n) /\ U # {}
      BY <1>2
    <2> HIDE DEF U
    <2>2. Max(U) \in U /\ \A y \in U : Max(U) >= y
      BY <2>1, GreatestUpTo
    <2>3. Max(U) \in T /\ Max(U) \in Nat /\ \A y \in T : y \in U \/ y = 0
      BY <2>1, <2>2 DEF U
    <2>4. \A y \in T : Max(U) >= y
      BY <2>2, <2>3
    <2>5. \E x \in T : \A y \in T : x >= y
      BY <2>3, <2>4
    <2> QED
      BY <2>5 DEF Max
  <1> QED
    BY <1>1, <1>2

\* What is in use is an entry of its own number.
LEMMA InUseEntries ==
  ASSUME NEW m, WellFormed(m)
  PROVE  /\ m \in Memory /\ m.nextSeq \in Nat \ {0}
         /\ m.nodes \in Seq(Nat) /\ Len(m.nodes) \in Nat /\ DOMAIN m.nodes = 1..Len(m.nodes)
         /\ m.thinkingSeqs \in SUBSET Nat
         /\ \A n \in InUse(m) : /\ n \in Nat /\ n \in DOMAIN m.entries /\ n < m.nextSeq
                                /\ m.entries[n] \in Entry /\ m.entries[n].seq = n
         /\ \A i \in 1..Len(m.nodes) : m.nodes[i] \in InUse(m) /\ m.nodes[i] \in ToSet(m.nodes)
         /\ \A t \in m.thinkingSeqs : t \in InUse(m)
         /\ \A n \in ToSet(m.nodes) : n \in InUse(m) /\ \E i \in 1..Len(m.nodes) : m.nodes[i] = n
  <1>1. m \in Memory
    BY DEF WellFormed
  <1>2. /\ m.nextSeq \in Nat \ {0} /\ m.nodes \in Seq(Nat) /\ Len(m.nodes) \in Nat
        /\ DOMAIN m.nodes = 1..Len(m.nodes) /\ m.thinkingSeqs \in SUBSET Nat
    BY <1>1 DEF Memory
  <1>3. PICK D \in SUBSET Nat : m.entries \in [D -> Entry]
    BY <1>1 DEF Memory, Entries
  <1>4. \A i \in 1..Len(m.nodes) : m.nodes[i] \in InUse(m) /\ m.nodes[i] \in ToSet(m.nodes)
    BY <1>2 DEF InUse, ToSet
  <1>5. \A n \in InUse(m) : n \in DOMAIN m.entries /\ n < m.nextSeq /\ m.entries[n].seq = n
    BY DEF WellFormed
  <1>6. \A n \in ToSet(m.nodes) : n \in InUse(m) /\ \E i \in 1..Len(m.nodes) : m.nodes[i] = n
    BY <1>2 DEF InUse, ToSet
  <1>7. \A n \in InUse(m) : n \in Nat /\ m.entries[n] \in Entry
    BY <1>3, <1>5
  <1> QED
    BY <1>1, <1>2, <1>4, <1>5, <1>6, <1>7 DEF InUse

\* Where the thinking after a node begins: at its number, or at the last one
\* a summary covers, which is lower.
LEMMA BoundaryIs ==
  ASSUME NEW m, WellFormed(m), Numbered(m), NEW i \in 1..Len(m.nodes)
  PROVE  /\ Boundary(m, i) \in Nat /\ Boundary(m, i) <= m.nodes[i]
         /\ LET e == m.entries[m.nodes[i]]
            IN  Boundary(m, i) = IF e.type = "summary" /\ e.covers # {} THEN Max(e.covers)
                                 ELSE m.nodes[i]
  <1> DEFINE n == m.nodes[i]
             e == m.entries[n]
  <1>1. n \in Nat /\ e \in Entry /\ e.seq = n /\ n \in ToSet(m.nodes) /\ i # 0
    BY InUseEntries
  <1>2. Boundary(m, i) = IF e.type = "summary" /\ e.covers # {} THEN Max(e.covers) ELSE n
    BY <1>1 DEF Boundary
  <1>3. e.covers \in SUBSET Nat /\ (e.type = "summary" => \A c \in e.covers : c < n)
    BY <1>1 DEF Entry, Numbered
  <1> HIDE DEF e, n
  <1>4. e.type = "summary" /\ e.covers # {} => Max(e.covers) \in e.covers
    BY <1>1, <1>3, GreatestBelow
  <1>5. Boundary(m, i) \in Nat /\ Boundary(m, i) <= n
    BY <1>1, <1>2, <1>3, <1>4
  <1> QED
    BY <1>2, <1>5 DEF e, n

\* Usage makes no difference to a settled memory.
LEMMA AlikeSettled ==
  ASSUME NEW m, NEW M, WellFormed(m), WellFormed(M), Alike(m, M), Settled(m)
  PROVE  Settled(M)
  <1>1. M.nodes = m.nodes /\ M.thinkingSeqs = m.thinkingSeqs /\ InUse(M) = InUse(m)
    BY DEF Alike, InUse
  <1>2. ASSUME NEW n \in InUse(m)
        PROVE  /\ M.entries[n].type = m.entries[n].type /\ M.entries[n].uses = m.entries[n].uses
               /\ M.entries[n].covers = m.entries[n].covers /\ M.entries[n].seq = m.entries[n].seq
               /\ M.entries[n].turn = m.entries[n].turn
    <2>1. m.entries[n] \in Entry /\ M.entries[n] \in Entry /\ Mute(m.entries[n]) = Mute(M.entries[n])
      BY <1>1, InUseEntries DEF Alike
    <2>2. M.entries[n].turn = m.entries[n].turn
      <3>1. \A e \in Entry : Mute(e).turn = e.turn
        BY DEF Mute, Entry
      <3> QED
        BY <2>1, <3>1
    <2> QED
      BY <2>1, <2>2, MutedFields
  <1>3. /\ DOMAIN m.nodes = 1..Len(m.nodes) /\ Len(m.nodes) \in Nat
        /\ \A i \in 1..Len(m.nodes) : m.nodes[i] \in InUse(m)
        /\ \A n \in ToSet(m.nodes) : n \in InUse(m)
        /\ \A t \in m.thinkingSeqs : t \in InUse(m)
    BY InUseEntries
  <1>4. Numbered(M)
    BY <1>1, <1>2, <1>3 DEF Settled, Numbered
  <1>5. Answering(M)
    <2> SUFFICES ASSUME NEW i \in 1..Len(m.nodes), M.entries[m.nodes[i]].type = "results"
                 PROVE  i > 1 /\ M.entries[m.nodes[i]].uses \subseteq M.entries[m.nodes[i - 1]].uses
      BY <1>1, <1>3 DEF Answering
    <2>1. i > 1 /\ m.entries[m.nodes[i]].uses \subseteq m.entries[m.nodes[i - 1]].uses
      BY <1>2, <1>3 DEF Settled, Answering
    <2>2. i - 1 \in 1..Len(m.nodes)
      BY <1>3, <2>1
    <2> QED
      BY <1>2, <1>3, <2>1, <2>2
  <1>6. \A i \in 1..Len(m.nodes) : Boundary(M, i - 1) = Boundary(m, i - 1)
    <2> SUFFICES ASSUME NEW i \in 1..Len(m.nodes) PROVE Boundary(M, i - 1) = Boundary(m, i - 1)
      OBVIOUS
    <2>1. CASE i = 1
      BY <2>1 DEF Boundary
    <2>2. CASE i # 1
      <3>1. i - 1 \in 1..Len(m.nodes) /\ i - 1 # 0
        BY <1>3, <2>2
      <3>2. m.nodes[i - 1] \in InUse(m)
        BY <1>3, <3>1
      <3> QED
        BY <1>1, <1>2, <3>1, <3>2 DEF Boundary
    <2> QED
      BY <2>1, <2>2
  <1>7. InTurns(M)
    <2> SUFFICES ASSUME NEW i \in 1..Len(m.nodes), M.entries[m.nodes[i]].type = "assistant",
                        M.entries[m.nodes[i]].uses # {}, NEW t \in m.thinkingSeqs,
                        Boundary(M, i - 1) < t, t < m.nodes[i]
                 PROVE  M.entries[t].turn = M.entries[m.nodes[i]].turn
      BY <1>1, <1>3 DEF InTurns
    <2>1. m.entries[t].turn = m.entries[m.nodes[i]].turn
      BY <1>2, <1>3, <1>6 DEF Settled, InTurns
    <2> QED
      BY <1>2, <1>3, <2>1
  <1> QED
    BY <1>4, <1>5, <1>7 DEF Settled

LEMMA OnceAfter ==
  ASSUME NEW m \in Memory, NEW e, NEW q \in Nat, q \notin ToSet(m.nodes)
  PROVE  LET new == NodesAfter(m.nodes, e, q)
         IN  \A i, j \in 1..Len(new) : new[i] = q /\ new[j] = q => i = j
  <1> DEFINE new == NodesAfter(m.nodes, e, q)
  <1> SUFFICES \A i, j \in 1..Len(new) : new[i] = q /\ new[j] = q => i = j
    OBVIOUS
  <1>1. /\ m.nodes \in Seq(Nat) /\ Len(m.nodes) \in Nat /\ DOMAIN m.nodes = 1..Len(m.nodes)
        /\ \A k \in 1..Len(m.nodes) : m.nodes[k] # q
    BY DEF Memory, ToSet
  <1>0. new = NodesAfter(m.nodes, e, q)
    OBVIOUS
  <1> HIDE DEF new
  <1>2. CASE new = m.nodes
    BY <1>1, <1>2
  <1>3. CASE new # m.nodes /\ e.type = "summary"
    <2>1. new = Spliced(m.nodes, e.covers, q)
      BY <1>0, <1>3 DEF NodesAfter
    <2>2. PICK x \in Nat, c \in Nat \ {0} : IsSplice(new, m.nodes, q, x, c)
      BY <1>1, <1>3, <2>1, SplicedPlaces
    <2>3. \A i \in 1..Len(new) : new[i] = q => i = x
      BY <1>1, <2>2 DEF IsSplice
    <2> QED
      BY <2>3
  <1>4. CASE new # m.nodes /\ e.type # "summary"
    <2>1. new = Append(m.nodes, q)
      BY <1>0, <1>4 DEF NodesAfter
    <2>2. Len(new) = Len(m.nodes) + 1 /\ \A i \in 1..Len(m.nodes) : new[i] = m.nodes[i]
      BY <1>1, <2>1, AppendTo
    <2>3. \A i \in 1..Len(new) : new[i] = q => i = Len(new)
      BY <1>1, <2>2
    <2> QED
      BY <2>3
  <1> QED
    BY <1>2, <1>3, <1>4

LEMMA NumberedAfter ==
  ASSUME NEW m, WellFormed(m), Numbered(m), NEW M, NEW e \in Entry, NEW q \in Nat,
         Adds(m, M, e, q), \A n \in InUse(m) : n < q,
         e.type = "summary" => \A c \in e.covers : c < q
  PROVE  Numbered(M)
  <1>1. m \in Memory /\ M \in Memory /\ q \notin InUse(m) /\ q \notin ToSet(m.nodes)
    BY DEF WellFormed, Adds, InUse
  <1>2. /\ DOMAIN m.nodes = 1..Len(m.nodes) /\ Len(m.nodes) \in Nat
        /\ DOMAIN M.nodes = 1..Len(M.nodes) /\ Len(M.nodes) \in Nat
        /\ \A i \in 1..Len(m.nodes) : m.nodes[i] \in InUse(m) /\ m.nodes[i] \in ToSet(m.nodes)
    BY <1>1, InUseEntries DEF Memory
  <1>3. M.nodes = NodesAfter(m.nodes, e, q)
    BY DEF Adds
  <1>4. /\ \A i \in 1..Len(M.nodes) : M.nodes[i] = q \/ \E k \in 1..Len(m.nodes) : M.nodes[i] = m.nodes[k]
        /\ \A i, j \in 1..Len(M.nodes) : i < j /\ M.nodes[i] # q /\ M.nodes[j] # q =>
              \E k, l \in 1..Len(m.nodes) :
                 /\ k < l /\ M.nodes[i] = m.nodes[k] /\ M.nodes[j] = m.nodes[l]
                 /\ l = k + 1 => j = i + 1
    BY <1>1, <1>3, PlacesAfter
  <1>5. \A i, j \in 1..Len(M.nodes) : M.nodes[i] = q /\ M.nodes[j] = q => i = j
    BY <1>1, <1>3, OnceAfter
  <1>6. \A i, j \in 1..Len(M.nodes) : i < j => M.nodes[i] # M.nodes[j]
    <2> SUFFICES ASSUME NEW i \in 1..Len(M.nodes), NEW j \in 1..Len(M.nodes), i < j,
                        M.nodes[i] = M.nodes[j]
                 PROVE  FALSE
      OBVIOUS
    <2>1. M.nodes[i] # q /\ M.nodes[j] # q
      BY <1>2, <1>5
    <2>2. PICK k \in 1..Len(m.nodes), l \in 1..Len(m.nodes) :
             k < l /\ M.nodes[i] = m.nodes[k] /\ M.nodes[j] = m.nodes[l]
      BY <1>4, <2>1
    <2>3. m.nodes[k] = m.nodes[l] /\ k \in DOMAIN m.nodes /\ l \in DOMAIN m.nodes
      BY <1>2, <2>2
    <2>4. k = l
      BY <2>3 DEF Numbered
    <2> QED
      BY <2>2, <2>4
  <1>7. ASSUME NEW n \in ToSet(M.nodes), M.entries[n].type = "summary", NEW c \in M.entries[n].covers
        PROVE  c < n
    <2>1. PICK i \in 1..Len(M.nodes) : M.nodes[i] = n
      BY <1>2 DEF ToSet
    <2>2. CASE n = q /\ e.type # "start"
      <3>1. M.entries[n] = [e EXCEPT !.seq = q]
        BY <2>2 DEF Adds
      <3>2. [e EXCEPT !.seq = q].type = e.type /\ [e EXCEPT !.seq = q].covers = e.covers
        BY DEF Entry
      <3> QED
        BY <1>7, <2>2, <3>1, <3>2
    <2>3. CASE ~(n = q /\ e.type # "start")
      <3>1. n \in ToSet(m.nodes)
        <4>1. CASE e.type = "start"
          BY <1>3, <4>1 DEF NodesAfter
        <4>2. CASE n # q
          BY <1>2, <1>4, <2>1, <4>2
        <4> QED
          BY <2>3, <4>1, <4>2
      <3>2. n \in DOMAIN m.entries
        BY <3>1, InUseEntries
      <3>3. M.entries[n] = m.entries[n]
        BY <2>3, <3>2 DEF Adds
      <3> QED
        BY <1>7, <3>1, <3>3 DEF Numbered
    <2> QED
      BY <2>2, <2>3
  <1>8. \A i, j \in 1..Len(M.nodes) : M.nodes[i] = M.nodes[j] => i = j
    BY <1>2, <1>6
  <1> QED
    BY <1>2, <1>7, <1>8 DEF Numbered

\* Entries that are no nodes: the start of a compaction, metas, thinking.
LEMMA SameNodesSettled ==
  ASSUME NEW m, WellFormed(m), Settled(m), NEW M, NEW q \in Nat, M.nodes = m.nodes,
         \A n \in InUse(m) : M.entries[n] = m.entries[n] /\ n < q,
         M.thinkingSeqs \subseteq m.thinkingSeqs \union {q}
  PROVE  Settled(M) /\ \A i \in 0..Len(m.nodes) : Boundary(M, i) = Boundary(m, i)
  <1>1. /\ DOMAIN m.nodes = 1..Len(m.nodes) /\ Len(m.nodes) \in Nat
        /\ \A i \in 1..Len(m.nodes) : m.nodes[i] \in InUse(m) /\ m.nodes[i] \in Nat
        /\ \A n \in ToSet(m.nodes) : n \in InUse(m)
        /\ \A t \in m.thinkingSeqs : t \in InUse(m)
    BY InUseEntries
  <1>2. \A i \in 0..Len(m.nodes) : Boundary(M, i) = Boundary(m, i)
    <2> SUFFICES ASSUME NEW i \in 0..Len(m.nodes) PROVE Boundary(M, i) = Boundary(m, i)
      OBVIOUS
    <2>1. CASE i = 0
      BY <2>1 DEF Boundary
    <2>2. CASE i # 0
      <3>1. i \in 1..Len(m.nodes)
        BY <1>1, <2>2
      <3> QED
        BY <1>1, <2>2, <3>1 DEF Boundary
    <2> QED
      BY <2>1, <2>2
  <1>3. Numbered(M)
    BY <1>1 DEF Settled, Numbered
  <1>4. Answering(M)
    <2> SUFFICES ASSUME NEW i \in 1..Len(m.nodes), M.entries[m.nodes[i]].type = "results"
                 PROVE  i > 1 /\ M.entries[m.nodes[i]].uses \subseteq M.entries[m.nodes[i - 1]].uses
      BY <1>1 DEF Answering
    <2>1. i > 1 /\ m.entries[m.nodes[i]].uses \subseteq m.entries[m.nodes[i - 1]].uses
      BY <1>1 DEF Settled, Answering
    <2>2. i - 1 \in 1..Len(m.nodes)
      BY <1>1, <2>1
    <2> QED
      BY <1>1, <2>1, <2>2
  <1>5. InTurns(M)
    <2> SUFFICES ASSUME NEW i \in 1..Len(m.nodes), M.entries[m.nodes[i]].type = "assistant",
                        M.entries[m.nodes[i]].uses # {}, NEW t \in M.thinkingSeqs,
                        Boundary(M, i - 1) < t, t < m.nodes[i]
                 PROVE  M.entries[t].turn = M.entries[m.nodes[i]].turn
      BY <1>1 DEF InTurns
    <2>1. t \in m.thinkingSeqs
      BY <1>1
    <2>2. i - 1 \in 0..Len(m.nodes)
      BY <1>1
    <2>3. Boundary(m, i - 1) < t
      BY <1>2, <2>2
    <2>4. m.entries[t].turn = m.entries[m.nodes[i]].turn
      BY <1>1, <2>1, <2>3 DEF Settled, InTurns
    <2> QED
      BY <1>1, <2>1, <2>4
  <1> QED
    BY <1>2, <1>3, <1>4, <1>5 DEF Settled

\* Messages: results follow their batch, and what a batch takes in is of its turn.
LEMMA AppendedSettled ==
  ASSUME NEW m, WellFormed(m), Settled(m), NEW M, NEW e \in Entry, NEW q \in Nat,
         Adds(m, M, e, q), \A n \in InUse(m) : n < q,
         e.type \in {"user", "assistant", "results"},
         e.type = "results" => m.nodes # <<>> /\ e.uses \subseteq m.entries[m.nodes[Len(m.nodes)]].uses,
         e.type = "assistant" /\ e.uses # {} =>
            \A t \in m.thinkingSeqs : Boundary(m, Len(m.nodes)) < t => m.entries[t].turn = e.turn
  PROVE  Settled(M)
  <1>1. /\ DOMAIN m.nodes = 1..Len(m.nodes) /\ Len(m.nodes) \in Nat /\ m.nodes \in Seq(Nat)
        /\ \A i \in 1..Len(m.nodes) : m.nodes[i] \in InUse(m) /\ m.nodes[i] \in Nat
        /\ \A n \in ToSet(m.nodes) : n \in InUse(m)
        /\ \A t \in m.thinkingSeqs : t \in InUse(m)
        /\ \A n \in InUse(m) : n \in DOMAIN m.entries
    BY InUseEntries
  <1>2. M.nodes = Append(m.nodes, q) /\ M.thinkingSeqs = m.thinkingSeqs
    BY DEF Adds, NodesAfter, ThinkingAfter
  <1>3. /\ Len(M.nodes) = Len(m.nodes) + 1 /\ M.nodes[Len(m.nodes) + 1] = q
        /\ \A i \in 1..Len(m.nodes) : M.nodes[i] = m.nodes[i]
        /\ DOMAIN M.nodes = 1..(Len(m.nodes) + 1)
    BY <1>1, <1>2, AppendTo
  <1>4. \A n \in InUse(m) : M.entries[n] = m.entries[n]
    BY <1>1 DEF Adds
  <1>5. /\ M.entries[q].type = e.type /\ M.entries[q].uses = e.uses /\ M.entries[q].turn = e.turn
    <2>1. M.entries[q] = [e EXCEPT !.seq = q]
      BY DEF Adds
    <2> QED
      BY <2>1 DEF Entry
  <1>6. Numbered(M)
    BY NumberedAfter DEF Settled
  <1>7. \A i \in 1..(Len(m.nodes) + 1) : Boundary(M, i - 1) = Boundary(m, i - 1)
    <2> SUFFICES ASSUME NEW i \in 1..(Len(m.nodes) + 1) PROVE Boundary(M, i - 1) = Boundary(m, i - 1)
      OBVIOUS
    <2>1. CASE i = 1
      BY <2>1 DEF Boundary
    <2>2. CASE i # 1
      <3>1. i - 1 \in 1..Len(m.nodes) /\ i - 1 # 0
        BY <1>1, <2>2
      <3> QED
        BY <1>1, <1>3, <1>4, <3>1 DEF Boundary
    <2> QED
      BY <2>1, <2>2
  <1>8. Answering(M)
    <2> SUFFICES ASSUME NEW i \in 1..(Len(m.nodes) + 1), M.entries[M.nodes[i]].type = "results"
                 PROVE  i > 1 /\ M.entries[M.nodes[i]].uses \subseteq M.entries[M.nodes[i - 1]].uses
      BY <1>3 DEF Answering
    <2>1. CASE i = Len(m.nodes) + 1
      <3>1. m.nodes # <<>> /\ e.uses \subseteq m.entries[m.nodes[Len(m.nodes)]].uses
        BY <1>3, <1>5, <2>1
      <3>2. Len(m.nodes) \in 1..Len(m.nodes) /\ i - 1 = Len(m.nodes) /\ i > 1
        BY <1>1, <2>1, <3>1
      <3>3. M.nodes[i] = q /\ M.nodes[i - 1] = m.nodes[Len(m.nodes)]
        BY <1>3, <2>1, <3>2
      <3>4. M.entries[m.nodes[Len(m.nodes)]] = m.entries[m.nodes[Len(m.nodes)]]
        BY <1>1, <1>4, <3>2
      <3> QED
        BY <1>5, <3>1, <3>2, <3>3, <3>4
    <2>2. CASE i \in 1..Len(m.nodes)
      <3>1. i > 1 /\ m.entries[m.nodes[i]].uses \subseteq m.entries[m.nodes[i - 1]].uses
        BY <1>1, <1>3, <1>4, <2>2 DEF Settled, Answering
      <3>2. i - 1 \in 1..Len(m.nodes)
        BY <1>1, <2>2, <3>1
      <3> QED
        BY <1>1, <1>3, <1>4, <2>2, <3>1, <3>2
    <2> QED
      BY <1>1, <2>1, <2>2
  <1>9. InTurns(M)
    <2> SUFFICES ASSUME NEW i \in 1..(Len(m.nodes) + 1), M.entries[M.nodes[i]].type = "assistant",
                        M.entries[M.nodes[i]].uses # {}, NEW t \in m.thinkingSeqs,
                        Boundary(M, i - 1) < t, t < M.nodes[i]
                 PROVE  M.entries[t].turn = M.entries[M.nodes[i]].turn
      BY <1>2, <1>3 DEF InTurns
    <2>1. M.entries[t] = m.entries[t] /\ Boundary(m, i - 1) < t
      BY <1>1, <1>4, <1>7
    <2>2. CASE i = Len(m.nodes) + 1
      <3>1. i - 1 = Len(m.nodes)
        BY <1>1, <2>2
      <3> QED
        BY <1>3, <1>5, <2>1, <2>2, <3>1
    <2>3. CASE i \in 1..Len(m.nodes)
      <3>1. M.nodes[i] = m.nodes[i] /\ M.entries[m.nodes[i]] = m.entries[m.nodes[i]]
            /\ i \in DOMAIN m.nodes
        BY <1>1, <1>3, <1>4, <2>3
      <3>2. m.entries[t].turn = m.entries[m.nodes[i]].turn
        BY <2>1, <3>1 DEF Settled, InTurns
      <3> QED
        BY <2>1, <3>1, <3>2
    <2> QED
      BY <1>1, <2>2, <2>3
  <1> QED
    BY <1>6, <1>8, <1>9 DEF Settled

\* A summary of the first k messages is the first, and those behind follow.
LEMMA FoldedPlaces ==
  ASSUME NEW m, WellFormed(m), Numbered(m), NEW k \in 1..(Len(m.nodes) - 1), NEW q \in Nat
  PROVE  LET new == Spliced(m.nodes, {m.nodes[j] : j \in 1..k}, q)
         IN  /\ Len(new) = Len(m.nodes) - k + 1 /\ new[1] = q /\ new \in Seq(Nat)
             /\ \A i \in 2..(Len(m.nodes) - k + 1) : new[i] = m.nodes[i + k - 1]
  <1> DEFINE covers == {m.nodes[j] : j \in 1..k}
             hit == {i \in DOMAIN m.nodes : m.nodes[i] \in covers}
             n == Len(m.nodes)
             z == SubSeq(m.nodes, k + 1, n)
  <1>1. n \in Nat /\ DOMAIN m.nodes = 1..n /\ m.nodes \in Seq(Nat) /\ k \in Nat /\ k >= 1 /\ k < n
    BY InUseEntries
  <1>2. hit = 1..k
    <2>1. ASSUME NEW i \in hit PROVE i \in 1..k
      <3>1. PICK j \in 1..k : m.nodes[i] = m.nodes[j]
        OBVIOUS
      <3>2. i \in DOMAIN m.nodes /\ j \in DOMAIN m.nodes
        BY <1>1
      <3> QED
        BY <3>1, <3>2 DEF Numbered
    <2>2. ASSUME NEW i \in 1..k PROVE i \in hit
      <3>1. i \in DOMAIN m.nodes
        BY <1>1
      <3>2. m.nodes[i] \in covers
        OBVIOUS
      <3> QED
        BY <3>1, <3>2
    <2> HIDE DEF hit
    <2> QED
      BY <2>1, <2>2
  <1>3. Min(1..k) = 1
    <2>1. 1..k \in SUBSET Nat /\ 1..k # {} /\ 1 \in 1..k
      BY <1>1
    <2>2. Min(1..k) \in 1..k /\ \A y \in 1..k : Min(1..k) <= y
      BY <2>1, LeastOfNats
    <2> QED
      BY <2>1, <2>2
  <1>4. Cardinality(1..k) = k
    BY <1>1, FS_Interval
  <1>5. Spliced(m.nodes, covers, q) = SubSeq(m.nodes, 1, 0) \o <<q>> \o z
    <2>1. /\ 1..k # {} /\ Min(1..k) - 1 = 0 /\ Min(1..k) + Cardinality(1..k) = k + 1
      <3>1. 1 \in 1..k
        BY <1>1
      <3>2. 1..k # {}
        BY <3>1
      <3>3. 1 - 1 = 0 /\ 1 + k = k + 1
        BY <1>1
      <3> QED
        BY <1>3, <1>4, <3>2, <3>3
    <2>2. hit # {} /\ Min(hit) - 1 = 0 /\ Min(hit) + Cardinality(hit) = k + 1
      <3> HIDE DEF hit
      <3> QED
        BY <1>2, <2>1
    <2>3. Spliced(m.nodes, covers, q) =
             IF hit = {} THEN m.nodes
             ELSE SubSeq(m.nodes, 1, Min(hit) - 1) \o <<q>>
                  \o SubSeq(m.nodes, Min(hit) + Cardinality(hit), Len(m.nodes))
      BY DEF Spliced
    <2> HIDE DEF hit
    <2> QED
      BY <2>2, <2>3
  <1> HIDE DEF hit, covers
  <1>6. SubSeq(m.nodes, 1, 0) = <<>>
    <2>1. /\ SubSeq(m.nodes, 1, 0) \in Seq(Nat) /\ Len(SubSeq(m.nodes, 1, 0)) = 0
      BY <1>1, SubSeqProperties
    <2> QED
      BY <2>1, EmptySeq
  <1>7. /\ z \in Seq(Nat) /\ Len(z) = n - k
        /\ \A i \in 1..(n - k) : z[i] = m.nodes[k + i]
    <2>1. k + 1 \in Int /\ n \in Int /\ k + 1 <= n /\ \A i \in (k + 1)..n : m.nodes[i] \in Nat
      BY <1>1
    <2> HIDE DEF n
    <2>2. /\ SubSeq(m.nodes, k + 1, n) \in Seq(Nat) /\ Len(SubSeq(m.nodes, k + 1, n)) = n - (k + 1) + 1
          /\ \A i \in 1..(n - (k + 1) + 1) : SubSeq(m.nodes, k + 1, n)[i] = m.nodes[(k + 1) + i - 1]
      BY <2>1, SubSeqProperties
    <2>3. n - (k + 1) + 1 = n - k /\ \A i \in 1..(n - k) : (k + 1) + i - 1 = k + i
      BY <1>1
    <2> QED
      BY <2>2, <2>3
  <1> HIDE DEF z, n
  <1> DEFINE new == <<q>> \o z
  <1>8. Spliced(m.nodes, covers, q) = new
    <2>1. <<>> \o <<q>> = <<q>>
      OBVIOUS
    <2> QED
      BY <1>5, <1>6, <2>1
  <1>9. /\ new \in Seq(Nat) /\ Len(new) = 1 + (n - k)
        /\ \A i \in 1..(1 + (n - k)) : new[i] = IF i <= 1 THEN q ELSE z[i - 1]
    <2>1. <<q>> \in Seq(Nat) /\ Len(<<q>>) = 1 /\ <<q>>[1] = q
      OBVIOUS
    <2>2. /\ <<q>> \o z \in Seq(Nat) /\ Len(<<q>> \o z) = 1 + (n - k)
          /\ \A i \in 1..(1 + (n - k)) : (<<q>> \o z)[i] = IF i <= 1 THEN <<q>>[i] ELSE z[i - 1]
      BY <1>7, <2>1, ConcatProperties
    <2>3. \A i \in 1..(1 + (n - k)) : i <= 1 => i = 1
      BY <1>1
    <2> QED
      BY <2>1, <2>2, <2>3
  <1> HIDE DEF new
  <1>10. ASSUME NEW i \in 2..(n - k + 1) PROVE new[i] = m.nodes[i + k - 1]
    <2>1. i \in 1..(1 + (n - k)) /\ ~(i <= 1) /\ i - 1 \in 1..(n - k) /\ k + (i - 1) = i + k - 1
      BY <1>1
    <2> QED
      BY <1>7, <1>9, <2>1
  <1>11. new[1] = q /\ Len(new) = n - k + 1
    <2>1. 1 \in 1..(1 + (n - k)) /\ 1 + (n - k) = n - k + 1
      BY <1>1
    <2> QED
      BY <1>9, <2>1
  <1> QED
    BY <1>8, <1>9, <1>10, <1>11 DEF n, covers

LEMMA FoldedSettled ==
  ASSUME NEW m, WellFormed(m), Settled(m), NEW M, WellFormed(M), NEW e \in Entry, NEW q \in Nat,
         Adds(m, M, e, q), \A n \in InUse(m) : n < q, e.type = "summary",
         NEW k \in 1..(Len(m.nodes) - 1), e.covers = {m.nodes[j] : j \in 1..k},
         m.entries[m.nodes[k + 1]].type # "results"
  PROVE  /\ Settled(M) /\ M.thinkingSeqs = m.thinkingSeqs
         /\ q \in ToSet(M.nodes) /\ M.nodes # <<>>
         /\ \A n \in InUse(m) : M.entries[n] = m.entries[n]
         /\ Boundary(M, Len(M.nodes)) = Boundary(m, Len(m.nodes))
  <1> DEFINE n == Len(m.nodes)
             N == Len(M.nodes)
  <1>1. /\ DOMAIN m.nodes = 1..n /\ n \in Nat /\ m.nodes \in Seq(Nat)
        /\ \A i \in 1..n : m.nodes[i] \in InUse(m) /\ m.nodes[i] \in Nat
        /\ \A x \in ToSet(m.nodes) : x \in InUse(m)
        /\ \A t \in m.thinkingSeqs : t \in InUse(m) /\ t \in Nat
        /\ \A x \in InUse(m) : x \in DOMAIN m.entries
        /\ k \in Nat /\ k >= 1 /\ k < n
        /\ Numbered(m)
    BY InUseEntries DEF Settled
  <1>2. M.nodes = Spliced(m.nodes, e.covers, q) /\ M.thinkingSeqs = m.thinkingSeqs
    BY DEF Adds, NodesAfter, ThinkingAfter
  <1>3. /\ N = n - k + 1 /\ M.nodes[1] = q /\ M.nodes \in Seq(Nat)
        /\ \A i \in 2..(n - k + 1) : M.nodes[i] = m.nodes[i + k - 1]
    <2>1. M.nodes = Spliced(m.nodes, {m.nodes[j] : j \in 1..k}, q)
      BY <1>2
    <2>2. LET new == Spliced(m.nodes, {m.nodes[j] : j \in 1..k}, q)
          IN  /\ Len(new) = Len(m.nodes) - k + 1 /\ new[1] = q /\ new \in Seq(Nat)
              /\ \A i \in 2..(Len(m.nodes) - k + 1) : new[i] = m.nodes[i + k - 1]
      <3>1. Numbered(m) /\ k \in 1..(Len(m.nodes) - 1)
        BY DEF Settled
      <3> QED
        BY ONLY WellFormed(m), q \in Nat, <3>1, FoldedPlaces
    <2> QED
      BY <2>1, <2>2
  <1>4. \A x \in InUse(m) : M.entries[x] = m.entries[x]
    BY <1>1 DEF Adds
  <1>5. M.entries[q].type = "summary" /\ M.entries[q].covers = e.covers
    <2>1. M.entries[q] = [e EXCEPT !.seq = q]
      BY DEF Adds
    <2> QED
      BY <2>1 DEF Entry
  <1>6. e.covers \in SUBSET Nat /\ (\A c \in e.covers : c < q) /\ m.nodes[k] \in e.covers /\ e.covers # {}
    <2>1. k \in 1..k /\ \A j \in 1..k : j \in 1..n
      BY <1>1
    <2> QED
      BY <1>1, <2>1
  <1>7. Numbered(M)
    BY <1>1, <1>6, NumberedAfter
  <1> HIDE DEF n, N
  <1>8. \A i \in 2..N : i + k - 1 \in 1..n /\ i + k - 1 > 1 /\ M.nodes[i] = m.nodes[i + k - 1]
                        /\ M.entries[M.nodes[i]] = m.entries[m.nodes[i + k - 1]]
    <2> SUFFICES ASSUME NEW i \in 2..N
                 PROVE  i + k - 1 \in 1..n /\ i + k - 1 > 1 /\ M.nodes[i] = m.nodes[i + k - 1]
                        /\ M.entries[M.nodes[i]] = m.entries[m.nodes[i + k - 1]]
      OBVIOUS
    <2>1. i + k - 1 \in 1..n /\ i + k - 1 > 1
      <3>1. n \in Nat /\ k \in Nat /\ k >= 1 /\ k < n
        BY <1>1
      <3>2. N = n - k + 1
        BY <1>3
      <3> QED
        BY <3>1, <3>2
    <2> QED
      BY <1>1, <1>3, <1>4, <2>1
  <1>9. N \in Nat /\ N >= 2 /\ DOMAIN M.nodes = 1..N
    BY <1>1, <1>3 DEF N
  <1>10. \A i \in 2..N : Boundary(M, i) = Boundary(m, i + k - 1)
    <2> SUFFICES ASSUME NEW i \in 2..N PROVE Boundary(M, i) = Boundary(m, i + k - 1)
      OBVIOUS
    <2>1. i # 0 /\ i + k - 1 # 0
      BY <1>8
    <2> QED
      BY <1>8, <2>1 DEF Boundary
  <1>11. Boundary(M, 1) >= Boundary(m, k) /\ Boundary(M, 1) \in Nat /\ Boundary(m, k) \in Nat
    <2>1. Boundary(M, 1) = Max(e.covers)
      <3>1. 1 \in 1..Len(M.nodes)
        BY <1>9 DEF N
      <3>2. Boundary(M, 1) = LET f == M.entries[M.nodes[1]]
                             IN  IF f.type = "summary" /\ f.covers # {} THEN Max(f.covers)
                                 ELSE M.nodes[1]
        BY <1>7, <3>1, BoundaryIs
      <3> QED
        BY <1>3, <1>5, <1>6, <3>2
    <2>2. Max(e.covers) \in Nat /\ Max(e.covers) >= m.nodes[k]
      BY <1>6, GreatestBelow
    <2>3. k \in 1..Len(m.nodes)
      BY <1>1 DEF n
    <2>4. Boundary(m, k) \in Nat /\ Boundary(m, k) <= m.nodes[k] /\ m.nodes[k] \in Nat
      BY <1>1, <2>3, BoundaryIs DEF n
    <2> QED
      BY <2>1, <2>2, <2>4
  <1>12. Answering(M)
    <2> SUFFICES ASSUME NEW i \in 1..N, M.entries[M.nodes[i]].type = "results"
                 PROVE  i > 1 /\ M.entries[M.nodes[i]].uses \subseteq M.entries[M.nodes[i - 1]].uses
      BY <1>9 DEF Answering
    <2>1. i # 1
      BY <1>3, <1>5
    <2>2. i # 2
      <3>1. i = 2 => i + k - 1 = k + 1 /\ i \in 2..N
        BY <1>1, <1>9
      <3> QED
        BY <1>8, <3>1
    <2>3. i \in 2..N /\ i - 1 \in 2..N
      BY <1>9, <2>1, <2>2
    <2>4. /\ i + k - 1 \in DOMAIN m.nodes /\ (i - 1) + k - 1 = (i + k - 1) - 1
          /\ M.entries[M.nodes[i]] = m.entries[m.nodes[i + k - 1]]
          /\ M.entries[M.nodes[i - 1]] = m.entries[m.nodes[(i - 1) + k - 1]]
      BY <1>1, <1>8, <2>3
    <2>5. m.entries[m.nodes[i + k - 1]].uses \subseteq m.entries[m.nodes[(i + k - 1) - 1]].uses
      BY <2>4 DEF Settled, Answering
    <2> QED
      BY <2>3, <2>4, <2>5
  <1>13. InTurns(M)
    <2> SUFFICES ASSUME NEW i \in 1..N, M.entries[M.nodes[i]].type = "assistant",
                        M.entries[M.nodes[i]].uses # {}, NEW t \in m.thinkingSeqs,
                        Boundary(M, i - 1) < t, t < M.nodes[i]
                 PROVE  M.entries[t].turn = M.entries[M.nodes[i]].turn
      BY <1>2, <1>9 DEF InTurns
    <2>1. i \in 2..N
      BY <1>3, <1>5, <1>9
    <2>2. M.entries[t] = m.entries[t] /\ t \in Nat
      BY <1>1, <1>4
    <2>3. /\ i + k - 1 \in DOMAIN m.nodes /\ M.nodes[i] = m.nodes[i + k - 1]
          /\ M.entries[M.nodes[i]] = m.entries[m.nodes[i + k - 1]]
      BY <1>1, <1>8, <2>1
    <2>4. Boundary(m, (i + k - 1) - 1) < t
      <3>1. CASE i = 2
        <4>1. (i + k - 1) - 1 = k /\ i - 1 = 1
          BY <1>1, <3>1
        <4>2. Boundary(M, 1) < t
          BY <4>1
        <4>3. Boundary(m, k) < t
          BY <1>11, <2>2, <4>2
        <4> QED
          BY <4>1, <4>3
      <3>2. CASE i # 2
        <4>1. i - 1 \in 2..N /\ (i - 1) + k - 1 = (i + k - 1) - 1
          BY <1>1, <1>9, <2>1, <3>2
        <4> QED
          BY <1>10, <4>1
      <3> QED
        BY <3>1, <3>2
    <2>5. m.entries[t].turn = m.entries[m.nodes[i + k - 1]].turn
      BY <2>3, <2>4 DEF Settled, InTurns
    <2> QED
      BY <2>2, <2>3, <2>5
  <1>14. Boundary(M, N) = Boundary(m, n)
    <2>1. N \in 2..N /\ N + k - 1 = n
      <3>1. n \in Nat /\ k \in Nat
        BY <1>1
      <3>2. N = n - k + 1 /\ N \in Nat /\ N >= 2
        BY <1>3, <1>9
      <3> QED
        BY <3>1, <3>2
    <2> QED
      BY <1>10, <2>1
  <1>15. q \in ToSet(M.nodes) /\ M.nodes # <<>>
    <2>1. 1 \in DOMAIN M.nodes
      BY <1>9
    <2> QED
      BY <1>3, <2>1 DEF ToSet
  <1> QED
    BY <1>2, <1>4, <1>7, <1>12, <1>13, <1>14, <1>15 DEF Settled, N, n

(***************************************************************************)
(* The surface of a file whose lines grow by one, or change in usage only. *)
(***************************************************************************)

\* What a log of another tool shows of a line.
Strip(e) == IF e.type = "results" THEN Garbage ELSE [e EXCEPT !.uses = {}]

LEMMA StripIs ==
  ASSUME NEW e \in Entry
  PROVE  /\ Strip(e) \in Entry /\ Bare(Strip(e))
         /\ ~Parses(e) => ~Parses(Strip(e))
         /\ e.type # "results" => /\ Strip(e).type = e.type /\ Strip(e).seq = e.seq
                                  /\ Strip(e).covers = e.covers
  <1>1. Garbage \in Entry /\ Bare(Garbage) /\ ~Parses(Garbage)
    BY BlankIsEntry DEF Garbage, Blank, Bare, Parses
  <1>2. CASE e.type = "results"
    BY <1>1, <1>2 DEF Strip, Parses
  <1>3. CASE e.type # "results"
    <2>1. Strip(e) = [e EXCEPT !.uses = {}]
      BY <1>3 DEF Strip
    <2> QED
      BY <1>3, <2>1 DEF Entry, Bare, Parses
  <1> QED
    BY <1>2, <1>3

LEMMA StrippedIs ==
  ASSUME NEW u \in Seq(Entry)
  PROVE  /\ Stripped(u) \in Seq(Entry) /\ Len(Stripped(u)) = Len(u)
         /\ \A i \in 1..Len(u) : Stripped(u)[i] = Strip(u[i])
  <1> DEFINE line(i) == Strip(u[i])
             n == Len(u)
  <1>1. Stripped(u) = [i \in 1..n |-> line(i)] /\ n \in Nat
    BY DEF Stripped, Strip
  <1>2. \A i \in 1..n : line(i) \in Entry
    BY StripIs
  <1> HIDE DEF line, n
  <1>3. Stripped(u) \in Seq(Entry) /\ Len(Stripped(u)) = n /\ \A i \in 1..n : Stripped(u)[i] = line(i)
    BY <1>1, <1>2
  <1> QED
    BY <1>3 DEF line, n

\* A line more is read like any other, and does not make a log the kernel's
\* own unless it is the line of a transcript.
LEMMA RebuiltAppend ==
  ASSUME NEW d \in Disk, NEW x \in Disk, NEW e \in Entry, x.lines = Append(d.lines, e),
         e.type # "transcript"
  PROVE  /\ Foreign(x) <=> Foreign(d)
         /\ Foreign(d) => RebuildSurface(x) = Replayed(RebuildSurface(d), Strip(e))
         /\ ~Foreign(d) => RebuildSurface(x) = Replayed(RebuildSurface(d), e)
         /\ ~Parses(e) => RebuildSurface(x) = RebuildSurface(d)
  <1> DEFINE u == d.lines
             s == x.lines
  <1>1. u \in Seq(Entry) /\ s \in Seq(Entry) /\ Len(u) \in Nat /\ DOMAIN u = 1..Len(u)
        /\ DOMAIN s = 1..Len(s) /\ s = Append(u, e)
    BY DEF Disk
  <1> HIDE DEF u, s
  <1>2. Len(s) = Len(u) + 1 /\ s[Len(u) + 1] = e /\ \A i \in 1..Len(u) : s[i] = u[i]
    BY <1>1, AppendTo
  <1>3. Foreign(x) <=> Foreign(d)
    <2>1. Foreign(x) <=> \A i \in 1..(Len(u) + 1) : s[i].type # "transcript"
      BY <1>1, <1>2 DEF Foreign, s
    <2>2. Foreign(d) <=> \A i \in 1..Len(u) : u[i].type # "transcript"
      BY <1>1 DEF Foreign, u
    <2> QED
      BY <1>1, <1>2, <2>1, <2>2
  <1>4. Replay(s) = Replayed(Replay(u), e)
    BY <1>1, ReplayAppend
  <1>5. Replay(Stripped(s)) = Replayed(Replay(Stripped(u)), Strip(e))
    <2>1. /\ Stripped(u) \in Seq(Entry) /\ Len(Stripped(u)) = Len(u)
          /\ \A i \in 1..Len(u) : Stripped(u)[i] = Strip(u[i])
      BY <1>1, StrippedIs
    <2>2. /\ Stripped(s) \in Seq(Entry) /\ Len(Stripped(s)) = Len(s)
          /\ \A i \in 1..Len(s) : Stripped(s)[i] = Strip(s[i])
      BY <1>1, StrippedIs
    <2>3. Strip(e) \in Entry
      BY StripIs
    <2> DEFINE a == Stripped(u)
               z == Stripped(s)
               f == Strip(e)
    <2>4. /\ Append(a, f) \in Seq(Entry) /\ Len(Append(a, f)) = Len(a) + 1
          /\ Append(a, f)[Len(a) + 1] = f /\ \A i \in 1..Len(a) : Append(a, f)[i] = a[i]
      BY <2>1, <2>3, AppendTo
    <2>5. \A i \in 1..Len(s) : Append(a, f)[i] = z[i]
      BY <1>1, <1>2, <2>1, <2>2, <2>4
    <2>6. Len(Append(a, f)) = Len(z) /\ z \in Seq(Entry) /\ a \in Seq(Entry) /\ f \in Entry
      BY <1>2, <2>1, <2>2, <2>3, <2>4
    <2>7. Len(z) = Len(s)
      BY <2>2
    <2> HIDE DEF a, z, f
    <2>8. Append(a, f) = z
      BY <2>4, <2>5, <2>6, <2>7
    <2>9. Replay(z) = Replayed(Replay(a), f)
      BY <2>6, <2>8, ReplayAppend
    <2> QED
      BY <2>9 DEF a, z, f
  <1>6. /\ RebuildSurface(x) = Replay(IF Foreign(x) THEN Stripped(s) ELSE s)
        /\ RebuildSurface(d) = Replay(IF Foreign(d) THEN Stripped(u) ELSE u)
    BY DEF RebuildSurface, Replay, s, u
  <1>7. ~Parses(e) => \A m : Replayed(m, e) = m /\ Replayed(m, Strip(e)) = m
    <2>1. ~Parses(e) => ~Parses(Strip(e))
      BY StripIs
    <2>2. ASSUME NEW m, NEW f, ~Parses(f) PROVE Replayed(m, f) = m
      BY <2>2 DEF Replayed, Parses, Unnumbered
    <2> QED
      BY <2>1, <2>2
  <1> QED
    BY <1>3, <1>4, <1>5, <1>6, <1>7

\* So far as its usage goes, a file may be rewritten.
LEMMA RebuiltMuted ==
  ASSUME NEW d \in Disk, NEW x \in Disk, Len(x.lines) = Len(d.lines),
         \A i \in 1..Len(d.lines) : Mute(x.lines[i]) = Mute(d.lines[i])
  PROVE  (Foreign(x) <=> Foreign(d)) /\ Alike(RebuildSurface(d), RebuildSurface(x))
  <1> DEFINE u == d.lines
             s == x.lines
  <1>1. u \in Seq(Entry) /\ s \in Seq(Entry) /\ Len(u) \in Nat /\ DOMAIN u = 1..Len(u)
        /\ DOMAIN s = 1..Len(u) /\ Len(s) = Len(u)
        /\ \A i \in 1..Len(u) : u[i] \in Entry /\ s[i] \in Entry /\ Mute(u[i]) = Mute(s[i])
    BY DEF Disk
  <1>2. (Foreign(x) <=> \A i \in 1..Len(u) : s[i].type # "transcript")
        /\ (Foreign(d) <=> \A i \in 1..Len(u) : u[i].type # "transcript")
    BY <1>1 DEF Foreign
  <1>3. /\ RebuildSurface(x) = Replay(IF Foreign(x) THEN Stripped(s) ELSE s)
        /\ RebuildSurface(d) = Replay(IF Foreign(d) THEN Stripped(u) ELSE u)
    BY DEF RebuildSurface, Replay
  <1> HIDE DEF u, s
  <1>4. \A i \in 1..Len(u) : u[i].type = s[i].type
    BY <1>1, MutedFields
  <1>5. Foreign(x) <=> Foreign(d)
    BY <1>2, <1>4
  <1>6. Alike(Replay(u), Replay(s))
    BY <1>1, ReplayMuted
  <1>7. Alike(Replay(Stripped(u)), Replay(Stripped(s)))
    <2>1. /\ Stripped(u) \in Seq(Entry) /\ Len(Stripped(u)) = Len(u)
          /\ \A i \in 1..Len(u) : Stripped(u)[i] = Strip(u[i])
      BY <1>1, StrippedIs
    <2>2. /\ Stripped(s) \in Seq(Entry) /\ Len(Stripped(s)) = Len(s)
          /\ \A i \in 1..Len(s) : Stripped(s)[i] = Strip(s[i])
      BY <1>1, StrippedIs
    <2>3. \A e, f \in Entry : Mute(e) = Mute(f) => Mute(Strip(e)) = Mute(Strip(f))
      <3> SUFFICES ASSUME NEW e \in Entry, NEW f \in Entry, Mute(e) = Mute(f)
                   PROVE  Mute(Strip(e)) = Mute(Strip(f))
        OBVIOUS
      <3>1. e.type = f.type
        BY MutedFields
      <3>2. CASE e.type = "results"
        BY <3>1, <3>2 DEF Strip
      <3>3. CASE e.type # "results"
        <4>1. Strip(e) = [e EXCEPT !.uses = {}] /\ Strip(f) = [f EXCEPT !.uses = {}]
          BY <3>1, <3>3 DEF Strip
        <4>2. \A g \in Entry : Mute([g EXCEPT !.uses = {}]) = [Mute(g) EXCEPT !.uses = {}]
          BY DEF Mute, Entry
        <4> QED
          BY <4>1, <4>2
      <3> QED
        BY <3>2, <3>3
    <2>4. \A i \in 1..Len(Stripped(u)) : Mute(Stripped(u)[i]) = Mute(Stripped(s)[i])
      BY <1>1, <2>1, <2>2, <2>3
    <2> QED
      BY <1>1, <2>1, <2>2, <2>4, ReplayMuted
  <1> QED
    BY <1>3, <1>5, <1>6, <1>7

\* A log of another tool is settled when its nodes are in order.
LEMMA ForeignSettled ==
  ASSUME NEW d \in Disk, Foreign(d), Numbered(RebuildSurface(d))
  PROVE  Settled(RebuildSurface(d))
  <1> DEFINE m == RebuildSurface(d)
  <1>1. WellFormed(m) /\ \A n \in InUse(m) : Bare(m.entries[n])
    BY RebuiltIsWellFormed, StrippedLines
  <1> HIDE DEF m
  <1>2. \A i \in DOMAIN m.nodes : Bare(m.entries[m.nodes[i]])
    BY <1>1, InUseEntries
  <1>3. Answering(m) /\ InTurns(m)
    BY <1>2 DEF Answering, InTurns, Bare
  <1> QED
    BY <1>3 DEF Settled, m

(***************************************************************************)
(* Patched messages.                                                       *)
(***************************************************************************)

LEMMA FlattenedFirst ==
  ASSUME NEW S, NEW b \in Seq(Seq(S)), b # <<>>, b[1] # <<>>, NEW out, out = FlattenSeq(b)
  PROVE  out[1] = b[1][1]
  <1> DEFINE n == Len(b)
             f == CHOOSE f : IsFlattening(f, b, n)
  <1>1. n \in Nat /\ n # 0 /\ \A i \in 1..n : b[i] \in Seq(S)
    OBVIOUS
  <1>2. out = f[n]
    BY <1>1 DEF FlattenSeq, IsFlattening
  <1>3. IsFlattening(f, b, n)
    BY <1>1, FlatteningsExist
  <1> HIDE DEF f
  <1>4. \A i \in 1..n : f[i] = IF i = 1 THEN b[i] ELSE f[i - 1] \o b[i]
    BY <1>3 DEF IsFlattening
  <1> DEFINE Fine(k) == f[k] \in Seq(S) /\ Len(f[k]) >= 1 /\ f[k][1] = b[1][1]
             N == {k \in Nat : k \in 1..n => Fine(k)}
  <1>5. 0 \in N
    OBVIOUS
  <1>6. ASSUME NEW k \in Nat, k \in N PROVE k + 1 \in N
    <2> SUFFICES ASSUME k + 1 \in 1..n PROVE Fine(k + 1)
      OBVIOUS
    <2>1. CASE k = 0
      <3>1. f[1] = b[1] /\ k + 1 = 1 /\ b[1] \in Seq(S)
        BY <1>1, <1>4, <2>1
      <3>2. Len(b[1]) >= 1
        BY <3>1, EmptySeq
      <3> QED
        BY <3>1, <3>2
    <2>2. CASE k # 0
      <3>1. k \in 1..n /\ Fine(k) /\ b[k + 1] \in Seq(S)
        BY <1>1, <1>6, <2>2
      <3>2. f[k + 1] = f[k] \o b[k + 1]
        <4>1. k + 1 \in 1..n /\ k + 1 # 1 /\ (k + 1) - 1 = k
          BY <2>2
        <4>2. f[k + 1] = f[(k + 1) - 1] \o b[k + 1]
          BY <1>4, <4>1
        <4> QED
          BY <4>1, <4>2
      <3> DEFINE g == f[k]
                 p == b[k + 1]
      <3>3. g \in Seq(S) /\ p \in Seq(S) /\ Len(g) >= 1 /\ g[1] = b[1][1]
        BY <3>1
      <3> HIDE DEF g, p
      <3>4. /\ g \o p \in Seq(S) /\ Len(g \o p) = Len(g) + Len(p)
            /\ \A i \in 1..(Len(g) + Len(p)) : (g \o p)[i] = IF i <= Len(g) THEN g[i] ELSE p[i - Len(g)]
        BY <3>3, ConcatProperties
      <3>5. Len(g) \in Nat /\ Len(p) \in Nat /\ 1 \in 1..(Len(g) + Len(p))
        BY <3>3
      <3>6. g \o p \in Seq(S) /\ Len(g \o p) >= 1 /\ (g \o p)[1] = b[1][1]
        BY <3>3, <3>4, <3>5
      <3> QED
        BY <3>2, <3>6 DEF g, p
    <2> QED
      BY <2>1, <2>2
  <1> HIDE DEF Fine, N
  <1>7. Nat \subseteq N
    BY <1>5, <1>6, NatSetInduction
  <1>8. Fine(n)
    BY <1>1, <1>7 DEF N
  <1> QED
    BY <1>2, <1>8 DEF Fine

\* Where results follow their calls, so they do when the messages are patched.
LEMMA PatchFollows ==
  ASSUME NEW S, NEW msgs \in Seq(S), AreMessages(msgs),
         \A i \in 1..Len(msgs) :
            msgs[i].type = "results" => i > 1 /\ msgs[i].uses \subseteq msgs[i - 1].uses,
         NEW out, out = PatchOrphanToolUses(msgs)
  PROVE  \A x \in DOMAIN out :
            out[x].type = "results" => x > 1 /\ out[x].uses \subseteq out[x - 1].uses
  <1> DEFINE n == Len(msgs)
             b == [i \in DOMAIN msgs |-> Piece(msgs, i)]
             T == {Filled(msgs, i) : i \in 1..n} \union {Answers(Orphans(msgs, i)) : i \in 1..n}
  <1>1. n \in Nat /\ DOMAIN msgs = 1..n
    OBVIOUS
  <1>2. out = FlattenSeq(b)
    BY PatchIsFlattening
  <1>3. \A i \in 1..n : Piece(msgs, i) \in Seq(T)
    BY PieceIs
  <1>4. b \in Seq(Seq(T)) /\ Len(b) = n /\ \A i \in 1..n : b[i] = Piece(msgs, i) /\ b[i] # <<>>
    <2>1. b = [i \in 1..n |-> Piece(msgs, i)]
      BY <1>1
    <2> HIDE DEF b, T
    <2> QED
      BY <1>1, <1>3, <2>1, PieceIs
  <1> HIDE DEF b, T
  <1>5. out \in Seq(T) /\ \A x \in 1..Len(out) : \E i, o : IsOf(out, b, n, x, i, o)
    BY <1>2, <1>4, FlattenedPlaces
  <1>6. Len(out) \in Nat /\ DOMAIN out = 1..Len(out)
    BY <1>5
  <1>7. \A i \in 1..n : LET m == Filled(msgs, i)
                        IN  /\ m.type = msgs[i].type /\ msgs[i].uses \subseteq m.uses
                            /\ msgs[i].type # "results" => m.uses = msgs[i].uses
    BY FilledIs
  <1>8. \A i \in 1..n : Orphans(msgs, i) \subseteq msgs[i].uses
    BY DEF Orphans
  <1> SUFFICES ASSUME NEW x \in 1..Len(out), out[x].type = "results"
               PROVE  x > 1 /\ out[x].uses \subseteq out[x - 1].uses
    BY <1>6
  <1>9. x # 1
    <2> SUFFICES ASSUME x = 1 PROVE FALSE
      OBVIOUS
    <2>1. PICK i, o : IsOf(out, b, n, x, i, o)
      BY <1>5
    <2>2. i \in 1..n
      BY <2>1 DEF IsOf
    <2>3. 1 \in 1..n /\ b # <<>>
      BY <1>1, <1>4, <2>2
    <2>4. out[1] = b[1][1]
      BY <1>2, <1>4, <2>3, FlattenedFirst
    <2>5. out[1] = Filled(msgs, 1)
      BY <1>4, <2>3, <2>4, PieceIs
    <2>6. msgs[1].type = "results"
      BY <1>7, <2>3, <2>5
    <2> QED
      BY <2>3, <2>6
  <1>10. x - 1 \in 1..Len(out) /\ (x - 1) + 1 = x
    BY <1>6, <1>9
  <1>11. PICK i, o : IsOf(out, b, n, x - 1, i, o)
    BY <1>5, <1>10
  <1>12. /\ i \in 1..n /\ o \in 1..Len(b[i]) /\ out[x - 1] = b[i][o]
         /\ o < Len(b[i]) => out[x] = b[i][o + 1]
         /\ o = Len(b[i]) /\ i < n => out[x] = b[i + 1][1]
         /\ o = Len(b[i]) /\ i = n => x - 1 = Len(out)
    BY <1>10, <1>11 DEF IsOf
  <1>13. Len(b[i]) \in {1, 2} /\ b[i][1] = Filled(msgs, i)
    BY <1>4, <1>12, PieceIs
  <1>14. CASE o < Len(b[i])
    <2>1. o = 1 /\ Len(b[i]) = 2
      BY <1>12, <1>13, <1>14
    <2>2. ~(Orphans(msgs, i) = {} \/ Joins(msgs, i))
      <3>1. b[i] = Piece(msgs, i) /\ Len(b[i]) # 1
        BY <1>4, <1>12, <2>1
      <3> QED
        BY <3>1, PieceIs
    <2>3. b[i][2] = Answers(Orphans(msgs, i))
      BY <1>4, <1>12, <2>2, PieceIs
    <2>4. out[x] = Answers(Orphans(msgs, i)) /\ out[x - 1] = Filled(msgs, i)
      BY <1>12, <1>13, <1>14, <2>1, <2>3
    <2>5. out[x].uses = Orphans(msgs, i) /\ msgs[i].uses \subseteq out[x - 1].uses
      BY <1>7, <1>12, <2>4, AnswersAre
    <2>6. Orphans(msgs, i) \subseteq msgs[i].uses
      BY <1>8, <1>12
    <2>7. x > 1
      BY <1>9
    <2> QED
      BY <2>5, <2>6, <2>7
  <1>15. CASE o = Len(b[i])
    <2>1. i < n /\ out[x] = b[i + 1][1] /\ i + 1 \in 1..n /\ (i + 1) - 1 = i
      BY <1>6, <1>10, <1>12, <1>15
    <2>2. out[x] = Filled(msgs, i + 1)
      BY <1>4, <2>1, PieceIs
    <2>3. msgs[i + 1].type = "results" /\ msgs[i + 1].uses \subseteq msgs[i].uses
      <3>1. msgs[i + 1].type = "results"
        BY <1>7, <2>1, <2>2
      <3> QED
        BY <2>1, <3>1
    <2>4. Len(b[i]) = 1
      <3>1. Joins(msgs, i)
        BY <1>1, <2>1, <2>3 DEF Joins
      <3>2. Len(Piece(msgs, i)) = 1
        BY <3>1, PieceIs
      <3> QED
        BY <1>4, <1>12, <3>2
    <2>5. out[x - 1] = Filled(msgs, i) /\ msgs[i].uses \subseteq out[x - 1].uses
      BY <1>7, <1>12, <1>13, <1>15, <2>4
    <2>6. out[x].uses = msgs[i + 1].uses \union Orphans(msgs, i)
      <3>1. Filled(msgs, i + 1) = [msgs[i + 1] EXCEPT !.uses = @ \union Orphans(msgs, i)]
        BY <1>12, <2>1, <2>3 DEF Filled
      <3>2. PICK e, t : msgs[i + 1] = Message(e, t)
        BY <2>1 DEF AreMessages
      <3> DEFINE r == Orphans(msgs, i)
      <3> HIDE DEF r
      <3>3. [msgs[i + 1] EXCEPT !.uses = @ \union r].uses = msgs[i + 1].uses \union r
        BY <3>2 DEF Message
      <3> QED
        BY <2>2, <3>1, <3>3 DEF r
    <2> QED
      BY <1>8, <1>9, <1>12, <2>3, <2>5, <2>6
  <1> QED
    BY <1>12, <1>13, <1>14, <1>15

(***************************************************************************)
(* Sessions that lost no append.                                           *)
(***************************************************************************)

\* What the next message may take in is of the turn that runs.
Pending == talk.phase \in {"turn", "calls"} =>
    /\ mem.nodes # <<>>
    /\ \A t \in mem.thinkingSeqs :
          Boundary(mem, Len(mem.nodes)) < t => mem.entries[t].turn = talk.turn

\* A batch that waits for its results is the last message.
Waiting == talk.phase = "calls" => mem.nodes # <<>> /\ mem.nodes[Len(mem.nodes)] = talk.said

\* A compaction that has begun covers the first messages, up to one that is
\* no answer to them.
Landing == talk.landing # {} =>
    /\ talk.phase = "turn"
    /\ \E k \in 1..(Len(mem.nodes) - 1) :
          /\ talk.landing = {mem.nodes[j] : j \in 1..k}
          /\ mem.entries[mem.nodes[k + 1]].type # "results"

\* The window of --fresh begins where a turn begins.
Window ==
    \/ skip = 0
    \/ FoldedSince
    \/ skip = Len(mem.nodes) /\ talk.phase = "idle"
    \/ skip < Len(mem.nodes) /\ mem.entries[mem.nodes[skip + 1]].type # "results"

\* What a resume would make of the file, and where its numbers stand.
OnFile ==
    /\ Settled(RebuildSurface(disk))
    /\ Running /\ Foreign(disk) => RebuildSurface(disk).nextSeq <= mem.nextSeq

InMemory == Settled(mem) /\ Pending /\ Waiting /\ Landing /\ Window
Standing == past.faults = 0 =>
    past.sound /\ past.since <= past.made /\ OnFile /\ (Running => InMemory)

LEMMA StandingAnswers == ASSUME LogTypes, Standing PROVE NoAnswerWithoutCall
  <1> SUFFICES ASSUME Running, past.faults = 0, skip = 0 \/ ~FoldedSince
               PROVE  \A x \in DOMAIN RequestMessages :
                         RequestMessages[x].type = "results" =>
                            /\ x > 1
                            /\ RequestMessages[x].uses \subseteq RequestMessages[x - 1].uses
    BY DEF NoAnswerWithoutCall
  <1>1. Settled(mem) /\ Window
    BY DEF Standing, InMemory
  <1>2. /\ RequestMessages = PatchOrphanToolUses(Sent) /\ AreMessages(Sent)
        /\ \A i \in 1..Len(Sent) :
              /\ skip + i \in 1..Len(mem.nodes)
              /\ Sent[i].type = mem.entries[mem.nodes[skip + i]].type
              /\ Sent[i].uses = mem.entries[mem.nodes[skip + i]].uses
    BY ShownMessages
  <1>3. PICK S : Sent \in Seq(S)
    BY ShownMessages
  <1>4. DOMAIN mem.nodes = 1..Len(mem.nodes) /\ Len(mem.nodes) \in Nat /\ skip \in Nat
        /\ Len(Sent) \in Nat
    BY <1>3 DEF LogTypes, WellFormed, Memory
  <1> HIDE DEF Sent
  <1>5. ASSUME NEW i \in 1..Len(Sent), Sent[i].type = "results"
        PROVE  i > 1 /\ Sent[i].uses \subseteq Sent[i - 1].uses
    <2>1. skip + i \in DOMAIN mem.nodes /\ mem.entries[mem.nodes[skip + i]].type = "results"
      BY <1>2, <1>4, <1>5
    <2>2. /\ skip + i > 1
          /\ mem.entries[mem.nodes[skip + i]].uses \subseteq mem.entries[mem.nodes[(skip + i) - 1]].uses
      BY <1>1, <2>1 DEF Settled, Answering
    <2>3. i # 1
      <3> SUFFICES ASSUME i = 1 PROVE FALSE
        OBVIOUS
      <3>1. skip # 0 /\ ~FoldedSince
        BY <1>4, <2>2
      <3>2. skip + 1 <= Len(mem.nodes) /\ mem.entries[mem.nodes[skip + 1]].type = "results"
        BY <1>4, <2>1
      <3> QED
        BY <1>1, <1>4, <3>1, <3>2 DEF Window
    <2>4. i - 1 \in 1..Len(Sent) /\ (skip + i) - 1 = skip + (i - 1) /\ i > 1
      BY <1>4, <2>3
    <2> QED
      BY <1>2, <2>2, <2>4
  <1> QED
    BY <1>2, <1>3, <1>5, PatchFollows

LEMMA StandingThinks == ASSUME LogTypes, Standing PROVE ThinkingStaysInItsTurn
  <1> SUFFICES ASSUME Running, past.faults = 0, NEW i \in DOMAIN mem.nodes,
                      NEW t \in DeriveMessages(mem)[i].thinking
               PROVE  t.turn = DeriveMessages(mem)[i].entry.turn
    BY DEF ThinkingStaysInItsTurn
  <1> DEFINE e == mem.entries[mem.nodes[i]]
             all == IF e.type = "assistant" /\ e.uses # {} THEN ThinkingBetween(mem, i) ELSE {}
  <1>1. DeriveMessages(mem)[i] = Message(e, all)
    BY DEF DeriveMessages
  <1> HIDE DEF e, all
  <1>2. DeriveMessages(mem)[i].thinking = all /\ DeriveMessages(mem)[i].entry = e
    BY <1>1 DEF Message
  <1>3. e.type = "assistant" /\ e.uses # {} /\ t \in ThinkingBetween(mem, i)
    BY <1>2 DEF all
  <1>4. PICK s \in mem.thinkingSeqs :
           t = mem.entries[s] /\ Boundary(mem, i - 1) < s /\ s < mem.nodes[i]
    BY <1>3 DEF ThinkingBetween
  <1>5. InTurns(mem)
    BY DEF Standing, InMemory, Settled
  <1>6. mem.entries[s].turn = e.turn
    BY <1>3, <1>4, <1>5 DEF InTurns, e
  <1> QED
    BY <1>2, <1>4, <1>6

\* Where a compaction may cut, in terms of the nodes.
LEMMA CutsAre ==
  ASSUME LogTypes, NEW i \in CutPoints(DeriveMessages(mem))
  PROVE  /\ i - 1 \in 1..(Len(mem.nodes) - 1) /\ (i - 1) + 1 = i
         /\ mem.entries[mem.nodes[i]].type # "results"
  <1>1. Len(mem.nodes) \in Nat /\ DOMAIN mem.nodes = 1..Len(mem.nodes)
    BY DEF LogTypes, WellFormed, Memory
  <1> DEFINE msgs == DeriveMessages(mem)
             all(j) == LET e == mem.entries[mem.nodes[j]]
                       IN  IF e.type = "assistant" /\ e.uses # {} THEN ThinkingBetween(mem, j) ELSE {}
  <1>2. msgs = [j \in 1..Len(mem.nodes) |-> Message(mem.entries[mem.nodes[j]], all(j))]
    BY <1>1 DEF DeriveMessages
  <1> HIDE DEF msgs, all
  <1>3. Len(msgs) = Len(mem.nodes)
    BY <1>1, <1>2
  <1>4. i \in 2..Len(mem.nodes) /\ msgs[i].type # "results"
    BY <1>3 DEF CutPoints, msgs
  <1>5. msgs[i] = Message(mem.entries[mem.nodes[i]], all(i))
    BY <1>1, <1>2, <1>4
  <1>6. msgs[i].type = mem.entries[mem.nodes[i]].type
    BY <1>5 DEF Message
  <1> QED
    BY <1>1, <1>4, <1>6

\* An entry that is no message: nothing changes for the next one.
LEMMA NoteStays ==
  ASSUME LogTypes, InMemory, NEW e, Appending(e), InPlace(e),
         past'.made = past.made + 1, past'.since = past.since,
         e.type \in {"meta", "start", "thinking"}
  PROVE  InMemory'
  <1> DEFINE q == mem.nextSeq
  <1>1. /\ WellFormed(mem) /\ Settled(mem) /\ e \in Entry /\ e.seq = q /\ q \in Nat \ {0}
        /\ mem' = Remembered(mem, e) /\ mem \in Memory /\ skip' = skip /\ past.made \in Nat
        /\ past.since \in Nat
    BY DEF LogTypes, InMemory, WellFormed, Memory, Appending, AppendEntry, Past
  <1>2. /\ DOMAIN mem.nodes = 1..Len(mem.nodes) /\ Len(mem.nodes) \in Nat
        /\ \A n \in InUse(mem) : n \in Nat /\ n \in DOMAIN mem.entries /\ n < q
        /\ \A i \in 1..Len(mem.nodes) : mem.nodes[i] \in InUse(mem)
        /\ \A t \in mem.thinkingSeqs : t \in InUse(mem)
    BY <1>1, InUseEntries
  <1>3. /\ mem'.nodes = mem.nodes
        /\ \A n \in InUse(mem) : mem'.entries[n] = mem.entries[n] /\ n < q
        /\ mem'.thinkingSeqs \subseteq mem.thinkingSeqs \union {q}
        /\ mem'.thinkingSeqs = mem.thinkingSeqs \/ (e.type = "thinking" /\ mem'.entries[q].turn = e.turn)
    <2>1. CASE e.type = "meta"
      <3>1. /\ mem'.nodes = mem.nodes /\ mem'.thinkingSeqs = mem.thinkingSeqs
            /\ \A n \in DOMAIN mem.entries : n # e.seq => mem'.entries[n] = mem.entries[n]
        BY <1>1, <2>1, RememberedAdds
      <3> QED
        BY <1>1, <1>2, <3>1
    <2>2. CASE e.type # "meta"
      <3>1. Adds(mem, mem', e, q)
        BY <1>1, <2>2, RememberedAdds
      <3>2. e.type = "start" \/ e.type = "thinking"
        BY <2>2
      <3>3. mem'.nodes = mem.nodes
        BY <3>1, <3>2 DEF Adds, NodesAfter
      <3>4. mem'.thinkingSeqs = IF e.type = "thinking" THEN mem.thinkingSeqs \union {q} ELSE mem.thinkingSeqs
        BY <3>1 DEF Adds, ThinkingAfter
      <3>5. \A n \in InUse(mem) : mem'.entries[n] = mem.entries[n] /\ n < q
        BY <1>1, <1>2, <3>1 DEF Adds
      <3>6. e.type = "thinking" => mem'.entries[q].turn = e.turn
        <4>1. [e EXCEPT !.seq = q].turn = e.turn
          BY <1>1 DEF Entry
        <4> QED
          BY <3>1, <4>1 DEF Adds
      <3> QED
        BY <3>2, <3>3, <3>4, <3>5, <3>6
    <2> QED
      BY <2>1, <2>2
  <1> HIDE DEF q
  <1>4. Settled(mem') /\ \A i \in 0..Len(mem.nodes) : Boundary(mem', i) = Boundary(mem, i)
    BY <1>1, <1>3, SameNodesSettled
  <1>5. Pending'
    <2> SUFFICES ASSUME talk'.phase \in {"turn", "calls"}
                 PROVE  /\ mem'.nodes # <<>>
                        /\ \A t \in mem'.thinkingSeqs :
                              Boundary(mem', Len(mem'.nodes)) < t => mem'.entries[t].turn = talk'.turn
      BY DEF Pending
    <2>1. talk.phase \in {"turn", "calls"} /\ talk'.turn = talk.turn
      BY DEF InPlace
    <2>2. /\ mem.nodes # <<>>
          /\ \A t \in mem.thinkingSeqs :
                Boundary(mem, Len(mem.nodes)) < t => mem.entries[t].turn = talk.turn
      BY <2>1 DEF InMemory, Pending
    <2>3. Boundary(mem', Len(mem'.nodes)) = Boundary(mem, Len(mem.nodes))
      BY <1>2, <1>3, <1>4
    <2>4. e.type = "thinking" => e.turn = talk.turn
      BY DEF InPlace
    <2>5. ASSUME NEW t \in mem'.thinkingSeqs, Boundary(mem, Len(mem.nodes)) < t
          PROVE  mem'.entries[t].turn = talk.turn
      <3>1. CASE t \in mem.thinkingSeqs
        BY <1>2, <1>3, <2>2, <2>5, <3>1
      <3>2. CASE t \notin mem.thinkingSeqs
        BY <1>3, <2>4, <2>5, <3>2
      <3> QED
        BY <3>1, <3>2
    <2> QED
      BY <1>3, <2>1, <2>2, <2>3, <2>5
  <1>6. Waiting'
    <2> SUFFICES ASSUME talk'.phase = "calls"
                 PROVE  mem'.nodes # <<>> /\ mem'.nodes[Len(mem'.nodes)] = talk'.said
      BY DEF Waiting
    <2>1. talk.phase = "calls" /\ talk'.said = talk.said
      BY DEF Appending
    <2> QED
      BY <1>3, <2>1 DEF InMemory, Waiting
  <1>7. Landing'
    <2> SUFFICES ASSUME talk'.landing # {}
                 PROVE  /\ talk'.phase = "turn"
                        /\ \E k \in 1..(Len(mem'.nodes) - 1) :
                              /\ talk'.landing = {mem'.nodes[j] : j \in 1..k}
                              /\ mem'.entries[mem'.nodes[k + 1]].type # "results"
      BY DEF Landing
    <2>1. \A k \in 1..(Len(mem.nodes) - 1) :
             mem'.entries[mem.nodes[k + 1]] = mem.entries[mem.nodes[k + 1]]
      <3> SUFFICES ASSUME NEW k \in 1..(Len(mem.nodes) - 1)
                   PROVE  mem'.entries[mem.nodes[k + 1]] = mem.entries[mem.nodes[k + 1]]
        OBVIOUS
      <3>1. k + 1 \in 1..Len(mem.nodes)
        BY <1>2
      <3> QED
        BY <1>2, <1>3, <3>1
    <2>2. CASE e.type = "meta"
      <3>1. talk' = talk
        BY <2>2 DEF InPlace
      <3>2. PICK k \in 1..(Len(mem.nodes) - 1) :
               /\ talk.landing = {mem.nodes[j] : j \in 1..k}
               /\ mem.entries[mem.nodes[k + 1]].type # "results"
        BY <3>1 DEF InMemory, Landing
      <3>3. talk'.phase = "turn"
        BY <3>1 DEF InMemory, Landing
      <3> QED
        BY <1>3, <2>1, <3>1, <3>2, <3>3
    <2>3. CASE e.type = "start"
      <3>1. PICK i \in CutPoints(DeriveMessages(mem)) :
               talk'.landing = {mem.nodes[j] : j \in 1..(i - 1)}
        BY <2>3 DEF InPlace
      <3>2. /\ i - 1 \in 1..(Len(mem.nodes) - 1) /\ (i - 1) + 1 = i
            /\ mem.entries[mem.nodes[i]].type # "results"
        BY CutsAre
      <3>3. talk'.phase = "turn"
        BY <2>3 DEF InPlace
      <3>4. mem'.entries[mem.nodes[(i - 1) + 1]].type # "results"
        BY <2>1, <3>2
      <3> QED
        BY <1>3, <3>1, <3>2, <3>3, <3>4
    <2>4. CASE e.type = "thinking"
      BY <2>4 DEF InPlace
    <2> QED
      BY <2>2, <2>3, <2>4
  <1>8. Window'
    <2>1. FoldedSince => FoldedSince'
      <3>1. \A i \in DOMAIN mem.nodes : mem'.entries[mem.nodes[i]] = mem.entries[mem.nodes[i]]
        BY <1>2, <1>3
      <3> QED
        BY <1>3, <3>1 DEF FoldedSince
    <2>2. talk.phase = "idle" => talk'.phase = "idle"
      BY DEF InPlace
    <2>3. skip < Len(mem.nodes) => mem'.entries[mem.nodes[skip + 1]] = mem.entries[mem.nodes[skip + 1]]
      <3>1. skip < Len(mem.nodes) => skip + 1 \in 1..Len(mem.nodes)
        BY <1>2 DEF LogTypes
      <3> QED
        BY <1>2, <1>3, <3>1
    <2> QED
      BY <1>1, <1>3, <2>1, <2>2, <2>3 DEF InMemory, Window
  <1> QED
    BY <1>4, <1>5, <1>6, <1>7, <1>8 DEF InMemory

\* A message: results follow their batch, and what a batch takes in is of
\* the turn that runs.
LEMMA MessageStays ==
  ASSUME LogTypes, InMemory, NEW e, Appending(e), InPlace(e),
         past'.made = past.made + 1, past'.since = past.since,
         e.type \in {"user", "assistant", "results"}
  PROVE  InMemory'
  <1> DEFINE q == mem.nextSeq
             n == Len(mem.nodes)
  <1>1. /\ WellFormed(mem) /\ Settled(mem) /\ e \in Entry /\ e.seq = q /\ q \in Nat \ {0}
        /\ mem' = Remembered(mem, e) /\ mem \in Memory /\ skip' = skip /\ past.made \in Nat
        /\ past.since \in Nat /\ skip \in Nat
    BY DEF LogTypes, InMemory, WellFormed, Memory, Appending, AppendEntry, Past
  <1>2. /\ DOMAIN mem.nodes = 1..n /\ n \in Nat /\ mem.nodes \in Seq(Nat)
        /\ \A x \in InUse(mem) : x \in Nat /\ x \in DOMAIN mem.entries /\ x < q
        /\ \A i \in 1..n : mem.nodes[i] \in InUse(mem)
        /\ \A t \in mem.thinkingSeqs : t \in InUse(mem)
    BY <1>1, InUseEntries
  <1>3. Adds(mem, mem', e, q)
    <2>1. e.type # "meta"
      OBVIOUS
    <2> QED
      BY <1>1, <2>1, RememberedAdds
  <1>4. mem'.nodes = Append(mem.nodes, q) /\ mem'.thinkingSeqs = mem.thinkingSeqs
    BY <1>3 DEF Adds, NodesAfter, ThinkingAfter
  <1> HIDE DEF q, n
  <1>5. /\ Len(mem'.nodes) = n + 1 /\ mem'.nodes[n + 1] = q
        /\ \A i \in 1..n : mem'.nodes[i] = mem.nodes[i]
        /\ mem'.nodes # <<>>
    <2>1. mem.nodes \in Seq(Nat) /\ q \in Nat /\ Len(mem.nodes) = n
      BY <1>1, <1>2 DEF n
    <2> DEFINE s == Append(mem.nodes, q)
    <2>2. Len(s) = n + 1 /\ s[n + 1] = q /\ s # <<>> /\ \A i \in 1..n : s[i] = mem.nodes[i]
      BY <2>1, AppendTo
    <2> HIDE DEF s
    <2> QED
      BY <1>4, <2>2 DEF s
  <1>6. \A x \in InUse(mem) : mem'.entries[x] = mem.entries[x]
    BY <1>2, <1>3 DEF Adds
  <1>7. mem'.entries[q].type = e.type /\ mem'.entries[q].seq = q
    <2>1. mem'.entries[q] = [e EXCEPT !.seq = q]
      BY <1>3 DEF Adds
    <2> QED
      BY <1>1, <2>1 DEF Entry
  <1>8. e.type = "results" => mem.nodes # <<>> /\ e.uses \subseteq mem.entries[mem.nodes[Len(mem.nodes)]].uses
    <2> SUFFICES ASSUME e.type = "results"
                 PROVE  mem.nodes # <<>> /\ e.uses \subseteq mem.entries[mem.nodes[Len(mem.nodes)]].uses
      OBVIOUS
    <2>1. talk.phase = "calls" /\ e.uses = mem.entries[talk.said].uses
      BY DEF Appending
    <2>2. mem.nodes # <<>> /\ mem.nodes[Len(mem.nodes)] = talk.said
      BY <2>1 DEF InMemory, Waiting
    <2> QED
      BY <2>1, <2>2
  <1>9. e.type = "assistant" /\ e.uses # {} =>
           \A t \in mem.thinkingSeqs : Boundary(mem, Len(mem.nodes)) < t => mem.entries[t].turn = e.turn
    <2> SUFFICES ASSUME e.type = "assistant", e.uses # {}
                 PROVE  \A t \in mem.thinkingSeqs :
                           Boundary(mem, Len(mem.nodes)) < t => mem.entries[t].turn = e.turn
      OBVIOUS
    <2>1. talk.phase = "turn" /\ e.turn = talk.turn
      BY DEF InPlace
    <2> QED
      BY <2>1 DEF InMemory, Pending
  <1>10. Settled(mem')
    <2>1. \A x \in InUse(mem) : x < q
      BY <1>2
    <2>2. q \in Nat
      BY <1>1
    <2> QED
      BY <1>1, <1>3, <1>8, <1>9, <2>1, <2>2, AppendedSettled
  <1>11. Pending'
    <2>1. Boundary(mem', Len(mem'.nodes)) = q
      <3>1. n + 1 # 0 /\ mem'.entries[q].type # "summary"
        BY <1>2, <1>7
      <3> QED
        BY <1>5, <1>7, <3>1 DEF Boundary
    <2>2. \A t \in mem'.thinkingSeqs : ~(q < t)
      <3> SUFFICES ASSUME NEW t \in mem.thinkingSeqs PROVE ~(q < t)
        BY <1>4
      <3>1. t \in Nat /\ t < q
        BY <1>2
      <3> QED
        BY <1>1, <3>1
    <2> QED
      BY <1>5, <2>1, <2>2 DEF Pending
  <1>12. Waiting'
    <2> SUFFICES ASSUME talk'.phase = "calls"
                 PROVE  mem'.nodes # <<>> /\ mem'.nodes[Len(mem'.nodes)] = talk'.said
      BY DEF Waiting
    <2>1. talk'.said = q
      <3>1. e.type # "meta"
        OBVIOUS
      <3> QED
        BY <3>1 DEF Appending, q
    <2> QED
      BY <1>5, <2>1
  <1>13. Landing'
    BY DEF InPlace, Landing
  <1>14. Window'
    <2>1. FoldedSince => FoldedSince'
      <3> SUFFICES ASSUME NEW i \in 1..n, mem.entries[mem.nodes[i]].type = "summary",
                          mem.entries[mem.nodes[i]].id > past.since
                   PROVE  FoldedSince'
        BY <1>2 DEF FoldedSince
      <3>1. i \in DOMAIN mem'.nodes /\ mem'.nodes[i] = mem.nodes[i]
        <4>1. DOMAIN mem'.nodes = 1..(n + 1)
          BY <1>3, <1>5 DEF Adds, Memory
        <4> QED
          BY <1>2, <1>5, <4>1
      <3>2. mem'.entries[mem'.nodes[i]] = mem.entries[mem.nodes[i]]
        BY <1>2, <1>6, <3>1
      <3> QED
        BY <3>1, <3>2 DEF FoldedSince
    <2>3. CASE skip = n /\ talk.phase = "idle"
      <3>1. e.type # "results"
        BY <2>3 DEF InPlace
      <3>2. skip' < Len(mem'.nodes) /\ mem'.nodes[skip' + 1] = q
        BY <1>1, <1>2, <1>5, <2>3
      <3> QED
        BY <1>7, <3>1, <3>2 DEF Window
    <2>4. CASE skip < n /\ mem.entries[mem.nodes[skip + 1]].type # "results"
      <3>1. skip + 1 \in 1..n
        BY <1>1, <1>2, <2>4
      <3>2. mem'.nodes[skip' + 1] = mem.nodes[skip + 1]
        BY <1>1, <1>5, <3>1
      <3>3. mem'.entries[mem.nodes[skip + 1]] = mem.entries[mem.nodes[skip + 1]]
        BY <1>2, <1>6, <3>1
      <3>4. skip' < Len(mem'.nodes)
        BY <1>1, <1>2, <1>5, <2>4
      <3> QED
        BY <2>4, <3>2, <3>3, <3>4 DEF Window
    <2>5. CASE skip = 0 \/ FoldedSince
      BY <1>1, <2>1, <2>5 DEF Window
    <2> QED
      BY <2>3, <2>4, <2>5 DEF InMemory, Window, n
  <1> QED
    BY <1>10, <1>11, <1>12, <1>13, <1>14 DEF InMemory

\* A compaction lands: its summary stands for the first messages.
LEMMA SummaryStays ==
  ASSUME LogTypes, InMemory, NEW e, Appending(e), InPlace(e),
         past'.made = past.made + 1, past'.since = past.since, past.since <= past.made,
         e.type = "summary"
  PROVE  InMemory'
  <1> DEFINE q == mem.nextSeq
  <1>1. /\ WellFormed(mem) /\ Settled(mem) /\ e \in Entry /\ e.seq = q /\ q \in Nat \ {0}
        /\ mem' = Remembered(mem, e) /\ mem \in Memory /\ skip' = skip /\ past.made \in Nat
        /\ past.since \in Nat /\ past.since <= past.made /\ e.id = past.made + 1
    BY DEF LogTypes, InMemory, WellFormed, Memory, Appending, AppendEntry, Past, Next1
  <1>2. /\ \A x \in InUse(mem) : x \in Nat /\ x \in DOMAIN mem.entries /\ x < q
        /\ \A t \in mem.thinkingSeqs : t \in InUse(mem)
        /\ DOMAIN mem.nodes = 1..Len(mem.nodes) /\ Len(mem.nodes) \in Nat
    BY <1>1, InUseEntries
  <1>3. Adds(mem, mem', e, q) /\ WellFormed(mem')
    BY <1>1, RememberedAdds, RememberedKeepsForm
  <1>4. talk.landing # {} /\ e.covers = talk.landing /\ talk'.landing = {}
        /\ talk'.phase = "turn" /\ talk'.turn = talk.turn /\ talk.phase = "turn"
    BY DEF InPlace
  <1>5. PICK k \in 1..(Len(mem.nodes) - 1) :
           /\ talk.landing = {mem.nodes[j] : j \in 1..k}
           /\ mem.entries[mem.nodes[k + 1]].type # "results"
    BY <1>4 DEF InMemory, Landing
  <1> HIDE DEF q
  <1>6. /\ Settled(mem') /\ mem'.thinkingSeqs = mem.thinkingSeqs
        /\ q \in ToSet(mem'.nodes) /\ mem'.nodes # <<>>
        /\ \A x \in InUse(mem) : mem'.entries[x] = mem.entries[x]
        /\ Boundary(mem', Len(mem'.nodes)) = Boundary(mem, Len(mem.nodes))
    <2>1. e.covers = {mem.nodes[j] : j \in 1..k}
      BY <1>4, <1>5
    <2>2. q \in Nat /\ \A x \in InUse(mem) : x < q
      BY <1>1, <1>2
    <2>3. WellFormed(mem) /\ Settled(mem) /\ e \in Entry /\ e.type = "summary"
      BY <1>1
    <2>4. mem.entries[mem.nodes[k + 1]].type # "results"
      BY <1>5
    <2> QED
      BY ONLY <1>3, <2>1, <2>2, <2>3, <2>4, k \in 1..(Len(mem.nodes) - 1), FoldedSettled
  <1>7. Pending'
    <2>1. \A t \in mem.thinkingSeqs :
             Boundary(mem, Len(mem.nodes)) < t => mem.entries[t].turn = talk.turn
      BY <1>4 DEF InMemory, Pending
    <2>2. ASSUME NEW t \in mem'.thinkingSeqs, Boundary(mem', Len(mem'.nodes)) < t
          PROVE  mem'.entries[t].turn = talk'.turn
      BY <1>2, <1>4, <1>6, <2>1, <2>2
    <2> QED
      BY <1>6, <2>2 DEF Pending
  <1>8. FoldedSince'
    <2>1. mem'.entries[q].type = "summary" /\ mem'.entries[q].id = e.id
      <3>1. mem'.entries[q] = [e EXCEPT !.seq = q]
        BY <1>3 DEF Adds
      <3> QED
        BY <1>1, <3>1 DEF Entry
    <2>2. e.id > past'.since
      BY <1>1
    <2>3. PICK i \in DOMAIN mem'.nodes : mem'.nodes[i] = q
      BY <1>6 DEF ToSet
    <2> QED
      BY <2>1, <2>2, <2>3 DEF FoldedSince
  <1>9. Window'
    BY <1>1, <1>8 DEF Window
  <1> QED
    BY <1>4, <1>6, <1>7, <1>9 DEF InMemory, Waiting, Landing

LEMMA AppendedPast ==
  ASSUME LogTypes, NEW e, Appending(e)
  PROVE  /\ past'.made = past.made + 1 /\ past'.since = past.since /\ past.faults \in Nat
         /\ past'.faults = 0 => /\ past.faults = 0 /\ past'.sound = past.sound
                                /\ disk' = Written(disk, e)
  <1>1. past \in Past /\ WriteEntry(e)
    BY DEF LogTypes, Appending, AppendEntry
  <1>2. CASE disk' = Written(disk, e)
             /\ past' = [past EXCEPT !.made = Next1,
                                     !.kept = IF e.type = "meta" THEN @ ELSE @ \union {e.id}]
    BY <1>1, <1>2 DEF Past, Next1
  <1>3. CASE past' = [past EXCEPT !.made = Next1, !.faults = @ + 1, !.sound = FALSE]
    <2>1. past'.made = past.made + 1 /\ past'.since = past.since /\ past'.faults = past.faults + 1
      BY <1>1, <1>3 DEF Past, Next1
    <2>2. past.faults \in Nat
      BY <1>1 DEF Past
    <2> QED
      BY <2>1, <2>2
  <1> QED
    BY <1>1, <1>2, <1>3 DEF WriteEntry

\* In memory, whatever is appended leaves a session settled.
LEMMA AppendingSettles ==
  ASSUME LogTypes, InMemory, past.since <= past.made, NEW e, Appending(e), InPlace(e)
  PROVE  InMemory'
  <1>1. past'.made = past.made + 1 /\ past'.since = past.since
    BY AppendedPast
  <1>2. CASE e.type \in {"meta", "start", "thinking"}
    BY <1>1, <1>2, NoteStays
  <1>3. CASE e.type \in {"user", "assistant", "results"}
    BY <1>1, <1>3, MessageStays
  <1>4. CASE e.type = "summary"
    BY <1>1, <1>4, SummaryStays
  <1> QED
    BY <1>2, <1>3, <1>4 DEF InPlace, EntryKinds

\* And so does the line, where it is read back in a log of another tool.
LEMMA ForeignLine ==
  ASSUME LogTypes, InMemory, NEW e, Appending(e), InPlace(e),
         NEW R, WellFormed(R), Numbered(R), R.nextSeq <= mem.nextSeq
  PROVE  /\ Numbered(Replayed(R, Strip(e)))
         /\ Replayed(R, Strip(e)).nextSeq <= mem.nextSeq + 1
  <1> DEFINE f == Strip(e)
             q == mem.nextSeq
  <1>1. /\ e \in Entry /\ e.seq = q /\ q \in Nat \ {0} /\ WellFormed(mem) /\ R \in Memory
        /\ R.nextSeq \in Nat /\ \A n \in InUse(R) : n < R.nextSeq /\ n \in Nat
    BY InUseEntries DEF LogTypes, WellFormed, Memory, Appending
  <1>2. /\ f \in Entry
        /\ ~Parses(e) => ~Parses(f)
        /\ e.type # "results" => f.type = e.type /\ f.seq = e.seq /\ f.covers = e.covers
    BY <1>1, StripIs
  <1>3. e.type = "results" => ~IsRead(f)
    BY DEF Strip, IsRead, Parses, Garbage, Blank
  <1> HIDE DEF f, q
  <1>4. CASE ~IsRead(f)
    <2>1. Replayed(R, f) = R
      BY <1>4 DEF Replayed, IsRead, Parses, Unnumbered
    <2>2. R.nextSeq <= q + 1
      BY <1>1 DEF q
    <2> QED
      BY <2>1, <2>2 DEF f, q
  <1>5. CASE IsRead(f)
    <2>1. f.type = e.type /\ f.seq = q /\ f.covers = e.covers
      BY <1>1, <1>2, <1>3, <1>5
    <2>2. NumberIn(R, f) = q
      BY <1>1, <2>1 DEF NumberIn
    <2>3. Adds(R, Replayed(R, f), f, q) /\ Replayed(R, f).nextSeq = Max({R.nextSeq, q}) + 1
      BY <1>1, <1>2, <1>5, <2>2, ReplayedAdds
    <2>4. \A n \in InUse(R) : n < q
      BY <1>1 DEF q
    <2>5. f.type = "summary" => \A c \in f.covers : c < q
      <3> SUFFICES ASSUME e.type = "summary" PROVE \A c \in e.covers : c < q
        BY <2>1
      <3>1. talk.landing # {} /\ e.covers = talk.landing
        BY DEF InPlace
      <3>2. PICK k \in 1..(Len(mem.nodes) - 1) : talk.landing = {mem.nodes[j] : j \in 1..k}
        BY <3>1 DEF InMemory, Landing
      <3>3. /\ Len(mem.nodes) \in Nat
            /\ \A j \in 1..Len(mem.nodes) : mem.nodes[j] \in InUse(mem)
            /\ \A n \in InUse(mem) : n < q
        BY <1>1, InUseEntries DEF q
      <3>4. \A j \in 1..k : j \in 1..Len(mem.nodes)
        BY <3>3
      <3> QED
        BY <3>1, <3>2, <3>3, <3>4
    <2>6. Numbered(Replayed(R, f))
      <3> DEFINE M == Replayed(R, f)
      <3>1. Adds(R, M, f, q) /\ q \in Nat
        BY <1>1, <2>3
      <3> HIDE DEF M
      <3>2. Numbered(M)
        BY ONLY WellFormed(R), Numbered(R), <1>2, <2>4, <2>5, <3>1, NumberedAfter
      <3> QED
        BY <3>2 DEF M
    <2>7. Max({R.nextSeq, q}) = q
      <3>1. R.nextSeq <= q
        BY DEF q
      <3> QED
        BY <1>1, <3>1, MaxOfTwo
    <2> QED
      BY <1>1, <2>3, <2>6, <2>7 DEF f, q
  <1> QED
    BY <1>4, <1>5

LEMMA AppendingStands ==
  ASSUME LogTypes, Replayable, Standing, NEW e, Appending(e), InPlace(e) PROVE Standing'
  <1> SUFFICES ASSUME past'.faults = 0 PROVE past'.sound /\ past'.since <= past'.made /\ OnFile' /\ InMemory'
    BY DEF Standing
  <1>1. past.faults = 0 /\ past'.sound = past.sound /\ disk' = Written(disk, e)
    BY AppendedPast
  <1>0. past.since <= past.made /\ past'.since <= past'.made
    <2>1. past.since <= past.made /\ past.since \in Nat /\ past.made \in Nat
      BY <1>1 DEF Standing, LogTypes, Past
    <2> QED
      BY <2>1, AppendedPast
  <1>2. Running /\ past.sound /\ OnFile /\ InMemory
    BY <1>1 DEF Standing, Appending, Running
  <1>3. InMemory'
    BY <1>0, <1>2, AppendingSettles
  <1>4. LogTypes' /\ Replayable'
    BY AppendingTypes, AppendingReplays
  <1>5. disk.end = "closed"
    BY <1>2 DEF Replayable
  <1>6. disk'.lines = Append(disk.lines, e)
    BY <1>1, <1>5 DEF Written, Extended
  <1>7. /\ e \in Entry /\ e.type # "transcript" /\ e.seq = mem.nextSeq /\ mem' = Remembered(mem, e)
        /\ disk \in Disk /\ disk' \in Disk /\ WellFormed(mem) /\ mem \in Memory
    BY <1>4 DEF Appending, AppendEntry, LogTypes, WellFormed
  <1> DEFINE R == RebuildSurface(disk)
  <1>8. /\ Foreign(disk') <=> Foreign(disk)
        /\ Foreign(disk) => RebuildSurface(disk') = Replayed(R, Strip(e))
    BY <1>6, <1>7, RebuiltAppend
  <1>9. CASE ~Foreign(disk)
    <2>1. Alike(mem', Replay(disk'.lines)) /\ RebuildSurface(disk') = Replay(disk'.lines)
          /\ WellFormed(RebuildSurface(disk'))
      <3>1. Running' /\ past'.sound /\ ~Foreign(disk')
        BY <1>1, <1>2, <1>8, <1>9 DEF Running, Appending
      <3> QED
        BY <1>4, <1>7, <3>1, RebuiltIsWellFormed DEF Replayable
    <2>2. Settled(mem') /\ WellFormed(mem')
      BY <1>3, <1>4 DEF InMemory, LogTypes
    <2>3. Settled(RebuildSurface(disk'))
      BY <2>1, <2>2, AlikeSettled
    <2> QED
      BY <1>0, <1>1, <1>2, <1>3, <1>8, <1>9, <2>3 DEF OnFile
  <1>10. CASE Foreign(disk)
    <2>1. WellFormed(R)
      BY <1>7, RebuiltIsWellFormed
    <2>2. Numbered(R) /\ R.nextSeq <= mem.nextSeq
      BY <1>2, <1>10 DEF OnFile, Settled
    <2> HIDE DEF R
    <2>3. Numbered(Replayed(R, Strip(e))) /\ Replayed(R, Strip(e)).nextSeq <= mem.nextSeq + 1
      BY <1>2, <2>1, <2>2, ForeignLine
    <2>4. mem'.nextSeq = mem.nextSeq + 1
      BY <1>7, RememberedAdds
    <2>5. Numbered(RebuildSurface(disk')) /\ RebuildSurface(disk').nextSeq <= mem'.nextSeq
      BY <1>8, <1>10, <2>3, <2>4
    <2>6. Settled(RebuildSurface(disk'))
      BY <1>7, <1>8, <1>10, <2>5, ForeignSettled
    <2> QED
      BY <1>0, <1>1, <1>2, <1>3, <2>5, <2>6 DEF OnFile
  <1> QED
    BY <1>9, <1>10

\* A usage written later changes nothing a session stands on.
LEMMA UsageStands ==
  ASSUME LogTypes, Replayable, UsageIsNear, Standing, SetEntryUsage PROVE Standing'
  <1> SUFFICES ASSUME past'.faults = 0 PROVE past'.sound /\ past'.since <= past'.made /\ OnFile' /\ InMemory'
    BY DEF Standing
  <1> DEFINE e == [mem.entries[talk.said] EXCEPT !.usage = TRUE]
  <1>1. /\ talk.said # 0 /\ talk.phase = "turn" /\ talk.landing = {} /\ mem' = Known(mem, e)
        /\ talk' = Silent /\ past' = past /\ skip' = skip
    BY DEF SetEntryUsage, Writing
  <1>2. past.sound /\ past.since <= past.made /\ OnFile /\ InMemory /\ Running
    BY <1>1 DEF Standing, Running
  <1>3. /\ mem'.nodes = mem.nodes /\ mem'.thinkingSeqs = mem.thinkingSeqs
        /\ mem'.nextSeq = mem.nextSeq
        /\ \A n \in InUse(mem) : Mute(mem'.entries[n]) = Mute(mem.entries[n])
    BY <1>1, UsageEntry
  <1> HIDE DEF e
  <1>4. WellFormed(mem) /\ WellFormed(mem') /\ disk \in Disk /\ skip \in Nat
    BY OtherSteps DEF LogTypes
  <1>5. Alike(mem, mem')
    BY <1>3, <1>4 DEF Alike, WellFormed, Memory
  <1>6. Settled(mem')
    BY <1>2, <1>4, <1>5, AlikeSettled DEF InMemory
  <1>7. \A n \in InUse(mem) : mem'.entries[n].type = mem.entries[n].type /\ mem'.entries[n].id = mem.entries[n].id
    <2> SUFFICES ASSUME NEW n \in InUse(mem)
                 PROVE  mem'.entries[n].type = mem.entries[n].type /\ mem'.entries[n].id = mem.entries[n].id
      OBVIOUS
    <2>1. InUse(mem') = InUse(mem)
      BY <1>3 DEF InUse
    <2>2. mem.entries[n] \in Entry /\ mem'.entries[n] \in Entry
      BY <1>4, <2>1, InUseEntries
    <2> QED
      BY <1>3, <2>2, MutedFields
  <1>8. Window'
    <2>1. /\ DOMAIN mem.nodes = 1..Len(mem.nodes) /\ Len(mem.nodes) \in Nat
          /\ \A i \in 1..Len(mem.nodes) : mem.nodes[i] \in InUse(mem)
      BY <1>4, InUseEntries
    <2>2. FoldedSince => FoldedSince'
      BY <1>1, <1>3, <1>7, <2>1 DEF FoldedSince
    <2>3. skip < Len(mem.nodes) => mem'.entries[mem.nodes[skip + 1]].type = mem.entries[mem.nodes[skip + 1]].type
      <3>1. skip < Len(mem.nodes) => skip + 1 \in 1..Len(mem.nodes)
        BY <1>4, <2>1
      <3> QED
        BY <1>7, <2>1, <3>1
    <2> QED
      BY <1>1, <1>2, <1>3, <2>2, <2>3 DEF InMemory, Window
  <1>9. InMemory'
    BY <1>1, <1>6, <1>8 DEF InMemory, Pending, Waiting, Landing, Silent
  <1>10. OnFile'
    <2>1. /\ disk' \in Disk /\ Len(disk'.lines) = Len(disk.lines)
          /\ \A i \in 1..Len(disk.lines) : Mute(disk'.lines[i]) = Mute(disk.lines[i])
      BY <1>2, UsageLines
    <2> DEFINE R == RebuildSurface(disk)
               S == RebuildSurface(disk')
    <2>2. (Foreign(disk') <=> Foreign(disk)) /\ Alike(R, S)
      BY <1>4, <2>1, RebuiltMuted
    <2>3. WellFormed(R) /\ WellFormed(S) /\ Settled(R) /\ (Foreign(disk) => R.nextSeq <= mem.nextSeq)
      BY <1>2, <1>4, <2>1, RebuiltIsWellFormed DEF OnFile
    <2> HIDE DEF R, S
    <2>4. Settled(S)
      BY <2>2, <2>3, AlikeSettled
    <2>5. R.nextSeq \in Nat /\ S.nextSeq \in Nat /\ mem.nextSeq \in Nat /\ S.nextSeq <= R.nextSeq
      BY <1>4, <2>2, <2>3 DEF WellFormed, Memory, Alike
    <2>6. Foreign(disk') => S.nextSeq <= mem'.nextSeq
      BY <1>3, <2>2, <2>3, <2>5
    <2> QED
      BY <2>4, <2>6 DEF OnFile, S
  <1> QED
    BY <1>1, <1>2, <1>9, <1>10

\* A memory with nothing in it is settled, and so is a silent turn in it.
LEMMA EmptyIsSettled == Settled(Empty) /\ Empty.nodes = <<>> /\ Empty.nextSeq = 1
  <1>1. Empty.nodes = <<>> /\ Empty.nextSeq = 1 /\ ToSet(<<>>) = {} /\ DOMAIN <<>> = {}
    BY DEF Empty, ToSet
  <1> QED
    BY <1>1 DEF Settled, Numbered, Answering, InTurns

LEMMA SilentStands ==
  ASSUME talk'.phase = "idle" \/ talk'.phase = "down", talk'.landing = {}, Settled(mem'), Window'
  PROVE  InMemory'
  BY DEF InMemory, Pending, Waiting, Landing

\* What a line cut short or cut off leaves of a session.
LEMMA RepairedSurface ==
  ASSUME NEW d \in Disk, WellEnded(d), d.exists, NEW x, x = RepairTornTail(d)
  PROVE  RebuildSurface(x) = RebuildSurface(d)
  <1>1. x \in Disk /\ d.lines \in Seq(Entry)
    BY RepairedType DEF Disk
  <1>2. CASE d.end # "half"
    <2>1. x.lines = d.lines
      BY <1>2 DEF RepairTornTail, Disk
    <2> QED
      BY <2>1 DEF RebuildSurface, Foreign
  <1>3. CASE d.end = "half"
    <2>1. d.lines # <<>> /\ ~Parses(Last(d.lines))
      BY <1>3 DEF WellEnded
    <2>2. x.lines = Front(d.lines)
      BY <1>3 DEF RepairTornTail, Disk
    <2> DEFINE u == d.lines
               a == Front(u)
               z == Last(u)
    <2>3. /\ Len(u) \in Nat \ {0} /\ DOMAIN u = 1..Len(u)
          /\ a \in Seq(Entry) /\ Len(a) = Len(u) - 1 /\ \A i \in 1..(Len(u) - 1) : a[i] = u[i]
      BY <1>1, <2>1, FrontOf
    <2>4. z = u[Len(u)] /\ z \in Entry /\ ~Parses(z) /\ u \in Seq(Entry)
      BY <1>1, <2>1, <2>3 DEF Last
    <2> HIDE DEF a, z, u
    <2>5. a \in Seq(Entry) /\ z \in Entry
      BY <2>3, <2>4
    <2>6. /\ Append(a, z) \in Seq(Entry) /\ Len(Append(a, z)) = Len(a) + 1
          /\ Append(a, z)[Len(a) + 1] = z /\ \A i \in 1..Len(a) : Append(a, z)[i] = a[i]
      BY ONLY <2>5, AppendTo
    <2>7. u = Append(a, z)
      <3>1. Len(Append(a, z)) = Len(u) /\ \A i \in 1..Len(u) : Append(a, z)[i] = u[i]
        BY <2>3, <2>4, <2>6
      <3> QED
        BY <2>4, <2>6, <3>1
    <2>8. z.type # "transcript"
      BY <2>4 DEF Parses
    <2>9. d.lines = Append(x.lines, z)
      BY <2>2, <2>7 DEF u, a
    <2> QED
      BY <1>1, <2>4, <2>8, <2>9, RebuiltAppend
  <1> QED
    BY <1>2, <1>3

LEMMA OthersStand ==
  ASSUME LogTypes, Replayable, Standing,
         \/ Fails \/ SetFreshWindow \/ CreatesSession \/ Resumes \/ Dies
         \/ UNCHANGED vars
  PROVE  Standing'
  <1> SUFFICES ASSUME past'.faults = 0
               PROVE  past'.sound /\ past'.since <= past'.made /\ OnFile' /\ (Running' => InMemory')
    BY DEF Standing
  <1>1. disk \in Disk /\ WellEnded(disk) /\ past \in Past /\ WellFormed(mem) /\ skip \in Nat
        /\ LogTypes'
    BY OtherSteps DEF LogTypes
  <1>2. Len(mem.nodes) \in Nat /\ past.faults \in Nat /\ past.made \in Nat
    BY <1>1, InUseEntries DEF Past
  <1>3. CASE Fails
    <2>1. talk' = Silent /\ disk' = disk /\ mem' = mem /\ past' = past /\ skip' = skip
          /\ talk.phase \in {"turn", "calls"}
      BY <1>3 DEF Fails
    <2>2. Running /\ Running'
      BY <2>1 DEF Running, Silent
    <2>3. past.sound /\ past.since <= past.made /\ OnFile /\ InMemory
      BY <2>1, <2>2 DEF Standing
    <2>4. OnFile' /\ Settled(mem')
      BY <2>1, <2>2, <2>3 DEF OnFile, InMemory
    <2>5. Window'
      BY <2>1, <2>3 DEF InMemory, Window, FoldedSince
    <2>6. InMemory'
      BY <2>1, <2>4, <2>5, SilentStands DEF Silent
    <2> QED
      BY <2>1, <2>3, <2>4, <2>6
  <1>4. CASE SetFreshWindow
    <2>1. /\ disk' = disk /\ mem' = mem /\ talk' = talk /\ skip' = Len(mem.nodes)
          /\ talk.phase = "idle" /\ talk.landing = {}
          /\ past' = [past EXCEPT !.fresh = @ + 1, !.since = past.made]
      BY <1>4 DEF SetFreshWindow, Writing
    <2>2. past'.sound = past.sound /\ past'.faults = past.faults /\ past'.since = past'.made
          /\ past'.made = past.made
      BY <1>1, <2>1 DEF Past
    <2>3. Running /\ Running'
      BY <2>1 DEF Running
    <2>4. past.sound /\ past.since <= past.made /\ OnFile /\ InMemory
      BY <2>2, <2>3 DEF Standing
    <2>5. OnFile' /\ Settled(mem')
      BY <2>1, <2>3, <2>4 DEF OnFile, InMemory
    <2>6. Window'
      BY <1>2, <2>1, <2>2 DEF Window
    <2>7. InMemory'
      BY <2>1, <2>5, <2>6, SilentStands
    <2> QED
      BY <1>2, <2>2, <2>4, <2>5, <2>7
  <1>5. CASE CreatesSession
    <2> DEFINE e == [Blank EXCEPT !.id = Next1, !.type = "transcript"]
    <2>1. WriteEntry(e) /\ talk' = Silent /\ mem' = Empty /\ disk = NoFile /\ skip' = 0
          /\ talk.phase = "down"
      BY <1>1, <1>5 DEF CreatesSession, WellEnded
    <2>2. e \in Entry /\ e.type = "transcript"
      BY <1>2, TranscriptEntry DEF Next1
    <2> HIDE DEF e
    <2>3. /\ disk' = Written(disk, e)
          /\ past'.faults = past.faults /\ past'.sound = past.sound
          /\ past'.since = past.since /\ past'.made = past.made + 1
      <3>1. CASE past' = [past EXCEPT !.made = Next1, !.faults = @ + 1, !.sound = FALSE]
        <4>1. past'.faults = past.faults + 1
          BY <1>1, <3>1 DEF Past
        <4> QED
          BY <1>2, <4>1
      <3>2. CASE /\ disk' = Written(disk, e)
                 /\ past' = [past EXCEPT !.made = Next1,
                                         !.kept = IF e.type = "meta" THEN @ ELSE @ \union {e.id}]
        BY <1>1, <3>2 DEF Past, Next1
      <3> QED
        BY <2>1, <3>1, <3>2 DEF WriteEntry
    <2>4. past.sound /\ past'.since <= past'.made
      <3>1. past.sound /\ past.since <= past.made /\ past.since \in Nat
        BY <1>1, <2>3 DEF Standing, Past
      <3> QED
        BY <1>2, <2>3, <3>1
    <2>5. disk'.lines = Append(<<>>, e) /\ disk' \in Disk
      BY <1>1, <2>1, <2>3 DEF Written, Extended, NoFile, LogTypes
    <2>6. ~Foreign(disk')
      <3>1. <<>> \in Seq(Entry) /\ Len(<<>>) = 0
        OBVIOUS
      <3>2. disk'.lines \in Seq(Entry) /\ Len(disk'.lines) = 1 /\ disk'.lines[1] = e
        BY <2>2, <2>5, <3>1, AppendTo
      <3> QED
        BY <2>2, <3>2 DEF Foreign
    <2>7. RebuildSurface(disk') = Empty
      <3>1. <<>> \in Seq(Entry)
        OBVIOUS
      <3>2. RebuildSurface(disk') = Replay(disk'.lines)
        BY <2>5, <2>6, RebuiltIsWellFormed
      <3>3. Replay(disk'.lines) = Replayed(Empty, e)
        BY <2>2, <2>5, <3>1, ReplayAppend, ReplayNothing
      <3>4. Replayed(Empty, e) = Empty
        BY <2>2 DEF Replayed, Unnumbered
      <3> QED
        BY <3>2, <3>3, <3>4
    <2>8. OnFile'
      BY <2>6, <2>7, EmptyIsSettled DEF OnFile
    <2>9. Window'
      BY <2>1 DEF Window
    <2>10. InMemory'
      BY <2>1, <2>9, EmptyIsSettled, SilentStands DEF Silent
    <2> QED
      BY <2>3, <2>4, <2>8, <2>10
  <1>6. CASE Resumes
    <2>1. talk' = Silent /\ mem' = RebuildSurface(disk') /\ disk.exists /\ skip' = 0
      BY <1>6 DEF Resumes
    <2>2. disk' = RepairTornTail(disk) /\ past' = [past EXCEPT !.born = past.made, !.sound = TRUE]
      <3>1. CASE past' = [past EXCEPT !.born = past.made, !.sound = FALSE, !.faults = @ + 1]
        <4>1. past'.faults = past.faults + 1
          BY <1>1, <3>1 DEF Past
        <4> QED
          BY <1>2, <4>1
      <3> QED
        BY <1>6, <3>1 DEF Resumes
    <2>3. past'.sound /\ past'.faults = past.faults /\ past'.made = past.made
          /\ past'.since = past.since
      BY <1>1, <2>2 DEF Past
    <2>4. RebuildSurface(disk') = RebuildSurface(disk)
      BY <1>1, <2>1, <2>2, RepairedSurface
    <2>5. Settled(RebuildSurface(disk))
      BY <2>3 DEF Standing, OnFile
    <2>6. OnFile'
      <3>1. mem'.nextSeq \in Nat
        BY <1>1 DEF LogTypes, WellFormed, Memory
      <3> QED
        BY <2>1, <2>4, <2>5, <3>1 DEF OnFile
    <2>7. Window' /\ past'.since <= past'.made
      BY <2>1, <2>3 DEF Standing, Window
    <2>8. InMemory'
      BY <2>1, <2>4, <2>5, <2>7, SilentStands DEF Silent
    <2> QED
      BY <2>3, <2>6, <2>7, <2>8
  <1>7. CASE Dies
    <2>1. talk' = Down /\ talk.phase # "down"
      BY <1>7 DEF Dies
    <2>2. ~Running' /\ Running
      BY <2>1 DEF Running, Down
    <2>3. past'.faults = past.faults /\ past'.sound = past.sound
          /\ past'.since = past.since /\ past'.made = past.made
      BY <1>1, <1>7 DEF Dies, Past
    <2>4. past.sound /\ past.since <= past.made /\ OnFile /\ disk.end = "closed"
      BY <2>2, <2>3 DEF Standing, Replayable
    <2>5. RebuildSurface(disk') = RebuildSurface(disk)
      <3>1. CASE disk' = disk
        BY <3>1
      <3>2. CASE disk' = Extended(disk, Garbage, "half")
        <4>1. disk'.lines = Append(disk.lines, Garbage)
          BY <2>4, <3>2 DEF Extended
        <4>2. Garbage \in Entry /\ ~Parses(Garbage) /\ Garbage.type # "transcript"
          BY BlankIsEntry DEF Parses, Garbage, Blank
        <4>3. disk' \in Disk
          BY <1>1 DEF LogTypes
        <4> QED
          BY <1>1, <4>1, <4>2, <4>3, RebuiltAppend
      <3>3. CASE disk' = [disk EXCEPT !.end = "whole"]
        <4>1. disk'.lines = disk.lines
          BY <1>1, <3>3 DEF Disk
        <4> QED
          BY <4>1 DEF RebuildSurface, Foreign
      <3> QED
        BY <1>7, <3>1, <3>2, <3>3 DEF Dies
    <2>6. OnFile'
      BY <2>2, <2>4, <2>5 DEF OnFile
    <2> QED
      BY <2>2, <2>3, <2>4, <2>6
  <1>8. CASE UNCHANGED vars
    <2>1. UNCHANGED <<disk, mem, talk, skip, past>>
      BY <1>8 DEF vars
    <2> QED
      BY <2>1 DEF Standing, OnFile, InMemory, Pending, Waiting, Landing, Window, FoldedSince, Running
  <1> QED
    BY <1>3, <1>4, <1>5, <1>6, <1>7, <1>8

LEMMA StandingInit == ASSUME Init PROVE Standing
  <1>1. Settled(RebuildSurface(disk)) /\ ~Running
    BY OldSurfacesAssumption DEF Init, Running, Down
  <1> QED
    BY <1>1 DEF Init, NoPast, Standing, OnFile

LEMMA StandingStep ==
  ASSUME LogTypes, Replayable, UsageIsNear, Standing, [Next]_vars PROVE Standing'
  BY AppendingSteps, AppendingStands, UsageStands, OthersStand DEF Next

Sure == LogTypes /\ Replayable /\ Standing

LEMMA SpecStands == Spec /\ []UsageIsNear => []Sure
<1>1. Init => Sure
  BY LogTypesInit, StandingInit, DownIsTalk DEF Init, Sure, Replayable, Running
<1>2. Sure /\ UsageIsNear /\ [Next]_vars => Sure'
  BY LogTypesStep, ReplayableStep, StandingStep DEF Sure
<1> QED
  BY <1>1, <1>2, PTL DEF Spec

\* As long as no append was lost, a request answers no call that it does not
\* show right before the answer: no cut of a compaction, no window and no
\* resume parts a batch from its results.
THEOREM AnswersFollowTheirCalls == Spec /\ []UsageIsNear => []NoAnswerWithoutCall
<1>1. Sure => NoAnswerWithoutCall
  BY StandingAnswers DEF Sure
<1> QED
  BY <1>1, SpecStands, PTL

\* As long as no append was lost, a message with calls is sent with thinking
\* of its own turn and no other.
THEOREM ThinkingKeepsToItsTurn == Spec /\ []UsageIsNear => []ThinkingStaysInItsTurn
<1>1. Sure => ThinkingStaysInItsTurn
  BY StandingThinks DEF Sure
<1> QED
  BY <1>1, SpecStands, PTL
=============================================================================
